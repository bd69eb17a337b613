----------------------------- MODULE SeqHelpers -----------------------------
(* Filters and sums of arrays, as the helpers of the frontend use them.      *)
(* They are recursive functions, so that they can be reasoned about.         *)
EXTENDS Integers, Sequences, FiniteSets, SequencesExt, FiniteSetsExt, Functions

\* The elements of a sequence at some of its places, in order (SelectSeq, whose
\* elements are named by their places).
Kept(s, at) ==
    LET kept[n \in 0..Len(s)] ==
            IF n = 0 THEN <<>>
            ELSE IF n \in at THEN Append(kept[n - 1], s[n]) ELSE kept[n - 1]
    IN  kept[Len(s)]

\* reduce((t, n) => t + n, start).
TotalFrom(start, a) ==
    LET sum[n \in 0..Len(a)] == IF n = 0 THEN start ELSE sum[n - 1] + a[n] IN sum[Len(a)]

SumSeq(s, of(_)) == TotalFrom(0, [i \in DOMAIN s |-> of(s[i])])

Amounts(s) == [i \in DOMAIN s |-> s[i].amount]
=============================================================================
