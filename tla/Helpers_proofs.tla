--------------------------- MODULE Helpers_proofs ---------------------------
(* Proofs about the pure functions of the frontend: what they compute for    *)
(* every input of the types the program gives them.                          *)
EXTENDS Helpers, FiniteSetTheorems, TLAPS

-----------------------------------------------------------------------------
(* Induction, over a set of numbers                                          *)

(* What holds of 0 and passes from each number to the next holds of all.     *)
LEMMA Induction ==
    ASSUME NEW T, 0 \in T, \A n \in Nat : n \in T => n + 1 \in T
    PROVE  Nat \subseteq T
<1> DEFINE R == OpToRel(<, Nat)
           bad == Nat \ T
<1>1. IsWellFoundedOn(R, Nat)
  BY NatLessThanWellFounded
<1>2. \A x, y \in Nat : x < y => <<x, y>> \in R
  BY DEF OpToRel
<1> HIDE DEF R
<1>3. SUFFICES ASSUME bad # {} PROVE FALSE
  OBVIOUS
<1>4. PICK x \in bad : \A y \in bad : ~(<<y, x>> \in R)
  BY <1>1, <1>3, WFMin
<1>5. x \in Nat /\ x # 0 /\ x - 1 \in Nat /\ x - 1 < x
  BY <1>4
<1>6. x - 1 \in T
  BY <1>2, <1>4, <1>5
<1>7. x \in T
  BY <1>5, <1>6
<1>8. QED BY <1>4, <1>7

(* The same up to a bound.                                                   *)
LEMMA InductionUpTo ==
    ASSUME NEW m \in Nat, NEW T, 0 \in T, \A n \in 0..m : n \in T /\ n < m => n + 1 \in T
    PROVE  0..m \subseteq T
<1> DEFINE U == {n \in Nat : n <= m => n \in T}
<1>1. 0 \in U
  OBVIOUS
<1>2. \A n \in Nat : n \in U => n + 1 \in U
  OBVIOUS
<1>3. Nat \subseteq U
  BY <1>1, <1>2, Induction
<1>4. QED BY <1>3

-----------------------------------------------------------------------------
(* Sums                                                                      *)

(* The running totals of a sum.                                              *)
Totals(f, start, a, m) == f = [n \in 0..m |-> IF n = 0 THEN start ELSE f[n - 1] + a[n]]

(* They exist.                                                               *)
LEMMA TotalsExist ==
    ASSUME NEW start, NEW a, NEW m \in Nat
    PROVE  \E f : Totals(f, start, a, m)
<1> DEFINE T == {k \in Nat : \E f : Totals(f, start, a, k)}
<1>1. 0 \in T
  <2> DEFINE g == [n \in 0..0 |-> start]
  <2>1. Totals(g, start, a, 0)
    BY DEF Totals
  <2> HIDE DEF g
  <2>2. QED BY <2>1
<1>2. ASSUME NEW k \in Nat, k \in T PROVE k + 1 \in T
  <2>1. PICK f : Totals(f, start, a, k)
    BY <1>2
  <2> DEFINE g == [n \in 0..(k + 1) |-> IF n = k + 1 THEN f[k] + a[n] ELSE f[n]]
  <2>2. \A n \in 0..k : g[n] = f[n]
    OBVIOUS
  <2>3. \A n \in 0..(k + 1) : g[n] = IF n = 0 THEN start ELSE g[n - 1] + a[n]
    <3>1. TAKE n \in 0..(k + 1)
    <3>2. CASE n = k + 1
      BY <2>2, <3>2
    <3>3. CASE n \in 1..k
      <4>1. f[n] = f[n - 1] + a[n]
        BY <2>1, <3>3 DEF Totals
      <4>2. g[n] = f[n] /\ g[n - 1] = f[n - 1]
        BY <2>2, <3>3
      <4>3. QED BY <3>3, <4>1, <4>2
    <3>4. CASE n = 0
      BY <2>1, <2>2, <3>4 DEF Totals
    <3>5. QED BY <3>2, <3>3, <3>4
  <2>4. Totals(g, start, a, k + 1)
    BY <2>3 DEF Totals
  <2> HIDE DEF g
  <2>5. QED BY <2>4
<1>3. Nat \subseteq T
  <2> HIDE DEF T
  <2>1. QED BY <1>1, <1>2, Induction
<1>4. QED BY <1>3

(* A sum is the last of its running totals.                                  *)
IsTotal(f, start, a) ==
    /\ TotalFrom(start, a) = f[Len(a)]
    /\ f[0] = start
    /\ \A n \in 1..Len(a) : f[n] = f[n - 1] + a[n]

LEMMA TotalUnfolds ==
    ASSUME NEW start, NEW a, Len(a) \in Nat
    PROVE  \E f : IsTotal(f, start, a)
<1> DEFINE f == CHOOSE g : Totals(g, start, a, Len(a))
<1>1. Totals(f, start, a, Len(a))
  BY TotalsExist
<1>2. TotalFrom(start, a) = f[Len(a)]
  BY DEF TotalFrom, Totals
<1> HIDE DEF f
<1>3. f[0] = start /\ \A n \in 1..Len(a) : f[n] = f[n - 1] + a[n]
  BY <1>1 DEF Totals
<1>4. QED BY <1>2, <1>3 DEF IsTotal

(* A sum of integers is an integer.                                          *)
LEMMA TotalType ==
    ASSUME NEW start \in Int, NEW a \in Seq(Int)
    PROVE  TotalFrom(start, a) \in Int
<1>0. Len(a) \in Nat
  OBVIOUS
<1>1. PICK f : IsTotal(f, start, a)
  BY <1>0, TotalUnfolds
<1> DEFINE T == {n \in 0..Len(a) : f[n] \in Int}
<1>2. 0 \in T
  BY <1>1 DEF IsTotal
<1>3. ASSUME NEW n \in 0..Len(a), n \in T, n < Len(a) PROVE n + 1 \in T
  <2>1. f[n + 1] = f[n] + a[n + 1] /\ a[n + 1] \in Int
    BY <1>1, <1>3 DEF IsTotal
  <2>2. QED BY <1>3, <2>1
<1> HIDE DEF T
<1>4. 0..Len(a) \subseteq T
  BY <1>2, <1>3, <1>0, InductionUpTo
<1>5. Len(a) \in T
  BY <1>4
<1>6. QED BY <1>1, <1>5 DEF IsTotal, T

(* Where a sum starts only shifts it.                                        *)
LEMMA TotalShift ==
    ASSUME NEW start \in Int, NEW a \in Seq(Int)
    PROVE  TotalFrom(start, a) = start + TotalFrom(0, a)
<1>0. Len(a) \in Nat
  OBVIOUS
<1>1. PICK f : IsTotal(f, start, a)
  BY <1>0, TotalUnfolds
<1>2. PICK g : IsTotal(g, 0, a)
  BY <1>0, TotalUnfolds
<1> DEFINE T == {n \in 0..Len(a) : g[n] \in Int /\ f[n] = start + g[n]}
<1>3. 0 \in T
  BY <1>1, <1>2 DEF IsTotal
<1>4. ASSUME NEW n \in 0..Len(a), n \in T, n < Len(a) PROVE n + 1 \in T
  <2>1. n + 1 \in 1..Len(a) /\ a[n + 1] \in Int
    BY <1>4
  <2>2. f[n + 1] = f[n] + a[n + 1] /\ g[n + 1] = g[n] + a[n + 1]
    BY <1>1, <1>2, <2>1 DEF IsTotal
  <2>3. QED BY <1>4, <2>1, <2>2
<1> HIDE DEF T
<1>5. 0..Len(a) \subseteq T
  BY <1>3, <1>4, <1>0, InductionUpTo
<1>6. Len(a) \in T
  BY <1>5
<1>7. QED BY <1>1, <1>2, <1>6 DEF IsTotal, T

(* A sum runs through a concatenation part by part.                          *)
LEMMA TotalConcat ==
    ASSUME NEW start \in Int, NEW a \in Seq(Int), NEW b \in Seq(Int)
    PROVE  TotalFrom(start, a \o b) = TotalFrom(TotalFrom(start, a), b)
<1>0. Len(a) \in Nat /\ Len(b) \in Nat
  OBVIOUS
<1> DEFINE c == a \o b
           half == TotalFrom(start, a)
<1>1. /\ c \in Seq(Int) /\ Len(c) = Len(a) + Len(b) /\ Len(c) \in Nat
      /\ \A n \in 1..Len(a) : c[n] = a[n]
      /\ \A n \in 1..Len(b) : c[Len(a) + n] = b[n]
  OBVIOUS
<1> HIDE DEF c, half
<1>c. Len(c) \in Nat
  BY <1>1
<1>2. PICK h : IsTotal(h, start, c)
  BY <1>c, TotalUnfolds
<1>3. PICK f : IsTotal(f, start, a)
  BY <1>0, TotalUnfolds
<1>4. PICK g : IsTotal(g, half, b)
  BY <1>0, TotalUnfolds
<1>5. h[Len(a)] = f[Len(a)]
  <2> DEFINE T == {n \in 0..Len(a) : h[n] = f[n]}
  <2>1. 0 \in T
    BY <1>2, <1>3 DEF IsTotal
  <2>2. ASSUME NEW n \in 0..Len(a), n \in T, n < Len(a) PROVE n + 1 \in T
    <3>0. n \in Nat /\ n + 1 \in 1..Len(a) /\ Len(a) <= Len(c)
      BY <1>0, <1>1, <2>2
    <3>1. n + 1 \in 1..Len(a) /\ n + 1 \in 1..Len(c) /\ c[n + 1] = a[n + 1]
      <4>1. c[n + 1] = a[n + 1]
        BY <1>1, <3>0
      <4>2. QED BY <1>0, <1>c, <3>0, <4>1
    <3>2. h[n + 1] = h[n] + c[n + 1] /\ f[n + 1] = f[n] + a[n + 1]
      BY <1>2, <1>3, <3>1 DEF IsTotal
    <3>3. QED BY <2>2, <3>1, <3>2
  <2> HIDE DEF T
  <2>3. 0..Len(a) \subseteq T
    BY <2>1, <2>2, <1>0, InductionUpTo
  <2>4. Len(a) \in T
    BY <2>3
  <2>5. QED BY <2>4 DEF T
<1>6. h[Len(a) + Len(b)] = g[Len(b)]
  <2> DEFINE T == {n \in 0..Len(b) : h[Len(a) + n] = g[n]}
  <2>1. 0 \in T
    BY <1>3, <1>4, <1>5 DEF IsTotal, half
  <2>2. ASSUME NEW n \in 0..Len(b), n \in T, n < Len(b) PROVE n + 1 \in T
    <3>a. n \in Nat /\ n + 1 \in 1..Len(b)
      BY <1>0, <2>2
    <3>b. c[Len(a) + (n + 1)] = b[n + 1]
      BY <1>1, <3>a
    <3>c. Len(a) + (n + 1) \in 1..Len(c) /\ (Len(a) + (n + 1)) - 1 = Len(a) + n
      BY <1>0, <1>1, <3>a
    <3>1. /\ n + 1 \in 1..Len(b) /\ Len(a) + (n + 1) \in 1..Len(c)
          /\ c[Len(a) + (n + 1)] = b[n + 1] /\ (Len(a) + (n + 1)) - 1 = Len(a) + n
      BY <3>a, <3>b, <3>c
    <3>2. h[Len(a) + (n + 1)] = h[Len(a) + n] + c[Len(a) + (n + 1)] /\ g[n + 1] = g[n] + b[n + 1]
      BY <1>2, <1>4, <3>1 DEF IsTotal
    <3>3. QED BY <2>2, <3>1, <3>2
  <2> HIDE DEF T
  <2>3. 0..Len(b) \subseteq T
    BY <2>1, <2>2, <1>0, InductionUpTo
  <2>4. Len(b) \in T
    BY <2>3
  <2>5. QED BY <2>4 DEF T
<1>7. QED BY <1>1, <1>2, <1>4, <1>6 DEF IsTotal, c, half

(* The sum of equal parts, the first of which takes a remainder.             *)
LEMMA TotalOfParts ==
    ASSUME NEW q \in Int, NEW m \in Int, NEW a, Len(a) \in Nat, Len(a) > 0,
           \A i \in 1..Len(a) : a[i] = q + (IF i = 1 THEN m ELSE 0)
    PROVE  TotalFrom(0, a) = q * Len(a) + m
<1>1. PICK f : IsTotal(f, 0, a)
  BY TotalUnfolds
<1> DEFINE T == {n \in 0..Len(a) : f[n] = q * n + (IF n = 0 THEN 0 ELSE m)}
<1>2. 0 \in T
  BY <1>1 DEF IsTotal
<1>3. ASSUME NEW n \in 0..Len(a), n \in T, n < Len(a) PROVE n + 1 \in T
  <2>1. n + 1 \in 1..Len(a) /\ q * (n + 1) = q * n + q /\ q * n \in Int
    BY <1>3
  <2>2. f[n + 1] = f[n] + a[n + 1]
    BY <1>1, <2>1 DEF IsTotal
  <2>3. a[n + 1] = q + (IF n = 0 THEN m ELSE 0)
    BY <2>1
  <2>4. f[n] = q * n + (IF n = 0 THEN 0 ELSE m)
    BY <1>3
  <2>5. f[n + 1] = q * (n + 1) + m
    BY <2>1, <2>2, <2>3, <2>4
  <2>6. QED BY <1>3, <2>1, <2>5
<1> HIDE DEF T
<1>4. 0..Len(a) \subseteq T
  BY <1>2, <1>3, InductionUpTo
<1>5. Len(a) \in T
  BY <1>4
<1>6. f[Len(a)] = q * Len(a) + m
  BY <1>5 DEF T
<1>7. TotalFrom(0, a) = f[Len(a)]
  BY <1>1 DEF IsTotal
<1>8. QED BY <1>6, <1>7

-----------------------------------------------------------------------------
(* Some places of a sequence                                                 *)

(* What is kept of the first n elements.                                     *)
KeptUpTo(f, s, at, m) ==
    f = [n \in 0..m |-> IF n = 0 THEN <<>>
                        ELSE IF n \in at THEN Append(f[n - 1], s[n]) ELSE f[n - 1]]

(* It exists.                                                                *)
LEMMA KeptExists ==
    ASSUME NEW s, NEW at, NEW m \in Nat
    PROVE  \E f : KeptUpTo(f, s, at, m)
<1> DEFINE T == {k \in Nat : \E f : KeptUpTo(f, s, at, k)}
<1>1. 0 \in T
  <2> DEFINE g == [n \in 0..0 |-> <<>>]
  <2>1. KeptUpTo(g, s, at, 0)
    BY DEF KeptUpTo
  <2> HIDE DEF g
  <2>2. QED BY <2>1
<1>2. ASSUME NEW k \in Nat, k \in T PROVE k + 1 \in T
  <2>1. PICK f : KeptUpTo(f, s, at, k)
    BY <1>2
  <2> DEFINE next(n) == IF n \in at THEN Append(f[n - 1], s[n]) ELSE f[n - 1]
             g == [n \in 0..(k + 1) |-> IF n = k + 1 THEN next(n) ELSE f[n]]
  <2>0. \A n \in 0..k : f[n] = IF n = 0 THEN <<>> ELSE next(n)
    BY <2>1 DEF KeptUpTo
  <2>2. \A n \in 0..k : g[n] = f[n]
    OBVIOUS
  <2>3. \A n \in 0..(k + 1) :
           g[n] = IF n = 0 THEN <<>> ELSE IF n \in at THEN Append(g[n - 1], s[n]) ELSE g[n - 1]
    <3>1. TAKE n \in 0..(k + 1)
    <3>2. CASE n = k + 1
      BY <2>2, <3>2
    <3>3. CASE n \in 1..k
      <4>1. f[n] = next(n)
        BY <2>0, <3>3
      <4>2. g[n] = f[n] /\ g[n - 1] = f[n - 1]
        BY <2>2, <3>3
      <4>3. QED BY <3>3, <4>1, <4>2
    <3>4. CASE n = 0
      BY <2>1, <2>2, <3>4 DEF KeptUpTo
    <3>5. QED BY <3>2, <3>3, <3>4
  <2>4. KeptUpTo(g, s, at, k + 1)
    BY <2>3 DEF KeptUpTo
  <2> HIDE DEF g
  <2>5. QED BY <2>4
<1>3. Nat \subseteq T
  <2> HIDE DEF T
  <2>1. QED BY <1>1, <1>2, Induction
<1>4. QED BY <1>3

(* k lists the elements of s at the places of P, p their places.             *)
Lists(k, p, s, P, S) ==
    /\ k \in Seq(S)
    /\ p \in [1..Len(k) -> P]
    /\ \A i \in 1..Len(k) : k[i] = s[p[i]]
    /\ \A i, j \in 1..Len(k) : i < j => p[i] < p[j]
    /\ \A n \in P : \E i \in 1..Len(k) : p[i] = n

(* What is kept: the elements at those places, in their order.               *)
LEMMA KeptLists ==
    ASSUME NEW S, NEW s \in Seq(S), NEW at
    PROVE  \E p : Lists(Kept(s, at), p, s, at \cap (1..Len(s)), S)
<1> DEFINE f == CHOOSE g : KeptUpTo(g, s, at, Len(s))
<1>0. Len(s) \in Nat
  OBVIOUS
<1>1. KeptUpTo(f, s, at, Len(s))
  BY <1>0, KeptExists
<1>2. Kept(s, at) = f[Len(s)]
  BY DEF Kept, KeptUpTo
<1> HIDE DEF f
<1>3. /\ f[0] = <<>>
      /\ \A n \in 1..Len(s) : f[n] = IF n \in at THEN Append(f[n - 1], s[n]) ELSE f[n - 1]
  <2>1. \A n \in 0..Len(s) : f[n] = IF n = 0 THEN <<>>
                                   ELSE IF n \in at THEN Append(f[n - 1], s[n]) ELSE f[n - 1]
    BY <1>1 DEF KeptUpTo
  <2>2. QED BY <1>0, <2>1
<1> DEFINE T == {n \in 0..Len(s) : \E p : Lists(f[n], p, s, at \cap (1..n), S)}
<1>4. 0 \in T
  <2> DEFINE p == [i \in 1..0 |-> 0]
  <2>1. at \cap (1..0) = {} /\ Len(f[0]) = 0
    BY <1>3
  <2>2. Lists(f[0], p, s, at \cap (1..0), S)
    BY <1>3, <2>1 DEF Lists
  <2> HIDE DEF p
  <2>3. QED BY <1>0, <2>2
<1>5. ASSUME NEW n \in 0..Len(s), n \in T, n < Len(s) PROVE n + 1 \in T
  <2>1. PICK p : Lists(f[n], p, s, at \cap (1..n), S)
    BY <1>5
  <2>2. n + 1 \in 1..Len(s) /\ s[n + 1] \in S /\ (n + 1) - 1 = n
    BY <1>5
  <2>3. CASE n + 1 \notin at
    <3>1. f[n + 1] = f[n]
      BY <1>3, <2>2, <2>3
    <3>2. at \cap (1..(n + 1)) = at \cap (1..n)
      BY <2>2, <2>3
    <3>3. Lists(f[n + 1], p, s, at \cap (1..(n + 1)), S)
      BY <2>1, <3>1, <3>2
    <3>4. QED BY <2>2, <3>3
  <2>4. CASE n + 1 \in at
    <3> DEFINE k == f[n]
               m == Len(k)
               q == [i \in 1..(m + 1) |-> IF i = m + 1 THEN n + 1 ELSE p[i]]
               P == at \cap (1..n)
               Q == at \cap (1..(n + 1))
    <3>1. f[n + 1] = Append(k, s[n + 1])
      BY <1>3, <2>2, <2>4
    <3>2. /\ k \in Seq(S) /\ m \in Nat /\ p \in [1..m -> P]
          /\ \A i \in 1..m : k[i] = s[p[i]]
          /\ \A i, j \in 1..m : i < j => p[i] < p[j]
          /\ \A x \in P : \E i \in 1..m : p[i] = x
      BY <2>1 DEF Lists
    <3>3. Q = P \cup {n + 1} /\ \A x \in P : x \in Nat /\ x < n + 1
      BY <2>2, <2>4
    <3> HIDE DEF P, Q, k
    <3> DEFINE l == Append(k, s[n + 1])
    <3>4. l \in Seq(S) /\ Len(l) = m + 1 /\ (\A i \in 1..m : l[i] = k[i]) /\ l[m + 1] = s[n + 1]
      BY <2>2, <3>2
    <3> HIDE DEF l, m
    <3>5. q \in [1..(m + 1) -> Q]
      BY <3>2, <3>3
    <3>6. \A i \in 1..(m + 1) : l[i] = s[q[i]]
      BY <3>2, <3>4
    <3>7. \A i, j \in 1..(m + 1) : i < j => q[i] < q[j]
      <4>1. TAKE i, j \in 1..(m + 1)
      <4>2. HAVE i < j
      <4>3. CASE j = m + 1
        <5>1. i \in 1..m /\ p[i] \in P /\ q[i] = p[i] /\ q[j] = n + 1
          BY <3>2, <4>2, <4>3
        <5>2. QED BY <3>3, <5>1
      <4>4. CASE j \in 1..m
        BY <3>2, <4>2, <4>4
      <4>5. QED BY <3>2, <4>3, <4>4
    <3>8. \A x \in Q : \E i \in 1..(m + 1) : q[i] = x
      <4>1. TAKE x \in Q
      <4>2. CASE x = n + 1
        <5>1. m + 1 \in 1..(m + 1) /\ q[m + 1] = x
          BY <3>2, <4>2
        <5>2. QED BY <5>1
      <4>3. CASE x \in P
        <5>1. PICK i \in 1..m : p[i] = x
          BY <3>2, <4>3
        <5>2. i \in 1..(m + 1) /\ q[i] = x
          BY <3>2, <5>1
        <5>3. QED BY <5>2
      <4>4. QED BY <3>3, <4>2, <4>3
    <3> HIDE DEF q
    <3>9. Lists(l, q, s, Q, S)
      BY <3>4, <3>5, <3>6, <3>7, <3>8 DEF Lists
    <3>10. Lists(f[n + 1], q, s, at \cap (1..(n + 1)), S)
      BY <3>1, <3>9 DEF l, Q
    <3>11. QED BY <2>2, <3>10
  <2>5. QED BY <2>3, <2>4
<1> HIDE DEF T
<1>6. 0..Len(s) \subseteq T
  BY <1>0, <1>4, <1>5, InductionUpTo
<1>7. Len(s) \in T
  BY <1>0, <1>6
<1>8. QED BY <1>2, <1>7 DEF T

(* What is kept is a sequence of such elements.                              *)
LEMMA KeptType ==
    ASSUME NEW S, NEW s \in Seq(S), NEW at
    PROVE  Kept(s, at) \in Seq(S)
BY KeptLists DEF Lists

(* The smaller of two numbers.                                               *)
LEMMA MinOfTwo ==
    ASSUME NEW a \in Int, NEW b \in Int
    PROVE  Min({a, b}) = IF a <= b THEN a ELSE b
<1> DEFINE m == IF a <= b THEN a ELSE b
<1>1. m \in {a, b} /\ \A y \in {a, b} : m <= y
  OBVIOUS
<1>2. \A x \in {a, b} : (\A y \in {a, b} : x <= y) => x = m
  OBVIOUS
<1>3. QED BY <1>1, <1>2 DEF Min

-----------------------------------------------------------------------------
(* Automatic staking                                                         *)

(* The eligible validators are some of the list.                             *)
LEMMA EligibleType ==
    ASSUME NEW S, NEW vs \in Seq(S)
    PROVE  EligibleValidators(vs) \in Seq(S)
<1> DEFINE active == Kept(vs, {i \in DOMAIN vs : IsHealthy(vs[i])})
           withinCap == Kept(active, {i \in DOMAIN active : active[i].rate <= MaxCommission})
<1>1. active \in Seq(S)
  BY KeptType
<1>2. withinCap \in Seq(S)
  <2> HIDE DEF active
  <2>1. QED BY <1>1, KeptType
<1>3. EligibleValidators(vs) = active \/ EligibleValidators(vs) = withinCap
  BY DEF EligibleValidators
<1>4. QED BY <1>1, <1>2, <1>3

(* The best of them are at most TopN.                                        *)
LEMMA TopDomain ==
    ASSUME NEW S, NEW vs \in Seq(S)
    PROVE  LET top == SelectTopValidators(ScoreValidators(vs), TopN)
           IN  /\ Len(top) \in 0..TopN /\ DOMAIN top = 1..Len(top)
               /\ Len(top) = 0 <=> top = <<>>
<1> DEFINE e == EligibleValidators(vs)
           ranked == ScoreValidators(vs)
           n == Len(e)
           m == IF TopN <= n THEN TopN ELSE n
           top == SubSeq(ranked, 1, m)
<1>1. n \in Nat /\ DOMAIN e = 1..n
  BY EligibleType
<1>2. DOMAIN ranked = 1..n /\ ranked = [i \in 1..n |-> ranked[i]]
  BY <1>1 DEF ScoreValidators
<1> HIDE DEF e, ranked
<1>3. Len(ranked) = n
  BY <1>1, <1>2
<1> HIDE DEF n
<1>4. SelectTopValidators(ranked, TopN) = top
  BY <1>1, <1>3, MinOfTwo DEF SelectTopValidators, TopN
<1>5. m \in 0..TopN /\ m <= n
  BY <1>1 DEF TopN
<1>6. DOMAIN top = 1..m /\ Len(top) = m
  <2> HIDE DEF m
  <2>1. QED BY <1>1, <1>2, <1>5 DEF TopN
<1>7. m = 0 <=> top = <<>>
  <2>1. top \in Seq({ranked[i] : i \in 1..n})
    BY <1>1, <1>2, <1>5 DEF TopN
  <2> HIDE DEF top
  <2>2. QED BY <1>5, <1>6, <2>1
<1>8. QED BY <1>4, <1>5, <1>6, <1>7 DEF ranked

(* The parts of an amount add up to it and are all but even.                 *)
LEMMA SplitAddsUp ==
    ASSUME NEW total \in Int, NEW vs, Len(vs) \in Nat, DOMAIN vs = 1..Len(vs), Len(vs) > 0
    PROVE  LET parts == SplitDelegation(total, vs)
           IN  /\ DOMAIN parts = DOMAIN vs /\ Len(parts) = Len(vs)
               /\ \A i \in DOMAIN vs : parts[i].val = vs[i].addr
               /\ SumSeq(parts, LAMBDA x : x.amount) = total
               /\ \A i, j \in DOMAIN parts : parts[i].amount - parts[j].amount < Len(parts)
<1> DEFINE n == Len(vs)
           q == total \div n
           m == total % n
           parts == SplitDelegation(total, vs)
           a == [i \in DOMAIN parts |-> parts[i].amount]
<1>1. /\ q \in Int /\ m \in 0..(n - 1) /\ q * n + m = total
  OBVIOUS
<1>2. /\ DOMAIN parts = 1..n
      /\ \A i \in 1..n : parts[i] = [val |-> vs[i].addr, amount |-> q + (IF i = 1 THEN m ELSE 0)]
  BY DEF SplitDelegation
<1> HIDE DEF parts, q, m
<1>3. \A i \in 1..n : parts[i].val = vs[i].addr /\ parts[i].amount = q + (IF i = 1 THEN m ELSE 0)
  BY <1>2
<1>4. DOMAIN a = 1..n /\ \A i \in 1..n : a[i] = q + (IF i = 1 THEN m ELSE 0)
  BY <1>2, <1>3
<1> HIDE DEF a
<1>5. Len(parts) = n /\ Len(a) = n
  BY <1>2, <1>4
<1> HIDE DEF n
<1>6. n \in Nat /\ n > 0
  BY DEF n
<1>7. TotalFrom(0, a) = q * n + m
  <2>1. \A i \in 1..Len(a) : a[i] = q + (IF i = 1 THEN m ELSE 0)
    BY <1>4, <1>5
  <2>2. q \in Int /\ m \in Int /\ Len(a) \in Nat /\ Len(a) > 0
    BY <1>1, <1>5, <1>6
  <2>3. TotalFrom(0, a) = q * Len(a) + m
    BY <2>1, <2>2, TotalOfParts
  <2>4. QED BY <1>5, <2>3
<1>8. SumSeq(parts, LAMBDA x : x.amount) = total
  BY <1>1, <1>7 DEF SumSeq, a
<1>9. \A i, j \in 1..n : parts[i].amount - parts[j].amount < n
  BY <1>1, <1>3, <1>6
<1>10. QED BY <1>2, <1>3, <1>5, <1>8, <1>9 DEF n, parts

-----------------------------------------------------------------------------
(* Sizes, largest elements, and sorting                                      *)

(* A set with one element more is larger.                                    *)
LEMMA Smaller ==
    ASSUME NEW A, NEW x, NEW B, IsFiniteSet(B), A \cup {x} \subseteq B, x \notin A
    PROVE  Cardinality(A) \in Nat /\ Cardinality(B) \in Nat /\ Cardinality(A) < Cardinality(B)
<1>1. IsFiniteSet(A) /\ IsFiniteSet(A \cup {x}) /\ Cardinality(A \cup {x}) <= Cardinality(B)
  BY FS_Subset
<1>2. Cardinality(A \cup {x}) = Cardinality(A) + 1
  BY <1>1, FS_AddElement
<1>3. Cardinality(A) \in Nat /\ Cardinality(B) \in Nat
  BY <1>1, FS_CardinalityType
<1>4. QED BY <1>1, <1>2, <1>3

(* A finite set of integers has a largest and a smallest element.            *)
LEMMA Extremes ==
    ASSUME NEW S, IsFiniteSet(S), S \subseteq Int, S # {}
    PROVE  Max(S) \in S /\ Min(S) \in S /\ \A x \in S : Min(S) <= x /\ x <= Max(S)
<1> DEFINE HasBoth(U) == /\ \E x \in U : \A y \in U : x >= y
                         /\ \E x \in U : \A y \in U : x <= y
           T == {k \in Nat : \A U \in SUBSET S : U # {} /\ Cardinality(U) = k => HasBoth(U)}
<1>1. 0 \in T
  BY FS_EmptySet, FS_Subset
<1>2. ASSUME NEW k \in Nat, k \in T PROVE k + 1 \in T
  <2>1. SUFFICES ASSUME NEW U \in SUBSET S, U # {}, Cardinality(U) = k + 1
                 PROVE  HasBoth(U)
    OBVIOUS
  <2>2. PICK x \in U : TRUE
    BY <2>1
  <2> DEFINE V == U \ {x}
  <2>3. IsFiniteSet(U) /\ Cardinality(V) = k
    <3>1. IsFiniteSet(U)
      BY FS_Subset
    <3>2. Cardinality(V) = Cardinality(U) - 1
      BY <2>2, <3>1, FS_RemoveElement
    <3>3. QED BY <2>1, <3>1, <3>2
  <2>4. CASE V = {}
    <3>1. U = {x} /\ x \in Int
      BY <2>1, <2>2, <2>4
    <3>2. QED BY <3>1
  <2>5. CASE V # {}
    <3>1. HasBoth(V)
      BY <1>2, <2>1, <2>3, <2>5
    <3>2. PICK a \in V : \A y \in V : a >= y
      BY <3>1
    <3>3. PICK b \in V : \A y \in V : b <= y
      BY <3>1
    <3>4. x \in Int /\ a \in Int /\ b \in Int /\ U = V \cup {x} /\ V \subseteq Int
      BY <2>1, <2>2
    <3> HIDE DEF V
    <3>5. \E z \in U : \A y \in U : z >= y
      <4>1. CASE a >= x
        BY <3>2, <3>4, <4>1
      <4>2. CASE x > a
        <5>1. \A y \in V : x >= y
          BY <3>2, <3>4, <4>2
        <5>2. x \in U /\ \A y \in U : x >= y
          BY <3>4, <5>1
        <5>3. QED BY <5>2
      <4>3. QED BY <3>4, <4>1, <4>2
    <3>6. \E z \in U : \A y \in U : z <= y
      <4>1. CASE b <= x
        BY <3>3, <3>4, <4>1
      <4>2. CASE x < b
        <5>1. \A y \in V : x <= y
          BY <3>3, <3>4, <4>2
        <5>2. x \in U /\ \A y \in U : x <= y
          BY <3>4, <5>1
        <5>3. QED BY <5>2
      <4>3. QED BY <3>4, <4>1, <4>2
    <3>7. QED BY <3>5, <3>6
  <2>6. QED BY <2>4, <2>5
<1>3. Nat \subseteq T
  <2> HIDE DEF T
  <2>1. QED BY <1>1, <1>2, Induction
<1>4. HasBoth(S)
  BY <1>3, FS_CardinalityType
<1>5. Max(S) \in S /\ \A y \in S : Max(S) >= y
  BY <1>4 DEF Max
<1>6. Min(S) \in S /\ \A y \in S : Min(S) <= y
  BY <1>4 DEF Min
<1>7. QED BY <1>5, <1>6

(* The values of a finite sequence are finite in number.                     *)
LEMMA FiniteRange ==
    ASSUME NEW n \in Nat, NEW f, DOMAIN f = 1..n
    PROVE  IsFiniteSet({f[i] : i \in 1..n})
<1> DEFINE S == {f[i] : i \in 1..n}
           g == [i \in 1..n |-> f[i]]
<1>1. g \in Surjection(1..n, S)
  BY DEF Surjection
<1>2. IsFiniteSet(1..n)
  BY FS_Interval
<1> HIDE DEF g, S
<1>3. QED BY <1>1, <1>2, FS_Surjection DEF S

(* R is a strict total order of 1..n.                                        *)
StrictlyOrders(R, n) ==
    /\ \A i \in 1..n : <<i, i>> \notin R
    /\ \A i, j, k \in 1..n : <<i, j>> \in R /\ <<j, k>> \in R => <<i, k>> \in R
    /\ \A i, j \in 1..n : i # j => <<i, j>> \in R \/ <<j, i>> \in R

(* A place is one more than the number of predecessors.                      *)
CountsFrom(place, R, n) ==
    \A i \in 1..n : place[i] = 1 + Cardinality({j \in (1..n) \ {i} : <<j, i>> \in R})

(* The places are a permutation that follows R.                              *)
Permutes(place, R, n) ==
    /\ \A i \in 1..n : place[i] \in 1..n
    /\ \A i, j \in 1..n : <<i, j>> \in R <=> place[i] < place[j]
    /\ \A i, j \in 1..n : place[i] = place[j] => i = j
    /\ \A p \in 1..n : \E i \in 1..n : place[i] = p

(* Counting the predecessors sorts.                                          *)
LEMMA Sorts ==
    ASSUME NEW n \in Nat, NEW R, NEW place, StrictlyOrders(R, n), CountsFrom(place, R, n)
    PROVE  Permutes(place, R, n)
<1> USE DEF StrictlyOrders, CountsFrom, Permutes
<1> DEFINE Pred(i) == {j \in (1..n) \ {i} : <<j, i>> \in R}
<1>1. IsFiniteSet(1..n) /\ Cardinality(1..n) = n
  BY FS_Interval
<1>2. \A i \in 1..n : IsFiniteSet(Pred(i)) /\ Cardinality(Pred(i)) \in 0..(n - 1)
  <2>1. TAKE i \in 1..n
  <2>2. IsFiniteSet((1..n) \ {i}) /\ Cardinality((1..n) \ {i}) = n - 1
    BY <1>1, FS_RemoveElement
  <2>3. Pred(i) \in SUBSET ((1..n) \ {i})
    OBVIOUS
  <2> HIDE DEF Pred
  <2>4. IsFiniteSet(Pred(i)) /\ Cardinality(Pred(i)) <= n - 1
    BY <2>2, <2>3, FS_Subset
  <2>5. Cardinality(Pred(i)) \in Nat
    BY <2>4, FS_CardinalityType
  <2>6. QED BY <2>4, <2>5
<1>3. \A i \in 1..n : place[i] = 1 + Cardinality(Pred(i))
  OBVIOUS
<1>4. \A i \in 1..n : place[i] \in 1..n
  <2> HIDE DEF Pred
  <2>1. QED BY <1>2, <1>3
<1>5. ASSUME NEW i \in 1..n, NEW j \in 1..n, <<i, j>> \in R PROVE place[i] < place[j]
  <2>1. Pred(i) \cup {i} \subseteq Pred(j) /\ i \notin Pred(i)
    BY <1>5
  <2>2. IsFiniteSet(Pred(j))
    BY <1>2
  <2>3. /\ Cardinality(Pred(i)) \in Nat /\ Cardinality(Pred(j)) \in Nat
        /\ Cardinality(Pred(i)) < Cardinality(Pred(j))
    BY <2>1, <2>2, Smaller
  <2> HIDE DEF Pred
  <2>4. QED BY <1>3, <2>3
<1> HIDE DEF Pred
<1>6. \A i, j \in 1..n : <<i, j>> \in R <=> place[i] < place[j]
  <2>1. TAKE i, j \in 1..n
  <2>2. place[i] \in Int /\ place[j] \in Int
    BY <1>4
  <2>3. CASE i = j
    BY <2>2, <2>3
  <2>4. CASE i # j /\ <<j, i>> \in R
    <3>1. place[j] < place[i]
      BY <1>5, <2>4
    <3>2. <<i, j>> \notin R
      BY <2>4
    <3>3. QED BY <2>2, <3>1, <3>2
  <2>5. CASE <<i, j>> \in R
    BY <1>5, <2>5
  <2>6. QED BY <2>3, <2>4, <2>5
<1>7. \A i, j \in 1..n : place[i] = place[j] => i = j
  <2>1. TAKE i, j \in 1..n
  <2>2. place[i] \in Int /\ place[j] \in Int
    BY <1>4
  <2>3. i # j => place[i] < place[j] \/ place[j] < place[i]
    BY <1>6
  <2>4. QED BY <2>2, <2>3
<1>8. \A p \in 1..n : \E i \in 1..n : place[i] = p
  <2> DEFINE f == [i \in 1..n |-> place[i]]
  <2>1. f \in Injection(1..n, 1..n)
    BY <1>4, <1>7 DEF Injection, IsInjective
  <2>2. f \in Surjection(1..n, 1..n)
    <3> HIDE DEF f
    <3>1. QED BY <1>1, <2>1, FS_Injection
  <2>3. QED BY <2>2 DEF Surjection
<1>9. QED BY <1>4, <1>6, <1>7, <1>8

-----------------------------------------------------------------------------
(* The ranking of validators                                                 *)

(* n validators with their numbers.                                          *)
Validators(e, n) ==
    /\ n \in Nat /\ Len(e) = n /\ DOMAIN e = 1..n
    /\ \A i \in 1..n : e[i].rate \in Nat /\ e[i].tokens \in Nat /\ e[i].moniker \in Nat

(* The highest rate, and the spread of the rates.                            *)
LEMMA RateBounds ==
    ASSUME NEW n, NEW e, Validators(e, n), NEW i \in 1..n
    PROVE  /\ Max({e[j].rate : j \in DOMAIN e}) \in Int /\ RateRange(e) \in Int
           /\ e[i].rate <= Max({e[j].rate : j \in DOMAIN e})
<1> DEFINE f == [j \in 1..n |-> e[j].rate]
           S == {e[j].rate : j \in DOMAIN e}
<1>1. S = {f[j] : j \in 1..n}
  BY DEF Validators
<1>2. S \subseteq Int /\ S # {} /\ e[i].rate \in S
  BY DEF Validators
<1>3. IsFiniteSet(S)
  <2>1. DOMAIN f = 1..n /\ n \in Nat
    BY DEF Validators
  <2> HIDE DEF f, S
  <2>2. QED BY <1>1, <2>1, FiniteRange
<1>4. RateRange(e) = Max(S) - Min(S)
  BY DEF RateRange
<1> HIDE DEF S
<1>5. Max(S) \in S /\ Min(S) \in S /\ \A x \in S : Min(S) <= x /\ x <= Max(S)
  BY <1>2, <1>3, Extremes
<1>6. Max(S) \in Int /\ Min(S) \in Int
  BY <1>2, <1>5
<1>7. RateRange(e) \in Int
  BY <1>4, <1>6
<1>8. e[i].rate <= Max(S)
  BY <1>2, <1>5
<1>9. QED BY <1>6, <1>7, <1>8 DEF S

(* Fewer tokens, a lower rank by tokens.                                     *)
LEMMA RankOrder ==
    ASSUME NEW n, NEW e, Validators(e, n), NEW i \in 1..n, NEW j \in 1..n
    PROVE  /\ TokenRank(e, i) \in Nat
           /\ e[i].tokens < e[j].tokens => TokenRank(e, i) < TokenRank(e, j)
<1> DEFINE A(k) == {m \in DOMAIN e : \/ e[m].tokens < e[k].tokens
                                     \/ e[m].tokens = e[k].tokens /\ m < k}
<1>1. \A k \in 1..n : TokenRank(e, k) = Cardinality(A(k))
  BY DEF TokenRank
<1>2. \A k \in 1..n : A(k) \in SUBSET (1..n)
  BY DEF Validators
<1>3. IsFiniteSet(1..n)
  BY FS_Interval DEF Validators
<1>4. e[i].tokens < e[j].tokens => A(i) \cup {i} \subseteq A(j) /\ i \notin A(i)
  BY DEF Validators
<1> HIDE DEF A
<1>5. IsFiniteSet(A(i)) /\ IsFiniteSet(A(j))
  BY <1>2, <1>3, FS_Subset
<1>6. Cardinality(A(i)) \in Nat
  BY <1>5, FS_CardinalityType
<1>7. ASSUME e[i].tokens < e[j].tokens PROVE Cardinality(A(i)) < Cardinality(A(j))
  <2>1. A(i) \cup {i} \subseteq A(j) /\ i \notin A(i)
    BY <1>4, <1>7
  <2>2. QED BY <1>5, <2>1, Smaller
<1>8. QED BY <1>1, <1>6, <1>7

(* A validator that is no dearer and strictly smaller scores strictly more.  *)
LEMMA ScoreOrder ==
    ASSUME NEW n, NEW e, Validators(e, n), NEW i \in 1..n, NEW j \in 1..n
    PROVE  /\ ScoreOf(e, i) \in Int
           /\ e[i].rate <= e[j].rate /\ e[i].tokens < e[j].tokens => ScoreOf(e, i) > ScoreOf(e, j)
<1> DEFINE top == Max({e[k].rate : k \in DOMAIN e})
           neutral == RateRange(e) < NeutralRange
           cheap(k) == IF neutral THEN 1 ELSE top - e[k].rate
           range == IF neutral THEN 1 ELSE RateRange(e)
           small(k) == IF n = 1 THEN 1 ELSE n - 1 - TokenRank(e, k)
           places == IF n = 1 THEN 1 ELSE n - 1
<1>1. \A k \in 1..n : ScoreOf(e, k) = CommissionWeight * cheap(k) * places + PowerWeight * small(k) * range
  BY DEF ScoreOf, Validators
<1>2. top \in Int /\ RateRange(e) \in Int
  BY RateBounds
<1>3. /\ n \in Nat /\ n > 0 /\ e[i].rate \in Nat /\ e[j].rate \in Nat
      /\ TokenRank(e, i) \in Nat /\ TokenRank(e, j) \in Nat
      /\ e[i].tokens < e[j].tokens => TokenRank(e, i) < TokenRank(e, j)
  <2>1. n \in Nat /\ n > 0 /\ e[i].rate \in Nat /\ e[j].rate \in Nat
    BY DEF Validators
  <2>2. /\ TokenRank(e, i) \in Nat
        /\ e[i].tokens < e[j].tokens => TokenRank(e, i) < TokenRank(e, j)
    BY RankOrder
  <2>3. TokenRank(e, j) \in Nat
    BY RankOrder
  <2>4. QED BY <2>1, <2>2, <2>3
<1> HIDE DEF top
<1>4. /\ cheap(i) \in Int /\ cheap(j) \in Int /\ range \in Int /\ range > 0
      /\ small(i) \in Int /\ small(j) \in Int /\ places \in Int /\ places > 0
  BY <1>2, <1>3 DEF NeutralRange
<1>5. e[i].rate <= e[j].rate => cheap(i) >= cheap(j)
  BY <1>2, <1>3
<1>6. e[i].tokens < e[j].tokens => small(i) > small(j)
  <2>1. e[i].tokens < e[j].tokens => n # 1
    <3>1. n = 1 => i = j
      OBVIOUS
    <3>2. e[i].tokens \in Nat
      BY DEF Validators
    <3>3. QED BY <3>1, <3>2
  <2>2. QED BY <1>3, <2>1
<1> HIDE DEF cheap, small, range, places
<1>7. \A a, b, c, d, p, r \in Int :
         p > 0 /\ r > 0 /\ a >= b /\ c > d => 6 * a * p + 4 * c * r > 6 * b * p + 4 * d * r
  <2>1. TAKE a, b, c, d, p, r \in Int
  <2>2. HAVE p > 0 /\ r > 0 /\ a >= b /\ c > d
  <2>3. a * p >= b * p
    BY <2>2
  <2>4. c * r > d * r
    BY <2>2
  <2>5. 6 * a * p = 6 * (a * p) /\ 6 * b * p = 6 * (b * p) /\ 4 * c * r = 4 * (c * r) /\ 4 * d * r = 4 * (d * r)
    OBVIOUS
  <2>6. a * p \in Int /\ b * p \in Int /\ c * r \in Int /\ d * r \in Int
    OBVIOUS
  <2>7. QED BY <2>3, <2>4, <2>5, <2>6
<1>8. \A a, c, p, r \in Int : 6 * a * p + 4 * c * r \in Int
  OBVIOUS
<1>9. /\ ScoreOf(e, i) = 6 * cheap(i) * places + 4 * small(i) * range
      /\ ScoreOf(e, j) = 6 * cheap(j) * places + 4 * small(j) * range
  BY <1>1 DEF CommissionWeight, PowerWeight
<1>10. QED BY <1>4, <1>5, <1>6, <1>7, <1>8, <1>9

(* The comparator of the ranking is a strict total order.                    *)
LEMMA BeforeOrders ==
    ASSUME NEW n, NEW e, Validators(e, n)
    PROVE  /\ \A i \in 1..n : ~Before(e, i, i)
           /\ \A i, j, k \in 1..n : Before(e, i, j) /\ Before(e, j, k) => Before(e, i, k)
           /\ \A i, j \in 1..n : i # j => Before(e, i, j) \/ Before(e, j, i)
<1>1. \A i \in 1..n : /\ ScoreOf(e, i) \in Int /\ e[i].tokens \in Int /\ e[i].moniker \in Int /\ i \in Int
  <2>1. TAKE i \in 1..n
  <2>2. ScoreOf(e, i) \in Int
    BY ScoreOrder
  <2>3. QED BY <2>2 DEF Validators
<1>2. \A i, j \in 1..n :
         Before(e, i, j) <=>
            \/ ScoreOf(e, i) > ScoreOf(e, j)
            \/ /\ ScoreOf(e, i) = ScoreOf(e, j)
               /\ \/ e[i].tokens < e[j].tokens
                  \/ /\ e[i].tokens = e[j].tokens
                     /\ \/ e[i].moniker < e[j].moniker
                        \/ e[i].moniker = e[j].moniker /\ i < j
  BY DEF Before
<1>3. \A i \in 1..n : ~Before(e, i, i)
  BY <1>1, <1>2
<1>4. \A i, j \in 1..n : i # j => Before(e, i, j) \/ Before(e, j, i)
  <2>1. TAKE i, j \in 1..n
  <2>2. QED BY <1>1, <1>2
<1>5. \A i, j, k \in 1..n : Before(e, i, j) /\ Before(e, j, k) => Before(e, i, k)
  <2>1. TAKE i, j, k \in 1..n
  <2>2. QED BY <1>1, <1>2
<1>6. QED BY <1>3, <1>4, <1>5

(* p leads from the elements of e to their places in s, in order.            *)
Within(p, e, s) ==
    /\ p \in [1..Len(e) -> 1..Len(s)]
    /\ \A i \in 1..Len(e) : e[i] = s[p[i]]
    /\ \A i, j \in 1..Len(e) : i < j => p[i] < p[j]

(* The eligible validators are active ones of the list, in its order, and    *)
(* there is one if the list has an active validator.                         *)
EligibleIn(p, vs) ==
    LET e == EligibleValidators(vs)
    IN  /\ Within(p, e, vs)
        /\ \A i \in 1..Len(e) : IsHealthy(e[i])
        /\ (\E i \in 1..Len(vs) : IsHealthy(vs[i])) => Len(e) > 0

LEMMA EligibleAre ==
    ASSUME NEW S, NEW vs \in Seq(S)
    PROVE  \E p : EligibleIn(p, vs)
<1> DEFINE P == {i \in DOMAIN vs : IsHealthy(vs[i])}
           active == Kept(vs, P)
           Q == {i \in DOMAIN active : active[i].rate <= MaxCommission}
           withinCap == Kept(active, Q)
           e == EligibleValidators(vs)
<1>1. e = IF withinCap # <<>> THEN withinCap ELSE active
  BY DEF EligibleValidators
<1>2. DOMAIN vs = 1..Len(vs) /\ Len(vs) \in Nat /\ P \subseteq 1..Len(vs) /\ P \cap (1..Len(vs)) = P
  OBVIOUS
<1>3. PICK p : Lists(active, p, vs, P, S)
  <2> HIDE DEF P
  <2>1. QED BY <1>2, KeptLists
<1>4. \A i \in P : IsHealthy(vs[i])
  OBVIOUS
<1>5. (\E i \in 1..Len(vs) : IsHealthy(vs[i])) => P # {}
  OBVIOUS
<1> HIDE DEF P, active
<1>6. /\ active \in Seq(S) /\ Len(active) \in Nat /\ p \in [1..Len(active) -> P]
      /\ \A i \in 1..Len(active) : active[i] = vs[p[i]]
      /\ \A i, j \in 1..Len(active) : i < j => p[i] < p[j]
      /\ \A x \in P : \E i \in 1..Len(active) : p[i] = x
  BY <1>3 DEF Lists
<1>7. P # {} => Len(active) > 0
  BY <1>6
<1>8. PICK q : Lists(withinCap, q, active, Q \cap (1..Len(active)), S)
  <2> HIDE DEF Q
  <2>1. QED BY <1>6, KeptLists
<1> HIDE DEF withinCap, Q
<1>9. /\ withinCap \in Seq(S) /\ Len(withinCap) \in Nat /\ q \in [1..Len(withinCap) -> 1..Len(active)]
      /\ \A i \in 1..Len(withinCap) : withinCap[i] = active[q[i]]
      /\ \A i, j \in 1..Len(withinCap) : i < j => q[i] < q[j]
  BY <1>8 DEF Lists
<1>10. withinCap # <<>> => Len(withinCap) > 0
  BY <1>9
<1> HIDE DEF e
<1>11. CASE withinCap # <<>>
  <2> DEFINE r == [i \in 1..Len(e) |-> p[q[i]]]
  <2>1. e = withinCap
    BY <1>1, <1>11
  <2>2. \A i \in 1..Len(e) : r[i] = p[q[i]] /\ q[i] \in 1..Len(active)
    BY <1>9, <2>1
  <2>3. r \in [1..Len(e) -> 1..Len(vs)]
    BY <1>2, <1>6, <1>9, <2>1
  <2> HIDE DEF r
  <2>4. \A i \in 1..Len(e) : e[i] = vs[r[i]] /\ IsHealthy(e[i])
    <3>1. TAKE i \in 1..Len(e)
    <3>2. e[i] = active[q[i]] /\ r[i] = p[q[i]] /\ q[i] \in 1..Len(active)
      BY <1>9, <2>1, <2>2
    <3>3. e[i] = vs[r[i]] /\ r[i] \in P
      BY <1>6, <3>2
    <3>4. QED BY <1>4, <3>3
  <2>5. \A i, j \in 1..Len(e) : i < j => r[i] < r[j]
    BY <1>6, <1>9, <2>1, <2>2
  <2>6. EligibleIn(r, vs)
    BY <1>10, <1>11, <2>1, <2>3, <2>4, <2>5 DEF EligibleIn, Within, e
  <2>7. QED BY <2>6
<1>12. CASE withinCap = <<>>
  <2>1. e = active
    BY <1>1, <1>12
  <2>2. p \in [1..Len(e) -> 1..Len(vs)]
    BY <1>2, <1>6, <2>1
  <2>3. \A i \in 1..Len(e) : IsHealthy(e[i])
    BY <1>4, <1>6, <2>1
  <2>4. EligibleIn(p, vs)
    BY <1>5, <1>6, <1>7, <2>1, <2>2, <2>3 DEF EligibleIn, Within, e
  <2>5. QED BY <2>4
<1>13. QED BY <1>11, <1>12

(* The ranking is a permutation of the eligible validators that follows the  *)
(* comparator.                                                               *)
Ranks(o, vs) ==
    LET e == EligibleValidators(vs)  ranked == ScoreValidators(vs)
    IN  /\ o \in [1..Len(e) -> 1..Len(e)]
        /\ DOMAIN ranked = 1..Len(e) /\ Len(ranked) = Len(e)
        /\ \A k \in 1..Len(e) : ranked[k] = e[o[k]]
        /\ \A k, l \in 1..Len(e) : k < l => o[k] # o[l] /\ Before(e, o[k], o[l])

LEMMA RankedAre ==
    ASSUME NEW vs, Validators(EligibleValidators(vs), Len(EligibleValidators(vs)))
    PROVE  \E o : Ranks(o, vs)
<1> DEFINE e == EligibleValidators(vs)
           n == Len(e)
           R == {r \in (1..n) \X (1..n) : Before(e, r[1], r[2])}
           place == [i \in DOMAIN e |-> 1 + Cardinality({j \in DOMAIN e \ {i} : Before(e, j, i)})]
           o == [k \in 1..n |-> CHOOSE i \in 1..n : place[i] = k]
<1>1. Validators(e, n) /\ n \in Nat /\ DOMAIN e = 1..n
  BY DEF Validators
<1>2. ScoreValidators(vs) = [k \in DOMAIN e |-> e[CHOOSE i \in DOMAIN e : place[i] = k]]
  BY DEF ScoreValidators
<1> HIDE DEF e, n
<1>3. \A i, j \in 1..n : <<i, j>> \in R <=> Before(e, i, j)
  OBVIOUS
<1>4. \A i \in 1..n : {j \in DOMAIN e \ {i} : Before(e, j, i)} = {j \in (1..n) \ {i} : <<j, i>> \in R}
  BY <1>1, <1>3
<1>5. \A i \in 1..n : place[i] = 1 + Cardinality({j \in (1..n) \ {i} : <<j, i>> \in R})
  BY <1>1, <1>4
<1>6. /\ \A i \in 1..n : <<i, i>> \notin R
      /\ \A i, j, k \in 1..n : <<i, j>> \in R /\ <<j, k>> \in R => <<i, k>> \in R
      /\ \A i, j \in 1..n : i # j => <<i, j>> \in R \/ <<j, i>> \in R
  <2> HIDE DEF R
  <2>1. /\ \A i \in 1..n : ~Before(e, i, i)
        /\ \A i, j, k \in 1..n : Before(e, i, j) /\ Before(e, j, k) => Before(e, i, k)
        /\ \A i, j \in 1..n : i # j => Before(e, i, j) \/ Before(e, j, i)
    BY <1>1, BeforeOrders
  <2>2. QED BY <1>3, <2>1
<1> HIDE DEF R, place
<1>7. /\ \A i \in 1..n : place[i] \in 1..n
      /\ \A i, j \in 1..n : <<i, j>> \in R <=> place[i] < place[j]
      /\ \A p \in 1..n : \E i \in 1..n : place[i] = p
  <2>1. n \in Nat
    BY <1>1
  <2>2. StrictlyOrders(R, n) /\ CountsFrom(place, R, n)
    BY <1>5, <1>6 DEF StrictlyOrders, CountsFrom
  <2>3. Permutes(place, R, n)
    BY <2>1, <2>2, Sorts
  <2>4. QED BY <2>3 DEF Permutes
<1>8. o \in [1..n -> 1..n] /\ \A k \in 1..n : place[o[k]] = k
  <2>1. \A k \in 1..n : o[k] \in 1..n /\ place[o[k]] = k
    BY <1>7
  <2>2. QED BY <2>1
<1>9. \A k \in 1..n : ScoreValidators(vs)[k] = e[o[k]]
  BY <1>1, <1>2
<1>10. DOMAIN ScoreValidators(vs) = 1..n /\ Len(ScoreValidators(vs)) = n
  BY <1>1, <1>2
<1> HIDE DEF o
<1>11. \A k, l \in 1..n : k < l => o[k] # o[l] /\ Before(e, o[k], o[l])
  <2>1. TAKE k, l \in 1..n
  <2>2. HAVE k < l
  <2>3. o[k] \in 1..n /\ o[l] \in 1..n /\ place[o[k]] < place[o[l]]
    BY <1>8, <2>2
  <2>4. o[k] # o[l]
    BY <1>8, <2>2
  <2>5. <<o[k], o[l]>> \in R
    BY <1>7, <2>3
  <2>6. QED BY <1>3, <2>3, <2>4, <2>5
<1>12. Ranks(o, vs)
  BY <1>8, <1>9, <1>10, <1>11 DEF Ranks, e, n
<1>13. QED BY <1>12

(* The eligible validators of a list of the chain.                           *)
LEMMA EligibleListed ==
    ASSUME NEW vs, ValidatorsListed(vs)
    PROVE  LET e == EligibleValidators(vs)
           IN  /\ Validators(e, Len(e)) /\ e \in Seq(Range(vs))
               /\ \A i, j \in 1..Len(e) : e[i].addr = e[j].addr => i = j
<1> DEFINE e == EligibleValidators(vs)
           S == Range(vs)
<1>1. vs \in Seq(S) /\ \A v \in S : v.rate \in Nat /\ v.tokens \in Nat /\ v.moniker \in Nat
  BY DEF ValidatorsListed, Listed
<1>2. \A i, j \in 1..Len(vs) : vs[i].addr = vs[j].addr => i = j
  <2> DEFINE f == [i \in DOMAIN vs |-> vs[i].addr]
  <2>1. DOMAIN vs = 1..Len(vs)
    BY <1>1
  <2>2. \A i, j \in 1..Len(vs) : f[i] = f[j] => i = j
    BY <2>1 DEF ValidatorsListed, IsInjective
  <2>3. \A i \in 1..Len(vs) : f[i] = vs[i].addr
    BY <2>1
  <2> HIDE DEF f
  <2>4. QED BY <2>2, <2>3
<1> HIDE DEF S
<1>3. e \in Seq(S)
  BY <1>1, EligibleType
<1>4. PICK p : EligibleIn(p, vs)
  BY <1>1, EligibleAre
<1>5. Within(p, e, vs)
  BY <1>4 DEF EligibleIn
<1> HIDE DEF e
<1>6. Validators(e, Len(e))
  BY <1>1, <1>3 DEF Validators
<1>7. Len(e) \in Nat
  BY <1>3
<1>8. ASSUME NEW i \in 1..Len(e), NEW j \in 1..Len(e), e[i].addr = e[j].addr PROVE i = j
  <2>1. p[i] \in 1..Len(vs) /\ p[j] \in 1..Len(vs) /\ e[i] = vs[p[i]] /\ e[j] = vs[p[j]]
    BY <1>5 DEF Within
  <2>2. p[i] = p[j]
    BY <1>2, <1>8, <2>1
  <2>3. (i < j => p[i] < p[j]) /\ (j < i => p[j] < p[i])
    BY <1>5 DEF Within
  <2>4. QED BY <1>7, <2>1, <2>2, <2>3
<1>9. QED BY <1>3, <1>6, <1>8 DEF e, S

-----------------------------------------------------------------------------
(* The invariants                                                            *)

(* What is asked is one of the inputs.                                       *)
AskedInv ==
    /\ asked.fn = "stake" => asked.in \in [validators : ValidatorLists, amount : Stakes]
    /\ asked.fn = "health" => asked.in \in HealthInputs
    /\ asked.fn = "path" => asked.in \in [pools : PoolSets, from : Denoms, to : Denoms]
    /\ asked.fn = "deposit" => asked.in \in Deposits
    /\ asked.fn = "unlocks" => asked.in \in UnlockInputs
    /\ asked.fn = "send" => asked.in \in SendInputs
    /\ asked.fn = "order" => asked.in \in OrderInputs
    /\ asked.fn = "chart" => asked.in \in CandleInputs

LEMMA InputsAsked == Spec => []AskedInv
<1>1. Init => AskedInv
  BY DEF Init, Nothing, AskedInv
<1>2. AskedInv /\ [Next]_vars => AskedInv'
  <2> SUFFICES ASSUME AskedInv, [Next]_vars PROVE AskedInv'
    OBVIOUS
  <2>1. CASE AskStake
    BY <2>1 DEF AskStake, Ask, AskedInv
  <2>2. CASE AskHealth
    BY <2>2 DEF AskHealth, Ask, AskedInv
  <2>3. CASE AskUnlocks
    BY <2>3 DEF AskUnlocks, Ask, AskedInv
  <2>4. CASE AskPath
    BY <2>4 DEF AskPath, Ask, AskedInv
  <2>5. CASE AskDeposit
    BY <2>5 DEF AskDeposit, Ask, AskedInv
  <2>6. CASE AskOrder
    BY <2>6 DEF AskOrder, Ask, AskedInv
  <2>7. CASE AskSend
    BY <2>7 DEF AskSend, Ask, AskedInv
  <2>8. CASE AskChart
    BY <2>8 DEF AskChart, Ask, AskedInv
  <2>9. CASE Answered
    BY <2>9 DEF Answered, Nothing, AskedInv
  <2>10. CASE UNCHANGED vars
    BY <2>10 DEF vars, AskedInv
  <2>11. QED BY <2>1, <2>2, <2>3, <2>4, <2>5, <2>6, <2>7, <2>8, <2>9, <2>10 DEF Next
<1>3. QED BY <1>1, <1>2, PTL DEF Spec

(* The messages of an automatic stake delegate exactly the amount entered    *)
(* (SplitDelegation of validatorScoring.ts, as StakeModal and StakingCompact *)
(* use it), whatever validators the chain lists.                             *)
THEOREM SplitIsExact == Spec => []SplitSpendsTheAmount
<1>1. AskedInv => SplitSpendsTheAmount
  <2> SUFFICES ASSUME AskedInv, asked.fn = "stake" PROVE SplitSpendsTheAmount
    BY DEF SplitSpendsTheAmount
  <2> DEFINE vs == asked.in.validators
             total == asked.in.amount
             top == SelectTopValidators(ScoreValidators(vs), TopN)
             parts == SplitDelegation(total, vs)
  <2>0. total \in Stakes /\ vs \in ValidatorLists
    BY DEF AskedInv
  <2>1. total \in Int /\ ValidatorsListed(vs)
    <3> HIDE DEF total, vs
    <3>1. total \in Int
      BY <2>0, HelpersAssumption
    <3>2. ValidatorsListed(vs)
      BY <2>0, HelpersAssumption
    <3>3. QED BY <3>1, <3>2
  <2>2. vs \in Seq(Range(vs))
    BY <2>1 DEF ValidatorsListed, Listed
  <2>3. Len(top) \in 0..TopN /\ DOMAIN top = 1..Len(top) /\ (Len(top) = 0 <=> top = <<>>)
    <3> HIDE DEF vs
    <3>1. QED BY <2>2, TopDomain
  <2> HIDE DEF vs, total, top
  <2>4. ASSUME top # <<>>
        PROVE  LET ps == SplitDelegation(total, top)
               IN  /\ Len(ps) = Len(top)
                   /\ SumSeq(ps, LAMBDA x : x.amount) = total
                   /\ \A i, j \in DOMAIN ps : ps[i].amount - ps[j].amount < Len(ps)
    <3>1. Len(top) \in Nat /\ Len(top) > 0 /\ DOMAIN top = 1..Len(top)
      BY <2>3, <2>4 DEF TopN
    <3>2. QED BY <2>1, <3>1, SplitAddsUp
  <2>5. Len(top) <= TopN
    BY <2>3 DEF TopN
  <2>6. QED BY <2>4, <2>5 DEF SplitSpendsTheAmount, vs, total, top
<1>2. QED BY <1>1, InputsAsked, PTL

(* The amounts of a list.                                                    *)
LEMMA AmountsType ==
    ASSUME NEW S, \A x \in S : x.amount \in Int, NEW s \in Seq(S)
    PROVE  Amounts(s) \in Seq(Int) /\ Len(Amounts(s)) = Len(s)
<1>1. DOMAIN s = 1..Len(s) /\ Len(s) \in Nat /\ \A i \in 1..Len(s) : s[i] \in S
  OBVIOUS
<1>2. Amounts(s) = [i \in 1..Len(s) |-> s[i].amount]
  BY <1>1 DEF Amounts
<1>3. QED BY <1>1, <1>2

(* The elements of a concatenation.                                          *)
LEMMA ConcatElements ==
    ASSUME NEW S, NEW a \in Seq(S), NEW b \in Seq(S)
    PROVE  /\ a \o b \in Seq(S) /\ Len(a \o b) = Len(a) + Len(b)
           /\ \A i \in 1..Len(a) : (a \o b)[i] = a[i]
           /\ \A i \in 1..(Len(a) + Len(b)) : i > Len(a) =>
                 i - Len(a) \in 1..Len(b) /\ (a \o b)[i] = b[i - Len(a)]
<1>1. Len(a) \in Nat /\ Len(b) \in Nat
  OBVIOUS
<1>2. a \o b \in Seq(S) /\ Len(a \o b) = Len(a) + Len(b)
  OBVIOUS
<1>3. \A i \in 1..Len(a) : (a \o b)[i] = a[i]
  OBVIOUS
<1>4. \A i \in 1..(Len(a) + Len(b)) : i > Len(a) => i - Len(a) \in 1..Len(b)
  BY <1>1
<1>5. \A i \in 1..(Len(a) + Len(b)) : i > Len(a) => (a \o b)[i] = b[i - Len(a)]
  BY <1>1
<1>6. QED BY <1>2, <1>3, <1>4, <1>5

(* The amounts of two lists one after the other.                             *)
LEMMA AmountsConcat ==
    ASSUME NEW S, \A x \in S : x.amount \in Int, NEW s \in Seq(S), NEW t \in Seq(S)
    PROVE  Amounts(s \o t) = Amounts(s) \o Amounts(t)
<1>1. s \o t \in Seq(S) /\ Len(s \o t) = Len(s) + Len(t) /\ Len(s) \in Nat /\ Len(t) \in Nat
  OBVIOUS
<1>2. /\ Amounts(s \o t) \in Seq(Int) /\ Len(Amounts(s \o t)) = Len(s) + Len(t)
      /\ Amounts(s) \in Seq(Int) /\ Len(Amounts(s)) = Len(s)
      /\ Amounts(t) \in Seq(Int) /\ Len(Amounts(t)) = Len(t)
  <2>1. Amounts(s \o t) \in Seq(Int) /\ Len(Amounts(s \o t)) = Len(s \o t)
    BY <1>1, AmountsType
  <2>2. Amounts(s) \in Seq(Int) /\ Len(Amounts(s)) = Len(s)
    BY AmountsType
  <2>3. Amounts(t) \in Seq(Int) /\ Len(Amounts(t)) = Len(t)
    BY AmountsType
  <2>4. QED BY <1>1, <2>1, <2>2, <2>3
<1>3. \A i \in 1..(Len(s) + Len(t)) : Amounts(s \o t)[i] = (s \o t)[i].amount
  BY <1>1 DEF Amounts
<1>4. /\ \A i \in 1..Len(s) : Amounts(s)[i] = s[i].amount
      /\ \A i \in 1..Len(t) : Amounts(t)[i] = t[i].amount
  BY <1>1 DEF Amounts
<1> DEFINE a == Amounts(s)  b == Amounts(t)  c == Amounts(s \o t)
<1>5. /\ a \o b \in Seq(Int) /\ Len(a \o b) = Len(s) + Len(t)
      /\ \A i \in 1..Len(s) : (a \o b)[i] = a[i]
      /\ \A i \in 1..(Len(s) + Len(t)) : i > Len(s) => (a \o b)[i] = b[i - Len(s)]
  <2> HIDE DEF a, b
  <2>1. a \in Seq(Int) /\ Len(a) = Len(s) /\ b \in Seq(Int) /\ Len(b) = Len(t)
    BY <1>2 DEF a, b
  <2>2. a \o b \in Seq(Int) /\ Len(a \o b) = Len(a) + Len(b)
    BY <2>1, ConcatElements
  <2>3. \A i \in 1..Len(a) : (a \o b)[i] = a[i]
    BY <2>1, ConcatElements
  <2>4. \A i \in 1..(Len(a) + Len(b)) : i > Len(a) => (a \o b)[i] = b[i - Len(a)]
    BY <2>1, ConcatElements
  <2>5. QED BY <2>1, <2>2, <2>3, <2>4
<1> HIDE DEF a, b, c
<1>6. \A i \in 1..(Len(s) + Len(t)) : c[i] = (a \o b)[i]
  <2>1. TAKE i \in 1..(Len(s) + Len(t))
  <2>2. CASE i <= Len(s)
    <3>1. i \in 1..Len(s) /\ (s \o t)[i] = s[i]
      BY <1>1, <2>2, ConcatElements
    <3>2. (a \o b)[i] = s[i].amount
      BY <1>4, <1>5, <3>1 DEF a
    <3>3. QED BY <1>3, <3>1, <3>2 DEF c
  <2>3. CASE i > Len(s)
    <3>1. i - Len(s) \in 1..Len(t) /\ (s \o t)[i] = t[i - Len(s)]
      BY <1>1, <2>3, ConcatElements
    <3>2. (a \o b)[i] = t[i - Len(s)].amount
      BY <1>4, <1>5, <2>3, <3>1 DEF b
    <3>3. QED BY <1>3, <3>1, <3>2 DEF c
  <2>4. i <= Len(s) \/ i > Len(s)
    BY <1>1
  <2>5. QED BY <2>2, <2>3, <2>4
<1>7. c \in Seq(Int) /\ Len(c) = Len(s) + Len(t)
  BY <1>2 DEF c
<1>8. \A u, v \in Seq(Int) : Len(u) = Len(v) /\ (\A i \in 1..Len(u) : u[i] = v[i]) => u = v
  <2>1. TAKE u, v \in Seq(Int)
  <2>2. HAVE Len(u) = Len(v) /\ \A i \in 1..Len(u) : u[i] = v[i]
  <2>3. u = [i \in 1..Len(u) |-> u[i]] /\ v = [i \in 1..Len(v) |-> v[i]]
    OBVIOUS
  <2>4. QED BY <2>2, <2>3
<1>9. c = a \o b
  BY <1>5, <1>6, <1>7, <1>8
<1>10. QED BY <1>9 DEF a, b, c

(* The three totals of what is staked are one: the compact Earn view, the    *)
(* statistics bar and the asset detail (StakingCompact.tsx, StakingPage.tsx, *)
(* assetDetailHelpers.ts) agree on every answer of the staking overview.     *)
THEOREM TotalsAreOne == Spec => []StakedTotalsAgree
<1>1. AskedInv => StakedTotalsAgree
  <2> SUFFICES ASSUME AskedInv, asked.fn = "health" PROVE StakedTotalsAgree
    BY DEF StakedTotalsAgree
  <2> DEFINE data == asked.in
             dels == data.delegations
             parts == NativeParticipations(data)
             S == Range(dels) \cup Range(data.participants)
  <2>1. OverviewListed(data)
    <3>1. data \in HealthInputs
      BY DEF AskedInv
    <3> HIDE DEF data
    <3>2. QED BY <3>1, HelpersAssumption
  <2> HIDE DEF data
  <2>2. /\ dels \in Seq(Range(dels)) /\ data.participants \in Seq(Range(data.participants))
        /\ \A x \in S : x.amount \in Int
    BY <2>1 DEF OverviewListed, Listed
  <2>3. parts \in Seq(Range(data.participants))
    BY <2>2, KeptType DEF NativeParticipations
  <2>4. dels \in Seq(S) /\ parts \in Seq(S)
    <3> HIDE DEF dels, parts
    <3>1. \A A, B, s : s \in Seq(A) /\ A \subseteq B => s \in Seq(B)
      OBVIOUS
    <3>2. QED BY <2>2, <2>3, <3>1
  <2> HIDE DEF dels, parts, S
  <2>5. Amounts(dels) \in Seq(Int) /\ Amounts(parts) \in Seq(Int)
    BY <2>2, <2>4, AmountsType
  <2>6. Amounts(dels \o parts) = Amounts(dels) \o Amounts(parts)
    BY <2>2, <2>4, AmountsConcat
  <2>7. TotalFrom(0, Amounts(dels)) \in Int
    BY <2>5, TotalType
  <2>8. TotalFrom(0, Amounts(dels) \o Amounts(parts)) = TotalFrom(TotalFrom(0, Amounts(dels)), Amounts(parts))
    BY <2>5, TotalConcat
  <2>9. TotalFrom(TotalFrom(0, Amounts(dels)), Amounts(parts))
           = TotalFrom(0, Amounts(dels)) + TotalFrom(0, Amounts(parts))
    BY <2>5, <2>7, TotalShift
  <2>10. CompactTotal(data) = TotalFrom(0, Amounts(dels)) + TotalFrom(0, Amounts(parts))
    BY DEF CompactTotal, dels, parts
  <2>11. PageTotal(data) = TotalFrom(TotalFrom(0, Amounts(dels)), Amounts(parts))
    BY DEF PageTotal, dels, parts
  <2>12. StakedUbzeFromOverview(<<data>>) = TotalFrom(0, Amounts(dels \o parts))
    <3>1. <<data>> # <<>> /\ <<data>>[1] = data
      OBVIOUS
    <3>2. QED BY <3>1 DEF StakedUbzeFromOverview, dels, parts
  <2>13. QED BY <2>6, <2>8, <2>9, <2>10, <2>11, <2>12 DEF StakedTotalsAgree, data
<1>2. QED BY <1>1, InputsAsked, PTL

(* The ranking of validators (scoreValidators of validatorScoring.ts) never  *)
(* prefers a validator to one that is no dearer and strictly smaller, ranks  *)
(* active validators only, each once, and some if the list has any.          *)
THEOREM RankingIsFair == Spec => []ScoresRespectDominance
<1>1. AskedInv => ScoresRespectDominance
  <2> SUFFICES ASSUME AskedInv, asked.fn = "stake" PROVE ScoresRespectDominance
    BY DEF ScoresRespectDominance
  <2> DEFINE vs == asked.in.validators
             e == EligibleValidators(vs)
             n == Len(e)
             ranked == ScoreValidators(vs)
  <2>1. ValidatorsListed(vs)
    <3>1. vs \in ValidatorLists
      BY DEF AskedInv
    <3> HIDE DEF vs
    <3>2. QED BY <3>1, HelpersAssumption
  <2> HIDE DEF vs
  <2>2. vs \in Seq(Range(vs))
    BY <2>1 DEF ValidatorsListed, Listed
  <2>3. /\ Validators(e, n) /\ e \in Seq(Range(vs))
        /\ \A i, j \in 1..n : e[i].addr = e[j].addr => i = j
    BY <2>1, EligibleListed
  <2>4. PICK o : Ranks(o, vs)
    BY <2>3, RankedAre
  <2>5. PICK q : EligibleIn(q, vs)
    BY <2>2, EligibleAre
  <2>6. /\ o \in [1..n -> 1..n] /\ DOMAIN ranked = 1..n /\ Len(ranked) = n
        /\ \A k \in 1..n : ranked[k] = e[o[k]]
        /\ \A k, l \in 1..n : k < l => o[k] # o[l] /\ Before(e, o[k], o[l])
    BY <2>4 DEF Ranks
  <2>7. /\ \A i \in 1..n : IsHealthy(e[i])
        /\ (\E i \in 1..Len(vs) : IsHealthy(vs[i])) => n > 0
    BY <2>5 DEF EligibleIn
  <2> HIDE DEF e, n, ranked
  <2>8. n \in Nat
    BY <2>3 DEF Validators
  <2>9. ASSUME NEW k \in 1..n, NEW l \in 1..n, k < l
        PROVE  ~(ranked[l].rate <= ranked[k].rate /\ ranked[l].tokens < ranked[k].tokens)
    <3> DEFINE i == o[k]  j == o[l]
    <3>1. i \in 1..n /\ j \in 1..n /\ Before(e, i, j) /\ ranked[k] = e[i] /\ ranked[l] = e[j]
      BY <2>6, <2>9
    <3> HIDE DEF i, j
    <3>2. ScoreOf(e, i) \in Int
      BY <2>3, <3>1, ScoreOrder
    <3>3. /\ ScoreOf(e, j) \in Int
          /\ e[j].rate <= e[i].rate /\ e[j].tokens < e[i].tokens => ScoreOf(e, j) > ScoreOf(e, i)
      BY <2>3, <3>1, ScoreOrder
    <3>4. e[i].tokens \in Nat /\ e[j].tokens \in Nat
      BY <2>3, <3>1 DEF Validators
    <3>5. Before(e, i, j) /\ e[j].tokens < e[i].tokens => ScoreOf(e, i) > ScoreOf(e, j)
      BY <3>2, <3>3, <3>4 DEF Before
    <3>6. QED BY <3>1, <3>2, <3>3, <3>5
  <2>10. \A k \in 1..n : IsHealthy(ranked[k])
    <3>1. TAKE k \in 1..n
    <3>2. ranked[k] = e[o[k]] /\ o[k] \in 1..n
      BY <2>6
    <3>3. QED BY <2>7, <3>2
  <2>11. (\E i \in DOMAIN vs : IsHealthy(vs[i])) => ranked # <<>>
    <3>1. DOMAIN vs = 1..Len(vs)
      BY <2>2
    <3>2. n > 0 => DOMAIN ranked # {}
      BY <2>6, <2>8
    <3>3. QED BY <2>7, <3>1, <3>2
  <2>12. IsInjective([k \in DOMAIN ranked |-> ranked[k].addr])
    <3>1. ASSUME NEW k \in 1..n, NEW l \in 1..n, ranked[k].addr = ranked[l].addr PROVE k = l
      <4>1. o[k] \in 1..n /\ o[l] \in 1..n /\ e[o[k]].addr = e[o[l]].addr
        BY <2>6, <3>1
      <4>2. o[k] = o[l]
        BY <2>3, <4>1 DEF n
      <4>3. QED BY <2>6, <2>8, <4>2
    <3>2. QED BY <2>6, <3>1 DEF IsInjective
  <2>13. QED BY <2>6, <2>9, <2>10, <2>11, <2>12 DEF ScoresRespectDominance, vs, ranked
<1>2. QED BY <1>1, InputsAsked, PTL

-----------------------------------------------------------------------------
(* Sending                                                                   *)

(* The powers of ten up to a bound.                                          *)
Powers(f, m) == f = [i \in 0..m |-> IF i = 0 THEN 1 ELSE 10 * f[i - 1]]

(* They exist.                                                               *)
LEMMA PowersExist ==
    ASSUME NEW m \in Nat
    PROVE  \E f : Powers(f, m)
<1> DEFINE T == {k \in Nat : \E f : Powers(f, k)}
<1>1. 0 \in T
  <2> DEFINE g == [i \in 0..0 |-> 1]
  <2>1. Powers(g, 0)
    BY DEF Powers
  <2> HIDE DEF g
  <2>2. QED BY <2>1
<1>2. ASSUME NEW k \in Nat, k \in T PROVE k + 1 \in T
  <2>1. PICK f : Powers(f, k)
    BY <1>2
  <2> DEFINE g == [i \in 0..(k + 1) |-> IF i = k + 1 THEN 10 * f[k] ELSE f[i]]
  <2>2. \A i \in 0..k : g[i] = f[i]
    OBVIOUS
  <2>3. \A i \in 0..(k + 1) : g[i] = IF i = 0 THEN 1 ELSE 10 * g[i - 1]
    <3>1. TAKE i \in 0..(k + 1)
    <3>2. CASE i = k + 1
      BY <2>2, <3>2
    <3>3. CASE i \in 1..k
      <4>1. f[i] = 10 * f[i - 1]
        BY <2>1, <3>3 DEF Powers
      <4>2. g[i] = f[i] /\ g[i - 1] = f[i - 1]
        BY <2>2, <3>3
      <4>3. QED BY <3>3, <4>1, <4>2
    <3>4. CASE i = 0
      BY <2>1, <2>2, <3>4 DEF Powers
    <3>5. QED BY <3>2, <3>3, <3>4
  <2>4. Powers(g, k + 1)
    BY <2>3 DEF Powers
  <2> HIDE DEF g
  <2>5. QED BY <2>4
<1>3. Nat \subseteq T
  <2> HIDE DEF T
  <2>1. QED BY <1>1, <1>2, Induction
<1>4. QED BY <1>3

(* A power of ten is a positive number.                                      *)
LEMMA TenToPositive ==
    ASSUME NEW k \in Nat
    PROVE  TenTo(k) \in Nat \ {0} /\ (k = 0 => TenTo(k) = 1)
<1> DEFINE f == CHOOSE g : Powers(g, k)
<1>1. Powers(f, k)
  BY PowersExist
<1>2. TenTo(k) = f[k]
  BY DEF TenTo, Powers
<1> HIDE DEF f
<1>3. f[0] = 1 /\ \A i \in 1..k : f[i] = 10 * f[i - 1]
  BY <1>1 DEF Powers
<1> DEFINE T == {i \in 0..k : f[i] \in Nat \ {0}}
<1>4. 0 \in T
  BY <1>3
<1>5. ASSUME NEW i \in 0..k, i \in T, i < k PROVE i + 1 \in T
  <2>1. f[i + 1] = 10 * f[i]
    BY <1>3, <1>5
  <2>2. QED BY <1>5, <2>1
<1> HIDE DEF T
<1>6. 0..k \subseteq T
  BY <1>4, <1>5, InductionUpTo
<1>7. k \in T
  BY <1>6
<1>8. QED BY <1>2, <1>3, <1>7 DEF T

(* What is left after the fee, and never less than nothing.                  *)
LEMMA MaxSendableIs ==
    ASSUME NEW balance \in Nat, NEW native \in BOOLEAN, NEW fee \in Nat
    PROVE  /\ MaxSendable(balance, native, fee) \in Nat
           /\ MaxSendable(balance, native, fee) <= balance
           /\ native /\ MaxSendable(balance, native, fee) > 0 =>
                MaxSendable(balance, native, fee) = balance - fee
<1> DEFINE x == balance - fee
           m == IF x > 0 THEN x ELSE 0
<1>1. m \in {0, x} /\ \A y \in {0, x} : m >= y
  OBVIOUS
<1>2. \A y \in {0, x} : (\A z \in {0, x} : y >= z) => y = m
  OBVIOUS
<1>3. Max({0, x}) = m
  BY <1>1, <1>2 DEF Max
<1>4. MaxSendable(balance, native, fee) = IF native THEN m ELSE balance
  BY <1>3 DEF MaxSendable
<1>5. QED BY <1>4

(* A decimal brought to base units is a decimal.                             *)
LEMMA UnitsType ==
    ASSUME NEW a, a.n \in Int, a.e \in Nat, NEW decimals \in Nat
    PROVE  Floor(AmountToUAmount(a, decimals)) \in Int
<1> DEFINE s == Shifted(a, decimals)
           p == PlacesOf(decimals)
           b == Places(s, p)
<1>1. s.n \in Int /\ s.e \in Nat
  <2>1. CASE a.e >= decimals
    BY <2>1 DEF Shifted
  <2>2. CASE ~(a.e >= decimals)
    <3>1. TenTo(decimals - a.e) \in Nat
      <4>1. decimals - a.e \in Nat
        BY <2>2
      <4>2. QED BY <4>1, TenToPositive
    <3>2. a.n * TenTo(decimals - a.e) \in Int
      BY <3>1
    <3>3. QED BY <2>2, <3>2 DEF Shifted
  <2>3. QED BY <2>1, <2>2
<1>2. p \in Nat
  BY DEF PlacesOf
<1> HIDE DEF s, p
<1>3. b.n \in Int /\ b.e \in Nat
  <2>1. CASE s.e <= p
    BY <1>1, <2>1 DEF Places
  <2>2. CASE ~(s.e <= p)
    <3>1. s.e - p \in Nat
      BY <1>1, <1>2, <2>2
    <3> DEFINE t == TenTo(s.e - p)
    <3>2. t \in Nat /\ t > 0
      BY <3>1, TenToPositive
    <3>3. RoundHalfUp(s.n, s.e - p) = (s.n + t \div 2) \div t
      BY DEF RoundHalfUp
    <3> HIDE DEF t
    <3>4. t \div 2 \in Int
      BY <3>2
    <3>5. RoundHalfUp(s.n, s.e - p) \in Int
      BY <1>1, <3>2, <3>3, <3>4
    <3>6. QED BY <1>2, <2>2, <3>5 DEF Places
  <2>3. QED BY <2>1, <2>2
<1>4. AmountToUAmount(a, decimals) = b
  BY DEF AmountToUAmount, s, p
<1> HIDE DEF b
<1>5. TenTo(b.e) \in Nat /\ TenTo(b.e) > 0
  BY <1>3, TenToPositive
<1>6. QED BY <1>3, <1>4, <1>5 DEF Floor

(* A whole number of base units comes back from the decimal shown for it.    *)
LEMMA UnitsComeBack ==
    ASSUME NEW u \in Nat, NEW decimals \in Nat
    PROVE  LET filled == UAmountToAmount([n |-> u, e |-> 0], decimals)
           IN  filled.n = u /\ Floor(AmountToUAmount(filled, decimals)) = u
<1> DEFINE filled == [n |-> u, e |-> decimals]
           whole == [n |-> u, e |-> 0]
<1>1. PlacesOf(decimals) \in Nat /\ decimals <= PlacesOf(decimals)
  BY DEF PlacesOf
<1>2. UAmountToAmount(whole, decimals) = filled
  BY <1>1 DEF UAmountToAmount, Places
<1>3. Shifted(filled, decimals) = whole
  BY DEF Shifted
<1>4. AmountToUAmount(filled, decimals) = whole
  BY <1>1, <1>3 DEF AmountToUAmount, Places
<1>5. TenTo(0) = 1
  BY TenToPositive
<1>6. Floor(whole) = u
  BY <1>5 DEF Floor
<1>7. QED BY <1>2, <1>4, <1>6

(* What the Send form lets through can be paid, fee included, and what its   *)
(* Max button fills in is let through unchanged (validateSendAmount and      *)
(* maxSendableUAmount), for every balance, fee and number of decimals.       *)
THEOREM SendIsPayable == Spec => []SendCanBePaid
<1>1. AskedInv => SendCanBePaid
  <2> SUFFICES ASSUME AskedInv, asked.fn = "send" PROVE SendCanBePaid
    BY DEF SendCanBePaid
  <2> DEFINE x == asked.in
             check(a) == ValidateSendAmount(a, x.denom, x.decimals, x.balance, x.fee, x.feeBalance)
             native == x.denom = FeeDenom
             max == MaxSendable(x.balance, native, x.fee)
             filled == UAmountToAmount([n |-> max, e |-> 0], x.decimals)
             units(a) == Floor(AmountToUAmount(a, x.decimals))
  <2>1. SendAsked(x)
    <3>1. x \in SendInputs
      BY DEF AskedInv
    <3> HIDE DEF x
    <3>2. QED BY <3>1, HelpersAssumption
  <2> HIDE DEF x
  <2>2. /\ x.balance \in Nat /\ x.feeBalance \in Nat /\ x.fee \in Nat /\ x.decimals \in Nat
        /\ x.typed.n \in Int /\ x.typed.e \in Nat
    BY <2>1 DEF SendAsked
  <2>3. units(x.typed) \in Int
    BY <2>2, UnitsType
  <2>4. \A a : check(a).valid =>
           /\ check(a).uAmount = units(a)
           /\ ~(units(a) > x.balance) /\ ~(native /\ units(a) > x.balance - x.fee)
           /\ ~(~native /\ x.fee > 0 /\ x.feeBalance < x.fee)
    BY DEF ValidateSendAmount
  <2>5. \A a : /\ a # Blank /\ ~(a.n <= 0) /\ ~(units(a) <= 0)
               /\ ~(units(a) > x.balance) /\ ~(native /\ units(a) > x.balance - x.fee)
               /\ ~(~native /\ x.fee > 0 /\ x.feeBalance < x.fee)
               => check(a).valid /\ check(a).uAmount = units(a)
    BY DEF ValidateSendAmount
  <2>6. /\ max \in Nat /\ max <= x.balance /\ (native /\ max > 0 => max = x.balance - x.fee)
    BY <2>2, MaxSendableIs
  <2>7. filled.n = max /\ units(filled) = max
    BY <2>2, <2>6, UnitsComeBack
  <2>8. max > 0 => filled # Blank
    BY <2>6, <2>7 DEF Blank
  <2> HIDE DEF check, max, filled, units
  <2>9. check(x.typed).valid =>
           /\ check(x.typed).uAmount + (IF native THEN x.fee ELSE 0) <= x.balance
           /\ ~native => x.fee <= x.feeBalance
    BY <2>2, <2>3, <2>4
  <2>10. max > 0 /\ (~native => x.fee <= x.feeBalance)
            => check(filled).valid /\ check(filled).uAmount = max
    BY <2>2, <2>5, <2>6, <2>7, <2>8
  <2>11. QED BY <2>9, <2>10 DEF SendCanBePaid, x, check, max, filled
<1>2. QED BY <1>1, InputsAsked, PTL

-----------------------------------------------------------------------------
(* Stake health                                                              *)

(* A fix is another, active validator of the bonded list.                    *)
LEMMA FixIsAnother ==
    ASSUME NEW vs, ValidatorsListed(vs), NEW exclude, PickFixValidator(vs, exclude) # NoValidator
    PROVE  /\ PickFixValidator(vs, exclude) # exclude
           /\ \E v \in Range(vs) : v.addr = PickFixValidator(vs, exclude) /\ IsHealthy(v)
<1> DEFINE e == EligibleValidators(vs)
           S == Range(vs)
           ranked == ScoreValidators(vs)
           P == {i \in DOMAIN ranked : ranked[i].addr # exclude}
           scores == Kept(ranked, P)
           top == SelectTopValidators(scores, 1)
<1>1. PickFixValidator(vs, exclude) = IF top = <<>> THEN NoValidator ELSE top[1].addr
  BY DEF PickFixValidator
<1>2. vs \in Seq(S)
  BY DEF ValidatorsListed, Listed
<1>3. Validators(e, Len(e)) /\ e \in Seq(S)
  BY EligibleListed
<1>4. PICK o : Ranks(o, vs)
  BY <1>3, RankedAre
<1>5. PICK q : EligibleIn(q, vs)
  BY <1>2, EligibleAre
<1>6. /\ Len(e) \in Nat /\ o \in [1..Len(e) -> 1..Len(e)] /\ DOMAIN ranked = 1..Len(e)
      /\ \A k \in 1..Len(e) : ranked[k] = e[o[k]]
  BY <1>3, <1>4 DEF Ranks
<1>7. \A i \in 1..Len(e) : e[i] \in S /\ IsHealthy(e[i])
  BY <1>3, <1>5 DEF EligibleIn
<1>8. ranked = [k \in 1..Len(e) |-> ranked[k]]
  BY <1>6 DEF ScoreValidators
<1>9. \A i \in 1..Len(e) : ranked[i] \in S /\ IsHealthy(ranked[i])
  <2> HIDE DEF e, S, ranked
  <2>1. QED BY <1>6, <1>7
<1> HIDE DEF e, S, ranked
<1>10. ranked \in Seq(S) /\ Len(ranked) = Len(e)
  BY <1>6, <1>8, <1>9
<1>11. PICK p : Lists(scores, p, ranked, P \cap (1..Len(ranked)), S)
  <2> HIDE DEF P
  <2>1. QED BY <1>10, KeptLists
<1>12. /\ scores \in Seq(S) /\ Len(scores) \in Nat
       /\ \A i \in 1..Len(scores) : scores[i] = ranked[p[i]] /\ p[i] \in P
  BY <1>11 DEF Lists
<1> HIDE DEF scores
<1>13. top = SubSeq(scores, 1, IF 1 <= Len(scores) THEN 1 ELSE Len(scores))
  BY <1>12, MinOfTwo DEF SelectTopValidators
<1> HIDE DEF top
<1>14. top # <<>>
  BY <1>1
<1>15. Len(scores) >= 1
  <2> SUFFICES ASSUME ~(Len(scores) >= 1) PROVE FALSE
    OBVIOUS
  <2>1. Len(scores) = 0
    BY <1>12
  <2>2. top = SubSeq(scores, 1, 0)
    BY <1>13, <2>1
  <2>3. SubSeq(scores, 1, 0) = <<>>
    BY <1>12
  <2>4. QED BY <1>14, <2>2, <2>3
<1>16. top[1] = scores[1]
  BY <1>12, <1>13, <1>15
<1>17. scores[1] = ranked[p[1]] /\ p[1] \in P
  BY <1>12, <1>15
<1>18. p[1] \in 1..Len(e) /\ ranked[p[1]].addr # exclude
  BY <1>6, <1>17
<1>19. ranked[p[1]] \in S /\ IsHealthy(ranked[p[1]])
  BY <1>9, <1>18
<1>20. PickFixValidator(vs, exclude) = ranked[p[1]].addr
  BY <1>1, <1>14, <1>16, <1>17
<1>21. QED BY <1>18, <1>19, <1>20 DEF S

(* The largest element of a set of one.                                      *)
LEMMA MaxOfOne ==
    ASSUME NEW x \in Int
    PROVE  Max({x}) = x
<1>1. x \in {x} /\ \A y \in {x} : x >= y
  OBVIOUS
<1>2. QED BY <1>1 DEF Max

(* An entry of a list whose keys are distinct is the one its key finds.      *)
LEMMA Lookup ==
    ASSUME NEW vs, NEW n \in Nat, DOMAIN vs = 1..n, NEW i \in 1..n,
           \A j \in 1..n : vs[j].addr = vs[i].addr => j = i
    PROVE  ValidatorAt(vs, vs[i].addr) = <<vs[i]>>
<1> DEFINE at == {j \in DOMAIN vs : vs[j].addr = vs[i].addr}
<1>1. at = {i}
  OBVIOUS
<1>2. Max(at) = i
  BY <1>1, MaxOfOne
<1>3. QED BY <1>1, <1>2 DEF ValidatorAt

(* The same for programs and their ids.                                      *)
LEMMA LookupReward ==
    ASSUME NEW rs, NEW n \in Nat, DOMAIN rs = 1..n, NEW i \in 1..n,
           \A j \in 1..n : rs[j].id = rs[i].id => j = i
    PROVE  RewardAt(rs, rs[i].id) = <<rs[i]>>
<1> DEFINE at == {j \in DOMAIN rs : rs[j].id = rs[i].id}
<1>1. at = {i}
  OBVIOUS
<1>2. Max(at) = i
  BY <1>1, MaxOfOne
<1>3. QED BY <1>1, <1>2 DEF RewardAt

(* A list of the elements at some places has as many elements as places.     *)
LEMMA ListsCount ==
    ASSUME NEW k, NEW p, NEW s, NEW P, NEW S, Lists(k, p, s, P, S), P \subseteq Int
    PROVE  Len(k) = Cardinality(P)
<1> DEFINE n == Len(k)
<1>1. n \in Nat /\ p \in [1..n -> P]
  BY DEF Lists
<1>2. p \in Bijection(1..n, P)
  <2>1. \A i, j \in 1..n : i < j => p[i] < p[j]
    BY DEF Lists
  <2>2. \A x \in P : \E i \in 1..n : p[i] = x
    BY DEF Lists
  <2> HIDE DEF n
  <2>3. \A i, j \in 1..n : p[i] = p[j] => i = j
    <3>1. TAKE i, j \in 1..n
    <3>2. p[i] \in Int /\ p[j] \in Int
      BY <1>1
    <3>3. QED BY <1>1, <2>1, <3>2
  <2>4. QED BY <1>1, <2>2, <2>3 DEF Bijection, Injection, Surjection, IsInjective
<1>3. IsFiniteSet(1..n) /\ Cardinality(1..n) = n
  BY <1>1, FS_Interval
<1>4. Cardinality(1..n) = Cardinality(P)
  <2>1. ExistsBijection(1..n, P)
    BY <1>2 DEF ExistsBijection
  <2>2. QED BY <1>3, <2>1, FS_Bijection
<1>5. QED BY <1>3, <1>4

(* The places of the delegations that do not earn, as the Map of validators  *)
(* finds them and as the list of validators shows them.                      *)
LEMMA StuckPlaces ==
    ASSUME NEW data, OverviewListed(data), NEW i \in DOMAIN data.delegations
    PROVE  LET del == data.delegations[i]
               v   == ValidatorAt(data.delegated, del.val)
           IN  v # <<>> /\ ~IsHealthy(v[1])
                 <=> \E u \in Range(data.delegated) : u.addr = del.val /\ ~IsHealthy(u)
<1> DEFINE val == data.delegations[i].val
           vs == data.delegated
           n == Len(vs)
           v == ValidatorAt(vs, val)
<1>1. ValidatorsListed(vs)
  BY DEF OverviewListed
<1> HIDE DEF val, vs
<1>2. vs \in Seq(Range(vs)) /\ DOMAIN vs = 1..n /\ n \in Nat
  BY <1>1 DEF ValidatorsListed, Listed
<1>3. \A j, k \in 1..n : vs[j].addr = vs[k].addr => j = k
  <2> DEFINE f == [j \in DOMAIN vs |-> vs[j].addr]
  <2>1. \A j, k \in 1..n : f[j] = f[k] => j = k
    BY <1>1, <1>2 DEF ValidatorsListed, IsInjective
  <2>2. \A j \in 1..n : f[j] = vs[j].addr
    BY <1>2
  <2> HIDE DEF f
  <2>3. QED BY <2>1, <2>2
<1>4. \A j \in 1..n : vs[j].addr = val => v = <<vs[j]>>
  <2> HIDE DEF n
  <2>1. TAKE j \in 1..n
  <2>2. HAVE vs[j].addr = val
  <2>3. \A k \in 1..n : vs[k].addr = vs[j].addr => k = j
    BY <1>3
  <2>4. ValidatorAt(vs, vs[j].addr) = <<vs[j]>>
    BY <1>2, <2>3, Lookup
  <2>5. QED BY <2>2, <2>4
<1>5. (\A j \in 1..n : vs[j].addr # val) => v = <<>>
  BY <1>2 DEF ValidatorAt
<1>6. Range(vs) = {vs[j] : j \in 1..n}
  BY <1>2 DEF Range
<1> HIDE DEF n, v
<1>7. (\E u \in Range(vs) : u.addr = val /\ ~IsHealthy(u)) => v # <<>> /\ ~IsHealthy(v[1])
  BY <1>4, <1>6
<1>8. v # <<>> /\ ~IsHealthy(v[1]) => \E u \in Range(vs) : u.addr = val /\ ~IsHealthy(u)
  <2> SUFFICES ASSUME v # <<>>, ~IsHealthy(v[1])
               PROVE  \E u \in Range(vs) : u.addr = val /\ ~IsHealthy(u)
    OBVIOUS
  <2>1. PICK j \in 1..n : vs[j].addr = val
    BY <1>5
  <2>2. v = <<vs[j]>>
    BY <1>4, <2>1
  <2>3. v[1] = vs[j]
    BY <2>2
  <2>4. QED BY <1>6, <2>1, <2>3
<1>9. QED BY <1>7, <1>8 DEF v, vs, val

(* Which program a participation finds.                                      *)
LEMMA ProgramFound ==
    ASSUME NEW data, OverviewListed(data), NEW r \in Range(data.rewards)
    PROVE  RewardAt(data.rewards, r.id) = <<r>>
<1> DEFINE rs == data.rewards
           n == Len(rs)
<1>1. rs \in Seq(Range(rs)) /\ DOMAIN rs = 1..n /\ n \in Nat
  BY DEF OverviewListed, Listed
<1>2. \A j, k \in 1..n : rs[j].id = rs[k].id => j = k
  <2> DEFINE f == [j \in DOMAIN rs |-> rs[j].id]
  <2>1. \A j, k \in 1..n : f[j] = f[k] => j = k
    BY <1>1 DEF OverviewListed, IsInjective
  <2>2. \A j \in 1..n : f[j] = rs[j].id
    BY <1>1
  <2> HIDE DEF f
  <2>3. QED BY <2>1, <2>2
<1>3. PICK i \in 1..n : r = rs[i]
  BY <1>1 DEF Range
<1> HIDE DEF n
<1>4. \A j \in 1..n : rs[j].id = rs[i].id => j = i
  BY <1>2
<1>5. RewardAt(rs, rs[i].id) = <<rs[i]>>
  <2> HIDE DEF rs
  <2>1. QED BY <1>1, <1>4, LookupReward
<1>6. QED BY <1>3, <1>5

(* Stuck delegations are reported, each once, with a sound fix.              *)
LEMMA DelegationsReported ==
    ASSUME NEW data, OverviewListed(data)
    PROVE  LET native == DelegationIssues(data)
               dels == data.delegations
               stuck(i) == /\ dels[i].amount > 0
                           /\ \E v \in Range(data.delegated) : v.addr = dels[i].val /\ ~IsHealthy(v)
           IN  /\ \A k \in DOMAIN native :
                    native[k].dst # NoValidator =>
                       /\ native[k].dst # native[k].src
                       /\ \E v \in Range(data.bonded) : v.addr = native[k].dst /\ IsHealthy(v)
               /\ Len(native) = Cardinality({i \in DOMAIN dels : stuck(i)})
<1> DEFINE native == DelegationIssues(data)
           dels == data.delegations
           found(del) == LET v == ValidatorAt(data.delegated, del.val)
                         IN  del.amount > 0 /\ v # <<>> /\ ~IsHealthy(v[1])
           P == {i \in DOMAIN dels : found(dels[i])}
           stuck(i) == /\ dels[i].amount > 0
                       /\ \E v \in Range(data.delegated) : v.addr = dels[i].val /\ ~IsHealthy(v)
           Q == {i \in DOMAIN dels : stuck(i)}
           kept == Kept(dels, P)
           S == Range(dels)
<1>1. native = [k \in DOMAIN kept |->
                  [type |-> "validator_inactive", amount |-> kept[k].amount,
                   reason |-> ReasonOf(ValidatorAt(data.delegated, kept[k].val)[1]),
                   src |-> kept[k].val, dst |-> PickFixValidator(data.bonded, kept[k].val)]]
  BY DEF DelegationIssues
<1>2. dels \in Seq(S) /\ DOMAIN dels = 1..Len(dels) /\ Len(dels) \in Nat
  BY DEF OverviewListed, Listed
<1>3. P = Q
  <2>1. \A i \in DOMAIN dels : found(dels[i]) <=> stuck(i)
    BY StuckPlaces
  <2>2. QED BY <2>1
<1>4. P \subseteq 1..Len(dels) /\ P \cap (1..Len(dels)) = P
  BY <1>2
<1> HIDE DEF P, Q, dels
<1>5. PICK p : Lists(kept, p, dels, P, S)
  <2> HIDE DEF S
  <2>1. QED BY <1>2, <1>4, KeptLists
<1>6. Len(kept) = Cardinality(P)
  <2>1. P \subseteq Int
    BY <1>2, <1>4
  <2>2. QED BY <1>5, <2>1, ListsCount
<1>7. kept \in Seq(S)
  BY <1>5 DEF Lists
<1> HIDE DEF kept, native
<1>8. Len(native) = Len(kept) /\ DOMAIN native = DOMAIN kept
  <2>1. DOMAIN kept = 1..Len(kept) /\ Len(kept) \in Nat
    BY <1>7
  <2>2. QED BY <1>1, <2>1
<1>9. ASSUME NEW k \in DOMAIN native, native[k].dst # NoValidator
      PROVE  /\ native[k].dst # native[k].src
             /\ \E v \in Range(data.bonded) : v.addr = native[k].dst /\ IsHealthy(v)
  <2>1. native[k].src = kept[k].val /\ native[k].dst = PickFixValidator(data.bonded, kept[k].val)
    BY <1>1, <1>8
  <2>2. ValidatorsListed(data.bonded)
    BY DEF OverviewListed
  <2>3. PickFixValidator(data.bonded, kept[k].val) # NoValidator
    BY <1>9, <2>1
  <2>4. /\ PickFixValidator(data.bonded, kept[k].val) # kept[k].val
        /\ \E v \in Range(data.bonded) :
              v.addr = PickFixValidator(data.bonded, kept[k].val) /\ IsHealthy(v)
    BY <2>2, <2>3, FixIsAnother
  <2>5. QED BY <2>1, <2>4
<1>10. QED BY <1>3, <1>6, <1>8, <1>9 DEF native, Q, dels

(* An ended program is reported exactly when it is no longer offered.        *)
LEMMA EndedReported ==
    ASSUME NEW data, OverviewListed(data),
           NEW x \in Range(data.participants), NEW r \in Range(data.rewards),
           x.amount > 0, r.id = x.id, r.duration > 0
    PROVE  (\E k \in DOMAIN RewardIssues(data) : RewardIssues(data)[k].id = x.id)
              <=> ~IsRewardActive(r)
<1> DEFINE issues == RewardIssues(data)
           ps == data.participants
           ended(y) == LET f == RewardAt(data.rewards, y.id)
                       IN  y.amount > 0 /\ (f = <<>> \/ IsFinished(f[1]))
           P == {i \in DOMAIN ps : ended(ps[i])}
           over == Kept(ps, P)
           S == Range(ps)
<1>1. issues = [k \in DOMAIN over |->
                  [type |-> "finished_reward", amount |-> over[k].amount, id |-> over[k].id]]
  BY DEF RewardIssues
<1>2. ps \in Seq(S) /\ DOMAIN ps = 1..Len(ps) /\ Len(ps) \in Nat
  BY DEF OverviewListed, Listed
<1>3. RewardAt(data.rewards, x.id) = <<r>>
  BY ProgramFound
<1>4. IsFinished(r) <=> ~IsRewardActive(r)
  <2>1. r.payouts \in Nat /\ r.duration \in Nat
    BY DEF OverviewListed
  <2>2. QED BY <2>1 DEF IsFinished, IsRewardActive
<1>5. \A y : y.id = x.id /\ y.amount > 0 => (ended(y) <=> IsFinished(r))
  <2>1. <<r>> # <<>> /\ <<r>>[1] = r
    OBVIOUS
  <2>2. QED BY <1>3, <2>1
<1>6. \A y : ended(y) => y.amount > 0
  OBVIOUS
<1> HIDE DEF ended
<1>7. P \subseteq 1..Len(ps) /\ P \cap (1..Len(ps)) = P
  BY <1>2
<1>8. \A i \in 1..Len(ps) : i \in P <=> ended(ps[i])
  BY <1>2
<1>9. PICK j \in 1..Len(ps) : ps[j] = x
  BY <1>2 DEF Range
<1> HIDE DEF P, ps
<1>10. PICK p : Lists(over, p, ps, P, S)
  <2> HIDE DEF S
  <2>1. QED BY <1>2, <1>7, KeptLists
<1>11. /\ over \in Seq(S) /\ DOMAIN over = 1..Len(over)
       /\ \A k \in 1..Len(over) : over[k] = ps[p[k]] /\ p[k] \in P
       /\ \A i \in P : \E k \in 1..Len(over) : p[k] = i
  BY <1>10 DEF Lists
<1> HIDE DEF over, issues, S
<1>12. DOMAIN issues = 1..Len(over) /\ \A k \in 1..Len(over) : issues[k].id = over[k].id
  BY <1>1, <1>11
<1>13. ASSUME NEW k \in DOMAIN issues, issues[k].id = x.id PROVE IsFinished(r)
  <2>1. p[k] \in P /\ over[k] = ps[p[k]] /\ over[k].id = x.id
    BY <1>11, <1>12, <1>13
  <2>2. ended(over[k])
    BY <1>7, <1>8, <2>1
  <2>3. QED BY <1>5, <1>6, <2>1, <2>2
<1>14. ASSUME IsFinished(r) PROVE \E k \in DOMAIN issues : issues[k].id = x.id
  <2>1. ended(x)
    BY <1>5, <1>14
  <2>2. j \in P
    BY <1>8, <1>9, <2>1
  <2>3. PICK k \in 1..Len(over) : p[k] = j
    BY <1>11, <2>2
  <2>4. over[k] = x
    BY <1>9, <1>11, <2>3
  <2>5. QED BY <1>12, <2>4
<1>15. QED BY <1>4, <1>13, <1>14 DEF issues

(* What the stake-health warning reports and offers is sound: each stuck     *)
(* delegation once, fixes that move it to another active bonded validator,   *)
(* and a program as ended exactly when the Earn list no longer offers it     *)
(* (computeStakeHealth of stakeHealth.ts, isRewardActive).                   *)
THEOREM AdviceIsSound == Spec => []HealthAdviceIsSound
<1>1. AskedInv => HealthAdviceIsSound
  <2> SUFFICES ASSUME AskedInv, asked.fn = "health" PROVE HealthAdviceIsSound
    BY DEF HealthAdviceIsSound
  <2> DEFINE data == asked.in
  <2>1. OverviewListed(data)
    <3>1. data \in HealthInputs
      BY DEF AskedInv
    <3> HIDE DEF data
    <3>2. QED BY <3>1, HelpersAssumption
  <2> HIDE DEF data
  <2>2. \A x \in Range(data.participants), r \in Range(data.rewards) :
           x.amount > 0 /\ r.id = x.id /\ r.duration > 0 =>
              ((\E k \in DOMAIN RewardIssues(data) : RewardIssues(data)[k].id = x.id)
                  <=> ~IsRewardActive(r))
    BY <2>1, EndedReported
  <2>3. QED BY <2>1, <2>2, DelegationsReported DEF HealthAdviceIsSound, data
<1>2. QED BY <1>1, InputsAsked, PTL

-----------------------------------------------------------------------------
(* The chart                                                                 *)

(* Strictly ordered in time.                                                 *)
InTime(s) == \A i, j \in 1..Len(s) : i < j => s[i].time < s[j].time

(* The bars of a series.                                                     *)
LEMMA BarsOfSeries ==
    ASSUME NEW s \in Seq(Bars)
    PROVE  /\ Len(s) \in Nat /\ DOMAIN s = 1..Len(s)
           /\ \A i \in 1..Len(s) : s[i] \in Bars /\ s[i].time \in Int
<1>1. Len(s) \in Nat /\ DOMAIN s = 1..Len(s) /\ \A i \in 1..Len(s) : s[i] \in Bars
  OBVIOUS
<1>2. \A b \in Bars : b.time \in Int
  BY DEF Bars
<1>3. QED BY <1>1, <1>2

(* The first elements of a sequence.                                         *)
LEMMA FirstPart ==
    ASSUME NEW S, NEW s \in Seq(S), NEW m \in 0..Len(s)
    PROVE  /\ SubSeq(s, 1, m) \in Seq(S) /\ Len(SubSeq(s, 1, m)) = m
           /\ \A i \in 1..m : SubSeq(s, 1, m)[i] = s[i]
<1>1. m \in Nat /\ Len(s) \in Nat /\ m <= Len(s)
  OBVIOUS
<1>2. SubSeq(s, 1, m) \in Seq(S)
  BY <1>1
<1>3. Len(SubSeq(s, 1, m)) = m
  BY <1>1
<1>4. \A i \in 1..m : SubSeq(s, 1, m)[i] = s[i]
  BY <1>1
<1>5. QED BY <1>2, <1>3, <1>4

(* The chart library takes a bar that is not older than the last.            *)
LEMMA UpdateKeepsOrder ==
    ASSUME NEW s \in Seq(Bars), InTime(s), NEW c \in Bars,
           Len(s) > 0 => s[Len(s)].time <= c.time
    PROVE  LET t == UpdateSeries(s, c)
           IN  t \in Seq(Bars) /\ InTime(t) /\ Len(t) > 0 /\ t[Len(t)] = c
<1> DEFINE n == Len(s)
           t == UpdateSeries(s, c)
<1>1. n \in Nat /\ c.time \in Int /\ \A i \in 1..n : s[i] \in Bars /\ s[i].time \in Int
  <2>1. c.time \in Int
    BY DEF Bars
  <2>2. QED BY <2>1, BarsOfSeries
<1>2. s = <<>> <=> n = 0
  OBVIOUS
<1>3. CASE n = 0 \/ s[n].time # c.time
  <2>1. t = Append(s, c)
    BY <1>2, <1>3 DEF UpdateSeries, Last
  <2> HIDE DEF t
  <2>2. /\ t \in Seq(Bars) /\ Len(t) = n + 1 /\ t[n + 1] = c
        /\ \A i \in 1..n : t[i] = s[i]
    BY <2>1
  <2>3. \A i \in 1..n : s[i].time < c.time
    <3>1. TAKE i \in 1..n
    <3>2. n > 0 /\ n \in 1..n /\ s[n].time < c.time
      BY <1>1, <1>3
    <3>3. i = n \/ s[i].time < s[n].time
      BY <1>1, <3>2 DEF InTime
    <3>4. QED BY <1>1, <3>2, <3>3
  <2>4. InTime(t)
    <3>1. ASSUME NEW i \in 1..(n + 1), NEW j \in 1..(n + 1), i < j PROVE t[i].time < t[j].time
      <4>1. i \in 1..n
        BY <1>1, <3>1
      <4>2. CASE j = n + 1
        BY <2>2, <2>3, <4>1, <4>2
      <4>3. CASE j \in 1..n
        BY <2>2, <3>1, <4>1, <4>3 DEF InTime
      <4>4. QED BY <1>1, <4>2, <4>3
    <3>2. QED BY <2>2, <3>1 DEF InTime
  <2>5. Len(t) > 0 /\ t[Len(t)] = c
    BY <1>1, <2>2
  <2>6. QED BY <2>2, <2>4, <2>5 DEF t
<1>4. CASE n > 0 /\ s[n].time = c.time
  <2>1. t = Append(SubSeq(s, 1, n - 1), c)
    BY <1>1, <1>2, <1>4 DEF UpdateSeries, Last, Front
  <2> HIDE DEF t
  <2>2. /\ SubSeq(s, 1, n - 1) \in Seq(Bars) /\ Len(SubSeq(s, 1, n - 1)) = n - 1
        /\ \A i \in 1..(n - 1) : SubSeq(s, 1, n - 1)[i] = s[i]
    <3>1. n - 1 \in 0..Len(s)
      BY <1>1, <1>4
    <3>2. QED BY <3>1, FirstPart
  <2> DEFINE u == SubSeq(s, 1, n - 1)
  <2> HIDE DEF u, n
  <2>3. /\ t \in Seq(Bars) /\ Len(t) = n /\ t[n] = c
        /\ \A i \in 1..(n - 1) : t[i] = s[i]
    <3>1. t = Append(u, c) /\ u \in Seq(Bars) /\ Len(u) = n - 1
      BY <2>1, <2>2 DEF u
    <3>2. t \in Seq(Bars) /\ Len(t) = Len(u) + 1 /\ t[Len(u) + 1] = c /\ \A i \in 1..Len(u) : t[i] = u[i]
      BY <3>1
    <3>3. QED BY <1>1, <2>2, <3>1, <3>2 DEF u
  <2>4. \A i \in 1..n : t[i].time = s[i].time
    <3>1. TAKE i \in 1..n
    <3>2. i = n \/ i \in 1..(n - 1)
      BY <1>1
    <3>3. QED BY <1>4, <2>3, <3>2
  <2>5. InTime(t)
    BY <2>3, <2>4 DEF InTime, n
  <2>6. QED BY <1>4, <2>3, <2>5 DEF t
<1>5. QED BY <1>1, <1>3, <1>4

(* What can be drawn of a series in order is in order.                       *)
LEMMA DrawableInTime ==
    ASSUME NEW s \in Seq(Bars), InTime(s), NEW line
    PROVE  LET d == DrawableOf(s, line)
           IN  /\ d \in Seq(Bars) /\ InTime(d)
               /\ Len(d) > 0 => Len(s) > 0 /\ d[Len(d)].time <= s[Len(s)].time
<1> DEFINE at == {i \in DOMAIN s : Drawable(s[i], line)}
           P == at \cap (1..Len(s))
           d == Kept(s, at)
<1>1. PICK p : Lists(d, p, s, P, Bars)
  BY KeptLists
<1>2. DrawableOf(s, line) = d
  BY DEF DrawableOf
<1>3. P \subseteq 1..Len(s)
  OBVIOUS
<1> HIDE DEF at, P, d
<1>4. /\ d \in Seq(Bars) /\ Len(d) \in Nat /\ Len(s) \in Nat
      /\ \A i \in 1..Len(d) : p[i] \in 1..Len(s) /\ d[i] = s[p[i]]
      /\ \A i, j \in 1..Len(d) : i < j => p[i] < p[j]
  <2>1. d \in Seq(Bars)
    BY <1>1 DEF Lists
  <2>2. p \in [1..Len(d) -> P]
    BY <1>1 DEF Lists
  <2>3. \A i \in 1..Len(d) : d[i] = s[p[i]]
    BY <1>1 DEF Lists
  <2>4. \A i, j \in 1..Len(d) : i < j => p[i] < p[j]
    BY <1>1 DEF Lists
  <2>5. Len(d) \in Nat
    BY <2>1
  <2>6. Len(s) \in Nat
    OBVIOUS
  <2>7. \A i \in 1..Len(d) : p[i] \in 1..Len(s)
    BY <1>3, <2>2
  <2>8. QED BY <2>1, <2>3, <2>4, <2>5, <2>6, <2>7
<1>5. \A i \in 1..Len(s) : s[i].time \in Int
  BY BarsOfSeries
<1>6. InTime(d)
  BY <1>4 DEF InTime
<1>7. ASSUME Len(d) > 0 PROVE Len(s) > 0 /\ d[Len(d)].time <= s[Len(s)].time
  <2> DEFINE k == p[Len(d)]
  <2>1. k \in 1..Len(s) /\ d[Len(d)] = s[k]
    BY <1>4, <1>7
  <2> HIDE DEF k
  <2>2. k = Len(s) \/ s[k].time < s[Len(s)].time
    BY <1>4, <2>1 DEF InTime
  <2>3. QED BY <1>4, <1>5, <2>1, <2>2
<1>8. QED BY <1>2, <1>4, <1>6, <1>7

Charts == [line : BOOLEAN, bars : Seq(Bars), lastTime : Seq(Int)]

(* A chart of a series that ends at a time: its bars in order, and candles   *)
(* are compared with the last of them, or with the end of the series if that *)
(* was not drawn.                                                            *)
InOrder(chart, end) ==
    /\ chart \in Charts /\ InTime(chart.bars)
    /\ Len(chart.lastTime) = 1 /\ chart.lastTime[1] \in Int /\ end <= chart.lastTime[1]
    /\ Len(chart.bars) > 0 => chart.bars[Len(chart.bars)].time <= chart.lastTime[1]
    /\ \/ chart.lastTime[1] = end
       \/ Len(chart.bars) > 0 /\ chart.bars[Len(chart.bars)].time = chart.lastTime[1]

(* A bar at a time, or a newer one, is the last of a chart.                  *)
Reaches(chart, time) == Len(chart.bars) > 0 /\ time <= chart.bars[Len(chart.bars)].time

(* A polled candle keeps that, and is on the chart if it can be.             *)
LEMMA MergedInOrder ==
    ASSUME NEW chart, NEW end \in Int, InOrder(chart, end), NEW c \in Bars
    PROVE  LET u == Merged(chart, c)
           IN  /\ InOrder(u, end) /\ u.line = chart.line
               /\ Drawable(c, chart.line) /\ end <= c.time => Reaches(u, c.time)
               /\ \A t \in Int : Reaches(chart, t) => Reaches(u, t)
<1> DEFINE u == Merged(chart, c)
           last == chart.lastTime[1]
           n == Len(chart.bars)
<1>1. /\ c.time \in Int /\ last \in Int /\ chart.bars \in Seq(Bars) /\ n \in Nat
      /\ chart.lastTime # <<>>
      /\ n > 0 => chart.bars[n].time \in Int
  <2>1. c.time \in Int /\ last \in Int /\ chart.bars \in Seq(Bars) /\ Len(chart.lastTime) = 1
    BY DEF InOrder, Charts, Bars
  <2>2. n \in Nat /\ \A i \in 1..n : chart.bars[i].time \in Int
    BY <2>1, BarsOfSeries
  <2>3. QED BY <2>1, <2>2
<1>2. CASE CandleOp(chart.lastTime, c.time) = "stale" \/ ~Drawable(c, chart.line)
  <2>1. u = chart
    BY <1>2 DEF Merged
  <2> HIDE DEF u
  <2>2. ASSUME Drawable(c, chart.line), end <= c.time PROVE Reaches(chart, c.time)
    <3>1. c.time < last
      BY <1>1, <1>2, <2>2 DEF CandleOp
    <3>2. n > 0 /\ chart.bars[n].time = last
      BY <1>1, <2>2, <3>1 DEF InOrder
    <3>3. QED BY <1>1, <3>1, <3>2 DEF Reaches
  <2>3. QED BY <2>1, <2>2 DEF u
<1>3. CASE CandleOp(chart.lastTime, c.time) # "stale" /\ Drawable(c, chart.line)
  <2> DEFINE b == UpdateSeries(chart.bars, c)
  <2>1. last <= c.time
    BY <1>1, <1>3 DEF CandleOp
  <2>2. n > 0 => chart.bars[n].time <= last
    BY DEF InOrder
  <2>3. b \in Seq(Bars) /\ InTime(b) /\ Len(b) > 0 /\ b[Len(b)] = c
    <3>1. n > 0 => chart.bars[n].time <= c.time
      BY <1>1, <2>1, <2>2
    <3>2. QED BY <1>1, <3>1, UpdateKeepsOrder DEF InOrder
  <2>4. u = [chart EXCEPT !.bars = b, !.lastTime = <<c.time>>]
    BY <1>1, <1>3 DEF Merged
  <2> HIDE DEF b, u
  <2>5. u \in Charts /\ u.line = chart.line /\ u.bars = b /\ u.lastTime = <<c.time>>
    <3>1. chart \in Charts /\ <<c.time>> \in Seq(Int)
      BY <1>1 DEF InOrder
    <3>2. QED BY <2>3, <2>4, <3>1 DEF Charts
  <2>6. end <= c.time
    BY <1>1, <2>1 DEF InOrder
  <2>7. InOrder(u, end)
    BY <1>1, <2>3, <2>5, <2>6 DEF InOrder
  <2>8. Reaches(u, c.time)
    BY <1>1, <2>3, <2>5 DEF Reaches
  <2>9. ASSUME NEW t \in Int, Reaches(chart, t) PROVE Reaches(u, t)
    <3>1. t <= c.time
      BY <1>1, <2>1, <2>2, <2>9 DEF Reaches
    <3>2. QED BY <1>1, <2>3, <2>5, <3>1 DEF Reaches
  <2>10. QED BY <2>5, <2>7, <2>8, <2>9 DEF u
<1>4. QED BY <1>2, <1>3

(* The chart after each of the first m polls.                                *)
ChartUpTo(f, parsed, live, m) ==
    f = [n \in 0..m |-> IF n = 0 THEN Drawn(parsed) ELSE Merged(f[n - 1], live[n])]

(* They exist.                                                               *)
LEMMA ChartsExist ==
    ASSUME NEW parsed, NEW live, NEW m \in Nat
    PROVE  \E f : ChartUpTo(f, parsed, live, m)
<1> DEFINE T == {k \in Nat : \E f : ChartUpTo(f, parsed, live, k)}
<1>1. 0 \in T
  <2> DEFINE g == [n \in 0..0 |-> Drawn(parsed)]
  <2>1. ChartUpTo(g, parsed, live, 0)
    BY DEF ChartUpTo
  <2> HIDE DEF g
  <2>2. QED BY <2>1
<1>2. ASSUME NEW k \in Nat, k \in T PROVE k + 1 \in T
  <2>1. PICK f : ChartUpTo(f, parsed, live, k)
    BY <1>2
  <2> DEFINE next(n) == Merged(f[n - 1], live[n])
             g == [n \in 0..(k + 1) |-> IF n = k + 1 THEN next(n) ELSE f[n]]
  <2>0. \A n \in 0..k : f[n] = IF n = 0 THEN Drawn(parsed) ELSE next(n)
    BY <2>1 DEF ChartUpTo
  <2>2. \A n \in 0..k : g[n] = f[n]
    OBVIOUS
  <2>3. \A n \in 0..(k + 1) : g[n] = IF n = 0 THEN Drawn(parsed) ELSE Merged(g[n - 1], live[n])
    <3>1. TAKE n \in 0..(k + 1)
    <3>2. CASE n = k + 1
      BY <2>2, <3>2
    <3>3. CASE n \in 1..k
      <4>1. f[n] = next(n)
        BY <2>0, <3>3
      <4>2. g[n] = f[n] /\ g[n - 1] = f[n - 1]
        BY <2>2, <3>3
      <4>3. QED BY <3>3, <4>1, <4>2
    <3>4. CASE n = 0
      BY <2>0, <2>2, <3>4
    <3>5. QED BY <3>2, <3>3, <3>4
  <2>4. ChartUpTo(g, parsed, live, k + 1)
    BY <2>3 DEF ChartUpTo
  <2> HIDE DEF g
  <2>5. QED BY <2>4
<1>3. Nat \subseteq T
  <2> HIDE DEF T
  <2>1. QED BY <1>1, <1>2, Induction
<1>4. QED BY <1>3

(* The first chart draws what can be drawn, in order.                        *)
LEMMA DrawnInOrder ==
    ASSUME NEW parsed \in Seq(Bars), InTime(parsed)
    PROVE  /\ Drawn(parsed).bars \in Seq(Bars) /\ InTime(Drawn(parsed).bars)
           /\ Len(parsed) = 0 => Drawn(parsed).lastTime = <<>>
           /\ Len(parsed) > 0 => InOrder(Drawn(parsed), parsed[Len(parsed)].time)
<1> DEFINE line == IsSparse(parsed)
           d == DrawableOf(parsed, line)
           n == Len(parsed)
           chart == Drawn(parsed)
<1>1. line \in BOOLEAN
  BY DEF IsSparse
<1>2. /\ chart.line = line /\ chart.bars = d /\ DOMAIN chart = {"line", "bars", "lastTime"}
      /\ chart = [line |-> line, bars |-> d, lastTime |-> chart.lastTime]
      /\ n = 0 => chart.lastTime = <<>>
      /\ n > 0 => chart.lastTime = <<parsed[n].time>>
  BY DEF Drawn, Last
<1> HIDE DEF line
<1>3. d \in Seq(Bars) /\ InTime(d) /\ (Len(d) > 0 => d[Len(d)].time <= parsed[n].time)
  BY DrawableInTime
<1>4. n \in Nat /\ \A i \in 1..n : parsed[i].time \in Int
  BY BarsOfSeries
<1> HIDE DEF d, chart
<1>5. ASSUME n > 0 PROVE InOrder(chart, parsed[n].time)
  <2>1. parsed[n].time \in Int
    BY <1>4, <1>5
  <2>2. chart.lastTime \in Seq(Int) /\ Len(chart.lastTime) = 1 /\ chart.lastTime[1] = parsed[n].time
    <3>1. \A t \in Int : <<t>> \in Seq(Int) /\ Len(<<t>>) = 1 /\ <<t>>[1] = t
      OBVIOUS
    <3> DEFINE t == parsed[n].time
    <3>2. t \in Int /\ chart.lastTime = <<t>>
      BY <1>2, <1>5, <2>1
    <3> HIDE DEF t
    <3>3. chart.lastTime \in Seq(Int) /\ Len(chart.lastTime) = 1 /\ chart.lastTime[1] = t
      BY <3>1, <3>2
    <3>4. QED BY <3>3 DEF t
  <2>3. chart \in Charts
    BY <1>1, <1>2, <1>3, <2>2 DEF Charts
  <2>4. QED BY <1>2, <1>3, <2>1, <2>2, <2>3 DEF InOrder
<1>6. QED BY <1>2, <1>3, <1>5 DEF chart

(* The polls keep the order, and lose no candle that can be drawn.           *)
LEMMA PollsKeepOrder ==
    ASSUME NEW parsed \in Seq(Bars), InTime(parsed), NEW live \in Seq(Bars)
    PROVE  LET chart == ChartAfter(parsed, live)
           IN  /\ chart.bars \in Seq(Bars) /\ InTime(chart.bars)
               /\ \A k \in 1..Len(live) :
                     Len(parsed) > 0 /\ Drawable(live[k], chart.line) /\ parsed[Len(parsed)].time <= live[k].time
                       => Reaches(chart, live[k].time)
<1> DEFINE f == CHOOSE g : ChartUpTo(g, parsed, live, Len(live))
           end == parsed[Len(parsed)].time
<1>0. Len(live) \in Nat /\ \A k \in 1..Len(live) : live[k] \in Bars /\ live[k].time \in Int
  BY BarsOfSeries
<1>1. ChartUpTo(f, parsed, live, Len(live))
  BY <1>0, ChartsExist
<1>2. ChartAfter(parsed, live) = f[Len(live)]
  BY DEF ChartAfter, ChartUpTo
<1> HIDE DEF f
<1>3. f[0] = Drawn(parsed) /\ \A n \in 1..Len(live) : f[n] = Merged(f[n - 1], live[n])
  <2>1. \A n \in 0..Len(live) : f[n] = IF n = 0 THEN Drawn(parsed) ELSE Merged(f[n - 1], live[n])
    BY <1>1 DEF ChartUpTo
  <2>2. QED BY <1>0, <2>1
<1>4. CASE Len(parsed) = 0
  <2> DEFINE T == {n \in 0..Len(live) : f[n] = Drawn(parsed)}
  <2>1. 0 \in T
    BY <1>0, <1>3
  <2>2. ASSUME NEW n \in 0..Len(live), n \in T, n < Len(live) PROVE n + 1 \in T
    <3>1. f[n + 1] = Merged(Drawn(parsed), live[n + 1]) /\ n + 1 \in 0..Len(live)
      BY <1>0, <1>3, <2>2
    <3>2. Drawn(parsed).lastTime = <<>>
      BY <1>4, DrawnInOrder
    <3>3. QED BY <3>1, <3>2 DEF Merged
  <2> HIDE DEF T
  <2>3. 0..Len(live) \subseteq T
    BY <1>0, <2>1, <2>2, InductionUpTo
  <2>4. f[Len(live)] = Drawn(parsed)
    BY <1>0, <2>3 DEF T
  <2>5. ChartAfter(parsed, live) = Drawn(parsed)
    BY <1>2, <2>4
  <2>6. Drawn(parsed).bars \in Seq(Bars) /\ InTime(Drawn(parsed).bars)
    BY DrawnInOrder
  <2>7. ~(Len(parsed) > 0)
    BY <1>4
  <2>8. QED BY <2>5, <2>6, <2>7
<1>5. CASE Len(parsed) > 0
  <2> DEFINE Good(n, chart) ==
                 /\ InOrder(chart, end) /\ chart.line = Drawn(parsed).line
                 /\ \A k \in 1..n : Drawable(live[k], chart.line) /\ end <= live[k].time
                                       => Reaches(chart, live[k].time)
             T == {n \in 0..Len(live) : Good(n, f[n])}
  <2>1. end \in Int
    BY <1>5, BarsOfSeries
  <2>2. InOrder(Drawn(parsed), end)
    BY <1>5, DrawnInOrder
  <2> HIDE DEF end
  <2>3. 0 \in T
    BY <1>0, <1>3, <2>2
  <2>4. ASSUME NEW n \in 0..Len(live), n \in T, n < Len(live) PROVE n + 1 \in T
    <3> DEFINE a == f[n]  c == live[n + 1]  u == f[n + 1]
    <3>1. Good(n, a)
      BY <2>4
    <3>2. n + 1 \in 1..Len(live) /\ c \in Bars /\ u = Merged(a, c)
      BY <1>0, <1>3, <2>4
    <3> HIDE DEF c, a, u
    <3>3. /\ InOrder(u, end) /\ u.line = a.line
          /\ Drawable(c, a.line) /\ end <= c.time => Reaches(u, c.time)
          /\ \A t \in Int : Reaches(a, t) => Reaches(u, t)
      BY <2>1, <3>1, <3>2, MergedInOrder
    <3>4. ASSUME NEW k \in 1..(n + 1), Drawable(live[k], u.line), end <= live[k].time
          PROVE  Reaches(u, live[k].time)
      <4>1. CASE k = n + 1
        BY <3>3, <3>4, <4>1 DEF c
      <4>2. CASE k \in 1..n
        <5>1. live[k].time \in Int
          BY <1>0, <2>4, <4>2
        <5>2. Reaches(a, live[k].time)
          BY <3>1, <3>3, <3>4, <4>2
        <5>3. QED BY <3>3, <5>1, <5>2
      <4>3. QED BY <4>1, <4>2
    <3>5. Good(n + 1, u)
      BY <3>1, <3>3, <3>4
    <3> HIDE DEF Good
    <3>6. QED BY <2>4, <3>2, <3>5 DEF u
  <2> HIDE DEF T
  <2>5. 0..Len(live) \subseteq T
    BY <1>0, <2>3, <2>4, InductionUpTo
  <2>6. Len(live) \in T
    BY <1>0, <2>5
  <2>7. Good(Len(live), f[Len(live)])
    BY <2>6 DEF T
  <2>8. QED BY <1>2, <2>7 DEF InOrder, Charts, end
<1>6. Len(parsed) \in Nat
  OBVIOUS
<1>7. QED BY <1>4, <1>5, <1>6

(* A fetched series is sorted; if no time comes twice, strictly.             *)
LEMMA ParsedInTime ==
    ASSUME NEW raw \in Seq(Bars),
           IsInjective([i \in DOMAIN ParseCandles(raw, 0) |-> ParseCandles(raw, 0)[i].time])
    PROVE  ParseCandles(raw, 0) \in Seq(Bars) /\ InTime(ParseCandles(raw, 0))
<1> DEFINE timed == Kept(raw, {i \in DOMAIN raw : raw[i].time >= 0})
           n == Len(timed)
           before(i, j) == \/ timed[i].time < timed[j].time
                           \/ timed[i].time = timed[j].time /\ i < j
           R == {r \in (1..n) \X (1..n) : before(r[1], r[2])}
           place == [i \in DOMAIN timed |-> 1 + Cardinality({j \in DOMAIN timed : before(j, i)})]
           o == [p \in 1..n |-> CHOOSE i \in DOMAIN timed : place[i] = p]
           parsed == ParseCandles(raw, 0)
<1>1. timed \in Seq(Bars)
  BY KeptType
<1>2. parsed = [p \in DOMAIN timed |->
                   LET c == timed[CHOOSE i \in DOMAIN timed : place[i] = p]
                   IN  [c EXCEPT !.time = c.time - 0]]
  BY DEF ParseCandles
<1> HIDE DEF timed, parsed
<1>3. n \in Nat /\ DOMAIN timed = 1..n /\ \A i \in 1..n : timed[i] \in Bars /\ timed[i].time \in Int
  BY <1>1, BarsOfSeries
<1>4. \A i, j \in 1..n : <<i, j>> \in R <=> before(i, j)
  OBVIOUS
<1>5. StrictlyOrders(R, n)
  <2>1. /\ \A i \in 1..n : ~before(i, i)
        /\ \A i, j, k \in 1..n : before(i, j) /\ before(j, k) => before(i, k)
        /\ \A i, j \in 1..n : i # j => before(i, j) \/ before(j, i)
    BY <1>3
  <2> HIDE DEF R, before
  <2>2. QED BY <1>4, <2>1 DEF StrictlyOrders
<1>6. CountsFrom(place, R, n)
  <2>1. \A i \in 1..n : ~before(i, i)
    BY <1>3
  <2>2. \A i \in 1..n : place[i] = 1 + Cardinality({j \in DOMAIN timed : before(j, i)})
    BY <1>3
  <2> HIDE DEF before, R, place
  <2>3. \A i \in 1..n : {j \in DOMAIN timed : before(j, i)} = {j \in (1..n) \ {i} : <<j, i>> \in R}
    BY <1>3, <1>4, <2>1
  <2>4. QED BY <2>2, <2>3 DEF CountsFrom
<1> HIDE DEF place, R
<1>7. Permutes(place, R, n)
  BY <1>3, <1>5, <1>6, Sorts
<1>8. \A p \in 1..n : o[p] \in 1..n /\ place[o[p]] = p
  BY <1>3, <1>7 DEF Permutes
<1>9. \A p \in 1..n : parsed[p] = [timed[o[p]] EXCEPT !.time = timed[o[p]].time - 0]
  BY <1>2, <1>3
<1> HIDE DEF o
<1>10. \A c \in Bars : [c EXCEPT !.time = c.time - 0] = c
  BY DEF Bars
<1>11. \A p \in 1..n : parsed[p] = timed[o[p]]
  BY <1>3, <1>8, <1>9, <1>10
<1>12. DOMAIN parsed = 1..n /\ parsed = [p \in 1..n |-> parsed[p]] /\ \A p \in 1..n : parsed[p] \in Bars
  <2>1. parsed = [p \in 1..n |-> parsed[p]]
    BY <1>2, <1>3
  <2>2. QED BY <1>3, <1>8, <1>11, <2>1
<1>13. parsed \in Seq(Bars) /\ Len(parsed) = n
  BY <1>3, <1>12
<1>14. \A p, q \in 1..n : p < q => parsed[p].time <= parsed[q].time
  <2>1. TAKE p, q \in 1..n
  <2>2. HAVE p < q
  <2> DEFINE i == o[p]  j == o[q]
  <2>a. i \in 1..n /\ j \in 1..n /\ place[i] < place[j]
    BY <1>8, <2>2
  <2> HIDE DEF i, j
  <2>b. <<i, j>> \in R
    BY <1>7, <2>a DEF Permutes
  <2>3. <<o[p], o[q]>> \in R
    BY <2>b DEF i, j
  <2>4. before(o[p], o[q])
    BY <1>4, <1>8, <2>3
  <2>5. timed[o[p]].time <= timed[o[q]].time
    BY <1>3, <1>8, <2>4
  <2>6. QED BY <1>11, <2>5
<1>15. \A p, q \in 1..n : parsed[p].time = parsed[q].time => p = q
  <2> DEFINE g == [i \in DOMAIN parsed |-> parsed[i].time]
  <2>1. \A p, q \in 1..n : g[p] = g[q] => p = q
    BY <1>12 DEF IsInjective, parsed
  <2>2. \A p \in 1..n : g[p] = parsed[p].time
    BY <1>12
  <2> HIDE DEF g
  <2>3. QED BY <2>1, <2>2
<1>16. InTime(parsed)
  <2>1. \A p \in 1..n : parsed[p].time \in Int
    BY <1>12 DEF Bars
  <2>2. \A p, q \in 1..n : p < q => parsed[p].time < parsed[q].time
    BY <1>3, <1>14, <1>15, <2>1
  <2>3. QED BY <1>13, <2>2 DEF InTime
<1>17. QED BY <1>13, <1>16 DEF parsed

(* A chart's bars stay strictly ordered whatever candles are polled, and     *)
(* none that can be drawn is lost (parseCandles, candleOp of                 *)
(* chartHelpers.ts, PriceChart.tsx): for any number of candles and polls.    *)
THEOREM ChartStaysOrdered == Spec => []SeriesStaysOrdered
<1>1. AskedInv => SeriesStaysOrdered
  <2> SUFFICES ASSUME AskedInv, asked.fn = "chart" PROVE SeriesStaysOrdered
    BY DEF SeriesStaysOrdered
  <2> DEFINE x == asked.in
             parsed == ParseCandles(x.raw, 0)
             chart == ChartAfter(parsed, x.live)
  <2>1. x.raw \in Seq(Bars) /\ x.live \in Seq(Bars)
    <3>1. x \in CandleInputs
      BY DEF AskedInv
    <3> HIDE DEF x
    <3>2. QED BY <3>1, HelpersAssumption DEF CandlesAsked
  <2> HIDE DEF x
  <2>2. ASSUME IsInjective([i \in DOMAIN parsed |-> parsed[i].time])
        PROVE  /\ \A i, j \in DOMAIN chart.bars : i < j => chart.bars[i].time < chart.bars[j].time
               /\ \A c \in Range(x.live) :
                     parsed # <<>> /\ Drawable(c, chart.line) /\ c.time >= Last(parsed).time
                       => chart.bars # <<>> /\ c.time <= Last(chart.bars).time
    <3>1. parsed \in Seq(Bars) /\ InTime(parsed)
      BY <2>1, <2>2, ParsedInTime
    <3> HIDE DEF parsed
    <3>2. /\ chart.bars \in Seq(Bars) /\ InTime(chart.bars)
          /\ \A k \in 1..Len(x.live) :
                Len(parsed) > 0 /\ Drawable(x.live[k], chart.line)
                    /\ parsed[Len(parsed)].time <= x.live[k].time
                  => Reaches(chart, x.live[k].time)
      BY <2>1, <3>1, PollsKeepOrder
    <3> HIDE DEF chart
    <3>3. DOMAIN chart.bars = 1..Len(chart.bars)
      BY <3>2
    <3>4. ASSUME NEW c \in Range(x.live), parsed # <<>>, Drawable(c, chart.line),
                 c.time >= Last(parsed).time
          PROVE  chart.bars # <<>> /\ c.time <= Last(chart.bars).time
      <4>1. PICK k \in 1..Len(x.live) : c = x.live[k]
        BY <2>1 DEF Range
      <4>2. Len(parsed) > 0 /\ parsed[Len(parsed)].time \in Int /\ c.time \in Int
        <5>1. Len(parsed) > 0
          BY <3>1, <3>4
        <5>2. QED BY <2>1, <3>1, <4>1, <5>1, BarsOfSeries
      <4>3. Reaches(chart, c.time)
        BY <3>2, <3>4, <4>1, <4>2 DEF Last
      <4>4. QED BY <3>2, <4>3 DEF Reaches, Last
    <3>5. QED BY <3>2, <3>3, <3>4 DEF InTime
  <2>3. QED BY <2>2 DEF SeriesStaysOrdered, x, parsed, chart
<1>2. QED BY <1>1, InputsAsked, PTL

-----------------------------------------------------------------------------
(* Orders                                                                    *)

(* What has been filled after each of the first m levels.                    *)
FilledUpTo(f, amount, crossing, m) ==
    f = [n \in 0..m |-> IF n = 0 THEN [msgs |-> <<>>, left |-> amount, done |-> FALSE]
                                 ELSE TakeLevel(f[n - 1], crossing[n])]

(* They exist.                                                               *)
LEMMA FillsExist ==
    ASSUME NEW amount, NEW crossing, NEW m \in Nat
    PROVE  \E f : FilledUpTo(f, amount, crossing, m)
<1> DEFINE start == [msgs |-> <<>>, left |-> amount, done |-> FALSE]
           T == {k \in Nat : \E f : FilledUpTo(f, amount, crossing, k)}
<1>1. 0 \in T
  <2> DEFINE g == [n \in 0..0 |-> start]
  <2>1. FilledUpTo(g, amount, crossing, 0)
    BY DEF FilledUpTo
  <2> HIDE DEF g
  <2>2. QED BY <2>1
<1>2. ASSUME NEW k \in Nat, k \in T PROVE k + 1 \in T
  <2>1. PICK f : FilledUpTo(f, amount, crossing, k)
    BY <1>2
  <2> DEFINE next(n) == TakeLevel(f[n - 1], crossing[n])
             g == [n \in 0..(k + 1) |-> IF n = k + 1 THEN next(n) ELSE f[n]]
  <2>0. \A n \in 0..k : f[n] = IF n = 0 THEN start ELSE next(n)
    BY <2>1 DEF FilledUpTo
  <2>2. \A n \in 0..k : g[n] = f[n]
    OBVIOUS
  <2> HIDE DEF start
  <2>3. \A n \in 0..(k + 1) : g[n] = IF n = 0 THEN start ELSE TakeLevel(g[n - 1], crossing[n])
    <3>1. TAKE n \in 0..(k + 1)
    <3>2. CASE n = k + 1
      BY <2>2, <3>2
    <3>3. CASE n \in 1..k
      <4>1. f[n] = next(n)
        BY <2>0, <3>3
      <4>2. g[n] = f[n] /\ g[n - 1] = f[n - 1]
        BY <2>2, <3>3
      <4>3. QED BY <3>3, <4>1, <4>2
    <3>4. CASE n = 0
      BY <2>0, <2>2, <3>4
    <3>5. QED BY <3>2, <3>3, <3>4
  <2>4. FilledUpTo(g, amount, crossing, k + 1)
    BY <2>3 DEF FilledUpTo, start
  <2> HIDE DEF g
  <2>5. QED BY <2>4
<1>3. Nat \subseteq T
  <2> HIDE DEF T
  <2>1. QED BY <1>1, <1>2, Induction
<1>4. QED BY <1>3

(* One more amount.                                                          *)
LEMMA TotalAppend ==
    ASSUME NEW S, \A x \in S : x.amount \in Int, NEW s \in Seq(S), NEW x \in S
    PROVE  TotalFrom(0, Amounts(Append(s, x))) = TotalFrom(0, Amounts(s)) + x.amount
<1> DEFINE t == <<x>>  a == Amounts(s)
<1>1. t \in Seq(S) /\ Append(s, x) = s \o t
  OBVIOUS
<1>2. Amounts(s \o t) = a \o Amounts(t)
  <2> HIDE DEF t
  <2>1. QED BY <1>1, AmountsConcat
<1>3. a \in Seq(Int)
  BY AmountsType
<1>4. Amounts(t) = <<x.amount>>
  BY DEF Amounts
<1> DEFINE b == <<x.amount>>
<1>5. b \in Seq(Int) /\ Len(b) = 1 /\ b[1] = x.amount
  OBVIOUS
<1> HIDE DEF a, b
<1>6. TotalFrom(0, a) \in Int
  BY <1>3, TotalType
<1>7. TotalFrom(0, a \o b) = TotalFrom(TotalFrom(0, a), b)
  BY <1>3, <1>5, TotalConcat
<1>8. TotalFrom(TotalFrom(0, a), b) = TotalFrom(0, a) + TotalFrom(0, b)
  BY <1>5, <1>6, TotalShift
<1>9. TotalFrom(0, b) = x.amount
  <2>1. Len(b) \in Nat
    BY <1>5
  <2>2. PICK f : IsTotal(f, 0, b)
    BY <2>1, TotalUnfolds
  <2>3. TotalFrom(0, b) = f[1] /\ f[0] = 0 /\ f[1] = f[0] + b[1]
    BY <1>5, <2>2 DEF IsTotal
  <2>4. x.amount \in Int
    OBVIOUS
  <2>5. QED BY <1>5, <2>3, <2>4
<1>10. Append(s, x) = s \o t /\ Amounts(s \o t) = a \o b
  BY <1>1, <1>2, <1>4 DEF b
<1>11. QED BY <1>7, <1>8, <1>9, <1>10 DEF a

(* Nothing adds up to nothing.                                               *)
LEMMA TotalOfNone == TotalFrom(0, Amounts(<<>>)) = 0
<1> DEFINE b == Amounts(<<>>)
<1>1. Len(b) = 0
  BY DEF Amounts
<1>2. Len(b) \in Nat
  BY <1>1
<1> HIDE DEF b
<1>3. PICK f : IsTotal(f, 0, b)
  BY <1>2, TotalUnfolds
<1>4. TotalFrom(0, b) = f[0] /\ f[0] = 0
  BY <1>1, <1>3 DEF IsTotal
<1>5. QED BY <1>4 DEF b

(* The messages, and the levels they are made for.                           *)
Orders == [amount : Nat, price : Nat]

Levels(S) == \A l \in S : l.amount \in Nat /\ l.price \in Nat

(* After n levels that hold `sum` the messages s.msgs were made: they add up *)
(* to what is no longer left, and none is at a price outside P.              *)
Filling(s, n, sum, amount, P) ==
    /\ s.msgs \in Seq(Orders) /\ s.left \in Nat /\ s.done \in BOOLEAN
    /\ TotalFrom(0, Amounts(s.msgs)) = amount - s.left
    /\ \A i \in 1..Len(s.msgs) : s.msgs[i].price \in P
    /\ n > 0 => Len(s.msgs) > 0
    /\ s.done => s.left = 0 /\ sum >= amount /\ Len(s.msgs) > 0
    /\ ~s.done => s.left = amount - sum /\ s.left > 0

(* A level more.                                                             *)
LEMMA LevelTaken ==
    ASSUME NEW s, NEW n \in Nat, NEW sum \in Nat, NEW amount \in Nat, NEW P,
           Filling(s, n, sum, amount, P),
           NEW l, l.amount \in Nat, l.price \in Nat, l.price \in P
    PROVE  Filling(TakeLevel(s, l), n + 1, sum + l.amount, amount, P)
<1>0. /\ s.msgs \in Seq(Orders) /\ s.left \in Nat /\ s.done \in BOOLEAN
      /\ TotalFrom(0, Amounts(s.msgs)) = amount - s.left
      /\ \A i \in 1..Len(s.msgs) : s.msgs[i].price \in P
  BY DEF Filling
<1>1. CASE s.done
  <2>1. TakeLevel(s, l) = s
    BY <1>1 DEF TakeLevel
  <2>2. s.left = 0 /\ sum >= amount /\ Len(s.msgs) > 0
    BY <1>1 DEF Filling
  <2>3. sum + l.amount >= amount
    BY <2>2
  <2>4. QED BY <1>0, <1>1, <2>1, <2>2, <2>3 DEF Filling
<1>2. CASE ~s.done
  <2>1. s.left = amount - sum /\ s.left > 0
    BY <1>2 DEF Filling
  <2> DEFINE m == Min({l.amount, s.left})
             e == [amount |-> m, price |-> l.price]
             t == [msgs |-> Append(s.msgs, e), left |-> s.left - m, done |-> s.left = m]
  <2>2. TakeLevel(s, l) = t
    BY <1>2 DEF TakeLevel
  <2>3. m = IF l.amount <= s.left THEN l.amount ELSE s.left
    BY <1>0, MinOfTwo
  <2> HIDE DEF m
  <2>4. m \in Nat /\ m <= s.left /\ s.left - m \in Nat
    BY <1>0, <2>3
  <2>5. e \in Orders
    BY <2>4 DEF Orders
  <2>6. TotalFrom(0, Amounts(Append(s.msgs, e))) = TotalFrom(0, Amounts(s.msgs)) + e.amount
    <3>1. \A x \in Orders : x.amount \in Int
      BY DEF Orders
    <3> HIDE DEF e
    <3>2. QED BY <1>0, <2>5, <3>1, TotalAppend
  <2>7. e.amount = m /\ e.price = l.price
    OBVIOUS
  <2> HIDE DEF e
  <2>8. /\ Append(s.msgs, e) \in Seq(Orders) /\ Len(Append(s.msgs, e)) > 0
        /\ \A i \in 1..Len(Append(s.msgs, e)) : Append(s.msgs, e)[i].price \in P
    <3>1. /\ Append(s.msgs, e) \in Seq(Orders)
          /\ Len(Append(s.msgs, e)) = Len(s.msgs) + 1 /\ Len(s.msgs) \in Nat
      BY <1>0, <2>5
    <3>2. \A i \in 1..Len(s.msgs) : Append(s.msgs, e)[i] = s.msgs[i]
      BY <1>0, <2>5
    <3>3. Append(s.msgs, e)[Len(s.msgs) + 1] = e
      BY <1>0, <2>5
    <3>4. ASSUME NEW i \in 1..(Len(s.msgs) + 1) PROVE Append(s.msgs, e)[i].price \in P
      <4>1. CASE i = Len(s.msgs) + 1
        BY <2>7, <3>3, <4>1
      <4>2. CASE i # Len(s.msgs) + 1
        <5>1. i \in 1..Len(s.msgs)
          BY <3>1, <4>2
        <5>2. QED BY <1>0, <3>2, <5>1
      <4>3. QED BY <4>1, <4>2
    <3>5. QED BY <3>1, <3>4
  <2>9. /\ t.msgs = Append(s.msgs, e) /\ t.left = s.left - m
        /\ t.done \in BOOLEAN /\ (t.done <=> s.left = m)
    OBVIOUS
  <2> HIDE DEF t
  <2>10. TotalFrom(0, Amounts(t.msgs)) = amount - t.left
    BY <1>0, <2>4, <2>6, <2>7, <2>9
  <2>11. CASE s.left = m
    <3>1. t.left = 0 /\ sum + l.amount >= amount
      BY <1>0, <2>1, <2>3, <2>9, <2>11
    <3>2. t.done
      BY <2>9, <2>11
    <3>3. QED BY <2>2, <2>4, <2>8, <2>9, <2>10, <3>1, <3>2 DEF Filling
  <2>12. CASE s.left # m
    <3>a. m = l.amount /\ m < s.left
      BY <1>0, <2>3, <2>12
    <3>b. t.left = s.left - m /\ s.left = amount - sum
      BY <2>1, <2>9
    <3>1. t.left = amount - (sum + l.amount) /\ t.left > 0
      BY <1>0, <3>a, <3>b
    <3>2. ~t.done
      BY <2>9, <2>12
    <3>3. QED BY <2>2, <2>4, <2>8, <2>9, <2>10, <3>1, <3>2 DEF Filling
  <2>13. QED BY <2>11, <2>12
<1>3. QED BY <1>0, <1>1, <1>2

(* Filling the levels that cross: what is left of the order is what they do  *)
(* not hold, and what is not left is in the messages.                        *)
LEMMA FilledAre ==
    ASSUME NEW S, Levels(S), NEW c \in Seq(S), NEW amount \in Nat, amount > 0
    PROVE  /\ TotalFrom(0, Amounts(c)) \in Nat
           /\ Filling(Fill(amount, c), Len(c), TotalFrom(0, Amounts(c)), amount,
                      {c[i].price : i \in 1..Len(c)})
<1> DEFINE P == {c[i].price : i \in 1..Len(c)}
           start == [msgs |-> <<>>, left |-> amount, done |-> FALSE]
           a == Amounts(c)
<1>0. Len(c) \in Nat /\ \A i \in 1..Len(c) : c[i].amount \in Nat /\ c[i].price \in Nat /\ c[i].price \in P
  BY DEF Levels
<1>1. Len(a) = Len(c) /\ \A i \in 1..Len(c) : a[i] = c[i].amount
  <2>1. DOMAIN c = 1..Len(c)
    OBVIOUS
  <2>2. a = [i \in 1..Len(c) |-> c[i].amount]
    BY <2>1 DEF Amounts
  <2>3. QED BY <1>0, <2>2
<1> HIDE DEF P, a
<1>2. PICK h : IsTotal(h, 0, a)
  <2>1. Len(a) \in Nat
    BY <1>0, <1>1
  <2>2. QED BY <2>1, TotalUnfolds
<1> DEFINE f == CHOOSE g : FilledUpTo(g, amount, c, Len(c))
<1>3. FilledUpTo(f, amount, c, Len(c))
  BY <1>0, FillsExist
<1>4. Fill(amount, c) = f[Len(c)]
  BY DEF Fill, FilledUpTo
<1> HIDE DEF f
<1>5. f[0] = start /\ \A n \in 1..Len(c) : f[n] = TakeLevel(f[n - 1], c[n])
  <2> HIDE DEF start
  <2>1. \A n \in 0..Len(c) : f[n] = IF n = 0 THEN start ELSE TakeLevel(f[n - 1], c[n])
    BY <1>3 DEF FilledUpTo, start
  <2>2. QED BY <1>0, <2>1
<1> DEFINE T == {n \in 0..Len(c) : h[n] \in Nat /\ Filling(f[n], n, h[n], amount, P)}
<1>6. 0 \in T
  <2>1. h[0] = 0
    BY <1>2 DEF IsTotal
  <2>2. /\ start.msgs = <<>> /\ start.left = amount /\ start.done = FALSE
    OBVIOUS
  <2> HIDE DEF start
  <2>3. start.msgs \in Seq(Orders) /\ Len(start.msgs) = 0
    BY <2>2
  <2>4. TotalFrom(0, Amounts(start.msgs)) = amount - start.left
    BY <2>2, TotalOfNone
  <2>a. \A i \in 1..Len(start.msgs) : start.msgs[i].price \in P
    BY <2>3
  <2>b. start.left = amount - 0 /\ start.left > 0 /\ start.left \in Nat
    BY <2>2
  <2>c. start.done \in BOOLEAN /\ ~start.done
    BY <2>2
  <2>5. Filling(start, 0, 0, amount, P)
    BY <2>3, <2>4, <2>a, <2>b, <2>c DEF Filling
  <2>6. QED BY <1>0, <1>5, <2>1, <2>5
<1>7. ASSUME NEW n \in 0..Len(c), n \in T, n < Len(c) PROVE n + 1 \in T
  <2>1. n \in Nat /\ n + 1 \in 1..Len(c) /\ (n + 1) - 1 = n
    BY <1>0, <1>7
  <2>2. h[n + 1] = h[n] + c[n + 1].amount
    BY <1>1, <1>2, <2>1 DEF IsTotal
  <2>3. f[n + 1] = TakeLevel(f[n], c[n + 1])
    BY <1>5, <2>1
  <2>4. h[n] \in Nat /\ Filling(f[n], n, h[n], amount, P)
    BY <1>7
  <2>5. c[n + 1].amount \in Nat /\ c[n + 1].price \in Nat /\ c[n + 1].price \in P
    BY <1>0, <2>1
  <2>6. Filling(TakeLevel(f[n], c[n + 1]), n + 1, h[n] + c[n + 1].amount, amount, P)
    BY <2>1, <2>4, <2>5, LevelTaken
  <2>7. h[n + 1] \in Nat
    BY <2>2, <2>4, <2>5
  <2>8. n + 1 \in 0..Len(c)
    BY <2>1
  <2>9. QED BY <2>2, <2>3, <2>6, <2>7, <2>8
<1> HIDE DEF T
<1>8. 0..Len(c) \subseteq T
  BY <1>0, <1>6, <1>7, InductionUpTo
<1>9. Len(c) \in T
  BY <1>0, <1>8
<1>10. TotalFrom(0, a) = h[Len(c)]
  BY <1>1, <1>2 DEF IsTotal
<1>11. QED BY <1>4, <1>9, <1>10 DEF T, P, a

(* What the summary says of an order of that amount when the levels better   *)
(* than its limit hold `held`.                                               *)
Tells(msgs, limit, amount, held) ==
    LET sum   == SummarizeOrder(msgs, limit)
        taken == Min({amount, held})
    IN  /\ sum.total = amount
        /\ sum.leftover = amount - taken
        /\ sum.hasLeftover <=> sum.leftover > 0
        /\ TotalFrom(0, Amounts(SubSeq(msgs, 1, sum.fills))) = taken

(* It tells the truth when the last message rests.                           *)
LEMMA TellsResting ==
    ASSUME NEW m \in Seq(Orders), NEW left \in Nat, left > 0, NEW limit \in Nat,
           NEW held \in Nat, TotalFrom(0, Amounts(m)) = held
    PROVE  Tells(Append(m, [amount |-> left, price |-> limit]), limit, held + left, held)
<1> DEFINE e == [amount |-> left, price |-> limit]
           msgs == Append(m, e)
<1>1. e \in Orders /\ e.amount = left /\ e.price = limit
  BY DEF Orders
<1> HIDE DEF e
<1>2. /\ Len(msgs) = Len(m) + 1 /\ Len(m) \in Nat /\ msgs \in Seq(Orders) /\ msgs # <<>>
      /\ msgs[Len(msgs)] = e
  BY <1>1
<1>3. TotalFrom(0, Amounts(msgs)) = held + left
  <2>1. \A x \in Orders : x.amount \in Int
    BY DEF Orders
  <2>2. TotalFrom(0, Amounts(msgs)) = TotalFrom(0, Amounts(m)) + e.amount
    BY <1>1, <2>1, TotalAppend
  <2>3. QED BY <1>1, <2>2
<1>4. SubSeq(msgs, 1, Len(m)) = m
  <2>1. \A i \in 1..Len(m) : msgs[i] = m[i]
    BY <1>1
  <2> HIDE DEF msgs
  <2>2. Len(m) \in 0..Len(msgs)
    BY <1>2
  <2>3. /\ SubSeq(msgs, 1, Len(m)) \in Seq(Orders) /\ Len(SubSeq(msgs, 1, Len(m))) = Len(m)
        /\ \A i \in 1..Len(m) : SubSeq(msgs, 1, Len(m))[i] = msgs[i]
    BY <1>2, <2>2, FirstPart
  <2>4. QED BY <2>1, <2>3
<1>5. Min({held + left, held}) = held
  <2>1. held + left \in Int /\ held \in Int /\ ~(held + left <= held)
    OBVIOUS
  <2>2. QED BY <2>1, MinOfTwo
<1> HIDE DEF msgs
<1>6. SummarizeOrder(msgs, limit) = [fills |-> Len(m), hasLeftover |-> TRUE, leftover |-> left,
                                     total |-> held + left]
  <2>1. Len(msgs) - 1 = Len(m)
    BY <1>2
  <2>2. QED BY <1>1, <1>2, <1>3, <2>1 DEF SummarizeOrder
<1>7. Tells(msgs, limit, held + left, held)
  <2> DEFINE sum == SummarizeOrder(msgs, limit)
  <2>1. left = (held + left) - held
    OBVIOUS
  <2>2. sum.total = held + left /\ sum.leftover = left /\ sum.fills = Len(m) /\ sum.hasLeftover = TRUE
    BY <1>6
  <2> HIDE DEF sum
  <2>3. TotalFrom(0, Amounts(SubSeq(msgs, 1, sum.fills))) = Min({held + left, held})
    BY <1>4, <1>5, <2>2
  <2>4. sum.leftover = (held + left) - Min({held + left, held})
    BY <1>5, <2>1, <2>2
  <2>5. sum.hasLeftover <=> sum.leftover > 0
    BY <2>2
  <2>6. QED BY <2>2, <2>3, <2>4, <2>5 DEF Tells, sum
<1>8. QED BY <1>7 DEF msgs, e

(* It tells the truth when the levels take it all.                           *)
LEMMA TellsTaken ==
    ASSUME NEW m \in Seq(Orders), Len(m) > 0, NEW limit \in Nat, m[Len(m)].price # limit,
           NEW amount \in Nat, NEW held \in Nat, held >= amount,
           TotalFrom(0, Amounts(m)) = amount
    PROVE  Tells(m, limit, amount, held)
<1>1. m # <<>> /\ Len(m) \in Nat
  OBVIOUS
<1>2. SummarizeOrder(m, limit) = [fills |-> Len(m), hasLeftover |-> FALSE, leftover |-> 0,
                                  total |-> amount]
  BY <1>1 DEF SummarizeOrder
<1>3. SubSeq(m, 1, Len(m)) = m
  <2>1. Len(m) \in 0..Len(m)
    BY <1>1
  <2>2. /\ SubSeq(m, 1, Len(m)) \in Seq(Orders) /\ Len(SubSeq(m, 1, Len(m))) = Len(m)
        /\ \A i \in 1..Len(m) : SubSeq(m, 1, Len(m))[i] = m[i]
    BY <2>1, FirstPart
  <2>3. QED BY <2>2
<1>4. Min({amount, held}) = amount
  <2>1. amount \in Int /\ held \in Int /\ amount <= held
    OBVIOUS
  <2>2. QED BY <2>1, MinOfTwo
<1> DEFINE sum == SummarizeOrder(m, limit)
<1>5. sum.total = amount /\ sum.leftover = 0 /\ sum.fills = Len(m) /\ sum.hasLeftover = FALSE
  BY <1>2
<1> HIDE DEF sum
<1>6. TotalFrom(0, Amounts(SubSeq(m, 1, sum.fills))) = Min({amount, held})
  BY <1>3, <1>4, <1>5
<1>7. sum.leftover = amount - Min({amount, held})
  BY <1>4, <1>5
<1>8. sum.hasLeftover <=> sum.leftover > 0
  BY <1>5
<1>9. QED BY <1>5, <1>6, <1>7, <1>8 DEF Tells, sum

(* The levels that cross are levels of the book, none at the limit.          *)
LEMMA CrossingAre ==
    ASSUME NEW S, Levels(S), NEW levels \in Seq(S), NEW isBuy \in BOOLEAN, NEW limit \in Nat
    PROVE  LET c == Crossing(levels, isBuy, limit)
           IN  c \in Seq(S) /\ \A i \in 1..Len(c) : c[i].price # limit
<1> DEFINE at == {i \in DOMAIN levels : IF isBuy THEN levels[i].price < limit
                                                 ELSE levels[i].price > limit}
           c == Kept(levels, at)
<1>0. DOMAIN levels = 1..Len(levels) /\ \A i \in 1..Len(levels) : levels[i].price \in Nat
  BY DEF Levels
<1>1. \A i \in at : levels[i].price # limit
  BY <1>0
<1>2. Crossing(levels, isBuy, limit) = c
  BY DEF Crossing
<1> HIDE DEF at
<1>3. PICK p : Lists(c, p, levels, at \cap (1..Len(levels)), S)
  BY KeptLists
<1> HIDE DEF c
<1>4. c \in Seq(S) /\ \A i \in 1..Len(c) : c[i] = levels[p[i]] /\ p[i] \in at
  BY <1>3 DEF Lists
<1>5. QED BY <1>1, <1>2, <1>4

(* The summary of an order tells what its messages do.                       *)
LEMMA SummaryTells ==
    ASSUME NEW S, Levels(S), NEW levels \in Seq(S), NEW isBuy \in BOOLEAN,
           NEW amount \in Nat, amount > 0, NEW limit \in Nat
    PROVE  Tells(BuildOrderMessages(levels, isBuy, amount, limit), limit, amount,
                 TotalFrom(0, Amounts(Crossing(levels, isBuy, limit))))
<1> DEFINE c == Crossing(levels, isBuy, limit)
           held == TotalFrom(0, Amounts(c))
           s == Fill(amount, c)
           P == {c[i].price : i \in 1..Len(c)}
           rest == [amount |-> s.left, price |-> limit]
           msgs == BuildOrderMessages(levels, isBuy, amount, limit)
<1>1. c \in Seq(S) /\ \A i \in 1..Len(c) : c[i].price # limit
  BY CrossingAre
<1>2. msgs = IF c = <<>> THEN <<[amount |-> amount, price |-> limit]>>
             ELSE IF s.left > 0 THEN s.msgs \o <<rest>> ELSE s.msgs
  BY DEF BuildOrderMessages
<1> HIDE DEF c, msgs
<1>3. held \in Nat /\ Filling(s, Len(c), held, amount, P)
  BY <1>1, FilledAre
<1> HIDE DEF s, P, held
<1>4. Len(c) \in Nat /\ (c # <<>> => Len(c) > 0)
  BY <1>1
<1>5. CASE c = <<>>
  <2> DEFINE none == <<>>  e == [amount |-> amount, price |-> limit]
  <2>1. held = 0
    BY <1>5, TotalOfNone DEF held
  <2>2. TotalFrom(0, Amounts(none)) = 0 /\ none \in Seq(Orders)
    BY TotalOfNone
  <2>3. Append(none, e) = <<e>>
    OBVIOUS
  <2>4. msgs = Append(none, e)
    BY <1>2, <1>5, <2>3
  <2> HIDE DEF none
  <2>5. 0 \in Nat /\ 0 + amount = amount
    OBVIOUS
  <2>6. Tells(Append(none, e), limit, 0 + amount, 0)
    BY <2>2, TellsResting
  <2>7. QED BY <2>1, <2>4, <2>5, <2>6 DEF msgs, held, c
<1>6. CASE c # <<>> /\ s.left > 0
  <2>1. s.msgs \in Seq(Orders) /\ s.left \in Nat /\ s.left = amount - held
        /\ TotalFrom(0, Amounts(s.msgs)) = amount - s.left
    BY <1>3, <1>6 DEF Filling
  <2>2. TotalFrom(0, Amounts(s.msgs)) = held /\ held + s.left = amount
    BY <1>3, <2>1
  <2>3. msgs = s.msgs \o <<rest>>
    BY <1>2, <1>6
  <2>4. s.msgs \o <<rest>> = Append(s.msgs, rest)
    <3>1. rest \in Orders
      BY <2>1 DEF Orders
    <3> HIDE DEF rest
    <3>2. QED BY <2>1, <3>1
  <2>5. Tells(Append(s.msgs, rest), limit, held + s.left, held)
    BY <1>3, <1>6, <2>1, <2>2, TellsResting
  <2>6. QED BY <2>2, <2>3, <2>4, <2>5 DEF msgs, held, c
<1>7. CASE c # <<>> /\ ~(s.left > 0)
  <2>1. /\ s.msgs \in Seq(Orders) /\ s.left = 0 /\ held >= amount /\ Len(s.msgs) > 0
        /\ TotalFrom(0, Amounts(s.msgs)) = amount - s.left
        /\ \A i \in 1..Len(s.msgs) : s.msgs[i].price \in P
    <3>1. s.left = 0 /\ s.done
      BY <1>3, <1>7 DEF Filling
    <3>2. QED BY <1>3, <3>1 DEF Filling
  <2>2. s.msgs[Len(s.msgs)].price # limit
    <3>1. Len(s.msgs) \in 1..Len(s.msgs)
      BY <2>1
    <3>2. PICK i \in 1..Len(c) : s.msgs[Len(s.msgs)].price = c[i].price
      BY <2>1, <3>1 DEF P
    <3>3. QED BY <1>1, <3>2
  <2>3. TotalFrom(0, Amounts(s.msgs)) = amount
    BY <2>1
  <2>4. Tells(s.msgs, limit, amount, held)
    BY <1>3, <2>1, <2>2, <2>3, TellsTaken
  <2>5. msgs = s.msgs
    BY <1>2, <1>7
  <2>6. QED BY <2>4, <2>5 DEF msgs, held, c
<1>8. QED BY <1>5, <1>6, <1>7

(* The summary of an order tells what its messages do (BuildOrderMessages of *)
(* orders.go and summarizeOrder of the order form): whatever the book, the   *)
(* order and the limit.                                                      *)
THEOREM SummariesAreTrue == Spec => []OrderSummaryIsTrue
<1>1. AskedInv => OrderSummaryIsTrue
  <2> SUFFICES ASSUME AskedInv, asked.fn = "order", asked.in.amount > 0
               PROVE  LET x == asked.in
                      IN  Tells(BuildOrderMessages(x.levels, x.isBuy, x.amount, x.limit), x.limit,
                                x.amount, TotalFrom(0, Amounts(Crossing(x.levels, x.isBuy, x.limit))))
    BY DEF OrderSummaryIsTrue, Tells, Crossing
  <2> DEFINE x == asked.in
             S == Range(x.levels)
  <2>1. OrderAsked(x)
    <3>1. x \in OrderInputs
      BY DEF AskedInv
    <3> HIDE DEF x
    <3>2. QED BY <3>1, HelpersAssumption
  <2> HIDE DEF x
  <2>2. /\ x.levels \in Seq(S) /\ Levels(S)
        /\ x.isBuy \in BOOLEAN /\ x.amount \in Nat /\ x.limit \in Nat
    BY <2>1 DEF OrderAsked, Listed, Levels
  <2>3. x.amount > 0
    BY DEF x
  <2> HIDE DEF S
  <2>4. Tells(BuildOrderMessages(x.levels, x.isBuy, x.amount, x.limit), x.limit,
              x.amount, TotalFrom(0, Amounts(Crossing(x.levels, x.isBuy, x.limit))))
    BY <2>2, <2>3, SummaryTells
  <2>5. QED BY <2>4 DEF x
<1>2. QED BY <1>1, InputsAsked, PTL

-----------------------------------------------------------------------------
(* Pending unlocks                                                           *)

(* What is shown of a time left: ready exactly when nothing is left, and the *)
(* time left to within the smaller unit shown.                               *)
Counts(shown, mins) ==
    IF mins <= 0 THEN shown = Ready
    ELSE /\ shown # Ready
         /\ MinutesShown(shown) <= mins
         /\ mins < MinutesShown(shown) + (IF shown.d > 0 THEN 60 ELSE 1)

LEMMA DurationCounts ==
    ASSUME NEW mins \in Int
    PROVE  Counts(FormatDuration(mins), mins)
<1>1. CASE mins <= 0
  BY <1>1 DEF Counts, FormatDuration
<1>2. CASE mins > 0
  <2> DEFINE days == mins \div 1440  hours == (mins % 1440) \div 60  m == mins % 60
             shown == FormatDuration(mins)
  <2>1. /\ days \in Nat /\ hours \in 0..23 /\ m \in 0..59
        /\ mins = 1440 * days + 60 * hours + m
    BY <1>2
  <2>2. shown = IF days > 0 THEN [d |-> days, h |-> hours, m |-> 0]
                ELSE [d |-> 0, h |-> hours, m |-> m]
    BY <1>2 DEF FormatDuration
  <2> HIDE DEF days, hours, m, shown
  <2>3. CASE days > 0
    <3>1. shown.d = days /\ shown.h = hours /\ shown.m = 0
      BY <2>2, <2>3
    <3>2. shown # Ready
      BY <2>3, <3>1 DEF Ready
    <3>3. QED BY <1>2, <2>1, <2>3, <3>1, <3>2 DEF Counts, MinutesShown, shown
  <2>4. CASE ~(days > 0)
    <3>1. shown.d = 0 /\ shown.h = hours /\ shown.m = m
      BY <2>2, <2>4
    <3>2. days = 0 /\ (hours # 0 \/ m # 0)
      BY <1>2, <2>1, <2>4
    <3>3. shown # Ready
      BY <3>1, <3>2 DEF Ready
    <3>4. QED BY <1>2, <2>1, <3>1, <3>2, <3>3 DEF Counts, MinutesShown, shown
  <2>5. QED BY <2>3, <2>4
<1>3. QED BY <1>1, <1>2

(* The first m sequences, one after the other.                               *)
FlatUpTo(f, seqs, m) == f = [i \in 1..m |-> IF i = 1 THEN seqs[i] ELSE f[i - 1] \o seqs[i]]

(* They exist.                                                               *)
LEMMA FlatExists ==
    ASSUME NEW seqs, NEW m \in Nat
    PROVE  \E f : FlatUpTo(f, seqs, m)
<1> DEFINE T == {k \in Nat : \E f : FlatUpTo(f, seqs, k)}
<1>1. 0 \in T
  <2> DEFINE g == [i \in 1..0 |-> seqs[i]]
  <2>1. FlatUpTo(g, seqs, 0)
    BY DEF FlatUpTo
  <2> HIDE DEF g
  <2>2. QED BY <2>1
<1>2. ASSUME NEW k \in Nat, k \in T PROVE k + 1 \in T
  <2>1. PICK f : FlatUpTo(f, seqs, k)
    BY <1>2
  <2> DEFINE next(n) == f[n - 1] \o seqs[n]
             g == [n \in 1..(k + 1) |-> IF n = k + 1 /\ n # 1 THEN next(n)
                                        ELSE IF n = 1 THEN seqs[1] ELSE f[n]]
  <2>0. \A n \in 1..k : f[n] = IF n = 1 THEN seqs[n] ELSE next(n)
    BY <2>1 DEF FlatUpTo
  <2>2. \A n \in 1..k : g[n] = f[n]
    BY <2>0
  <2>c. g[1] = seqs[1]
    <3>1. 1 \in 1..(k + 1)
      OBVIOUS
    <3>2. QED BY <3>1
  <2>d. ASSUME k + 1 # 1 PROVE g[k + 1] = next(k + 1)
    <3>1. k + 1 \in 1..(k + 1)
      OBVIOUS
    <3> HIDE DEF next
    <3>2. QED BY <2>d, <3>1
  <2>a. g[1] = seqs[1] /\ (k + 1 # 1 => g[k + 1] = f[(k + 1) - 1] \o seqs[k + 1])
    <3> HIDE DEF g
    <3>1. QED BY <2>c, <2>d
  <2>3. \A n \in 1..(k + 1) : g[n] = IF n = 1 THEN seqs[n] ELSE g[n - 1] \o seqs[n]
    <3> HIDE DEF g
    <3>1. TAKE n \in 1..(k + 1)
    <3>2. CASE n = 1
      BY <2>a, <3>2
    <3>3. CASE n = k + 1 /\ n # 1
      <4>1. n - 1 \in 1..k
        BY <3>3
      <4>2. g[n - 1] = f[n - 1]
        BY <2>2, <4>1
      <4>3. g[n] = f[n - 1] \o seqs[n]
        BY <2>a, <3>3
      <4>4. QED BY <3>3, <4>2, <4>3
    <3>4. CASE n \in 2..k
      <4>1. n \in 1..k /\ n - 1 \in 1..k /\ n # 1
        BY <3>4
      <4>2. f[n] = f[n - 1] \o seqs[n]
        BY <2>0, <4>1
      <4>3. g[n] = f[n] /\ g[n - 1] = f[n - 1]
        BY <2>2, <4>1
      <4>4. QED BY <4>1, <4>2, <4>3
    <3>5. QED BY <3>1, <3>2, <3>3, <3>4
  <2>4. FlatUpTo(g, seqs, k + 1)
    BY <2>3 DEF FlatUpTo
  <2> HIDE DEF g
  <2>5. QED BY <2>4
<1>3. Nat \subseteq T
  <2> HIDE DEF T
  <2>1. QED BY <1>1, <1>2, Induction
<1>4. QED BY <1>3

(* The elements of s are elements of the first m sequences, the p-th one is  *)
(* the one at place b[p] of the sequence a[p], and no place is met twice.    *)
ComesFrom(s, a, b, seqs, m, S) ==
    /\ s \in Seq(S)
    /\ \A p \in 1..Len(s) : /\ a[p] \in 1..m /\ b[p] \in 1..Len(seqs[a[p]])
                            /\ s[p] = seqs[a[p]][b[p]]
    /\ \A p, q \in 1..Len(s) : a[p] = a[q] /\ b[p] = b[q] => p = q

(* One sequence more.                                                        *)
LEMMA ComesMore ==
    ASSUME NEW S, NEW seqs, NEW m \in Nat, seqs[m + 1] \in Seq(S),
           NEW s, NEW a, NEW b, ComesFrom(s, a, b, seqs, m, S)
    PROVE  \E c, d : ComesFrom(s \o seqs[m + 1], c, d, seqs, m + 1, S)
<1> DEFINE t == seqs[m + 1]
           n == Len(s)
           c == [p \in 1..(n + Len(t)) |-> IF p <= n THEN a[p] ELSE m + 1]
           d == [p \in 1..(n + Len(t)) |-> IF p <= n THEN b[p] ELSE p - n]
           u == s \o t
<1>1. s \in Seq(S) /\ t \in Seq(S) /\ n \in Nat /\ Len(t) \in Nat
  BY DEF ComesFrom
<1>2. /\ \A p \in 1..n : a[p] \in 1..m /\ b[p] \in 1..Len(seqs[a[p]]) /\ s[p] = seqs[a[p]][b[p]]
      /\ \A p, q \in 1..n : a[p] = a[q] /\ b[p] = b[q] => p = q
  BY DEF ComesFrom
<1>3. /\ u \in Seq(S) /\ Len(u) = n + Len(t)
      /\ \A p \in 1..n : u[p] = s[p]
      /\ \A p \in 1..(n + Len(t)) : p > n => u[p] = t[p - n]
  <2> HIDE DEF t
  <2>1. QED BY <1>1, ConcatElements
<1>4. /\ \A p \in 1..n : c[p] = a[p] /\ d[p] = b[p]
      /\ \A p \in 1..(n + Len(t)) : p > n => c[p] = m + 1 /\ d[p] = p - n
  BY <1>1
<1> HIDE DEF c, d, u, n
<1>5. ASSUME NEW p \in 1..(n + Len(t))
      PROVE  c[p] \in 1..(m + 1) /\ d[p] \in 1..Len(seqs[c[p]]) /\ u[p] = seqs[c[p]][d[p]]
  <2>1. CASE p <= n
    <3>1. p \in 1..n
      BY <1>1, <2>1
    <3>2. c[p] = a[p] /\ d[p] = b[p] /\ u[p] = s[p]
      BY <1>3, <1>4, <3>1
    <3>3. a[p] \in 1..m /\ b[p] \in 1..Len(seqs[a[p]]) /\ s[p] = seqs[a[p]][b[p]]
      BY <1>2, <3>1
    <3>4. a[p] \in 1..(m + 1)
      BY <3>3
    <3>5. QED BY <3>2, <3>3, <3>4
  <2>2. CASE ~(p <= n)
    <3>1. p > n /\ p - n \in 1..Len(t)
      BY <1>1, <2>2
    <3>2. c[p] = m + 1 /\ d[p] = p - n /\ u[p] = t[p - n]
      BY <1>3, <1>4, <3>1
    <3>3. QED BY <3>1, <3>2
  <2>3. QED BY <2>1, <2>2
<1>6. ASSUME NEW p \in 1..(n + Len(t)), NEW q \in 1..(n + Len(t)), c[p] = c[q], d[p] = d[q]
      PROVE  p = q
  <2>1. CASE p <= n /\ q <= n
    <3>1. p \in 1..n /\ q \in 1..n
      BY <1>1, <2>1
    <3>2. a[p] = a[q] /\ b[p] = b[q]
      BY <1>4, <1>6, <3>1
    <3>3. QED BY <1>2, <3>1, <3>2
  <2>2. CASE p > n /\ q > n
    <3>1. p - n = q - n
      BY <1>4, <1>6, <2>2
    <3>2. QED BY <1>1, <3>1
  <2>3. CASE p <= n /\ q > n
    <3>1. p \in 1..n
      BY <1>1, <2>3
    <3>2. c[p] \in 1..m /\ c[q] = m + 1
      BY <1>2, <1>4, <2>3, <3>1
    <3>3. QED BY <1>6, <3>2
  <2>4. CASE p > n /\ q <= n
    <3>1. q \in 1..n
      BY <1>1, <2>4
    <3>2. c[q] \in 1..m /\ c[p] = m + 1
      BY <1>2, <1>4, <2>4, <3>1
    <3>3. QED BY <1>6, <3>2
  <2>5. QED BY <1>1, <2>1, <2>2, <2>3, <2>4
<1>7. ComesFrom(u, c, d, seqs, m + 1, S)
  BY <1>3, <1>5, <1>6 DEF ComesFrom
<1>8. QED BY <1>7 DEF u

(* FlattenSeq lists the elements of its sequences, each place once.          *)
LEMMA Flattened ==
    ASSUME NEW S, NEW seqs, NEW m \in Nat, Len(seqs) = m, \A i \in 1..m : seqs[i] \in Seq(S),
           m = 0 => seqs = <<>>
    PROVE  \E a, b : ComesFrom(FlattenSeq(seqs), a, b, seqs, m, S)
<1> DEFINE f == CHOOSE g : FlatUpTo(g, seqs, Len(seqs))
<1>1. CASE m = 0
  <2> DEFINE none == [i \in 1..0 |-> 0]
  <2>1. FlattenSeq(seqs) = <<>>
    BY <1>1 DEF FlattenSeq
  <2>2. ComesFrom(<<>>, none, none, seqs, m, S)
    BY DEF ComesFrom
  <2> HIDE DEF none
  <2>3. QED BY <2>1, <2>2
<1>2. CASE m # 0
  <2>1. FlatUpTo(f, seqs, m)
    BY FlatExists
  <2>2. FlattenSeq(seqs) = f[m]
    BY <1>2 DEF FlattenSeq, FlatUpTo
  <2> HIDE DEF f
  <2>3. \A i \in 1..m : f[i] = IF i = 1 THEN seqs[i] ELSE f[i - 1] \o seqs[i]
    BY <2>1 DEF FlatUpTo
  <2> DEFINE T == {k \in 0..m : k > 0 => \E a, b : ComesFrom(f[k], a, b, seqs, k, S)}
  <2>4. 0 \in T
    OBVIOUS
  <2>5. ASSUME NEW k \in 0..m, k \in T, k < m PROVE k + 1 \in T
    <3>1. k + 1 \in 1..m /\ seqs[k + 1] \in Seq(S)
      BY <2>5
    <3>2. CASE k = 0
      <4> DEFINE c == [p \in 1..Len(seqs[1]) |-> 1]
                 d == [p \in 1..Len(seqs[1]) |-> p]
      <4>1. f[1] = seqs[1] /\ seqs[1] \in Seq(S)
        BY <1>2, <2>3, <3>1, <3>2
      <4>2. \A p \in 1..Len(seqs[1]) : c[p] = 1 /\ d[p] = p
        OBVIOUS
      <4> HIDE DEF c, d
      <4>3. ComesFrom(f[1], c, d, seqs, 1, S)
        BY <4>1, <4>2 DEF ComesFrom
      <4>4. QED BY <3>1, <3>2, <4>3
    <3>3. CASE k # 0
      <4>1. PICK a, b : ComesFrom(f[k], a, b, seqs, k, S)
        BY <2>5, <3>3
      <4>2. f[k + 1] = f[k] \o seqs[k + 1]
        <5>1. k + 1 # 1 /\ (k + 1) - 1 = k
          BY <3>3
        <5>2. QED BY <2>3, <3>1, <5>1
      <4> DEFINE fk == f[k]
      <4>a. k \in Nat /\ ComesFrom(fk, a, b, seqs, k, S)
        BY <4>1
      <4> HIDE DEF fk
      <4>3. \E c, d : ComesFrom(fk \o seqs[k + 1], c, d, seqs, k + 1, S)
        BY <3>1, <4>a, ComesMore
      <4>4. f[k + 1] = fk \o seqs[k + 1]
        BY <4>2 DEF fk
      <4>5. \E c, d : ComesFrom(f[k + 1], c, d, seqs, k + 1, S)
        BY <4>3, <4>4
      <4>6. k + 1 \in 0..m
        BY <3>1
      <4>7. QED BY <4>5, <4>6
    <3>4. QED BY <3>2, <3>3
  <2> HIDE DEF T
  <2>6. 0..m \subseteq T
    BY <2>4, <2>5, InductionUpTo
  <2>7. m \in T
    BY <2>6
  <2>8. QED BY <1>2, <2>2, <2>7 DEF T
<1>3. QED BY <1>1, <1>2

(* No two rows share a key.                                                  *)
LEMMA KeysDiffer ==
    ASSUME NEW u, UnlocksAsked(u)
    PROVE  LET rows == PendingUnlockRows(u.unbonding, u.unlocks, u.now, u.epoch)
           IN  IsInjective([i \in DOMAIN rows |-> rows[i].key])
<1> DEFINE us == u.unbonding
           row(i, k) == [key |-> <<"n", us[i].val, us[i].entries[k].height, k>>,
                         amount |-> us[i].entries[k].balance,
                         when |-> UnlockWhen([native |-> TRUE, at |-> us[i].entries[k].at],
                                             u.now, u.epoch)]
           seqs == [i \in DOMAIN us |-> [k \in DOMAIN us[i].entries |-> row(i, k)]]
           paid(i) == [key |-> <<"r", u.unlocks[i].epoch, u.unlocks[i].id>>,
                       amount |-> u.unlocks[i].amount,
                       when |-> UnlockWhen([native |-> FALSE, at |-> u.unlocks[i].epoch],
                                           u.now, u.epoch)]
           reward == [i \in DOMAIN u.unlocks |-> paid(i)]
           native == FlattenSeq(seqs)
           rows == PendingUnlockRows(us, u.unlocks, u.now, u.epoch)
           N == {row(i, k) : i \in DOMAIN us, k \in UNION {DOMAIN us[i].entries : i \in DOMAIN us}}
           S == N \cup {paid(i) : i \in DOMAIN u.unlocks}
<1>1. rows = native \o reward
  BY DEF PendingUnlockRows
<1>2. /\ DOMAIN us = 1..Len(us) /\ Len(us) \in Nat
      /\ DOMAIN u.unlocks = 1..Len(u.unlocks) /\ Len(u.unlocks) \in Nat
  BY DEF UnlocksAsked, Listed
<1>3. ASSUME NEW i \in DOMAIN us
      PROVE  DOMAIN us[i].entries = 1..Len(us[i].entries) /\ Len(us[i].entries) \in Nat
  <2>1. us[i] \in Range(us)
    BY DEF Range
  <2>2. Listed(us[i].entries)
    BY <2>1 DEF UnlocksAsked
  <2>3. QED BY <2>2 DEF Listed
<1>4. \A i, j \in DOMAIN us : us[i].val = us[j].val => i = j
  <2> DEFINE f == [i \in DOMAIN us |-> us[i].val]
  <2>1. \A i, j \in DOMAIN us : f[i] = f[j] => i = j
    BY DEF UnlocksAsked, IsInjective
  <2>2. \A i \in DOMAIN us : f[i] = us[i].val
    OBVIOUS
  <2> HIDE DEF f
  <2>3. QED BY <2>1, <2>2
<1>5. \A i, j \in DOMAIN u.unlocks :
          u.unlocks[i].epoch = u.unlocks[j].epoch /\ u.unlocks[i].id = u.unlocks[j].id => i = j
  <2> DEFINE g == [i \in DOMAIN u.unlocks |-> <<u.unlocks[i].epoch, u.unlocks[i].id>>]
  <2>1. \A i, j \in DOMAIN u.unlocks : g[i] = g[j] => i = j
    BY DEF UnlocksAsked, IsInjective
  <2>2. \A i \in DOMAIN u.unlocks : g[i] = <<u.unlocks[i].epoch, u.unlocks[i].id>>
    OBVIOUS
  <2> HIDE DEF g
  <2>3. QED BY <2>1, <2>2
<1>6. \A i, k : row(i, k).key = <<"n", us[i].val, us[i].entries[k].height, k>>
  OBVIOUS
<1>7. \A i : paid(i).key = <<"r", u.unlocks[i].epoch, u.unlocks[i].id>>
  OBVIOUS
<1>8. \A i \in DOMAIN us : \A k \in DOMAIN us[i].entries : row(i, k) \in S
  <2> HIDE DEF row, paid
  <2>1. QED OBVIOUS
<1>9. \A i \in DOMAIN u.unlocks : paid(i) \in S
  <2> HIDE DEF row, paid
  <2>1. QED OBVIOUS
<1> HIDE DEF row, paid, S, us
<1>10. \A i \in 1..Len(us) : /\ seqs[i] \in Seq(S) /\ Len(seqs[i]) = Len(us[i].entries)
                             /\ \A k \in 1..Len(us[i].entries) : seqs[i][k] = row(i, k)
  <2>1. TAKE i \in 1..Len(us)
  <2>2. i \in DOMAIN us /\ DOMAIN us[i].entries = 1..Len(us[i].entries) /\ Len(us[i].entries) \in Nat
    BY <1>2, <1>3
  <2>3. seqs[i] = [k \in 1..Len(us[i].entries) |-> row(i, k)]
    BY <2>2
  <2>4. \A k \in 1..Len(us[i].entries) : row(i, k) \in S
    BY <1>8, <2>2
  <2> HIDE DEF seqs
  <2>5. QED BY <2>2, <2>3, <2>4
<1>11. Len(seqs) = Len(us) /\ (Len(us) = 0 => seqs = <<>>)
  BY <1>2
<1>12. /\ reward \in Seq(S) /\ Len(reward) = Len(u.unlocks)
       /\ \A i \in 1..Len(u.unlocks) : reward[i] = paid(i)
  <2>1. reward = [i \in 1..Len(u.unlocks) |-> paid(i)]
    BY <1>2
  <2>2. \A i \in 1..Len(u.unlocks) : paid(i) \in S
    BY <1>2, <1>9
  <2> HIDE DEF reward
  <2>3. QED BY <1>2, <2>1, <2>2
<1> HIDE DEF seqs, reward
<1>13. PICK a, b : ComesFrom(native, a, b, seqs, Len(us), S)
  <2>1. \A i \in 1..Len(us) : seqs[i] \in Seq(S)
    BY <1>10
  <2>2. QED BY <1>2, <1>11, <2>1, Flattened
<1> HIDE DEF native, rows
<1>14. native \in Seq(S) /\ Len(native) \in Nat /\ Len(u.unlocks) \in Nat
  BY <1>2, <1>13 DEF ComesFrom
<1>15. /\ Len(rows) = Len(native) + Len(u.unlocks) /\ DOMAIN rows = 1..Len(rows)
       /\ \A p \in 1..Len(native) : rows[p] = native[p]
       /\ \A p \in 1..Len(rows) : p > Len(native) => rows[p] = paid(p - Len(native))
  <2>1. /\ rows \in Seq(S) /\ Len(rows) = Len(native) + Len(reward)
        /\ \A p \in 1..Len(native) : rows[p] = native[p]
        /\ \A p \in 1..(Len(native) + Len(reward)) : p > Len(native) => rows[p] = reward[p - Len(native)]
    <3>1. native \in Seq(S) /\ reward \in Seq(S) /\ rows = native \o reward
      BY <1>1, <1>12, <1>14
    <3> DEFINE z == native \o reward
    <3>2. /\ z \in Seq(S) /\ Len(z) = Len(native) + Len(reward)
          /\ \A p \in 1..Len(native) : z[p] = native[p]
          /\ \A p \in 1..(Len(native) + Len(reward)) : p > Len(native) => z[p] = reward[p - Len(native)]
      BY <3>1, ConcatElements
    <3>3. rows = z
      BY <3>1
    <3> HIDE DEF z
    <3>4. QED BY <3>2, <3>3
  <2>2. ASSUME NEW p \in 1..Len(rows), p > Len(native) PROVE rows[p] = paid(p - Len(native))
    <3>1. p - Len(native) \in 1..Len(u.unlocks)
      BY <1>12, <1>14, <2>1, <2>2
    <3>2. rows[p] = reward[p - Len(native)]
      BY <2>1, <2>2
    <3>3. QED BY <1>12, <3>1, <3>2
  <2>3. DOMAIN rows = 1..Len(rows)
    BY <2>1
  <2>4. QED BY <1>12, <2>1, <2>2, <2>3
<1>16. ASSUME NEW p \in 1..Len(native)
       PROVE  /\ a[p] \in DOMAIN us
              /\ rows[p].key = <<"n", us[a[p]].val, us[a[p]].entries[b[p]].height, b[p]>>
  <2>1. a[p] \in 1..Len(us) /\ b[p] \in 1..Len(seqs[a[p]]) /\ native[p] = seqs[a[p]][b[p]]
    BY <1>13 DEF ComesFrom
  <2>2. native[p] = row(a[p], b[p])
    BY <1>10, <2>1
  <2>3. rows[p] = row(a[p], b[p])
    BY <1>15, <2>2
  <2>4. QED BY <1>2, <1>6, <2>1, <2>3
<1>17. ASSUME NEW p \in 1..Len(rows), p > Len(native)
       PROVE  /\ p - Len(native) \in DOMAIN u.unlocks
              /\ rows[p].key = <<"r", u.unlocks[p - Len(native)].epoch, u.unlocks[p - Len(native)].id>>
  <2>1. p - Len(native) \in 1..Len(u.unlocks)
    BY <1>14, <1>15, <1>17
  <2>2. rows[p] = paid(p - Len(native))
    BY <1>15, <1>17
  <2>3. QED BY <1>2, <1>7, <2>1, <2>2
<1>18. ASSUME NEW p \in DOMAIN rows, NEW q \in DOMAIN rows, rows[p].key = rows[q].key PROVE p = q
  <2>1. p \in 1..Len(rows) /\ q \in 1..Len(rows) /\ Len(rows) \in Nat
    BY <1>14, <1>15
  <2>2. CASE p <= Len(native) /\ q <= Len(native)
    <3>1. p \in 1..Len(native) /\ q \in 1..Len(native)
      BY <1>14, <2>1, <2>2
    <3>2. us[a[p]].val = us[a[q]].val /\ b[p] = b[q]
      BY <1>16, <1>18, <3>1
    <3>3. a[p] = a[q]
      BY <1>4, <1>16, <3>1, <3>2
    <3>4. QED BY <1>13, <3>1, <3>2, <3>3 DEF ComesFrom
  <2>3. CASE p > Len(native) /\ q > Len(native)
    <3> DEFINE i == p - Len(native)
               j == q - Len(native)
    <3>1. /\ i \in DOMAIN u.unlocks /\ j \in DOMAIN u.unlocks
          /\ rows[p].key = <<"r", u.unlocks[i].epoch, u.unlocks[i].id>>
          /\ rows[q].key = <<"r", u.unlocks[j].epoch, u.unlocks[j].id>>
      BY <1>17, <2>1, <2>3
    <3> HIDE DEF i, j
    <3>a. <<"r", u.unlocks[i].epoch, u.unlocks[i].id>> = <<"r", u.unlocks[j].epoch, u.unlocks[j].id>>
      BY <1>18, <3>1
    <3>2. u.unlocks[i].epoch = u.unlocks[j].epoch /\ u.unlocks[i].id = u.unlocks[j].id
      BY <3>a
    <3>3. i = j
      BY <1>5, <3>1, <3>2
    <3>4. QED BY <1>14, <2>1, <3>3 DEF i, j
  <2>4. CASE p <= Len(native) /\ q > Len(native)
    <3>1. p \in 1..Len(native)
      BY <1>14, <2>1, <2>4
    <3>2. rows[p].key[1] = "n"
      BY <1>16, <3>1
    <3>3. rows[q].key[1] = "r"
      BY <1>17, <2>1, <2>4
    <3>4. QED BY <1>18, <3>2, <3>3
  <2>5. CASE p > Len(native) /\ q <= Len(native)
    <3>1. q \in 1..Len(native)
      BY <1>14, <2>1, <2>5
    <3>2. rows[q].key[1] = "n"
      BY <1>16, <3>1
    <3>3. rows[p].key[1] = "r"
      BY <1>17, <2>1, <2>5
    <3>4. QED BY <1>18, <3>2, <3>3
  <2>6. QED BY <1>14, <2>1, <2>2, <2>3, <2>4, <2>5
<1>19. IsInjective([i \in DOMAIN rows |-> rows[i].key])
  <2> DEFINE f == [i \in DOMAIN rows |-> rows[i].key]
  <2>1. DOMAIN f = DOMAIN rows /\ \A i \in DOMAIN rows : f[i] = rows[i].key
    OBVIOUS
  <2> HIDE DEF f
  <2>2. IsInjective(f)
    BY <1>18, <2>1 DEF IsInjective
  <2>3. QED BY <2>2 DEF f
<1>20. QED BY <1>19 DEF rows, us

(* The countdown of a pending unlock is never ready early and shows the time *)
(* left to within its smaller unit, and no two rows share a key              *)
(* (buildPendingUnlockRows and formatDurationMs of stakingHelpers.ts): for   *)
(* any number of entries and any times.                                      *)
THEOREM CountdownsAreTrue == Spec => []CountdownIsTrue
<1>1. AskedInv => CountdownIsTrue
  <2> SUFFICES ASSUME AskedInv, asked.fn = "unlocks" PROVE CountdownIsTrue
    BY DEF CountdownIsTrue
  <2> DEFINE u == asked.in
             rows == PendingUnlockRows(u.unbonding, u.unlocks, u.now, u.epoch)
             entry(e) == <<e.at - u.now, UnlockWhen([native |-> TRUE, at |-> e.at], u.now, u.epoch)>>
             unlock(x) == <<60 * (x.epoch - u.epoch),
                            UnlockWhen([native |-> FALSE, at |-> x.epoch], u.now, u.epoch)>>
             left == {entry(e) : e \in UNION {Range(x.entries) : x \in Range(u.unbonding)}}
                       \cup {unlock(x) : x \in {y \in Range(u.unlocks) : u.epoch > 0}}
  <2>1. UnlocksAsked(u)
    <3>1. u \in UnlockInputs
      BY DEF AskedInv
    <3> HIDE DEF u
    <3>2. QED BY <3>1, HelpersAssumption
  <2>2. IsInjective([i \in DOMAIN rows |-> rows[i].key])
    <3> HIDE DEF u
    <3>1. QED BY <2>1, KeysDiffer
  <2>3. ASSUME NEW l \in left PROVE Counts(l[2], l[1])
    <3> HIDE DEF u
    <3>0. u.now \in Int /\ u.epoch \in Int
      BY <2>1 DEF UnlocksAsked
    <3>1. ASSUME NEW x \in Range(u.unbonding), NEW e \in Range(x.entries)
          PROVE  Counts(entry(e)[2], entry(e)[1])
      <4>1. e.at \in Int
        BY <2>1, <3>1 DEF UnlocksAsked
      <4>2. e.at - u.now \in Int
        BY <3>0, <4>1
      <4>3. Counts(FormatDuration(e.at - u.now), e.at - u.now)
        BY <4>2, DurationCounts
      <4>4. UnlockWhen([native |-> TRUE, at |-> e.at], u.now, u.epoch) = FormatDuration(e.at - u.now)
        BY DEF UnlockWhen
      <4>5. QED BY <4>3, <4>4
    <3>2. ASSUME NEW x \in Range(u.unlocks), u.epoch > 0
          PROVE  Counts(unlock(x)[2], unlock(x)[1])
      <4>1. x.epoch \in Int
        BY <2>1, <3>2 DEF UnlocksAsked
      <4>2. 60 * (x.epoch - u.epoch) \in Int
        BY <3>0, <4>1
      <4>3. Counts(FormatDuration(60 * (x.epoch - u.epoch)), 60 * (x.epoch - u.epoch))
        BY <4>2, DurationCounts
      <4>4. u.epoch # 0
        BY <3>0, <3>2
      <4>5. UnlockWhen([native |-> FALSE, at |-> x.epoch], u.now, u.epoch)
              = FormatDuration(60 * (x.epoch - u.epoch))
        BY <4>4 DEF UnlockWhen
      <4>6. QED BY <4>3, <4>5
    <3> HIDE DEF entry, unlock
    <3>3. QED BY <2>3, <3>1, <3>2
  <2>4. \A l \in left : LET mins == l[1]  shown == l[2]
                        IN  IF mins <= 0 THEN shown = Ready
                            ELSE /\ shown # Ready
                                 /\ MinutesShown(shown) <= mins
                                 /\ mins < MinutesShown(shown) + (IF shown.d > 0 THEN 60 ELSE 1)
    <3> HIDE DEF left
    <3>1. QED BY <2>3 DEF Counts
  <2> DEFINE keys == [i \in DOMAIN rows |-> rows[i].key]
  <2>5. IsInjective(keys)
    BY <2>2
  <2>6. CountdownIsTrue <=> (IsInjective(keys)
                             /\ \A l \in left : LET mins == l[1]  shown == l[2]
                                IN  IF mins <= 0 THEN shown = Ready
                                    ELSE /\ shown # Ready
                                         /\ MinutesShown(shown) <= mins
                                         /\ mins < MinutesShown(shown) + (IF shown.d > 0 THEN 60 ELSE 1))
    BY DEF CountdownIsTrue
  <2> HIDE DEF keys, left
  <2>7. QED BY <2>4, <2>5, <2>6
<1>2. QED BY <1>1, InputsAsked, PTL

-----------------------------------------------------------------------------
(* Routes                                                                    *)

(* The search after each of the first m rounds.                              *)
SearchedUpTo(f, pools, from, to, m) ==
    f = [n \in 0..m |-> IF n = 0 THEN [found |-> FALSE, seen |-> {from}, queue |-> <<from>>]
                                 ELSE SearchOn(pools, to, f[n - 1])]

(* It exists.                                                                *)
LEMMA SearchExists ==
    ASSUME NEW pools, NEW from, NEW to, NEW m \in Nat
    PROVE  \E f : SearchedUpTo(f, pools, from, to, m)
<1> DEFINE start == [found |-> FALSE, seen |-> {from}, queue |-> <<from>>]
           T == {k \in Nat : \E f : SearchedUpTo(f, pools, from, to, k)}
<1>1. 0 \in T
  <2> DEFINE g == [n \in 0..0 |-> start]
  <2>1. SearchedUpTo(g, pools, from, to, 0)
    BY DEF SearchedUpTo
  <2> HIDE DEF g
  <2>2. QED BY <2>1
<1>2. ASSUME NEW k \in Nat, k \in T PROVE k + 1 \in T
  <2>1. PICK f : SearchedUpTo(f, pools, from, to, k)
    BY <1>2
  <2> DEFINE next(n) == SearchOn(pools, to, f[n - 1])
             g == [n \in 0..(k + 1) |-> IF n = k + 1 THEN next(n) ELSE f[n]]
  <2>0. \A n \in 0..k : f[n] = IF n = 0 THEN start ELSE next(n)
    BY <2>1 DEF SearchedUpTo
  <2>2. \A n \in 0..k : g[n] = f[n]
    OBVIOUS
  <2> HIDE DEF start
  <2>3. \A n \in 0..(k + 1) : g[n] = IF n = 0 THEN start ELSE SearchOn(pools, to, g[n - 1])
    <3>1. TAKE n \in 0..(k + 1)
    <3>2. CASE n = k + 1
      BY <2>2, <3>2
    <3>3. CASE n \in 1..k
      <4>1. f[n] = next(n)
        BY <2>0, <3>3
      <4>2. g[n] = f[n] /\ g[n - 1] = f[n - 1]
        BY <2>2, <3>3
      <4>3. QED BY <3>3, <4>1, <4>2
    <3>4. CASE n = 0
      BY <2>0, <2>2, <3>4
    <3>5. QED BY <3>2, <3>3, <3>4
  <2>4. SearchedUpTo(g, pools, from, to, k + 1)
    BY <2>3 DEF SearchedUpTo, start
  <2> HIDE DEF g
  <2>5. QED BY <2>4
<1>3. Nat \subseteq T
  <2> HIDE DEF T
  <2>1. QED BY <1>1, <1>2, Induction
<1>4. QED BY <1>3

(* A queue of the elements of S, each once.                                  *)
Queues(q, S) ==
    /\ q \in Seq(S)
    /\ \A i, j \in 1..Len(q) : q[i] = q[j] => i = j
    /\ \A x \in S : \E i \in 1..Len(q) : q[i] = x

(* A finite set has one.                                                     *)
LEMMA SetQueues ==
    ASSUME NEW S, IsFiniteSet(S)
    PROVE  Queues(SetToSeq(S), S)
<1> DEFINE n == Cardinality(S)
           q == SetToSeq(S)
<1>1. n \in Nat /\ ExistsBijection(1..n, S)
  BY FS_CardinalityType
<1>2. \E f \in [1..n -> S] : IsInjective(f)
  BY <1>1 DEF ExistsBijection, Bijection, Injection
<1>3. q \in [1..n -> S] /\ IsInjective(q)
  BY <1>2 DEF SetToSeq
<1> HIDE DEF q
<1>4. q \in Seq(S) /\ Len(q) = n
  BY <1>1, <1>3
<1>5. \A i, j \in 1..n : q[i] = q[j] => i = j
  BY <1>3 DEF IsInjective
<1> DEFINE I == {q[i] : i \in 1..n}
<1>6. I \subseteq S
  BY <1>3
<1>7. q \in Surjection(1..n, I) /\ q \in Injection(1..n, I)
  <2>1. q \in [1..n -> I]
    BY <1>3
  <2>2. \A x \in I : \E i \in 1..n : q[i] = x
    OBVIOUS
  <2> HIDE DEF I
  <2>3. QED BY <1>3, <2>1, <2>2 DEF Surjection, Injection
<1>8. IsFiniteSet(1..n) /\ Cardinality(1..n) = n
  BY <1>1, FS_Interval
<1> HIDE DEF I
<1>9. Cardinality(I) = n
  BY <1>7, <1>8, FS_Surjection
<1>10. I = S
  BY <1>6, <1>9, FS_Subset DEF n
<1>11. QED BY <1>4, <1>5, <1>10 DEF Queues, q, I

(* The queue moves on: its head leaves, new elements join.                   *)
LEMMA QueueMoves ==
    ASSUME NEW Q, NEW q, Queues(q, Q), q # <<>>, NEW N, NEW t, Queues(t, N), N \cap Q = {}
    PROVE  Head(q) \in Q /\ Queues(Tail(q) \o t, (Q \ {Head(q)}) \cup N)
<1> DEFINE h == Head(q)
           a == Tail(q)
           W == (Q \ {h}) \cup N
           z == a \o t
<1>1. /\ q \in Seq(Q) /\ \A i, j \in 1..Len(q) : q[i] = q[j] => i = j
      /\ \A x \in Q : \E i \in 1..Len(q) : q[i] = x
  BY DEF Queues
<1>2. /\ t \in Seq(N) /\ \A i, j \in 1..Len(t) : t[i] = t[j] => i = j
      /\ \A x \in N : \E i \in 1..Len(t) : t[i] = x
  BY DEF Queues
<1>3. /\ Len(q) \in Nat /\ Len(q) > 0 /\ h = q[1] /\ h \in Q
      /\ a \in Seq(Q) /\ Len(a) = Len(q) - 1 /\ Len(a) \in Nat /\ Len(t) \in Nat
      /\ \A i \in 1..Len(a) : a[i] = q[i + 1]
  BY <1>1, <1>2
<1> HIDE DEF h, a
<1>4. \A i \in 1..Len(a) : a[i] \in Q /\ a[i] # h
  <2>1. TAKE i \in 1..Len(a)
  <2>2. i + 1 \in 1..Len(q) /\ 1 \in 1..Len(q) /\ i + 1 # 1
    BY <1>3
  <2>3. q[i + 1] # q[1]
    BY <1>1, <2>2
  <2>4. a[i] \in Q
    BY <1>3
  <2>5. QED BY <1>3, <2>3, <2>4
<1>5. a \in Seq(W) /\ t \in Seq(W)
  <2>1. \A i \in 1..Len(a) : a[i] \in W
    BY <1>4
  <2>2. \A i \in 1..Len(t) : t[i] \in W
    BY <1>2
  <2> HIDE DEF W
  <2>3. a \in Seq(W)
    BY <1>3, <2>1
  <2>4. t \in Seq(W)
    BY <1>2, <2>2
  <2>5. QED BY <2>3, <2>4
<1>6. /\ z \in Seq(W) /\ Len(z) = Len(a) + Len(t)
      /\ \A i \in 1..Len(a) : z[i] = a[i]
      /\ \A i \in 1..(Len(a) + Len(t)) : i > Len(a) => z[i] = t[i - Len(a)]
  <2> HIDE DEF W
  <2>1. QED BY <1>5, ConcatElements
<1> HIDE DEF z
<1>7. ASSUME NEW i \in 1..Len(z), NEW j \in 1..Len(z), z[i] = z[j] PROVE i = j
  <2>0. i \in 1..(Len(a) + Len(t)) /\ j \in 1..(Len(a) + Len(t))
    BY <1>6
  <2>1. CASE i <= Len(a) /\ j <= Len(a)
    <3>1. i \in 1..Len(a) /\ j \in 1..Len(a)
      BY <1>3, <2>0, <2>1
    <3>2. i + 1 \in 1..Len(q) /\ j + 1 \in 1..Len(q) /\ q[i + 1] = q[j + 1]
      BY <1>3, <1>6, <1>7, <3>1
    <3>3. i + 1 = j + 1
      BY <1>1, <3>2
    <3>4. QED BY <3>1, <3>3
  <2>2. CASE i > Len(a) /\ j > Len(a)
    <3>1. i - Len(a) \in 1..Len(t) /\ j - Len(a) \in 1..Len(t)
      BY <1>3, <2>0, <2>2
    <3>2. t[i - Len(a)] = t[j - Len(a)]
      BY <1>6, <1>7, <2>0, <2>2
    <3>3. i - Len(a) = j - Len(a)
      BY <1>2, <3>1, <3>2
    <3>4. QED BY <1>3, <2>0, <3>3
  <2>3. ASSUME NEW k \in 1..Len(z), NEW l \in 1..Len(z), k <= Len(a), l > Len(a)
        PROVE  z[k] # z[l]
    <3>1. k \in 1..Len(a) /\ l \in 1..(Len(a) + Len(t)) /\ l - Len(a) \in 1..Len(t)
      BY <1>3, <1>6, <2>3
    <3>2. z[k] \in Q
      BY <1>4, <1>6, <3>1
    <3>a. z[l] = t[l - Len(a)]
      BY <1>6, <2>3, <3>1
    <3>b. t[l - Len(a)] \in N
      BY <1>2, <3>1
    <3>3. z[l] \in N
      BY <3>a, <3>b
    <3>4. QED BY <3>2, <3>3
  <2>4. QED BY <1>3, <1>7, <2>0, <2>1, <2>2, <2>3
<1>8. ASSUME NEW x \in W PROVE \E i \in 1..Len(z) : z[i] = x
  <2>1. CASE x \in N
    <3>1. PICK k \in 1..Len(t) : t[k] = x
      BY <1>2, <2>1
    <3> DEFINE i == Len(a) + k
    <3>2. i \in 1..(Len(a) + Len(t)) /\ i > Len(a) /\ i - Len(a) = k
      BY <1>3
    <3> HIDE DEF i
    <3>3. z[i] = t[k]
      BY <1>6, <3>2
    <3>4. QED BY <1>6, <3>1, <3>2, <3>3
  <2>2. CASE x \in Q /\ x # h
    <3>1. PICK k \in 1..Len(q) : q[k] = x
      BY <1>1, <2>2
    <3>2. k # 1
      BY <1>3, <2>2, <3>1
    <3> DEFINE i == k - 1
    <3>3. i \in 1..Len(a) /\ i + 1 = k
      BY <1>3, <3>2
    <3> HIDE DEF i
    <3>4. z[i] = x
      BY <1>3, <1>6, <3>1, <3>3
    <3>5. i \in 1..Len(z)
      BY <1>3, <1>6, <3>3
    <3>6. QED BY <3>4, <3>5
  <2>3. QED BY <2>1, <2>2
<1> HIDE DEF W
<1>9. Queues(z, W)
  BY <1>6, <1>7, <1>8 DEF Queues
<1>10. QED BY <1>3, <1>9 DEF z, W, h, a

(* What the search has found out after n rounds: the tokens seen are         *)
(* connected to the first one, those queued are among them, and those it has *)
(* done with, one a round, have no neighbour that is not seen.               *)
Searching(s, n, pools, from, to, V) ==
    /\ s.found \in BOOLEAN /\ s.seen \subseteq V /\ from \in s.seen
    /\ \A D : ClosedUnder(pools, D) /\ from \in D => s.seen \subseteq D
    /\ s.found => to \in s.seen
    /\ ~s.found => \E Q : /\ Q \subseteq s.seen /\ Queues(s.queue, Q)
                          /\ to \notin s.seen \ Q
                          /\ \A d \in s.seen \ Q : NextDenoms(pools, d) \subseteq s.seen
                          /\ s.queue # <<>> => Cardinality(s.seen \ Q) = n

(* The denoms of a list of pools.                                            *)
DenomsOf(pools) == UNION {{p.base, p.quote} : p \in pools}

(* A round more.                                                             *)
LEMMA RoundOfSearch ==
    ASSUME NEW pools, NEW from, NEW to, NEW V, IsFiniteSet(V), DenomsOf(pools) \subseteq V,
           NEW s, NEW n \in Nat, Searching(s, n, pools, from, to, V)
    PROVE  Searching(SearchOn(pools, to, s), n + 1, pools, from, to, V)
<1> DEFINE z == SearchOn(pools, to, s)
<1>0. /\ s.found \in BOOLEAN /\ s.seen \subseteq V /\ from \in s.seen
      /\ \A D : ClosedUnder(pools, D) /\ from \in D => s.seen \subseteq D
  BY DEF Searching
<1>1. CASE s.found
  <2>1. z = s /\ to \in s.seen
    BY <1>1 DEF SearchOn, Searching
  <2> HIDE DEF z
  <2>2. Searching(s, n + 1, pools, from, to, V)
    BY <1>0, <1>1, <2>1 DEF Searching
  <2>3. QED BY <2>1, <2>2 DEF z
<1>2. CASE ~s.found
  <2>1. PICK Q : /\ Q \subseteq s.seen /\ Queues(s.queue, Q)
                 /\ to \notin s.seen \ Q
                 /\ \A d \in s.seen \ Q : NextDenoms(pools, d) \subseteq s.seen
                 /\ s.queue # <<>> => Cardinality(s.seen \ Q) = n
    BY <1>2 DEF Searching
  <2>2. CASE s.queue = <<>>
    <3>1. z = s
      BY <2>2 DEF SearchOn
    <3> HIDE DEF z
    <3>2. Searching(s, n + 1, pools, from, to, V)
      BY <1>0, <1>2, <2>1, <2>2 DEF Searching
    <3>3. QED BY <3>1, <3>2 DEF z
  <2>3. CASE s.queue # <<>>
    <3> DEFINE h == Head(s.queue)
               new == NextDenoms(pools, h) \ s.seen
               W == (Q \ {h}) \cup new
               t == SetToSeq(new)
    <3>1. z = [found |-> h = to, seen |-> s.seen \cup new, queue |-> Tail(s.queue) \o t]
      BY <1>2, <2>3 DEF SearchOn
    <3> HIDE DEF z
    <3>2. /\ z.found \in BOOLEAN /\ (z.found <=> h = to)
          /\ z.seen = s.seen \cup new /\ z.queue = Tail(s.queue) \o t
      BY <3>1
    <3>3. NextDenoms(pools, h) \subseteq V
      BY DEF NextDenoms, DenomsOf
    <3>4. new \subseteq V /\ new \cap Q = {} /\ new \cap s.seen = {}
      BY <2>1, <3>3
    <3> HIDE DEF new
    <3>5. Queues(t, new)
      <4>1. IsFiniteSet(new)
        BY <3>4, FS_Subset
      <4>2. QED BY <4>1, SetQueues
    <3> HIDE DEF t
    <3>6. h \in Q /\ Queues(z.queue, W)
      <4> DEFINE q == s.queue
      <4>1. Queues(q, Q) /\ q # <<>> /\ new \cap Q = {}
        BY <2>1, <2>3, <3>4
      <4> HIDE DEF q
      <4>2. Head(q) \in Q /\ Queues(Tail(q) \o t, (Q \ {Head(q)}) \cup new)
        BY <3>5, <4>1, QueueMoves
      <4>3. QED BY <3>2, <4>2 DEF q
    <3>7. z.seen \ W = (s.seen \ Q) \cup {h}
      BY <2>1, <3>2, <3>4, <3>6
    <3> HIDE DEF W, h
    <3>8. W \subseteq z.seen
      BY <2>1, <3>2 DEF W
    <3>9. ASSUME NEW D, ClosedUnder(pools, D), from \in D PROVE z.seen \subseteq D
      <4>1. s.seen \subseteq D /\ h \in D
        BY <1>0, <2>1, <3>6, <3>9
      <4>2. ASSUME NEW e \in NextDenoms(pools, h) PROVE e \in D
        <5>1. PICK p \in pools : p.base # NoDenom /\ p.quote # NoDenom /\ {p.base, p.quote} = {h, e}
          BY DEF NextDenoms
        <5>2. p.base \in D <=> p.quote \in D
          BY <3>9, <5>1 DEF ClosedUnder
        <5>3. (p.base = h /\ p.quote = e) \/ (p.base = e /\ p.quote = h)
          BY <5>1
        <5>4. QED BY <4>1, <5>2, <5>3
      <4>3. QED BY <3>2, <4>1, <4>2 DEF new
    <3>10. ~z.found => to \notin z.seen \ W
      BY <2>1, <3>2, <3>7
    <3>11. ASSUME NEW d \in z.seen \ W PROVE NextDenoms(pools, d) \subseteq z.seen
      <4>1. CASE d = h
        BY <3>2, <4>1 DEF new
      <4>2. CASE d \in s.seen \ Q
        BY <2>1, <3>2, <4>2
      <4>3. QED BY <3>7, <3>11, <4>1, <4>2
    <3>12. Cardinality(z.seen \ W) = n + 1
      <4> DEFINE E == s.seen \ Q
      <4>1. IsFiniteSet(E)
        BY <1>0, FS_Subset
      <4>2. h \notin E /\ Cardinality(E) = n
        BY <2>1, <2>3, <3>6
      <4> HIDE DEF E
      <4>3. Cardinality(E \cup {h}) = n + 1
        BY <4>1, <4>2, FS_AddElement
      <4>4. QED BY <3>7, <4>3 DEF E
    <3>13. z.seen \subseteq V /\ from \in z.seen
      BY <1>0, <3>2, <3>4
    <3>14. z.found => to \in z.seen
      BY <2>1, <3>2, <3>6
    <3>15. Searching(z, n + 1, pools, from, to, V)
      BY <3>2, <3>6, <3>8, <3>9, <3>10, <3>11, <3>12, <3>13, <3>14 DEF Searching
    <3>16. QED BY <3>15 DEF z
  <2>4. QED BY <2>2, <2>3
<1>3. QED BY <1>0, <1>1, <1>2

(* The search finds a token unless a set that no pool leaves holds the first *)
(* one and not it.                                                           *)
LEMMA SearchFinds ==
    ASSUME NEW pools, IsFiniteSet(DenomsOf(pools)), NEW from, NEW to
    PROVE  LET s == Search(pools, from, to, Cardinality(DenomsOf(pools)) + 1)
           IN  /\ s.found \in BOOLEAN
               /\ s.found => \A D : ClosedUnder(pools, D) /\ from \in D => to \in D
               /\ ~s.found => /\ from \in s.seen /\ to \notin s.seen /\ ClosedUnder(pools, s.seen)
                              /\ \A D : ClosedUnder(pools, D) /\ from \in D => s.seen \subseteq D
<1> DEFINE c == Cardinality(DenomsOf(pools))
           m == c + 1
           V == DenomsOf(pools) \cup {from}
           start == [found |-> FALSE, seen |-> {from}, queue |-> <<from>>]
           s == Search(pools, from, to, m)
           f == CHOOSE g : SearchedUpTo(g, pools, from, to, m)
<1>1. c \in Nat /\ m \in Nat
  BY FS_CardinalityType
<1>2. IsFiniteSet(V) /\ Cardinality(V) \in Nat /\ Cardinality(V) <= m
  <2>1. IsFiniteSet(V) /\ (Cardinality(V) = c \/ Cardinality(V) = c + 1)
    BY FS_AddElement
  <2>2. QED BY <1>1, <2>1
<1>3. DenomsOf(pools) \subseteq V /\ from \in V
  OBVIOUS
<1> HIDE DEF c, m, V
<1>4. SearchedUpTo(f, pools, from, to, m)
  BY <1>1, SearchExists
<1>5. s = f[m]
  BY DEF Search, SearchedUpTo
<1> HIDE DEF f, s
<1>6. f[0] = start /\ \A n \in 1..m : f[n] = SearchOn(pools, to, f[n - 1])
  <2> HIDE DEF start
  <2>1. \A n \in 0..m : f[n] = IF n = 0 THEN start ELSE SearchOn(pools, to, f[n - 1])
    BY <1>4 DEF SearchedUpTo, start
  <2>2. QED BY <1>1, <2>1
<1> DEFINE T == {n \in 0..m : Searching(f[n], n, pools, from, to, V)}
<1>7. 0 \in T
  <2> DEFINE Q == {from}
  <2>1. start.found = FALSE /\ start.seen = {from} /\ start.queue = <<from>>
    OBVIOUS
  <2> HIDE DEF start
  <2>2. Queues(start.queue, Q)
    BY <2>1 DEF Queues
  <2>3. start.seen \ Q = {} /\ Q \subseteq start.seen /\ Cardinality({}) = 0
    BY <2>1, FS_EmptySet
  <2> HIDE DEF Q
  <2>4. Searching(start, 0, pools, from, to, V)
    BY <1>3, <2>1, <2>2, <2>3 DEF Searching
  <2>5. QED BY <1>1, <1>6, <2>4
<1>8. ASSUME NEW n \in 0..m, n \in T, n < m PROVE n + 1 \in T
  <2>1. n \in Nat /\ n + 1 \in 1..m /\ n + 1 \in 0..m /\ (n + 1) - 1 = n
    BY <1>1, <1>8
  <2>2. f[n + 1] = SearchOn(pools, to, f[n])
    BY <1>6, <2>1
  <2> DEFINE fn == f[n]
  <2>3. Searching(fn, n, pools, from, to, V)
    BY <1>8
  <2> HIDE DEF fn
  <2>4. Searching(SearchOn(pools, to, fn), n + 1, pools, from, to, V)
    BY <1>2, <1>3, <2>1, <2>3, RoundOfSearch
  <2>5. Searching(f[n + 1], n + 1, pools, from, to, V)
    BY <2>2, <2>4 DEF fn
  <2>6. QED BY <2>1, <2>5
<1> HIDE DEF T
<1>9. 0..m \subseteq T
  BY <1>1, <1>7, <1>8, InductionUpTo
<1>10. m \in T
  BY <1>1, <1>9
<1>11. Searching(s, m, pools, from, to, V)
  BY <1>5, <1>10 DEF T
<1>12. /\ s.found \in BOOLEAN /\ s.seen \subseteq V /\ from \in s.seen
       /\ \A D : ClosedUnder(pools, D) /\ from \in D => s.seen \subseteq D
       /\ s.found => to \in s.seen
  BY <1>11 DEF Searching
<1>13. ASSUME ~s.found PROVE to \notin s.seen /\ ClosedUnder(pools, s.seen)
  <2>1. PICK Q : /\ Q \subseteq s.seen /\ Queues(s.queue, Q)
                 /\ to \notin s.seen \ Q
                 /\ \A d \in s.seen \ Q : NextDenoms(pools, d) \subseteq s.seen
                 /\ s.queue # <<>> => Cardinality(s.seen \ Q) = m
    BY <1>11, <1>13 DEF Searching
  <2>2. s.queue = <<>>
    <3>1. SUFFICES ASSUME s.queue # <<>> PROVE FALSE
      OBVIOUS
    <3> DEFINE E == s.seen \ Q
               h == s.queue[1]
    <3>2. h \in Q
      BY <2>1, <3>1 DEF Queues
    <3>3. E \in SUBSET (V \ {h}) /\ h \in V
      BY <1>12, <2>1, <3>2
    <3>4. IsFiniteSet(V \ {h}) /\ Cardinality(V \ {h}) = Cardinality(V) - 1
      BY <1>2, <3>3, FS_RemoveElement
    <3>5. Cardinality(E) = m
      BY <2>1, <3>1
    <3> HIDE DEF E, h
    <3>6. Cardinality(E) <= Cardinality(V) - 1
      BY <3>3, <3>4, FS_Subset
    <3>7. QED BY <1>1, <1>2, <3>5, <3>6
  <2>3. Q = {}
    <3>1. Queues(<<>>, Q)
      BY <2>1, <2>2
    <3>2. \A x \in Q : \E i \in 1..0 : TRUE
      BY <3>1 DEF Queues
    <3>3. QED BY <3>2
  <2>4. to \notin s.seen /\ \A d \in s.seen : NextDenoms(pools, d) \subseteq s.seen
    BY <2>1, <2>3
  <2>5. ASSUME NEW p \in pools, p.base # NoDenom, p.quote # NoDenom
        PROVE  p.base \in s.seen <=> p.quote \in s.seen
    <3>1. p.quote \in NextDenoms(pools, p.base) /\ p.base \in NextDenoms(pools, p.quote)
      <4>1. p.base \in UNION {{x.base, x.quote} : x \in pools}
        OBVIOUS
      <4>2. p.quote \in UNION {{x.base, x.quote} : x \in pools}
        OBVIOUS
      <4>3. {p.base, p.quote} = {p.quote, p.base}
        OBVIOUS
      <4>4. QED BY <2>5, <4>1, <4>2, <4>3 DEF NextDenoms
    <3>2. QED BY <2>4, <3>1
  <2>6. QED BY <2>4, <2>5 DEF ClosedUnder
<1>14. s.found => \A D : ClosedUnder(pools, D) /\ from \in D => to \in D
  BY <1>12
<1>15. QED BY <1>12, <1>13, <1>14 DEF s, m, c

(* "No route" is said of two tokens exactly when their pools do not connect  *)
(* them (hasConnectingPath and resolveSwapIssue of swapHelpers.ts): for any  *)
(* pools over finitely many tokens.                                          *)
THEOREM NoRoutesAreTrue == Spec => []NoRouteIsTrue
<1>1. AskedInv => NoRouteIsTrue
  <2> SUFFICES ASSUME AskedInv, asked.fn = "path" PROVE NoRouteIsTrue
    BY DEF NoRouteIsTrue
  <2> DEFINE x == asked.in
             path == HasConnectingPath(x.pools, x.from, x.to)
             apart(D) == x.from \in D /\ x.to \notin D /\ ClosedUnder(x.pools, D)
             s == Search(x.pools, x.from, x.to, Cardinality(DenomsOf(x.pools)) + 1)
  <2>1. x.pools \in PoolSets /\ x.from \in Denoms /\ x.to \in Denoms
    BY DEF AskedInv
  <2>2. NoRouteIsTrue <=> (ResolveSwapIssue(x.from, x.to, 1, 1, TRUE, x.pools) = "no-route"
                             <=> \E D \in SUBSET Denoms : apart(D))
    BY DEF NoRouteIsTrue
  <2> HIDE DEF x
  <2>3. IsFiniteSet(Denoms) /\ NoDenom \notin Denoms /\ PoolsListed(x.pools)
    BY <2>1, HelpersAssumption
  <2>4. IsFiniteSet(DenomsOf(x.pools))
    <3>1. DenomsOf(x.pools) \in SUBSET (Denoms \cup {NoDenom})
      BY <2>3 DEF DenomsOf, PoolsListed
    <3>2. IsFiniteSet(Denoms \cup {NoDenom})
      BY <2>3, FS_AddElement
    <3>3. QED BY <3>1, <3>2, FS_Subset
  <2>5. ClosedUnder(x.pools, Denoms)
    BY <2>3 DEF ClosedUnder, PoolsListed
  <2>6. /\ s.found \in BOOLEAN
        /\ s.found => \A D : ClosedUnder(x.pools, D) /\ x.from \in D => x.to \in D
        /\ ~s.found => /\ x.from \in s.seen /\ x.to \notin s.seen /\ ClosedUnder(x.pools, s.seen)
                       /\ \A D : ClosedUnder(x.pools, D) /\ x.from \in D => s.seen \subseteq D
    BY <2>4, SearchFinds
  <2>7. path <=> x.from # x.to /\ s.found
    BY <2>1, <2>3 DEF HasConnectingPath, DenomsOf
  <2>8. ResolveSwapIssue(x.from, x.to, 1, 1, TRUE, x.pools) = "no-route" <=> x.from # x.to /\ ~path
    <3> HIDE DEF path
    <3>1. NoDenom \notin {x.from, x.to} /\ 1 # NoValue /\ ~(1 > 1)
      BY <2>1, <2>3 DEF NoValue
    <3>2. ResolveSwapIssue(x.from, x.to, 1, 1, TRUE, x.pools)
            = IF x.from = x.to THEN "same-asset"
              ELSE IF path THEN "insufficient-liquidity" ELSE "no-route"
      BY <3>1 DEF ResolveSwapIssue, path
    <3>3. QED BY <3>2
  <2> HIDE DEF s, path
  <2>9. CASE x.from = x.to
    BY <2>2, <2>8, <2>9
  <2>10. CASE x.from # x.to /\ s.found
    <3>1. \A D : ~apart(D)
      BY <2>6, <2>10
    <3> HIDE DEF apart
    <3>2. QED BY <2>2, <2>7, <2>8, <2>10, <3>1
  <2>11. CASE x.from # x.to /\ ~s.found
    <3>1. apart(s.seen)
      BY <2>6, <2>11
    <3>2. s.seen \in SUBSET Denoms
      BY <2>1, <2>5, <2>6, <2>11
    <3> HIDE DEF apart
    <3>3. QED BY <2>2, <2>7, <2>8, <2>11, <3>1, <3>2
  <2>12. QED BY <2>6, <2>9, <2>10, <2>11
<1>2. QED BY <1>1, InputsAsked, PTL

-----------------------------------------------------------------------------
(* Deposits                                                                  *)

(* What a division keeps.                                                    *)
LEMMA Divides ==
    ASSUME NEW a \in Nat, NEW d \in Nat \ {0}
    PROVE  a \div d \in Nat /\ (a \div d) * d <= a
OBVIOUS

(* A rounded quotient is at most half a unit too large.                      *)
LEMMA QuotientBound ==
    ASSUME NEW n \in Nat, NEW d \in Nat \ {0}
    PROVE  LET P == TenTo(QuotientPlaces)
           IN  /\ P \in Nat \ {0} /\ Quotient(n, d) \in Nat
               /\ 2 * (Quotient(n, d) * d) <= 2 * (n * P) + d
<1> DEFINE P == TenTo(QuotientPlaces)
           h == d \div 2
           a == n * P + h
           q == a \div d
<1>1. P \in Nat \ {0}
  BY TenToPositive, QuotientPlacesAssumption
<1> HIDE DEF P
<1>2. h \in Nat /\ 2 * h <= d
  OBVIOUS
<1> HIDE DEF h
<1>3. n * P \in Nat
  BY <1>1
<1>4. a \in Nat
  BY <1>2, <1>3
<1> HIDE DEF a
<1>5. q \in Nat /\ q * d <= a
  BY <1>4, Divides
<1>6. Quotient(n, d) = q
  BY DEF Quotient, a, h, P
<1> HIDE DEF q
<1> DEFINE v == q * d
           w == n * P
<1>7. v \in Nat /\ w \in Nat /\ v <= w + h
  BY <1>3, <1>5 DEF a
<1> HIDE DEF v, w
<1>8. 2 * v <= 2 * w + d
  BY <1>2, <1>7
<1>9. QED BY <1>1, <1>5, <1>6, <1>8 DEF v, w, P

(* A product is monotone.                                                    *)
LEMMA ProductGrows ==
    ASSUME NEW a \in Nat, NEW b \in Nat, a <= b, NEW c \in Nat
    PROVE  a * c \in Nat /\ b * c \in Nat /\ a * c <= b * c
OBVIOUS

(* A deposit d into a reserve of R, for `lp` shares of S: the share sh of    *)
(* the grown reserve that is paid out for them, in units of 1 / P, is less   *)
(* than a unit above the deposit, when R and d are small against P.          *)
LEMMA NoProfit ==
    ASSUME NEW P \in Nat \ {0}, NEW R \in Nat \ {0}, NEW S \in Nat \ {0}, NEW d \in Nat,
           2 * R + d < 2 * P,
           NEW r \in Nat, 2 * (r * R) <= 2 * (d * P) + R,
           NEW lp \in Nat, lp * P <= r * S,
           NEW sh \in Nat, 2 * (sh * (S + lp)) <= 2 * (lp * P) + (S + lp),
           NEW out \in Nat, out * P <= (R + d) * sh
    PROVE  out <= d
<1> DEFINE T == S + lp
           L == lp * P
           G == R + d
<1>1. T \in Nat \ {0} /\ L \in Nat /\ G \in Nat /\ S <= T
  OBVIOUS
<1>2. SUFFICES ASSUME d + 1 <= out PROVE FALSE
  OBVIOUS
<1> HIDE DEF T, L, G
<1>3. (d + 1) * P <= G * sh
  <2>1. (d + 1) * P <= out * P
    BY <1>2, ProductGrows
  <2>2. (d + 1) * P \in Nat /\ out * P \in Nat /\ G * sh \in Nat
    BY <1>1
  <2>3. QED BY <2>1, <2>2 DEF G
<1>4. ((d + 1) * P) * T <= G * (sh * T)
  <2>1. (d + 1) * P \in Nat /\ G * sh \in Nat
    BY <1>1
  <2>2. ((d + 1) * P) * T <= (G * sh) * T
    BY <1>1, <1>3, <2>1, ProductGrows
  <2>3. (G * sh) * T = G * (sh * T)
    BY <1>1
  <2>4. QED BY <2>2, <2>3
<1>5. 2 * (G * (sh * T)) <= 2 * (G * L) + G * T
  <2>1. 2 * (sh * T) <= 2 * L + T
    BY DEF T, L
  <2>2. 2 * (sh * T) \in Nat /\ 2 * L + T \in Nat /\ sh * T \in Nat
    BY <1>1
  <2>3. (2 * (sh * T)) * G <= (2 * L + T) * G
    BY <1>1, <2>1, <2>2, ProductGrows
  <2> DEFINE v == sh * T
  <2> HIDE DEF v
  <2>4. (2 * v) * G = 2 * (G * v) /\ (2 * L + T) * G = 2 * (G * L) + G * T
    BY <1>1, <2>2 DEF v
  <2>5. QED BY <2>3, <2>4 DEF v
<1>6. 2 * (R * L) <= (2 * (d * P) + R) * S
  <2>1. L * R <= (r * S) * R
    <3>1. r * S \in Nat /\ L <= r * S
      BY DEF L
    <3>2. QED BY <1>1, <3>1, ProductGrows
  <2>2. (2 * (r * R)) * S <= (2 * (d * P) + R) * S
    <3>1. 2 * (r * R) \in Nat /\ 2 * (d * P) + R \in Nat
      OBVIOUS
    <3>2. QED BY <3>1, ProductGrows
  <2>3. (2 * (r * R)) * S = 2 * ((r * S) * R) /\ L * R = R * L
    BY <1>1
  <2>4. (r * S) * R \in Nat /\ L * R \in Nat /\ (2 * (d * P) + R) * S \in Nat
    BY <1>1
  <2>5. QED BY <2>1, <2>2, <2>3, <2>4
<1> DEFINE A == (d * P) * S
           B == d * L
           C == P * T
           D == R * L
           E == G * T
           F == R * S
<1>7. A \in Nat /\ B \in Nat /\ C \in Nat /\ D \in Nat /\ E \in Nat /\ F \in Nat
  BY <1>1
<1>8. ((d + 1) * P) * T = A + B + C
  <2>1. ((d + 1) * P) * T = (d * P) * T + P * T
    BY <1>1
  <2>2. (d * P) * T = (d * P) * S + (d * P) * lp
    BY DEF T
  <2>3. (d * P) * lp = d * (lp * P)
    OBVIOUS
  <2>4. QED BY <2>1, <2>2, <2>3 DEF L
<1>9. G * L = D + B
  BY <1>1 DEF G
<1>10. (2 * (d * P) + R) * S = 2 * A + F
  OBVIOUS
<1>11. 2 * A + 2 * B + 2 * C <= 2 * D + 2 * B + E
  <2> DEFINE v == G * (sh * T)
  <2>1. v \in Nat
    BY <1>1
  <2>2. A + B + C <= v
    BY <1>4, <1>8
  <2>3. 2 * v <= 2 * (D + B) + E
    BY <1>5, <1>9
  <2> HIDE DEF v, A, B, C, D, E
  <2>4. QED BY <1>7, <2>1, <2>2, <2>3
<1>12. 2 * D <= 2 * A + F
  BY <1>6, <1>10
<1>13. F <= R * T
  <2>1. S * R <= T * R
    BY <1>1, ProductGrows
  <2>2. S * R = R * S /\ T * R = R * T
    BY <1>1
  <2>3. QED BY <2>1, <2>2
<1>14. R * T + E < 2 * C
  <2>1. R * T + E = (2 * R + d) * T
    BY <1>1 DEF G
  <2>2. (2 * R + d) * T < (2 * P) * T
    <3>1. (2 * R + d) + 1 <= 2 * P /\ (2 * R + d) + 1 \in Nat /\ 2 * P \in Nat /\ 2 * R + d \in Nat
      OBVIOUS
    <3> DEFINE v == 2 * R + d
               w == 2 * P
    <3>a. v \in Nat /\ w \in Nat /\ v + 1 <= w /\ v + 1 \in Nat
      BY <3>1
    <3> HIDE DEF v, w
    <3>2. (v + 1) * T <= w * T /\ (v + 1) * T = v * T + T /\ v * T \in Nat /\ w * T \in Nat
      BY <1>1, <3>a, ProductGrows
    <3>3. v * T < w * T
      BY <1>1, <3>2
    <3>4. QED BY <3>3 DEF v, w
  <2>3. (2 * P) * T = 2 * C
    BY <1>1
  <2>4. QED BY <2>1, <2>2, <2>3
<1>15. R * T \in Nat
  BY <1>1
<1> HIDE DEF A, B, C, D, E, F
<1>16. QED BY <1>7, <1>11, <1>12, <1>13, <1>14, <1>15

(* The minimum sent is at most what is expected.                             *)
LEMMA MinimumBelow ==
    ASSUME NEW amount \in Nat, NEW slip, IsValidSlippage(slip)
    PROVE  MinWithSlippage(amount, slip) <= amount
<1>1. slip \in Nat /\ slip <= 500
  BY DEF IsValidSlippage
<1>2. CASE amount <= 0
  BY <1>2 DEF MinWithSlippage
<1>3. CASE amount > 0
  <2> DEFINE v == amount * (1000 - slip)
             k == 1000 - slip
  <2>1. k \in Nat /\ k <= 1000
    BY <1>1
  <2> HIDE DEF k
  <2>2. k * amount <= 1000 * amount /\ k * amount \in Nat
    BY <2>1, ProductGrows
  <2>3. v \in Nat /\ v <= 1000 * amount
    BY <2>1, <2>2 DEF k
  <2> HIDE DEF v
  <2>4. v \div 1000 <= amount
    BY <2>3
  <2>5. MinWithSlippage(amount, slip) = v \div 1000
    BY <1>3 DEF MinWithSlippage, v
  <2>6. QED BY <2>4, <2>5
<1>4. QED BY <1>2, <1>3

(* The quote amount the form asks for with a base amount.                    *)
QuoteFor(x) ==
    LET exact == PoolOppositeAmount(x.pool, [n |-> x.base, e |-> 0], TRUE)
    IN  RoundHalfUp(exact.n, exact.e)

(* The amounts put in are small against the places of a quotient.            *)
WithinPrecision(x) ==
    /\ 2 * x.pool.reserveBase + x.base < 2 * TenTo(QuotientPlaces)
    /\ 2 * x.pool.reserveQuote + QuoteFor(x) < 2 * TenTo(QuotientPlaces)

(* It is a whole number of units.                                            *)
LEMMA QuoteType ==
    ASSUME NEW x, DepositAsked(x)
    PROVE  QuoteFor(x) \in Nat
<1> DEFINE pool == x.pool
           a == [n |-> x.base, e |-> 0]
           exact == PoolOppositeAmount(pool, a, TRUE)
<1>1. x.base \in Nat /\ pool.reserveBase \in Nat /\ pool.reserveQuote \in Nat
  BY DEF DepositAsked
<1>2. a.n = x.base /\ a.e = 0
  OBVIOUS
<1> HIDE DEF pool, a
<1>3. exact.n \in Nat /\ exact.e \in Nat
  <2>1. CASE a.n = 0 \/ 0 \in {pool.reserveBase, pool.reserveQuote}
    BY <2>1 DEF PoolOppositeAmount
  <2>2. CASE ~(a.n = 0 \/ 0 \in {pool.reserveBase, pool.reserveQuote})
    <3> DEFINE n == a.n * pool.reserveQuote
               d == pool.reserveBase * TenTo(a.e)
    <3>1. exact = [n |-> Quotient(n, d), e |-> QuotientPlaces]
      BY <2>2 DEF PoolOppositeAmount
    <3>2. TenTo(a.e) = 1
      BY <1>2, TenToPositive
    <3>3. n \in Nat /\ d \in Nat \ {0}
      BY <1>1, <1>2, <2>2, <3>2
    <3> HIDE DEF n, d
    <3>4. Quotient(n, d) \in Nat
      BY <3>3, QuotientBound
    <3>5. QuotientPlaces \in Nat
      BY QuotientPlacesAssumption
    <3> DEFINE q == Quotient(n, d)
    <3> HIDE DEF exact, q
    <3>6. exact.n = q /\ exact.e = QuotientPlaces
      BY <3>1 DEF q
    <3>7. QED BY <3>4, <3>5, <3>6 DEF q
  <2>3. QED BY <2>1, <2>2
<1>4. QuoteFor(x) = RoundHalfUp(exact.n, exact.e)
  BY DEF QuoteFor, pool, a
<1> HIDE DEF exact
<1>5. TenTo(exact.e) \in Nat \ {0}
  BY <1>3, TenToPositive
<1> DEFINE t == TenTo(exact.e)
<1>6. RoundHalfUp(exact.n, exact.e) = (exact.n + t \div 2) \div t
  BY DEF RoundHalfUp
<1> HIDE DEF t
<1>7. t \in Nat \ {0} /\ t \div 2 \in Nat
  BY <1>5 DEF t
<1> DEFINE u == exact.n + t \div 2
<1>8. u \in Nat
  BY <1>3, <1>7
<1>9. u \div t \in Nat
  <2> HIDE DEF u
  <2>1. QED BY <1>7, <1>8, Divides
<1>10. QED BY <1>4, <1>6, <1>9

(* What is paid out for the shares of a deposit.                             *)
LEMMA DepositPaysBack ==
    ASSUME NEW x, DepositAsked(x), WithinPrecision(x)
    PROVE  LET quote == QuoteFor(x)
               lp    == SharesFromAmounts(x.base, quote, x.pool, x.supply)
               grown == [x.pool EXCEPT !.reserveBase = @ + x.base, !.reserveQuote = @ + quote]
               out   == RemoveAmounts(lp, grown, x.supply + lp)
           IN  /\ lp \in Nat /\ out.base \in Nat
               /\ out.base <= x.base /\ out.quote <= quote
<1> DEFINE quote == QuoteFor(x)
           lp == SharesFromAmounts(x.base, quote, x.pool, x.supply)
           grown == [x.pool EXCEPT !.reserveBase = @ + x.base, !.reserveQuote = @ + quote]
           out == RemoveAmounts(lp, grown, x.supply + lp)
           P == TenTo(QuotientPlaces)
           S == x.supply
           R1 == x.pool.reserveBase
           R2 == x.pool.reserveQuote
<1>1. /\ x.base \in Nat /\ S \in Nat /\ R1 \in Nat /\ R2 \in Nat /\ quote \in Nat
      /\ 2 * R1 + x.base < 2 * P /\ 2 * R2 + quote < 2 * P
  BY QuoteType DEF DepositAsked, WithinPrecision
<1>2. P \in Nat \ {0}
  BY TenToPositive, QuotientPlacesAssumption
<1> HIDE DEF quote, P
<1>3. CASE 0 \in {R1, R2, S}
  <2>1. lp = 0
    BY <1>3 DEF SharesFromAmounts
  <2> HIDE DEF lp, grown
  <2>2. out = [base |-> 0, quote |-> 0]
    BY <2>1 DEF RemoveAmounts
  <2> HIDE DEF out
  <2>3. QED BY <1>1, <2>1, <2>2 DEF quote, lp, grown, out
<1>4. CASE 0 \notin {R1, R2, S}
  <2> DEFINE r1 == Quotient(x.base, R1)
             r2 == Quotient(quote, R2)
             m == Min({r1, r2})
             v == m * S
  <2>1. R1 \in Nat \ {0} /\ R2 \in Nat \ {0} /\ S \in Nat \ {0}
    BY <1>1, <1>4
  <2>2. r1 \in Nat /\ 2 * (r1 * R1) <= 2 * (x.base * P) + R1
    BY <1>1, <2>1, QuotientBound DEF P
  <2>3. r2 \in Nat /\ 2 * (r2 * R2) <= 2 * (quote * P) + R2
    BY <1>1, <2>1, QuotientBound DEF P
  <2>4. lp = v \div P
    BY <1>4 DEF SharesFromAmounts, P
  <2> HIDE DEF r1, r2, lp
  <2>5. m \in Nat /\ m <= r1 /\ m <= r2
    BY <2>2, <2>3, MinOfTwo
  <2> HIDE DEF m, S
  <2>6. v \in Nat /\ v <= r1 * S /\ v <= r2 * S
    BY <2>1, <2>2, <2>3, <2>5, ProductGrows
  <2> HIDE DEF v
  <2>7. lp \in Nat /\ lp * P <= v
    BY <1>2, <2>4, <2>6, Divides
  <2>8. lp * P <= r1 * S /\ lp * P <= r2 * S
    <3>1. lp * P \in Nat /\ r1 * S \in Nat /\ r2 * S \in Nat
      BY <1>2, <2>1, <2>2, <2>3, <2>7
    <3>2. QED BY <2>6, <2>7, <3>1
  <2> DEFINE T == S + lp
             sh == Quotient(lp, T)
             part(res) == (res * sh) \div P
  <2>9. T \in Nat \ {0}
    BY <2>1, <2>7
  <2>10. sh \in Nat /\ 2 * (sh * T) <= 2 * (lp * P) + T
    <3> HIDE DEF T
    <3>1. QED BY <2>7, <2>9, QuotientBound DEF P
  <2>11. grown.reserveBase = R1 + x.base /\ grown.reserveQuote = R2 + quote
    <3>1. "reserveBase" \in DOMAIN x.pool /\ "reserveQuote" \in DOMAIN x.pool
      BY DEF DepositAsked
    <3>2. QED BY <3>1
  <2>12. out = IF lp <= 0 THEN [base |-> 0, quote |-> 0]
               ELSE [base |-> part(R1 + x.base), quote |-> part(R2 + quote)]
    <3> HIDE DEF grown
    <3>1. ~(T <= 0)
      BY <2>9
    <3>2. QED BY <2>11, <3>1 DEF RemoveAmounts, P, S
  <2> HIDE DEF grown, out, sh
  <2>13. CASE lp <= 0
    <3>1. out.base = 0 /\ out.quote = 0
      BY <2>12, <2>13
    <3>2. QED BY <1>1, <2>7, <3>1 DEF quote, lp, grown, out, S
  <2>14. CASE ~(lp <= 0)
    <3> DEFINE w1 == (R1 + x.base) * sh
               w2 == (R2 + quote) * sh
    <3>1. out.base = w1 \div P /\ out.quote = w2 \div P
      BY <2>12, <2>14
    <3>2. w1 \in Nat /\ w2 \in Nat
      BY <1>1, <2>10
    <3> HIDE DEF w1, w2
    <3>3. out.base \in Nat /\ out.base * P <= w1 /\ out.quote \in Nat /\ out.quote * P <= w2
      BY <1>2, <3>1, <3>2, Divides
    <3>4. out.base <= x.base
      BY <1>1, <1>2, <2>1, <2>2, <2>7, <2>8, <2>10, <3>3, NoProfit DEF w1
    <3>5. out.quote <= quote
      BY <1>1, <1>2, <2>1, <2>3, <2>7, <2>8, <2>10, <3>3, NoProfit DEF w2
    <3>6. QED BY <2>7, <3>3, <3>4, <3>5 DEF quote, lp, grown, out, S
  <2>15. QED BY <2>13, <2>14
<1>5. QED BY <1>3, <1>4

(* A deposit and its withdrawal bring no profit, as the form computes them,  *)
(* and the minimum sent is at most what is expected (poolHelpers.ts):        *)
(* whatever pool and deposit, as long as reserves and deposit are within the *)
(* precision of a quotient, 10^20 units in the program. Beyond it the        *)
(* rounding of the share alone may be worth a unit.                          *)
THEOREM DepositsAreNoProfit ==
    Spec => []((asked.fn = "deposit" => WithinPrecision(asked.in)) => DepositIsNoProfit)
<1>1. AskedInv => ((asked.fn = "deposit" => WithinPrecision(asked.in)) => DepositIsNoProfit)
  <2> SUFFICES ASSUME AskedInv, asked.fn = "deposit", WithinPrecision(asked.in)
               PROVE  DepositIsNoProfit
    BY DEF DepositIsNoProfit
  <2> DEFINE x == asked.in
             quote == QuoteFor(x)
             lp == SharesFromAmounts(x.base, quote, x.pool, x.supply)
             grown == [x.pool EXCEPT !.reserveBase = @ + x.base, !.reserveQuote = @ + quote]
             out == RemoveAmounts(lp, grown, x.supply + lp)
  <2>1. DepositAsked(x)
    <3>1. x \in Deposits
      BY DEF AskedInv
    <3> HIDE DEF x
    <3>2. QED BY <3>1, HelpersAssumption
  <2>2. WithinPrecision(x)
    OBVIOUS
  <2>3. DepositIsNoProfit <=> /\ out.base <= x.base /\ out.quote <= quote
                              /\ MinWithSlippage(lp, x.slip) <= lp
                              /\ MinWithSlippage(out.base, x.slip) <= out.base
    BY DEF DepositIsNoProfit, QuoteFor
  <2> HIDE DEF x
  <2>4. lp \in Nat /\ out.base \in Nat /\ out.base <= x.base /\ out.quote <= quote
    BY <2>1, <2>2, DepositPaysBack
  <2>5. IsValidSlippage(x.slip)
    BY <2>1 DEF DepositAsked
  <2> HIDE DEF quote, lp, grown, out
  <2>6. MinWithSlippage(lp, x.slip) <= lp /\ MinWithSlippage(out.base, x.slip) <= out.base
    <3> DEFINE b == out.base
    <3> HIDE DEF b
    <3>1. lp \in Nat /\ b \in Nat
      BY <2>4 DEF b
    <3>2. MinWithSlippage(lp, x.slip) <= lp /\ MinWithSlippage(b, x.slip) <= b
      BY <2>5, <3>1, MinimumBelow
    <3>3. QED BY <3>2 DEF b
  <2>7. QED BY <2>3, <2>4, <2>6
<1>2. QED BY <1>1, InputsAsked, PTL
=============================================================================
