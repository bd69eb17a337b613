---------------------------- MODULE TradeHelpers ----------------------------
(***************************************************************************)
(* The pure functions behind the Trade section that decide something:      *)
(* utils/amount.ts and components/trade/swapHelpers.ts,                    *)
(* pools/poolHelpers.ts and terminal/orderHelpers.ts, with the order       *)
(* builder of the Go side whose messages summarizeOrder reads.             *)
(*                                                                         *)
(* A decimal is [n, e], the value n / 10^e.  A BigNumber quotient keeps    *)
(* QuotientPlaces decimals (20 in the program, rounded half up): the       *)
(* rounding is modelled, the number of places is a parameter.  A slippage  *)
(* is in tenths of a percent.  NoValue and NoDenom stand for null and      *)
(* undefined, Blank for a text that is not a number.                       *)
(***************************************************************************)
EXTENDS SeqHelpers

CONSTANT QuotientPlaces      \* decimals of a BigNumber division

ASSUME QuotientPlacesAssumption == QuotientPlaces \in Nat \ {0}

NoValue == -1
NoDenom == "none"
Blank == [n |-> -1, e |-> 0]
FeeDenom == "ubze"

----------------------------------------------------------------------------
(* utils/amount.ts                                                         *)

\* 10^k.
TenTo(k) == LET power[i \in 0..k] == IF i = 0 THEN 1 ELSE 10 * power[i - 1] IN power[k]

RoundHalfUp(n, k) == (n + TenTo(k) \div 2) \div TenTo(k)

\* shiftedBy(k): the value times 10^k.
Shifted(a, k) == IF a.e >= k THEN [n |-> a.n, e |-> a.e - k]
                             ELSE [n |-> a.n * TenTo(k - a.e), e |-> 0]

\* decimalPlaces(p), rounding half up.
Places(a, p) == IF a.e <= p THEN a ELSE [n |-> RoundHalfUp(a.n, a.e - p), e |-> p]

\* Zero decimals fall back to six places.
PlacesOf(decimals) == IF decimals = 0 THEN 6 ELSE decimals

AmountToUAmount(a, decimals) == Places(Shifted(a, decimals), PlacesOf(decimals))

UAmountToAmount(u, decimals) ==
    Places([n |-> u.n, e |-> u.e + decimals], PlacesOf(decimals))

Floor(a) == a.n \div TenTo(a.e)

Quotient(n, d) == (n * TenTo(QuotientPlaces) + d \div 2) \div d

----------------------------------------------------------------------------
(* components/trade/swapHelpers.ts                                         *)

IsValidSlippage(slip) == slip \in 0..500

\* Mutant: a pool leads from its base to its quote only.
NextOneWay(pools, d) ==
    {p.quote : p \in {q \in pools : q.base = d /\ q.quote # NoDenom}}

\* The denoms one pool away from d; a pool with a side missing links nothing.
NextDenoms(pools, d) ==
    {e \in UNION {{p.base, p.quote} : p \in pools} :
        \E p \in pools : p.base # NoDenom /\ p.quote # NoDenom /\ {p.base, p.quote} = {d, e}}

\* A round of the search: the head of the queue is what is sought, or its
\* neighbours not seen yet are queued.
SearchOn(pools, to, s) ==
    IF s.queue = <<>> \/ s.found THEN s
    ELSE LET new == NextDenoms(pools, Head(s.queue)) \ s.seen
         IN  [found |-> Head(s.queue) = to, seen |-> s.seen \cup new,
              queue |-> Tail(s.queue) \o SetToSeq(new)]

Search(pools, from, to, rounds) ==
    LET state[n \in 0..rounds] ==
            IF n = 0 THEN [found |-> FALSE, seen |-> {from}, queue |-> <<from>>]
                     ELSE SearchOn(pools, to, state[n - 1])
    IN  state[rounds]

\* Breadth-first search: each denom enters the queue at most once, so the
\* number of denoms bounds the rounds.
HasConnectingPath(pools, from, to) ==
    LET denoms == UNION {{p.base, p.quote} : p \in pools}
    IN  /\ NoDenom \notin {from, to} /\ from # to
        /\ Search(pools, from, to, Cardinality(denoms) + 1).found

\* The one problem shown for the inputs; noRoute: there is a quote that says so.
ResolveSwapIssue(from, to, amount, balance, noRoute, pools) ==
    IF NoDenom \in {from, to} THEN "none"
    ELSE IF from = to THEN "same-asset"
    ELSE IF amount = NoValue THEN "none"
    ELSE IF amount > balance THEN "insufficient-balance"
    ELSE IF noRoute THEN IF HasConnectingPath(pools, from, to)
                              THEN "insufficient-liquidity" ELSE "no-route"
    ELSE "none"

----------------------------------------------------------------------------
(* pools/poolHelpers.ts                                                    *)

\* The other side of a deposit at the pool's ratio, with QuotientPlaces decimals.
PoolOppositeAmount(pool, a, isBase) ==
    IF a.n = 0 \/ 0 \in {pool.reserveBase, pool.reserveQuote} THEN [n |-> 0, e |-> 0]
    ELSE LET times == IF isBase THEN pool.reserveQuote ELSE pool.reserveBase
             over  == IF isBase THEN pool.reserveBase ELSE pool.reserveQuote
         IN  [n |-> Quotient(a.n * times, over * TenTo(a.e)), e |-> QuotientPlaces]

\* Mutant: the larger ratio.
SharesFromLargerSide(base, quote, pool, supply) ==
    IF 0 \in {pool.reserveBase, pool.reserveQuote, supply} THEN 0
    ELSE LET ratio == Max({Quotient(base, pool.reserveBase), Quotient(quote, pool.reserveQuote)})
         IN  (ratio * supply) \div TenTo(QuotientPlaces)

\* Shares minted: the smaller ratio, a rounded quotient, times the supply.
SharesFromAmounts(base, quote, pool, supply) ==
    IF 0 \in {pool.reserveBase, pool.reserveQuote, supply} THEN 0
    ELSE LET ratio == Min({Quotient(base, pool.reserveBase), Quotient(quote, pool.reserveQuote)})
         IN  (ratio * supply) \div TenTo(QuotientPlaces)

\* Both sides paid out for burning lp shares.
RemoveAmounts(lp, pool, supply) ==
    LET share     == Quotient(lp, supply)
        part(res) == (res * share) \div TenTo(QuotientPlaces)
    IN  IF supply <= 0 \/ lp <= 0 THEN [base |-> 0, quote |-> 0]
        ELSE [base |-> part(pool.reserveBase), quote |-> part(pool.reserveQuote)]

MinWithSlippage(amount, slip) ==
    IF amount <= 0 THEN 0 ELSE (amount * (1000 - slip)) \div 1000

----------------------------------------------------------------------------
(* terminal/orderHelpers.ts                                                *)

\* Mutant: the fee is not subtracted.
MaxWithoutFee(balance, isFeeDenom, fee) == balance

\* maxSendableUAmount: the fee comes off only when the fee denom is spent.
MaxSendable(balance, isFeeDenom, fee) ==
    IF isFeeDenom THEN Max({0, balance - fee}) ELSE balance

\* A level takes what it can of what is left, until nothing is.
TakeLevel(s, l) ==
    IF s.done THEN s
    ELSE LET m == Min({l.amount, s.left})
         IN  [msgs |-> Append(s.msgs, [amount |-> m, price |-> l.price]),
              left |-> s.left - m, done |-> s.left = m]

Fill(amount, crossing) ==
    LET filled[n \in 0..Len(crossing)] ==
            IF n = 0 THEN [msgs |-> <<>>, left |-> amount, done |-> FALSE]
                     ELSE TakeLevel(filled[n - 1], crossing[n])
    IN  filled[Len(crossing)]

\* A level crosses the limit when it is strictly better.
Crossing(levels, isBuy, limit) ==
    Kept(levels, {i \in DOMAIN levels : IF isBuy THEN levels[i].price < limit
                                                 ELSE levels[i].price > limit})

\* Go, BuildOrderMessages: one message per crossing level while something is
\* left, the rest at the limit.
BuildOrderMessages(levels, isBuy, amount, limit) ==
    LET crossing == Crossing(levels, isBuy, limit)
        filled   == Fill(amount, crossing)
        rest     == <<[amount |-> filled.left, price |-> limit]>>
    IN  IF crossing = <<>> THEN <<[amount |-> amount, price |-> limit]>>
        ELSE IF filled.left > 0 THEN filled.msgs \o rest ELSE filled.msgs

\* Mutant: only an order of one message is taken for a resting one.
SummarizeSingle(msgs, limit) ==
    [fills |-> IF Len(msgs) = 1 THEN 0 ELSE Len(msgs),
     hasLeftover |-> Len(msgs) = 1,
     leftover |-> IF Len(msgs) = 1 THEN msgs[1].amount ELSE 0,
     total |-> TotalFrom(0, Amounts(msgs))]

\* The last message is the resting one iff it is at the limit price.
SummarizeOrder(msgs, limit) ==
    IF msgs = <<>> THEN [fills |-> 0, hasLeftover |-> FALSE, leftover |-> 0, total |-> 0]
    ELSE LET last    == msgs[Len(msgs)]
             resting == last.price = limit
         IN  [fills |-> IF resting THEN Len(msgs) - 1 ELSE Len(msgs),
              hasLeftover |-> resting,
              leftover |-> IF resting THEN last.amount ELSE 0,
              total |-> TotalFrom(0, Amounts(msgs))]
=============================================================================
