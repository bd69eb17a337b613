------------------------------ MODULE Helpers ------------------------------
(***************************************************************************)
(* The pure functions of the frontend under every input of a small set: a  *)
(* page asks one question at a time, and the invariants compare what the   *)
(* functions answer with what the answer is used for.                      *)
(***************************************************************************)
EXTENDS StakingHelpers, MarketHelpers, WalletHelpers

CONSTANTS
    ValidatorLists,   \* the bonded validators, as the chain lists them
    Stakes,           \* amounts to stake, base units
    HealthInputs,     \* what computeStakeHealth is given
    UnlockInputs,     \* [unbonding, unlocks, now, epoch], times in minutes
    PoolSets,         \* sets of pools, as [base, quote]
    Denoms,           \* the denoms of those pools
    Deposits,         \* [base, pool, supply, slip]
    OrderInputs,      \* [levels, isBuy, amount, limit]
    SendInputs,       \* [denom, balance, feeBalance, fee, decimals, typed]
    CandleInputs      \* [raw, live]: a fetched series and the polls after it

\* A finite list of its elements.
Listed(s) == s \in Seq(Range(s))

\* Validators as the chain lists them: an operator address has one entry.
ValidatorsListed(vs) ==
    /\ Listed(vs) /\ IsInjective([i \in DOMAIN vs |-> vs[i].addr])
    /\ \A v \in Range(vs) : v.rate \in Nat /\ v.tokens \in Nat /\ v.moniker \in Nat

\* The answers of the staking overview: amounts, and programs by their id.
OverviewListed(data) ==
    /\ ValidatorsListed(data.bonded) /\ ValidatorsListed(data.delegated)
    /\ Listed(data.delegations) /\ Listed(data.participants) /\ Listed(data.rewards)
    /\ \A x \in Range(data.delegations) \cup Range(data.participants) : x.amount \in Nat
    /\ \A r \in Range(data.rewards) : r.payouts \in Nat /\ r.duration \in Nat
    /\ IsInjective([i \in DOMAIN data.rewards |-> data.rewards[i].id])

\* An unbonding is listed once for a validator, an unlock once for an epoch and
\* a program; times are whole minutes, epochs whole hours.
UnlocksAsked(u) ==
    /\ Listed(u.unbonding) /\ IsInjective([i \in DOMAIN u.unbonding |-> u.unbonding[i].val])
    /\ \A x \in Range(u.unbonding) : Listed(x.entries) /\ \A e \in Range(x.entries) : e.at \in Int
    /\ Listed(u.unlocks) /\ IsInjective([i \in DOMAIN u.unlocks |-> <<u.unlocks[i].epoch, u.unlocks[i].id>>])
    /\ \A x \in Range(u.unlocks) : x.epoch \in Int
    /\ u.now \in Int /\ u.epoch \in Int

\* The pools of the program's list; a side may be missing.
PoolsListed(pools) == \A p \in pools : {p.base, p.quote} \subseteq Denoms \cup {NoDenom}

\* Deposits, reserves and shares are whole units.
DepositAsked(x) ==
    /\ x.base \in Nat /\ x.supply \in Nat /\ IsValidSlippage(x.slip)
    /\ x.pool \in [base : Denoms, quote : Denoms, reserveBase : Nat, reserveQuote : Nat]

\* Balances and fees are whole base units; what is typed is a decimal.
SendAsked(x) ==
    /\ x.balance \in Nat /\ x.feeBalance \in Nat /\ x.fee \in Nat /\ x.decimals \in Nat
    /\ x.typed.n \in Int /\ x.typed.e \in Nat

\* The levels of a book and an order against them.
OrderAsked(x) ==
    /\ Listed(x.levels) /\ \A l \in Range(x.levels) : l.amount \in Nat /\ l.price \in Nat
    /\ x.isBuy \in BOOLEAN /\ x.amount \in Nat /\ x.limit \in Nat

\* Bars as the chart takes them, in one unit of time and price.
Bars == [time : Int, open : Nat, high : Nat, low : Nat, close : Nat]

CandlesAsked(x) == x.raw \in Seq(Bars) /\ x.live \in Seq(Bars)

ASSUME HelpersAssumption ==
    /\ Stakes \subseteq Nat
    /\ \A vs \in ValidatorLists : ValidatorsListed(vs)
    /\ \A data \in HealthInputs : OverviewListed(data)
    /\ \A u \in UnlockInputs : UnlocksAsked(u)
    /\ IsFiniteSet(Denoms) /\ NoDenom \notin Denoms /\ \A ps \in PoolSets : PoolsListed(ps)
    /\ \A x \in Deposits : DepositAsked(x)
    /\ \A x \in OrderInputs : OrderAsked(x)
    /\ \A x \in SendInputs : SendAsked(x)
    /\ \A x \in CandleInputs : CandlesAsked(x)

VARIABLE asked        \* the question on the page, and its input

vars == <<asked>>

Nothing == [fn |-> "nothing"]

Init == asked = Nothing

Ask(fn, inputs) == asked = Nothing /\ \E x \in inputs : asked' = [fn |-> fn, in |-> x]

AskStake == Ask("stake", [validators : ValidatorLists, amount : Stakes])

AskHealth == Ask("health", HealthInputs)

AskUnlocks == Ask("unlocks", UnlockInputs)

AskPath == Ask("path", [pools : PoolSets, from : Denoms, to : Denoms])

AskDeposit == Ask("deposit", Deposits)

AskOrder == Ask("order", OrderInputs)

AskSend == Ask("send", SendInputs)

AskChart == Ask("chart", CandleInputs)

\* The page moves on to its next question.
Answered == asked # Nothing /\ asked' = Nothing

Next ==
    \/ AskStake
    \/ AskHealth
    \/ AskUnlocks
    \/ AskPath
    \/ AskDeposit
    \/ AskOrder
    \/ AskSend
    \/ AskChart
    \/ Answered

Spec == Init /\ [][Next]_vars

----------------------------------------------------------------------------
(* Automatic staking: StakeModal and StakingCompact split an amount over   *)
(* SelectTopValidators(ScoreValidators(validators)).                       *)

\* No validator is ranked above one that is no dearer and strictly smaller,
\* every rank goes to an active validator, and some are ranked if any is
\* active: neither the neutral band nor the commission cap turns the
\* preference around or empties the choice.
ScoresRespectDominance ==
    asked.fn = "stake" =>
        LET vs == asked.in.validators  ranked == ScoreValidators(vs)
        IN  /\ \A p, q \in DOMAIN ranked :
                 p < q => ~(ranked[q].rate <= ranked[p].rate /\ ranked[q].tokens < ranked[p].tokens)
            /\ \A p \in DOMAIN ranked : IsHealthy(ranked[p])
            /\ (\E i \in DOMAIN vs : IsHealthy(vs[i])) => ranked # <<>>
            /\ IsInjective([p \in DOMAIN ranked |-> ranked[p].addr])

\* The messages of an automatic stake delegate exactly the amount entered, to
\* at most three different validators, none of them more than the count of
\* validators above another.
SplitSpendsTheAmount ==
    asked.fn = "stake" =>
        LET top   == SelectTopValidators(ScoreValidators(asked.in.validators), TopN)
            parts == SplitDelegation(asked.in.amount, top)
        IN  top # <<>> =>
               /\ SumSeq(parts, LAMBDA x : x.amount) = asked.in.amount
               /\ Len(parts) <= TopN
               /\ \A i, j \in DOMAIN parts : parts[i].amount - parts[j].amount < Len(parts)

----------------------------------------------------------------------------
(* Stake health: what the warning of StakingCompact reports and offers.    *)

\* A fix moves a stuck delegation from a validator that does not earn to
\* another one that was bonded when the list was read, and every stuck
\* delegation of a known validator is reported once; a program that lasts (its
\* duration is not zero) is reported ended exactly when the Earn list would no
\* longer offer it as active.
HealthAdviceIsSound ==
    asked.fn = "health" =>
        LET data == asked.in  native == DelegationIssues(data)
            stuck(i) == /\ data.delegations[i].amount > 0
                        /\ \E v \in Range(data.delegated) :
                              v.addr = data.delegations[i].val /\ ~IsHealthy(v)
        IN  /\ \A k \in DOMAIN native :
                 native[k].dst # NoValidator =>
                    /\ native[k].dst # native[k].src
                    /\ \E v \in Range(data.bonded) : v.addr = native[k].dst /\ IsHealthy(v)
            /\ Len(native) = Cardinality({i \in DOMAIN data.delegations : stuck(i)})
            /\ \A p \in Range(data.participants), r \in Range(data.rewards) :
                 p.amount > 0 /\ r.id = p.id /\ r.duration > 0 =>
                    ((\E k \in DOMAIN RewardIssues(data) : RewardIssues(data)[k].id = p.id)
                        <=> ~IsRewardActive(r))

\* The staked totals of the compact Earn view, the Earn statistics bar and the
\* asset detail are computed apart and agree.
StakedTotalsAgree ==
    asked.fn = "health" =>
        /\ StakedUbzeFromOverview(<<asked.in>>) = CompactTotal(asked.in)
        /\ PageTotal(asked.in) = CompactTotal(asked.in)

\* The countdown of a pending unlock is never ready early, and what it shows
\* is the time left to within its smaller unit (an hour once days are shown);
\* no two rows share a key.
MinutesShown(w) == 1440 * w.d + 60 * w.h + w.m

CountdownIsTrue ==
    asked.fn = "unlocks" =>
        LET u    == asked.in
            rows == PendingUnlockRows(u.unbonding, u.unlocks, u.now, u.epoch)
            left == {<<e.at - u.now, UnlockWhen([native |-> TRUE, at |-> e.at], u.now, u.epoch)>> :
                        e \in UNION {Range(x.entries) : x \in Range(u.unbonding)}}
                      \cup {<<60 * (x.epoch - u.epoch),
                              UnlockWhen([native |-> FALSE, at |-> x.epoch], u.now, u.epoch)>> :
                              x \in {y \in Range(u.unlocks) : u.epoch > 0}}
        IN  /\ IsInjective([i \in DOMAIN rows |-> rows[i].key])
            /\ \A l \in left :
                 LET mins == l[1]  shown == l[2]
                 IN  IF mins <= 0 THEN shown = Ready
                 ELSE /\ shown # Ready
                      /\ MinutesShown(shown) <= mins
                      /\ mins < MinutesShown(shown) + (IF shown.d > 0 THEN 60 ELSE 1)

----------------------------------------------------------------------------
(* Trading.                                                                *)

\* No pool with both sides present leaves the set.
ClosedUnder(pools, D) ==
    \A p \in pools : p.base # NoDenom /\ p.quote # NoDenom => (p.base \in D <=> p.quote \in D)

\* "No route" is said of two tokens exactly when some set of tokens that no
\* pool leaves holds the one and not the other.
NoRouteIsTrue ==
    asked.fn = "path" =>
        LET x        == asked.in
            apart(D) == x.from \in D /\ x.to \notin D /\ ClosedUnder(x.pools, D)
        IN  ResolveSwapIssue(x.from, x.to, 1, 1, TRUE, x.pools) = "no-route"
              <=> \E D \in SUBSET Denoms : apart(D)

\* Shares bought with a deposit at the pool's ratio, rounded to units as the
\* form does, never pay out more than was put in
\* when they are burnt at once, and the minimum sent with either message is at
\* most what the form expects.
DepositIsNoProfit ==
    asked.fn = "deposit" =>
        LET x     == asked.in
            exact == PoolOppositeAmount(x.pool, [n |-> x.base, e |-> 0], TRUE)
            quote == RoundHalfUp(exact.n, exact.e)
            lp    == SharesFromAmounts(x.base, quote, x.pool, x.supply)
            grown == [x.pool EXCEPT !.reserveBase = @ + x.base, !.reserveQuote = @ + quote]
            out   == RemoveAmounts(lp, grown, x.supply + lp)
        IN  /\ out.base <= x.base /\ out.quote <= quote
            /\ MinWithSlippage(lp, x.slip) <= lp
            /\ MinWithSlippage(out.base, x.slip) <= out.base

\* The confirmation of an order tells what its messages do: their amounts add
\* up to the order, what it says is filled is what the levels strictly better
\* than the limit can take, and what it says is left is what they cannot.  What
\* becomes of that at a level of the limit itself, RestMeetsNoLevel judges.
OrderSummaryIsTrue ==
    asked.fn = "order" =>
        LET x      == asked.in
            msgs   == BuildOrderMessages(x.levels, x.isBuy, x.amount, x.limit)
            sum    == SummarizeOrder(msgs, x.limit)
            better == Kept(x.levels, {i \in DOMAIN x.levels :
                                        IF x.isBuy THEN x.levels[i].price < x.limit
                                                   ELSE x.levels[i].price > x.limit})
            taken  == Min({x.amount, TotalFrom(0, Amounts(better))})
        IN  x.amount > 0 =>
              /\ sum.total = x.amount
              /\ sum.leftover = x.amount - taken
              /\ sum.hasLeftover <=> sum.leftover > 0
              /\ TotalFrom(0, Amounts(SubSeq(msgs, 1, sum.fills))) = taken

\* "The leftover (resting) amount" (orderHelpers.ts:78), "the non-crossing
\* leftover" (orders.go:51): what the confirmation says will rest at the limit
\* meets no order of the other side at that price.
RestMeetsNoLevel ==
    asked.fn = "order" =>
        LET x   == asked.in
            sum == SummarizeOrder(BuildOrderMessages(x.levels, x.isBuy, x.amount, x.limit), x.limit)
        IN  x.amount > 0 /\ sum.hasLeftover => \A l \in Range(x.levels) : l.amount > 0 => l.price # x.limit

\* What the Send form lets through can be paid: the amount, with the fee when
\* both come from one balance; and the amount the Max button fills in is let
\* through whenever it is positive.
SendCanBePaid ==
    asked.fn = "send" =>
        LET x     == asked.in
            check(a) == ValidateSendAmount(a, x.denom, x.decimals, x.balance, x.fee, x.feeBalance)
            max   == MaxSendable(x.balance, x.denom = FeeDenom, x.fee)
            filled == UAmountToAmount([n |-> max, e |-> 0], x.decimals)
        IN  /\ check(x.typed).valid =>
                  /\ check(x.typed).uAmount + (IF x.denom = FeeDenom THEN x.fee ELSE 0) <= x.balance
                  /\ x.denom # FeeDenom => x.fee <= x.feeBalance
            /\ max > 0 /\ (x.denom # FeeDenom => x.fee <= x.feeBalance)
                  => check(filled).valid /\ check(filled).uAmount = max

\* The bars of a chart stay strictly ordered in time whatever candles the polls
\* bring after the first answer - the chart library throws on anything else -
\* and no candle that can be drawn and is not older than the fetched ones is
\* lost: it is on the chart, or a newer one is.
SeriesStaysOrdered ==
    asked.fn = "chart" =>
        LET parsed == ParseCandles(asked.in.raw, 0)
            chart  == ChartAfter(parsed, asked.in.live)
        IN  IsInjective([i \in DOMAIN parsed |-> parsed[i].time]) =>
              /\ \A i, j \in DOMAIN chart.bars : i < j => chart.bars[i].time < chart.bars[j].time
              /\ \A c \in Range(asked.in.live) :
                    parsed # <<>> /\ Drawable(c, chart.line) /\ c.time >= Last(parsed).time
                      => chart.bars # <<>> /\ c.time <= Last(chart.bars).time
=============================================================================
