--------------------------- MODULE StakingHelpers ---------------------------
(***************************************************************************)
(* The pure functions behind the Earn section of the frontend:             *)
(* utils/validatorScoring.ts (which validators an automatic stake goes     *)
(* to), utils/stakeHealth.ts (which stakes stopped earning and where to    *)
(* move them) and utils/stakingHelpers.ts (amounts, countdowns, pending    *)
(* unlocks).                                                               *)
(*                                                                         *)
(* A validator is [addr, moniker, tokens, rate, bonded, jailed]: the rate  *)
(* in tenths of a percent, the moniker as its place in collation order.    *)
(* Scores are exact fractions brought to one denominator; the rounding of  *)
(* the program's doubles is not modelled, so rates are chosen away from    *)
(* the exact width of the neutral band.                                    *)
(***************************************************************************)
EXTENDS SeqHelpers

NoValidator == "none"

----------------------------------------------------------------------------
(* utils/validatorScoring.ts                                               *)

\* getDefaultScoringConfig: weights 0.6 and 0.4, a cap of 50 %, the best three.
MaxCommission == 500
CommissionWeight == 6
PowerWeight == 4
TopN == 3

\* Every rate within one percentage point: commission does not count.
NeutralRange == 10

IsHealthy(v) == v.bonded /\ ~v.jailed

\* The active validators under the cap, or all active ones if none is.
EligibleValidators(vs) ==
    LET active    == Kept(vs, {i \in DOMAIN vs : IsHealthy(vs[i])})
        withinCap == Kept(active, {i \in DOMAIN active : active[i].rate <= MaxCommission})
    IN  IF withinCap # <<>> THEN withinCap ELSE active

\* Mutant: ordered by tokens the other way round.
RankDescending(e, i) ==
    Cardinality({j \in DOMAIN e : \/ e[j].tokens > e[i].tokens
                                  \/ e[j].tokens = e[i].tokens /\ j < i})

\* The place of e[i] among e ordered by tokens (a stable sort), from 0.
TokenRank(e, i) ==
    Cardinality({j \in DOMAIN e : \/ e[j].tokens < e[i].tokens
                                  \/ e[j].tokens = e[i].tokens /\ j < i})

RateRange(e) ==
    LET rates == {e[i].rate : i \in DOMAIN e} IN Max(rates) - Min(rates)

\* The blend of the two sub-scores, times 10, the rate range and Len(e) - 1.
ScoreOf(e, i) ==
    LET neutral == RateRange(e) < NeutralRange
        cheap   == IF neutral THEN 1 ELSE Max({e[j].rate : j \in DOMAIN e}) - e[i].rate
        range   == IF neutral THEN 1 ELSE RateRange(e)
        small   == IF Len(e) = 1 THEN 1 ELSE Len(e) - 1 - TokenRank(e, i)
        places  == IF Len(e) = 1 THEN 1 ELSE Len(e) - 1
    IN  CommissionWeight * cheap * places + PowerWeight * small * range

\* The comparator of the final sort; equal entries keep their order.
Before(e, i, j) ==
    \/ ScoreOf(e, i) > ScoreOf(e, j)
    \/ /\ ScoreOf(e, i) = ScoreOf(e, j)
       /\ \/ e[i].tokens < e[j].tokens
          \/ /\ e[i].tokens = e[j].tokens
             /\ \/ e[i].moniker < e[j].moniker
                \/ e[i].moniker = e[j].moniker /\ i < j

\* The eligible validators, best first.
ScoreValidators(vs) ==
    LET e     == EligibleValidators(vs)
        place == [i \in DOMAIN e |-> 1 + Cardinality({j \in DOMAIN e \ {i} : Before(e, j, i)})]
    IN  [p \in DOMAIN e |-> e[CHOOSE i \in DOMAIN e : place[i] = p]]

SelectTopValidators(scores, n) == SubSeq(scores, 1, Min({n, Len(scores)}))

\* Mutant: the remainder is dropped.
SplitEvenly(total, vs) ==
    [i \in DOMAIN vs |-> [val |-> vs[i].addr, amount |-> total \div Len(vs)]]

\* Equal parts, the remainder to the first validator.
SplitDelegation(total, vs) ==
    [i \in DOMAIN vs |->
        [val |-> vs[i].addr,
         amount |-> total \div Len(vs) + (IF i = 1 THEN total % Len(vs) ELSE 0)]]

----------------------------------------------------------------------------
(* utils/stakeHealth.ts                                                    *)

\* Mutant: the stuck validator may be picked.
PickAny(vs, exclude) ==
    LET top == SelectTopValidators(ScoreValidators(vs), 1)
    IN  IF top = <<>> THEN NoValidator ELSE top[1].addr

\* The best healthy validator other than the one the stake is stuck with.
PickFixValidator(vs, exclude) ==
    LET ranked == ScoreValidators(vs)
        scores == Kept(ranked, {i \in DOMAIN ranked : ranked[i].addr # exclude})
        top    == SelectTopValidators(scores, 1)
    IN  IF top = <<>> THEN NoValidator ELSE top[1].addr

\* The entry the Map holds for an address: the last one inserted.
ValidatorAt(vs, addr) ==
    LET at == {i \in DOMAIN vs : vs[i].addr = addr}
    IN  IF at = {} THEN <<>> ELSE <<vs[Max(at)]>>

RewardAt(rewards, id) ==
    LET at == {i \in DOMAIN rewards : rewards[i].id = id}
    IN  IF at = {} THEN <<>> ELSE <<rewards[Max(at)]>>

ReasonOf(v) == IF v.jailed THEN "jailed" ELSE "unbonded"

\* A delegation is reported when its validator is known not to earn.
DelegationIssues(data) ==
    LET stuck(del) == LET v == ValidatorAt(data.delegated, del.val)
                      IN  del.amount > 0 /\ v # <<>> /\ ~IsHealthy(v[1])
        dels == data.delegations
        report(del) == [type |-> "validator_inactive", amount |-> del.amount,
                        reason |-> ReasonOf(ValidatorAt(data.delegated, del.val)[1]),
                        src |-> del.val, dst |-> PickFixValidator(data.bonded, del.val)]
        stucks == Kept(dels, {i \in DOMAIN dels : stuck(dels[i])})
    IN  [i \in DOMAIN stucks |-> report(stucks[i])]

\* Zero counters are left out of the answer: the comparison with an absent
\* one is false, so a program counts as finished only with both present.
IsFinished(r) == r.payouts > 0 /\ r.duration > 0 /\ r.payouts >= r.duration

\* A participation whose program is not in the answer counts as finished.
RewardIssues(data) ==
    LET ended(p)  == LET r == RewardAt(data.rewards, p.id)
                     IN  p.amount > 0 /\ (r = <<>> \/ IsFinished(r[1]))
        report(p) == [type |-> "finished_reward", amount |-> p.amount, id |-> p.id]
        ps        == data.participants
        over      == Kept(ps, {i \in DOMAIN ps : ended(ps[i])})
    IN  [i \in DOMAIN over |-> report(over[i])]

----------------------------------------------------------------------------
(* utils/stakingHelpers.ts and the totals that use it                      *)

\* isRewardActive coerces an absent counter to zero.
IsRewardActive(r) == r.duration > 0 /\ r.payouts < r.duration

\* The participations whose program stakes the native token.
NativeParticipations(data) ==
    Kept(data.participants,
         {j \in DOMAIN data.participants :
             \E i \in DOMAIN data.rewards :
                data.rewards[i].id = data.participants[j].id /\ data.rewards[i].native})

\* StakingCompact: delegations and native participations, summed apart.
CompactTotal(data) ==
    TotalFrom(0, Amounts(data.delegations)) + TotalFrom(0, Amounts(NativeParticipations(data)))

\* StakingPage: the statistics bar starts from the delegated total.
PageTotal(data) ==
    TotalFrom(TotalFrom(0, Amounts(data.delegations)), Amounts(NativeParticipations(data)))

\* Mutant: participations in other tokens are counted.
StakedAnyDenom(overview) ==
    IF overview = <<>> THEN 0
    ELSE TotalFrom(0, Amounts(overview[1].delegations \o overview[1].participants))

\* assetDetailHelpers: nothing is staked while there is no overview.
StakedUbzeFromOverview(overview) ==
    IF overview = <<>> THEN 0
    ELSE TotalFrom(0, Amounts(overview[1].delegations \o NativeParticipations(overview[1])))

\* Mutant: the hours of whole days are not taken off.
HoursNotReduced(mins) ==
    IF mins <= 0 THEN [d |-> 0, h |-> 0, m |-> 0]
    ELSE [d |-> mins \div 1440, h |-> mins \div 60, m |-> IF mins >= 1440 THEN 0 ELSE mins % 60]

\* formatDurationMs, in minutes: the two largest units that are not zero.
Ready == [d |-> 0, h |-> 0, m |-> 0]
Pending == [d |-> -1, h |-> -1, m |-> -1]

FormatDuration(mins) ==
    LET days == mins \div 1440  hours == (mins % 1440) \div 60  m == mins % 60
    IN  IF mins <= 0 THEN Ready
        ELSE IF days > 0 THEN [d |-> days, h |-> hours, m |-> 0]
        ELSE [d |-> 0, h |-> hours, m |-> m]

\* A native entry counts down to its completion time, a program's unlock to
\* its epoch of one hour, once the current epoch is known.
UnlockWhen(u, now, epoch) ==
    IF u.native THEN FormatDuration(u.at - now)
    ELSE IF epoch = 0 THEN Pending
    ELSE FormatDuration(60 * (u.at - epoch))

\* buildPendingUnlockRows: one row per entry, unbonding ones first; the key
\* of a row is the validator, the height and the place of the entry, or the
\* index of the unlock.
PendingUnlockRows(unbonding, unlocks, now, epoch) ==
    LET native == FlattenSeq([i \in DOMAIN unbonding |->
                    [k \in DOMAIN unbonding[i].entries |->
                       LET e == unbonding[i].entries[k]
                       IN  [key |-> <<"n", unbonding[i].val, e.height, k>>, amount |-> e.balance,
                            when |-> UnlockWhen([native |-> TRUE, at |-> e.at], now, epoch)]]])
        reward == [i \in DOMAIN unlocks |->
                    [key |-> <<"r", unlocks[i].epoch, unlocks[i].id>>, amount |-> unlocks[i].amount,
                     when |-> UnlockWhen([native |-> FALSE, at |-> unlocks[i].epoch], now, epoch)]]
    IN  native \o reward
=============================================================================
