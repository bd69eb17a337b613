----------------------------- MODULE StakeForm -----------------------------
(***************************************************************************)
(* The Earn section: components/staking/StakingPage.tsx, its compact view  *)
(* (StakingCompact), its advanced one (NativeStakingAdvanced and           *)
(* RewardsStakingSection) and the five dialogs.                            *)
(*                                                                         *)
(* Everything shown comes from the staking data last loaded; a dialog      *)
(* keeps what its row held when it was opened.  An amount is in base       *)
(* units: NoAmount is an empty field, 0 a positive amount below one unit.  *)
(***************************************************************************)
EXTENDS FormBase, StakingHelpers

CONSTANTS StakeDatas, StakeAmounts

ASSUME StakeAssumption ==
    /\ StakeDatas # {} /\ StakeAmounts \subseteq Nat
    /\ \A d \in StakeDatas : d.bonded \in Seq(Range(d.bonded))

NoAmount == -1

NoModal == [type |-> "none", target |-> NoValidator, limit |-> 0, amount |-> NoAmount, dst |-> NoValidator]

StakeInit == [view |-> "simple", mount |-> 0, modal |-> NoModal, data |-> CHOOSE d \in StakeDatas : TRUE]

\* The bonded validators and the ones delegated to, jailed ones included.
MergedValidators(d) ==
    Range(d.bonded) \cup {v \in Range(d.delegated) : ValidatorAt(d.bonded, v.addr) = <<>>}

DelegationTo(d, val) ==
    LET at == {i \in DOMAIN d.delegations : d.delegations[i].val = val}
    IN  IF at = {} THEN NoAmount ELSE d.delegations[Max(at)].amount

Joined(d) == {p.id : p \in Range(d.participants)}

\* The hook behind a dialog: the automatic stake uses that of the compact view.
HookOf(u) == IF u.modal.type = "stake" THEN <<"compact", u.mount>> ELSE <<u.modal.type, u.mount>>

\* The data was loaded again; a row that is gone takes its dialog along.
StakeReloaded(d) ==
    /\ page = "stake"
    /\ WorldMoves
    /\ LET gone == ui.modal.type = "join" /\ ~ \E r \in Range(d.rewards) :
                       r.id = ui.modal.target /\ IsRewardActive(r)
       IN  ui' = [ui EXCEPT !.data = d, !.modal = IF gone THEN NoModal ELSE @]
    /\ UNCHANGED wire

\* The other view: its rows and hooks are new.
StakeView ==
    /\ page = "stake" /\ ui.modal = NoModal /\ ui.mount < MaxRequests[page]
    /\ ui' = [ui EXCEPT !.view = IF @ = "simple" THEN "advanced" ELSE "simple", !.mount = @ + 1]
    /\ UiOnly

Opens(modal) == ui' = [ui EXCEPT !.modal = modal] /\ UiOnly

OpenStake ==
    /\ page = "stake" /\ ui.view = "simple" /\ ui.modal = NoModal /\ ~Busy(<<"compact", ui.mount>>)
    /\ Opens([NoModal EXCEPT !.type = "stake"])

\* What a row of the validator table offers.
NativeRow(d, val) ==
    {"delegate"} \cup (IF DelegationTo(d, val) # NoAmount THEN {"undelegate", "redelegate"} ELSE {})

OpenNative(v, type) ==
    /\ page = "stake" /\ ui.view = "advanced" /\ ui.modal = NoModal
    /\ type \in NativeRow(ui.data, v.addr)
    /\ Opens([NoModal EXCEPT !.type = type, !.target = v.addr, !.limit = Max({0, DelegationTo(ui.data, v.addr)})])

\* The programs of either view: those running, a way in for those not joined.
EarnPrograms(d) == {r \in Range(d.rewards) : IsRewardActive(r)}

RewardGroups(d) == {{r \in EarnPrograms(d) : r.native = n} : n \in {r.native : r \in EarnPrograms(d)}}

\* A row of either view offers to join what was not joined.
EarnRow(u, r) == u.view = "simple" /\ r \in EarnPrograms(u.data) /\ r.id \notin Joined(u.data)

RewardRow(u, r) == u.view = "advanced" /\ r \in UNION RewardGroups(u.data) /\ r.id \notin Joined(u.data)

OpenJoin(r) ==
    /\ page = "stake" /\ ui.modal = NoModal
    /\ EarnRow(ui, r) \/ RewardRow(ui, r)
    /\ Opens([NoModal EXCEPT !.type = "join", !.target = r.id, !.limit = r.min])

\* The dialogs: inputs and buttons are disabled while their hook submits.
StakeModal(m) == {"type"}
DelegateModal(m) == {"type"}
UndelegateModal(m) == {"type", "max"}
RedelegateModal(m) == {"type", "max", "target"}
JoinRewardModal(m) == {"type"}

ModalOffers(m) ==
    CASE m.type = "stake" -> StakeModal(m)
      [] m.type = "delegate" -> DelegateModal(m)
      [] m.type = "undelegate" -> UndelegateModal(m)
      [] m.type = "redelegate" -> RedelegateModal(m)
      [] m.type = "join" -> JoinRewardModal(m)
      [] OTHER -> {}

InModal(what) == page = "stake" /\ what \in ModalOffers(ui.modal) /\ ~Busy(HookOf(ui))

ModalType(a) ==
    /\ InModal("type")
    /\ ui' = [ui EXCEPT !.modal.amount = a]
    /\ UiOnly

ModalMax ==
    /\ InModal("max")
    /\ ui' = [ui EXCEPT !.modal.amount = ui.modal.limit]
    /\ UiOnly

\* Healthy validators other than the source, as the list is now.
OtherValidators(u) == {v.addr : v \in {w \in MergedValidators(u.data) : w.addr # u.modal.target /\ IsHealthy(w)}}

ModalTarget(val) ==
    /\ InModal("target") /\ val \in OtherValidators(ui)
    /\ ui' = [ui EXCEPT !.modal.dst = val]
    /\ UiOnly

\* A selection that is no longer in the list is shown as none.
TargetShown(u) == IF u.modal.dst \in OtherValidators(u) THEN u.modal.dst ELSE NoValidator

ModalClose ==
    /\ page = "stake" /\ ui.modal # NoModal /\ ~Busy(HookOf(ui))
    /\ Opens(NoModal)

TopOf(d) == SelectTopValidators(ScoreValidators(d.bonded), TopN)

InModalOf(op) == page = "stake" /\ ui.modal.type = op

SubmitModal(op, shown, signed) == SubmitForm(HookOf(ui), op, shown, signed, FALSE)

\* What handleStake sends: the amount split over the best validators of now.
StakeParts(u) == SplitDelegation(u.modal.amount, TopOf(u.data))

\* The preview names the validators the amount is split over.
SubmitStake ==
    /\ InModalOf("stake")
    /\ ui.modal.amount > 0
    /\ LET parts == StakeParts(ui)
       IN  SubmitModal("stake", <<TopOf(ui.data) # <<>>, [i \in DOMAIN TopOf(ui.data) |-> TopOf(ui.data)[i].addr]>>,
                       <<SumSeq(parts, LAMBDA x : x.amount) = ui.modal.amount, [i \in DOMAIN parts |-> parts[i].val]>>)

SubmitDelegate ==
    /\ InModalOf("delegate")
    /\ ui.modal.amount >= 0
    /\ SubmitModal("delegate", <<ui.modal.target, ui.modal.amount>>, <<ui.modal.target, ui.modal.amount>>)

SubmitUndelegate ==
    /\ InModalOf("undelegate")
    /\ ui.modal.amount >= 0 /\ ui.modal.amount <= ui.modal.limit
    /\ SubmitModal("undelegate", <<ui.modal.target, ui.modal.amount>>, <<ui.modal.target, ui.modal.amount>>)

SubmitRedelegate ==
    /\ InModalOf("redelegate")
    /\ ui.modal.dst # NoValidator /\ ui.modal.amount >= 0 /\ ui.modal.amount <= ui.modal.limit
    /\ SubmitModal("redelegate", <<ui.modal.target, TargetShown(ui), ui.modal.amount>>,
                   <<ui.modal.target, ui.modal.dst, ui.modal.amount>>)

SubmitJoin ==
    /\ InModalOf("join")
    /\ ui.modal.amount >= ui.modal.limit /\ ui.modal.amount >= 0
    /\ SubmitModal("join", <<ui.modal.target, ui.modal.amount>>, <<ui.modal.target, ui.modal.amount>>)

\* What the compact view lists as pending: due says which sources have a
\* reward, the programs by id and the native stake as "native".
PendingItems(d) == (d.due \cap {"native"}) \cup {r.id : r \in {x \in Range(d.rewards) : x.id \in Joined(d) \cap d.due}}

\* No dialog is over the compact view.
OnCompact == page = "stake" /\ ui.view = "simple" /\ ui.modal = NoModal

Compact(op, shown, signed) == SubmitForm(<<"compact", ui.mount>>, op, shown, signed, FALSE)

ClaimOne(item) == OnCompact /\ item \in PendingItems(ui.data) /\ Compact("claim", <<item>>, <<item>>)

\* Every validator that owes a reward, and the programs that are due.
ClaimAll ==
    /\ OnCompact /\ PendingItems(ui.data) # {}
    /\ Compact("claimAll", <<PendingItems(ui.data)>>,
               <<(ui.data.due \cap {"native"}) \cup (PendingItems(ui.data) \ {"native"})>>)

\* The statistics bar offers to claim when the native stake has rewards.
StatsBar(d) == IF "native" \in d.due THEN {"claimAll"} ELSE {}

\* Its button claims from every program joined, due or not.
PageClaimAll ==
    /\ page = "stake" /\ ui.view = "advanced" /\ ui.modal = NoModal /\ "claimAll" \in StatsBar(ui.data)
    /\ SubmitForm(<<"page", 0>>, "claimAllOf", <<Joined(ui.data)>>, <<Joined(ui.data)>>, FALSE)

\* The button next to a report of the health panel.
StakeFix ==
    /\ OnCompact
    /\ \E k \in DOMAIN DelegationIssues(ui.data) :
       LET issue == DelegationIssues(ui.data)[k]
       IN  /\ issue.dst # NoValidator
           /\ Compact("fix", <<issue.src, issue.dst, issue.amount>>, <<issue.src, issue.dst, issue.amount>>)

StakeUnlock ==
    /\ OnCompact
    /\ \E k \in DOMAIN RewardIssues(ui.data) :
       Compact("unlock", <<RewardIssues(ui.data)[k].id>>, <<RewardIssues(ui.data)[k].id>>)

\* Acceptance closes the dialog and reloads (StakeReloaded follows); nothing
\* waits for the confirmation.
StakeAnswered(r, ok) ==
    /\ page = "stake"
    /\ TxAnswered(r, ok)
    /\ ui' = IF ok /\ r.hook = HookOf(ui) THEN [ui EXCEPT !.modal = NoModal] ELSE ui
=============================================================================
