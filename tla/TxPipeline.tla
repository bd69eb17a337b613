----------------------------- MODULE TxPipeline -----------------------------
(***************************************************************************)
(* The one way the frontend runs a transaction: hooks/useTx.ts with the    *)
(* thin hooks that build messages for it, the SignAndBroadcast binding of  *)
(* the Go side, the account sequence and the mempool it meets, and the     *)
(* notification that tells the outcome.                                    *)
(*                                                                         *)
(* A submission is started by a section (an instance of the hook); its     *)
(* buttons are disabled while the hook's isSubmitting is set.  Go reads    *)
(* the committed sequence of the signer, signs, and posts; the mempool     *)
(* accepts a transaction that carries the next sequence.  Confirmation     *)
(* polls run detached, and the section may submit again meanwhile.         *)
(***************************************************************************)
EXTENDS Naturals, FiniteSets, Sequences, SequencesExt

CONSTANTS
    Sections,      \* hook instances that can submit
    Accounts,      \* addresses of the wallet
    Txs,           \* submissions
    Requests,      \* what a section may ask for, see MsgsOf
    MaxAttempts    \* confirmation polls, 6 in the program

ASSUME TxAssumption == MaxAttempts \in Nat /\ Accounts # {} /\ "none" \notin Accounts \cup Sections

VARIABLES
    active,        \* the address the sections render with
    submitting,    \* submitting[s]: isSubmitting of the hook instance
    pc,            \* pc[t]: where the submission stands
    by,            \* by[t]: the section that submitted it
    signer,        \* signer[t]: the address it is signed with
    seq,           \* seq[t]: the sequence it is signed with
    polls,         \* polls[t]: confirmation polls made
    toast,         \* toast[t]: its notification
    answer,        \* answer[t]: what sendTx resolved to
    refreshed,     \* refreshed[t]: calls of its onConfirmed
    mempool,       \* accepted, not yet in a block
    accepted,      \* ever accepted
    result,        \* result[t]: its outcome on chain
    committed      \* committed[a]: the sequence in the last block

hookVars == <<submitting, by, signer, toast, answer, refreshed>>
chainVars == <<mempool, accepted, result, committed>>
vars == <<active, submitting, pc, by, signer, seq, polls, toast, answer, refreshed,
          mempool, accepted, result, committed>>

Stages == {"free", "calling", "signed", "accepted", "rejected", "confirming", "done"}

TxTypeOK ==
    /\ active \in Accounts
    /\ submitting \in [Sections -> BOOLEAN]
    /\ pc \in [Txs -> Stages]
    /\ by \in [Txs -> Sections \cup {"none"}]
    /\ signer \in [Txs -> Accounts \cup {"none"}]
    /\ seq \in [Txs -> Nat]
    /\ polls \in [Txs -> 0..MaxAttempts]
    /\ toast \in [Txs -> {"none", "loading", "confirming", "success", "error"}]
    /\ answer \in [Txs -> {"none", "true", "false"}]
    /\ refreshed \in [Txs -> Nat]
    /\ mempool \subseteq accepted /\ accepted \subseteq Txs
    /\ result \in [Txs -> {"none", "ok", "failed"}]
    /\ committed \in [Accounts -> Nat]

Init ==
    /\ active \in Accounts
    /\ submitting = [s \in Sections |-> FALSE]
    /\ pc = [t \in Txs |-> "free"]
    /\ by = [t \in Txs |-> "none"]
    /\ signer = [t \in Txs |-> "none"]
    /\ seq = [t \in Txs |-> 0]
    /\ polls = [t \in Txs |-> 0]
    /\ toast = [t \in Txs |-> "none"]
    /\ answer = [t \in Txs |-> "none"]
    /\ refreshed = [t \in Txs |-> 0]
    /\ mempool = {} /\ accepted = {}
    /\ result = [t \in Txs |-> "none"]
    /\ committed = [a \in Accounts |-> 0]

----------------------------------------------------------------------------
(* Messages                                                                *)

\* One message per validator, reward program, part of a split or order.
Each(type, args) == [i \in DOMAIN args |-> [type |-> type, arg |-> args[i]]]

\* The messages of the staking hook's operations.
StakingMsgs(r) ==
    CASE r.op \in {"delegate", "autoStake"} -> Each("MsgDelegate", r.args)
      [] r.op = "undelegate"          -> Each("MsgUndelegate", r.args)
      [] r.op = "redelegate"          -> Each("MsgBeginRedelegate", r.args)
      [] r.op = "claimNativeRewards"  -> Each("MsgWithdrawDelegatorReward", r.args)
      [] r.op = "joinRewardStaking"   -> Each("MsgJoinStaking", r.args)
      [] r.op = "claimRewardStaking"  -> Each("MsgClaimStakingRewards", r.args)
      [] r.op = "exitRewardStaking"   -> Each("MsgExitStaking", r.args)
      [] r.op = "claimAll"            -> Each("MsgWithdrawDelegatorReward", r.args)
                                           \o Each("MsgClaimStakingRewards", r.ids)

\* Orders are built by Go beforehand and cancelled one message per order.
OrderMsgs(r) == IF r.op = "placeOrder" THEN r.args ELSE Each("MsgCancelOrder", r.args)

\* One message with the floors of the slippage tolerance.
PoolMsgs(r) ==
    Each(IF r.op = "addLiquidity" THEN "MsgAddLiquidity" ELSE "MsgRemoveLiquidity", r.args)

SwapMsgs(r) == Each("MsgMultiSwap", r.args)

SendMsgs(r) == Each("MsgSend", r.args)

MsgsOf(r) ==
    CASE r.op \in {"placeOrder", "cancelOrders"}        -> OrderMsgs(r)
      [] r.op \in {"addLiquidity", "removeLiquidity"}   -> PoolMsgs(r)
      [] r.op = "swap"                                  -> SwapMsgs(r)
      [] r.op = "send"                                  -> SendMsgs(r)
      [] OTHER                                          -> StakingMsgs(r)

----------------------------------------------------------------------------
(* Notifications                                                           *)

\* notify.loading, handle.update, and the one of success and error.
Loading(t) == toast' = [toast EXCEPT ![t] = "loading"]

Update(t) == toast' = [toast EXCEPT ![t] = "confirming"]

Resolve(t, type) == toast' = [toast EXCEPT ![t] = type]

----------------------------------------------------------------------------
(* useTx                                                                   *)

\* Nothing to sign: sendTx returns at once and shows nothing.
Submit(t, s, r) ==
    /\ pc[t] = "free" /\ ~submitting[s]
    /\ MsgsOf(r) # <<>>
    /\ submitting' = [submitting EXCEPT ![s] = TRUE]
    /\ pc' = [pc EXCEPT ![t] = "calling"]
    /\ by' = [by EXCEPT ![t] = s]
    /\ signer' = [signer EXCEPT ![t] = active]
    /\ Loading(t)
    /\ UNCHANGED <<active, seq, polls, answer, refreshed, chainVars>>

\* sendTx returns: the hook may submit again.
Return(t, value) ==
    /\ answer' = [answer EXCEPT ![t] = value]
    /\ submitting' = [submitting EXCEPT ![by[t]] = FALSE]
    /\ UNCHANGED <<by, signer>>

\* The binding throws or its answer is not an acceptance.
Refused(t) ==
    /\ pc' = [pc EXCEPT ![t] = "done"]
    /\ Return(t, "false")
    /\ Resolve(t, "error")
    /\ UNCHANGED <<active, seq, polls, refreshed, chainVars>>

\* Decoding, the key, the account query, the simulation or the signing fails.
GoFails(t) == pc[t] = "calling" /\ Refused(t)

\* Mutant: the sequence counts the signer's transactions in the mempool.
ReadPending(t) ==
    /\ pc[t] = "calling"
    /\ seq' = [seq EXCEPT ![t] = committed[signer[t]]
                 + Cardinality({u \in mempool : signer[u] = signer[t]})]
    /\ pc' = [pc EXCEPT ![t] = "signed"]
    /\ UNCHANGED <<active, polls, hookVars, chainVars>>

\* baseAccount reads the sequence of the last block.
ReadAccount(t) ==
    /\ pc[t] = "calling"
    /\ seq' = [seq EXCEPT ![t] = committed[signer[t]]]
    /\ pc' = [pc EXCEPT ![t] = "signed"]
    /\ UNCHANGED <<active, polls, hookVars, chainVars>>

\* The sequence the mempool expects next of an account.
CheckSequence(a) == committed[a] + Cardinality({t \in mempool : signer[t] = a})

Broadcast(t) ==
    /\ pc[t] = "signed"
    /\ IF seq[t] = CheckSequence(signer[t])
       THEN /\ mempool' = mempool \cup {t} /\ accepted' = accepted \cup {t}
            /\ pc' = [pc EXCEPT ![t] = "accepted"]
       ELSE pc' = [pc EXCEPT ![t] = "rejected"] /\ UNCHANGED <<mempool, accepted>>
    /\ UNCHANGED <<active, seq, polls, hookVars, result, committed>>

\* The request does not reach the node, or is answered without a tx_response.
BroadcastFails(t) == pc[t] = "signed" /\ Refused(t)

\* The answer of CheckTx with a code other than 0.
ReplyRejected(t) == pc[t] = "rejected" /\ Refused(t)

\* The transaction is in the mempool but its answer is lost or garbled.
ReplyLost(t) == pc[t] = "accepted" /\ Refused(t)

\* Mutant: the page is refreshed as soon as the mempool accepted.
RefreshAtOnce(t) ==
    /\ pc[t] = "accepted"
    /\ pc' = [pc EXCEPT ![t] = "confirming"]
    /\ Return(t, "true")
    /\ Update(t)
    /\ refreshed' = [refreshed EXCEPT ![t] = @ + 1]
    /\ UNCHANGED <<active, seq, polls, chainVars>>

\* Accepted: sendTx resolves to true, the confirmation goes on detached.
ReplyAccepted(t) ==
    /\ pc[t] = "accepted"
    /\ pc' = [pc EXCEPT ![t] = "confirming"]
    /\ Return(t, "true")
    /\ Update(t)
    /\ UNCHANGED <<active, seq, polls, refreshed, chainVars>>

\* Mutant: one attempt more than the window has.
PollOnceMore(t) ==
    /\ pc[t] = "confirming" /\ polls[t] <= MaxAttempts
    /\ polls' = [polls EXCEPT ![t] = @ + 1]
    /\ UNCHANGED <<active, pc, seq, hookVars, chainVars>>

\* Mutant: a failed poll is not caught, and the detached call dies with it.
PollThrows(t) ==
    /\ pc[t] = "confirming" /\ polls[t] < MaxAttempts
    /\ polls' = [polls EXCEPT ![t] = @ + 1]
    /\ pc' = [pc EXCEPT ![t] = "done"]
    /\ UNCHANGED <<active, seq, hookVars, chainVars>>

\* The poll does not find the transaction or fails.
PollMiss(t) ==
    /\ pc[t] = "confirming" /\ polls[t] < MaxAttempts
    /\ polls' = [polls EXCEPT ![t] = @ + 1]
    /\ UNCHANGED <<active, pc, seq, hookVars, chainVars>>

\* confirmAndResolve ends: a failure on chain is told, anything else is a
\* success that refreshes the page.
Resolved(t, failed) ==
    /\ pc' = [pc EXCEPT ![t] = "done"]
    /\ Resolve(t, IF failed THEN "error" ELSE "success")
    /\ refreshed' = [refreshed EXCEPT ![t] = IF failed THEN @ ELSE @ + 1]
    /\ UNCHANGED <<active, submitting, by, signer, seq, polls, answer, chainVars>>

PollHit(t) ==
    /\ pc[t] = "confirming" /\ polls[t] < MaxAttempts /\ result[t] # "none"
    /\ Resolved(t, result[t] = "failed")

\* Not found in any poll: taken as submitted.
WindowCloses(t) ==
    /\ pc[t] = "confirming" /\ polls[t] = MaxAttempts
    /\ Resolved(t, FALSE)

----------------------------------------------------------------------------
(* The user and the chain                                                  *)

SwitchAccount(a) ==
    /\ a # active
    /\ active' = a
    /\ UNCHANGED <<pc, seq, polls, hookVars, chainVars>>

\* A block takes the signer's next transaction, which succeeds or fails.
Include(t, outcome) ==
    /\ t \in mempool /\ seq[t] = committed[signer[t]]
    /\ mempool' = mempool \ {t}
    /\ result' = [result EXCEPT ![t] = outcome]
    /\ committed' = [committed EXCEPT ![signer[t]] = @ + 1]
    /\ UNCHANGED <<active, pc, seq, polls, hookVars, accepted>>

\* The mempool evicts a transaction.
Evict(t) ==
    /\ t \in mempool
    /\ mempool' = mempool \ {t}
    /\ UNCHANGED <<active, pc, seq, polls, hookVars, accepted, result, committed>>

Next ==
    \/ \E t \in Txs, s \in Sections, r \in Requests : Submit(t, s, r)
    \/ \E t \in Txs : GoFails(t)
    \/ \E t \in Txs : ReadAccount(t)
    \/ \E t \in Txs : Broadcast(t)
    \/ \E t \in Txs : BroadcastFails(t)
    \/ \E t \in Txs : ReplyRejected(t)
    \/ \E t \in Txs : ReplyLost(t)
    \/ \E t \in Txs : ReplyAccepted(t)
    \/ \E t \in Txs : PollMiss(t)
    \/ \E t \in Txs : PollHit(t)
    \/ \E t \in Txs : WindowCloses(t)
    \/ \E a \in Accounts : SwitchAccount(a)
    \/ \E t \in Txs, outcome \in {"ok", "failed"} : Include(t, outcome)
    \/ \E t \in Txs : Evict(t)

\* Go and the HTTP client answer, every timer of the polls fires.
Progress(t) ==
    \/ GoFails(t) \/ ReadAccount(t) \/ Broadcast(t) \/ BroadcastFails(t)
    \/ ReplyRejected(t) \/ ReplyLost(t) \/ ReplyAccepted(t)
    \/ PollMiss(t) \/ PollHit(t) \/ WindowCloses(t)

Spec == Init /\ [][Next]_vars /\ \A t \in Txs : WF_vars(Progress(t))

----------------------------------------------------------------------------
(* Properties                                                              *)

\* An account never has two transactions in the mempool: the second of two
\* submissions, whatever sections made them, is signed with the sequence of
\* the first until a block took the first, and the mempool refuses it.  A
\* retry of a submission whose answer was lost cannot overtake it either.
OnePending ==
    \A t, u \in mempool : signer[t] = signer[u] => t = u

\* No page is refreshed on the word of the mempool alone: onConfirmed runs
\* once the transaction succeeded in a block or all the polls missed it.
RefreshNotOptimistic ==
    [][\A t \in Txs : refreshed'[t] # refreshed[t] =>
          result[t] = "ok" \/ polls[t] = MaxAttempts]_vars

\* What the user was told of a submission, in the terms of TxOutcome.
Told == [t \in Txs |->
            CASE toast[t] = "none"                        -> "nothing"
              [] toast[t] \in {"loading", "confirming"}   -> "pending"
              [] toast[t] = "success"                     -> "success"
              [] toast[t] = "error"                       -> "failure"]

Outcome == INSTANCE TxOutcome WITH told <- Told

\* The pipeline implements TxOutcome: every submission is answered once and in
\* the end, a success only when accepted, and only a success refreshes, once.
OutcomeSpec == Outcome!Spec
=============================================================================
