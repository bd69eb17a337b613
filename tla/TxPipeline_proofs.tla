------------------------- MODULE TxPipeline_proofs -------------------------
(* Proofs about TxPipeline: types, one pending transaction per account, no   *)
(* early refresh, and the step simulation that makes it implement TxOutcome. *)
EXTENDS TxPipeline, FiniteSetTheorems, TLAPS

-----------------------------------------------------------------------------
(* What makes the types inductive: whoever is past its submission has a      *)
(* signer.                                                                  *)
SignerKnown == \A t \in Txs : pc[t] # "free" => signer[t] \in Accounts

TypeInv == TxTypeOK /\ SignerKnown

(* How the sequence of a submission and the chain relate: what was read is   *)
(* at most what is committed, the mempool holds the next one of an account   *)
(* and no other.                                                            *)
SequenceInv ==
    /\ IsFiniteSet(mempool)
    /\ \A t \in Txs : pc[t] = "signed" => seq[t] <= committed[signer[t]]
    /\ \A t \in mempool : seq[t] = committed[signer[t]]
    /\ OnePending

(* What the user is shown and what the mempool did, by stage.                *)
StageInv ==
    \A t \in Txs :
       /\ pc[t] = "free" => toast[t] = "none"
       /\ pc[t] \in {"calling", "signed", "accepted", "rejected"} => toast[t] = "loading"
       /\ pc[t] = "confirming" => toast[t] = "confirming"
       /\ pc[t] \in {"free", "calling", "signed", "rejected"} => t \notin accepted
       /\ pc[t] \in {"accepted", "confirming"} => t \in accepted

TxInv == TypeInv /\ StageInv /\ SequenceInv

(* A step by one submission or by the user and the chain: the disjuncts of   *)
(* Next that touch the hook, and those that touch the rest.                  *)
LEMMA TypeStep ==
    ASSUME TypeInv, [Next]_vars PROVE TypeInv'
<1> USE TxAssumption DEF TypeInv, TxTypeOK, SignerKnown, Stages, hookVars, chainVars
<1>1. CASE UNCHANGED vars BY <1>1 DEF vars
<1>2. ASSUME NEW t \in Txs, NEW s \in Sections, NEW r \in Requests, Submit(t, s, r) PROVE TypeInv'
  BY <1>2 DEF Submit, Loading
<1>3. ASSUME NEW t \in Txs, Refused(t), pc[t] # "free" PROVE TypeInv'
  BY <1>3 DEF Refused, Return, Resolve
<1>4. ASSUME NEW t \in Txs, ReadAccount(t) PROVE TypeInv'
  BY <1>4 DEF ReadAccount
<1>5. ASSUME NEW t \in Txs, Broadcast(t) PROVE TypeInv'
  BY <1>5 DEF Broadcast
<1>6. ASSUME NEW t \in Txs, ReplyAccepted(t) PROVE TypeInv'
  BY <1>6 DEF ReplyAccepted, Return, Update
<1>7. ASSUME NEW t \in Txs, PollMiss(t) PROVE TypeInv'
  BY <1>7 DEF PollMiss
<1>8. ASSUME NEW t \in Txs, NEW failed \in BOOLEAN, pc[t] = "confirming", Resolved(t, failed) PROVE TypeInv'
  BY <1>8 DEF Resolved, Resolve
<1>9. ASSUME NEW a \in Accounts, SwitchAccount(a) PROVE TypeInv'
  BY <1>9 DEF SwitchAccount
<1>10. ASSUME NEW t \in Txs, NEW outcome \in {"ok", "failed"}, Include(t, outcome) PROVE TypeInv'
  <2>1. committed' \in [Accounts -> Nat]
    <3>1. CASE signer[t] \in Accounts BY <1>10, <3>1 DEF Include
    <3>2. CASE signer[t] \notin Accounts
      <4>1. committed' = committed BY <1>10, <3>2 DEF Include
      <4>2. QED BY <4>1
    <3>3. QED BY <3>1, <3>2
  <2>2. QED BY <1>10, <2>1 DEF Include
<1>11. ASSUME NEW t \in Txs, Evict(t) PROVE TypeInv'
  BY <1>11 DEF Evict
<1>12. QED
  BY <1>1, <1>2, <1>3, <1>4, <1>5, <1>6, <1>7, <1>8, <1>9, <1>10, <1>11
     DEF Next, GoFails, BroadcastFails, ReplyRejected, ReplyLost, PollHit, WindowCloses

(* Type correctness of the pipeline.                                         *)
THEOREM TxTypeCorrect == Spec => []TxTypeOK
<1>1. Init => TypeInv
  BY TxAssumption DEF Init, TypeInv, TxTypeOK, SignerKnown, Stages
<1>2. TypeInv /\ [Next]_vars => TypeInv'
  BY TypeStep
<1>3. TypeInv => TxTypeOK
  BY DEF TypeInv
<1>4. QED BY <1>1, <1>2, <1>3, PTL DEF Spec

-----------------------------------------------------------------------------
(* The notification keeps up with the submission.                            *)
LEMMA StageStep ==
    ASSUME TypeInv, StageInv, [Next]_vars PROVE StageInv'
<1> USE DEF TypeInv, TxTypeOK, StageInv, hookVars, chainVars
<1>1. CASE UNCHANGED vars BY <1>1 DEF vars
<1>2. ASSUME NEW t \in Txs, NEW s \in Sections, NEW r \in Requests, Submit(t, s, r) PROVE StageInv'
  BY <1>2 DEF Submit, Loading
<1>3. ASSUME NEW t \in Txs, Refused(t) PROVE StageInv'
  BY <1>3 DEF Refused, Return, Resolve
<1>4. ASSUME NEW t \in Txs, ReadAccount(t) PROVE StageInv'
  BY <1>4 DEF ReadAccount
<1>5. ASSUME NEW t \in Txs, Broadcast(t) PROVE StageInv'
  BY <1>5 DEF Broadcast
<1>6. ASSUME NEW t \in Txs, ReplyAccepted(t) PROVE StageInv'
  BY <1>6 DEF ReplyAccepted, Return, Update
<1>7. ASSUME NEW t \in Txs, PollMiss(t) PROVE StageInv'
  BY <1>7 DEF PollMiss
<1>8. ASSUME NEW t \in Txs, NEW failed \in BOOLEAN, Resolved(t, failed) PROVE StageInv'
  BY <1>8 DEF Resolved, Resolve
<1>9. ASSUME NEW a \in Accounts, SwitchAccount(a) PROVE StageInv'
  BY <1>9 DEF SwitchAccount
<1>10. ASSUME NEW t \in Txs, NEW outcome \in {"ok", "failed"}, Include(t, outcome) PROVE StageInv'
  BY <1>10 DEF Include
<1>11. ASSUME NEW t \in Txs, Evict(t) PROVE StageInv'
  BY <1>11 DEF Evict
<1>12. QED
  BY <1>1, <1>2, <1>3, <1>4, <1>5, <1>6, <1>7, <1>8, <1>9, <1>10, <1>11
     DEF Next, GoFails, BroadcastFails, ReplyRejected, ReplyLost, PollHit, WindowCloses

(* With the account's transactions in the mempool counted in, the sequence a *)
(* node expects is met by what was read earlier only if there is none.       *)
LEMMA AcceptedIsFirst ==
    ASSUME TypeInv, SequenceInv, NEW t \in Txs, pc[t] = "signed",
           seq[t] = CheckSequence(signer[t])
    PROVE  /\ seq[t] = committed[signer[t]]
           /\ \A u \in mempool : signer[u] # signer[t]
<1> DEFINE Waiting == {u \in mempool : signer[u] = signer[t]}
<1>1. IsFiniteSet(Waiting)
  BY FS_Subset DEF SequenceInv
<1>2. Cardinality(Waiting) \in Nat /\ (Cardinality(Waiting) = 0 <=> Waiting = {})
  BY <1>1, FS_CardinalityType, FS_EmptySet
<1>3. seq[t] \in Nat /\ committed[signer[t]] \in Nat /\ seq[t] <= committed[signer[t]]
  BY DEF TypeInv, TxTypeOK, SignerKnown, SequenceInv
<1>4. seq[t] = committed[signer[t]] + Cardinality(Waiting)
  BY DEF CheckSequence
<1>5. Cardinality(Waiting) = 0
  BY <1>2, <1>3, <1>4
<1>6. QED BY <1>2, <1>3, <1>4, <1>5

(* Steps that leave the mempool, the chain and the signers alone.            *)
LEMMA SequenceStays ==
    ASSUME TypeInv, SequenceInv, UNCHANGED <<signer, seq, mempool, committed>>,
           \A t \in Txs : pc'[t] = "signed" => pc[t] = "signed"
    PROVE  SequenceInv'
BY DEF SequenceInv, OnePending

(* Sequences and the mempool under every step.                               *)
LEMMA SequenceStep ==
    ASSUME TypeInv, StageInv, SequenceInv, [Next]_vars PROVE SequenceInv'
<1> USE DEF hookVars, chainVars
<1>1. CASE UNCHANGED vars BY <1>1, SequenceStays DEF vars
<1>2. ASSUME NEW t \in Txs, NEW s \in Sections, NEW r \in Requests, Submit(t, s, r) PROVE SequenceInv'
  <2>1. t \notin mempool
    BY <1>2 DEF Submit, StageInv, TypeInv, TxTypeOK
  <2>2. QED BY <1>2, <2>1 DEF Submit, SequenceInv, OnePending, TypeInv, TxTypeOK
<1>3. ASSUME NEW t \in Txs, Refused(t) PROVE SequenceInv'
  BY <1>3, SequenceStays DEF Refused, Return, TypeInv, TxTypeOK
<1>4. ASSUME NEW t \in Txs, ReadAccount(t) PROVE SequenceInv'
  <2>1. t \notin mempool
    BY <1>4 DEF ReadAccount, StageInv, TypeInv, TxTypeOK
  <2>2. committed[signer[t]] \in Nat
    BY <1>4 DEF ReadAccount, TypeInv, TxTypeOK, SignerKnown
  <2>3. QED BY <1>4, <2>1, <2>2 DEF ReadAccount, SequenceInv, OnePending, TypeInv, TxTypeOK
<1>5. ASSUME NEW t \in Txs, Broadcast(t) PROVE SequenceInv'
  <2>1. CASE seq[t] = CheckSequence(signer[t])
    <3>1. mempool' = mempool \cup {t} /\ pc' = [pc EXCEPT ![t] = "accepted"]
          /\ UNCHANGED <<signer, seq, committed>> /\ pc[t] = "signed"
      BY <1>5, <2>1 DEF Broadcast
    <3>2. seq[t] = committed[signer[t]] /\ \A u \in mempool : signer[u] # signer[t]
      BY <2>1, <3>1, AcceptedIsFirst
    <3>3. IsFiniteSet(mempool')
      BY <3>1, FS_AddElement DEF SequenceInv
    <3>4. QED BY <3>1, <3>2, <3>3 DEF SequenceInv, OnePending, TypeInv, TxTypeOK
  <2>2. CASE seq[t] # CheckSequence(signer[t])
    BY <1>5, <2>2, SequenceStays DEF Broadcast, TypeInv, TxTypeOK
  <2>3. QED BY <2>1, <2>2
<1>6. ASSUME NEW t \in Txs, ReplyAccepted(t) PROVE SequenceInv'
  BY <1>6, SequenceStays DEF ReplyAccepted, Return, TypeInv, TxTypeOK
<1>7. ASSUME NEW t \in Txs, PollMiss(t) PROVE SequenceInv'
  BY <1>7, SequenceStays DEF PollMiss
<1>8. ASSUME NEW t \in Txs, NEW failed \in BOOLEAN, Resolved(t, failed) PROVE SequenceInv'
  BY <1>8, SequenceStays DEF Resolved, TypeInv, TxTypeOK
<1>9. ASSUME NEW a \in Accounts, SwitchAccount(a) PROVE SequenceInv'
  BY <1>9, SequenceStays DEF SwitchAccount
<1>10. ASSUME NEW t \in Txs, NEW outcome \in {"ok", "failed"}, Include(t, outcome) PROVE SequenceInv'
  <2>1. IsFiniteSet(mempool')
    BY <1>10, FS_RemoveElement DEF Include, SequenceInv
  <2>2. \A u \in mempool' : u \in mempool /\ u # t /\ signer[u] # signer[t]
    BY <1>10 DEF Include, SequenceInv, OnePending
  <2>3. ASSUME NEW u \in Txs, pc[u] = "signed" PROVE seq[u] <= committed'[signer[u]]
    <3>1. signer[u] \in Accounts /\ seq[u] \in Nat /\ seq[u] <= committed[signer[u]]
      BY <2>3 DEF TypeInv, TxTypeOK, SignerKnown, SequenceInv
    <3>2. committed[signer[u]] \in Nat
      BY <3>1 DEF TypeInv, TxTypeOK
    <3>3. committed'[signer[u]] \in {committed[signer[u]], committed[signer[u]] + 1}
      BY <1>10, <3>1 DEF Include, TypeInv, TxTypeOK
    <3>4. QED BY <3>1, <3>2, <3>3
  <2>4. \A u \in mempool' : seq[u] = committed'[signer[u]]
    BY <1>10, <2>2 DEF Include, SequenceInv, TypeInv, TxTypeOK
  <2>5. QED BY <1>10, <2>1, <2>2, <2>3, <2>4 DEF Include, SequenceInv, OnePending
<1>11. ASSUME NEW t \in Txs, Evict(t) PROVE SequenceInv'
  BY <1>11, FS_RemoveElement DEF Evict, SequenceInv, OnePending
<1>12. QED
  BY <1>1, <1>2, <1>3, <1>4, <1>5, <1>6, <1>7, <1>8, <1>9, <1>10, <1>11
     DEF Next, GoFails, BroadcastFails, ReplyRejected, ReplyLost, PollHit, WindowCloses

(* The inductive invariant of the pipeline.                                  *)
LEMMA TxInvariant == Spec => []TxInv
<1>1. Init => TypeInv /\ StageInv /\ SequenceInv
  BY TxAssumption, FS_EmptySet
     DEF Init, TypeInv, TxTypeOK, SignerKnown, Stages, StageInv, SequenceInv, OnePending
<1>2. TxInv /\ [Next]_vars => TxInv'
  BY TypeStep, StageStep, SequenceStep DEF TxInv
<1>3. QED BY <1>1, <1>2, PTL DEF Spec, TxInv

(* An account never has two transactions in the mempool, however many        *)
(* sections, accounts and submissions there are.                             *)
THEOREM OnePendingHolds == Spec => []OnePending
<1>1. TxInv => OnePending
  BY DEF TxInv, SequenceInv
<1>2. QED BY <1>1, TxInvariant, PTL

(* No page is refreshed before a block or the last poll.                     *)
THEOREM RefreshesLate == Spec => RefreshNotOptimistic
<1> DEFINE Late == \A t \in Txs : refreshed'[t] # refreshed[t] =>
                       result[t] = "ok" \/ polls[t] = MaxAttempts
<1>1. ASSUME TypeInv, Next PROVE Late
  <2> USE DEF TypeInv, TxTypeOK, hookVars, chainVars
  <2>1. ASSUME NEW t \in Txs, PollHit(t) PROVE Late
    <3>1. result[t] \in {"ok", "failed"}
      BY <1>1, <2>1 DEF PollHit
    <3>2. \A u \in Txs : refreshed'[u] # refreshed[u] => u = t /\ result[t] # "failed"
      BY <2>1 DEF PollHit, Resolved
    <3>3. QED BY <3>1, <3>2
  <2>2. ASSUME NEW t \in Txs, WindowCloses(t) PROVE Late
    BY <2>2 DEF WindowCloses, Resolved
  <2>3. CASE UNCHANGED refreshed
    BY <2>3
  <2>4. QED
    BY <1>1, <2>1, <2>2, <2>3
       DEF Next, Submit, GoFails, ReadAccount, Broadcast, BroadcastFails, ReplyRejected, ReplyLost,
           ReplyAccepted, Refused, Return, PollMiss, SwitchAccount, Include, Evict
<1>2. TypeInv /\ [Next]_vars => [Late]_vars
  BY <1>1
<1>3. TxInv => TypeInv
  BY DEF TxInv
<1>4. QED BY <1>2, <1>3, TxInvariant, PTL DEF Spec, RefreshNotOptimistic

-----------------------------------------------------------------------------
(* The refinement: TxOutcome sees of the pipeline what the user was told,    *)
(* what the mempool accepted and how often the page was refreshed.           *)

(* A step that changes none of the three is a stutter of TxOutcome.          *)
LEMMA Unseen ==
    ASSUME UNCHANGED <<toast, accepted, refreshed>>
    PROVE  UNCHANGED Outcome!vars
BY DEF Outcome!vars, Told

(* A new notification of one submission, in the terms of TxOutcome.          *)
ToldOf(type) ==
    CASE type = "none"                        -> "nothing"
      [] type \in {"loading", "confirming"}   -> "pending"
      [] type = "success"                     -> "success"
      [] type = "error"                       -> "failure"

(* Told depends on each notification by itself.                              *)
LEMMA ToldByToast == Told = [t \in Txs |-> ToldOf(toast[t])]
BY DEF Told, ToldOf

(* One notification changes what the user was told of one submission.        *)
LEMMA Notified ==
    ASSUME TypeInv, NEW t \in Txs, NEW type, toast' = [toast EXCEPT ![t] = type]
    PROVE  Told' = [Told EXCEPT ![t] = ToldOf(type)]
<1>1. Told' = [u \in Txs |-> ToldOf(toast'[u])]
  BY DEF Told, ToldOf
<1>2. \A u \in Txs : toast'[u] = IF u = t THEN type ELSE toast[u]
  BY DEF TypeInv, TxTypeOK
<1>3. QED BY <1>1, <1>2, ToldByToast

(* Every step of the pipeline is a step of TxOutcome or a stutter.           *)
LEMMA StepSimulates ==
    ASSUME TxInv, [Next]_vars PROVE [Outcome!Next]_(Outcome!vars)
<1> USE DEF TxInv, hookVars, chainVars
<1>1. CASE UNCHANGED vars BY <1>1, Unseen DEF vars
<1>2. ASSUME NEW t \in Txs, NEW s \in Sections, NEW r \in Requests, Submit(t, s, r)
      PROVE  Outcome!Submit(t)
  <2>1. Told[t] = "nothing"
    BY <1>2 DEF Submit, StageInv, Told
  <2>2. Told' = [Told EXCEPT ![t] = "pending"]
    BY <1>2, Notified DEF Submit, Loading, ToldOf
  <2>3. QED BY <1>2, <2>1, <2>2 DEF Submit, Outcome!Submit
<1>3. ASSUME NEW t \in Txs, Refused(t), pc[t] \in {"calling", "signed", "accepted", "rejected"}
      PROVE  Outcome!Fail(t)
  <2>1. Told[t] = "pending"
    BY <1>3 DEF StageInv, Told
  <2>2. Told' = [Told EXCEPT ![t] = "failure"]
    BY <1>3, Notified DEF Refused, Resolve, ToldOf
  <2>3. QED BY <1>3, <2>1, <2>2 DEF Refused, Outcome!Fail
<1>4. ASSUME NEW t \in Txs, Broadcast(t) PROVE [Outcome!Next]_(Outcome!vars)
  <2>1. CASE seq[t] = CheckSequence(signer[t])
    <3>1. Told[t] = "pending" /\ t \notin accepted
      BY <1>4 DEF Broadcast, StageInv, Told
    <3>2. Told' = Told
      BY <1>4 DEF Broadcast, Told
    <3>3. Outcome!Accept(t)
      BY <1>4, <2>1, <3>1, <3>2 DEF Broadcast, Outcome!Accept
    <3>4. QED BY <3>3 DEF Outcome!Next
  <2>2. CASE seq[t] # CheckSequence(signer[t])
    BY <1>4, <2>2, Unseen DEF Broadcast
  <2>3. QED BY <2>1, <2>2
<1>5. ASSUME NEW t \in Txs, ReplyAccepted(t) PROVE UNCHANGED Outcome!vars
  <2>1. Told[t] = "pending"
    BY <1>5 DEF ReplyAccepted, StageInv, Told
  <2>2. Told' = [Told EXCEPT ![t] = "pending"]
    BY <1>5, Notified DEF ReplyAccepted, Update, ToldOf
  <2>3. Told' = Told
    BY <2>1, <2>2 DEF Told
  <2>4. QED BY <1>5, <2>3 DEF ReplyAccepted, Return, Outcome!vars
<1>6. ASSUME NEW t \in Txs, NEW failed \in BOOLEAN, pc[t] = "confirming", Resolved(t, failed)
      PROVE  Outcome!Succeed(t) \/ Outcome!Fail(t)
  <2>1. Told[t] = "pending" /\ t \in accepted
    BY <1>6 DEF StageInv, Told
  <2>2. CASE failed
    <3>1. Told' = [Told EXCEPT ![t] = "failure"]
      BY <1>6, <2>2, Notified DEF Resolved, Resolve, ToldOf
    <3>2. refreshed' = refreshed
      BY <1>6, <2>2 DEF Resolved, TypeInv, TxTypeOK
    <3>3. QED BY <1>6, <2>1, <3>1, <3>2 DEF Resolved, Outcome!Fail
  <2>3. CASE ~failed
    <3>1. Told' = [Told EXCEPT ![t] = "success"]
      BY <1>6, <2>3, Notified DEF Resolved, Resolve, ToldOf
    <3>2. refreshed' = [refreshed EXCEPT ![t] = @ + 1]
      BY <1>6, <2>3 DEF Resolved
    <3>3. QED BY <1>6, <2>1, <3>1, <3>2 DEF Resolved, Outcome!Succeed
  <2>4. QED BY <2>2, <2>3
<1>7. ASSUME NEW t \in Txs, ReadAccount(t) \/ PollMiss(t) \/ Evict(t) PROVE UNCHANGED Outcome!vars
  BY <1>7, Unseen DEF ReadAccount, PollMiss, Evict
<1>8. ASSUME NEW a \in Accounts, SwitchAccount(a) PROVE UNCHANGED Outcome!vars
  BY <1>8, Unseen DEF SwitchAccount
<1>9. ASSUME NEW t \in Txs, NEW outcome \in {"ok", "failed"}, Include(t, outcome)
      PROVE  UNCHANGED Outcome!vars
  BY <1>9, Unseen DEF Include
<1>10. ASSUME NEW t \in Txs, PollHit(t) \/ WindowCloses(t) PROVE Outcome!Succeed(t) \/ Outcome!Fail(t)
  BY <1>6, <1>10 DEF PollHit, WindowCloses
<1>11. ASSUME NEW t \in Txs, GoFails(t) \/ BroadcastFails(t) \/ ReplyRejected(t) \/ ReplyLost(t)
       PROVE  Outcome!Fail(t)
  BY <1>3, <1>11 DEF GoFails, BroadcastFails, ReplyRejected, ReplyLost
<1>12. QED
  BY <1>1, <1>2, <1>4, <1>5, <1>7, <1>8, <1>9, <1>10, <1>11 DEF Next, Outcome!Next

(* The pipeline does only what TxOutcome allows: a submission is answered at *)
(* most once, a success is told only of a transaction the mempool accepted,  *)
(* and refreshes the page exactly once.                                      *)
THEOREM PipelineImplements == Spec => Outcome!Init /\ [][Outcome!Next]_(Outcome!vars)
<1>1. Init => Outcome!Init
  BY DEF Init, Outcome!Init, Told
<1>2. TxInv /\ [Next]_vars => [Outcome!Next]_(Outcome!vars)
  BY StepSimulates
<1>3. QED BY <1>1, <1>2, TxInvariant, PTL DEF Spec
=============================================================================
