------------------------ MODULE NodeProcess_proofs ------------------------
(* Proofs about NodeProcess, for any goroutines and any bounds.             *)
EXTENDS NodeProcess, TLAPS

(* Every action of the process manager, the operating system or the Hub's   *)
(* own death leaves the state well typed.                                   *)
LEMMA TypeStep ==
    ASSUME NPTypeOK, [NPNext]_npVars
    PROVE  NPTypeOK'
<1> USE BoundsAssumption, ThreadsAssumption
<1> USE DEF NPTypeOK, Pids, None, Unstarted, Hung
<1>1. CASE UNCHANGED npVars
  BY <1>1 DEF npVars
<1>2. ASSUME NEW t \in Threads, Start(t) PROVE NPTypeOK'
  BY <1>2 DEF Start
<1>3. ASSUME NEW t \in Threads, StartFails(t) PROVE NPTypeOK'
  BY <1>3 DEF StartFails
<1>4. ASSUME NEW t \in Threads, StopBegin(t) PROVE NPTypeOK'
  BY <1>4 DEF StopBegin
<1>5. ASSUME NEW t \in Threads, StopEnd(t) PROVE NPTypeOK'
  <2>1. waiting' \in [Threads -> Pids \cup {None, Unstarted, Hung}]
    BY <1>5 DEF StopEnd
  <2>2. QED BY <1>5, <2>1 DEF StopEnd
<1>6. ASSUME NEW t \in Threads, WaitBegin(t) PROVE NPTypeOK'
  BY <1>6 DEF WaitBegin
<1>7. ASSUME NEW t \in Threads, WaitEnd(t) PROVE NPTypeOK'
  BY <1>7 DEF WaitEnd
<1>8. ASSUME NEW t \in Threads, KillByPIDFile(t) PROVE NPTypeOK'
  BY <1>8 DEF KillByPIDFile
<1>9. ASSUME NEW p \in Pids, ProcExit(p) PROVE NPTypeOK'
  BY <1>9 DEF ProcExit
<1>10. CASE CleanupOrphanNode
  BY <1>10 DEF CleanupOrphanNode
<1>11. CASE KillOrphanEnd
  BY <1>11 DEF KillOrphanEnd
<1>12. CASE HubDies
  <2>1. waiting' \in [Threads -> Pids \cup {None, Unstarted, Hung}]
    BY <1>12 DEF HubDies
  <2>2. deaths' \in 0..MaxDeaths
    BY <1>12 DEF HubDies
  <2>3. /\ running' \in BOOLEAN /\ booted' \in BOOLEAN
        /\ holder' \in Threads \cup {NoThread}
        /\ cmd' \in Pids \cup {None, Unstarted}
        /\ {killing', adopted'} \subseteq Pids \cup {None}
    BY <1>12 DEF HubDies
  <2>4. UNCHANGED <<alive, started, pidFile, killed>>
    BY <1>12 DEF HubDies
  <2>5. QED BY <2>1, <2>2, <2>3, <2>4
<1>13. QED
  BY <1>1, <1>2, <1>3, <1>4, <1>5, <1>6, <1>7, <1>8, <1>9, <1>10, <1>11,
     <1>12 DEF NPNext, NPCall

(* Type correctness of the process manager.                                 *)
THEOREM TypeCorrect == NPSpec => []NPTypeOK
<1>1. ASSUME NPInit PROVE NPTypeOK
  <2>1. waiting \in [Threads -> Pids \cup {None, Unstarted, Hung}]
    BY <1>1 DEF NPInit
  <2>2. started \in 0..MaxStarts /\ deaths \in 0..MaxDeaths
    BY <1>1, BoundsAssumption DEF NPInit
  <2>3. QED BY <1>1, <2>1, <2>2 DEF NPInit, NPTypeOK
<1>2. NPTypeOK /\ [NPNext]_npVars => NPTypeOK'
  BY TypeStep
<1>3. QED BY <1>1, <1>2, PTL DEF NPSpec

-----------------------------------------------------------------------------
(* What makes TrackedHasPidFile inductive: the file of a process that is     *)
(* killed by its PID only goes in a session marked killed, and a Hub that    *)
(* has not looked for an orphan yet remembers nothing of its predecessor.    *)
TrackedInv ==
    /\ TrackedHasPidFile
    /\ killing # None => killed
    /\ ~booted => ~running
    /\ holder # NoThread => running

(* The invariant behind TrackedHasPidFile is kept by every step.             *)
LEMMA TrackedStep ==
    ASSUME NPTypeOK, TrackedInv, [NPNext]_npVars
    PROVE  TrackedInv'
<1> USE BoundsAssumption
<1> USE DEF NPTypeOK, TrackedInv, TrackedHasPidFile, Pids, None, Unstarted,
            CanCall
<1>1. CASE UNCHANGED npVars
  BY <1>1 DEF npVars
<1>2. ASSUME NEW t \in Threads, Start(t) PROVE TrackedInv'
  BY <1>2 DEF Start
<1>3. ASSUME NEW t \in Threads, StartFails(t) PROVE TrackedInv'
  BY <1>3 DEF StartFails
<1>4. ASSUME NEW t \in Threads, StopBegin(t) PROVE TrackedInv'
  BY <1>4 DEF StopBegin
<1>5. ASSUME NEW t \in Threads, StopEnd(t) PROVE TrackedInv'
  BY <1>5 DEF StopEnd
<1>6. ASSUME NEW t \in Threads, WaitBegin(t) PROVE TrackedInv'
  BY <1>6 DEF WaitBegin
<1>7. ASSUME NEW t \in Threads, WaitEnd(t) PROVE TrackedInv'
  BY <1>7 DEF WaitEnd, MuFree
<1>8. ASSUME NEW t \in Threads, KillByPIDFile(t) PROVE TrackedInv'
  BY <1>8 DEF KillByPIDFile
<1>9. ASSUME NEW p \in Pids, ProcExit(p) PROVE TrackedInv'
  BY <1>9 DEF ProcExit
<1>10. CASE CleanupOrphanNode
  BY <1>10 DEF CleanupOrphanNode
<1>11. CASE KillOrphanEnd
  BY <1>11 DEF KillOrphanEnd
<1>12. CASE HubDies
  BY <1>12 DEF HubDies
<1>13. QED
  BY <1>1, <1>2, <1>3, <1>4, <1>5, <1>6, <1>7, <1>8, <1>9, <1>10, <1>11,
     <1>12 DEF NPNext, NPCall

(* A node the Hub tracks is a process it started and, until the shutdown    *)
(* path kills by PID, the process node.pid names.                           *)
THEOREM Tracked == NPSpec => []TrackedHasPidFile
<1>1. NPInit => TrackedInv
  BY DEF NPInit, TrackedInv, TrackedHasPidFile
<1>2. NPTypeOK /\ TrackedInv /\ [NPNext]_npVars => TrackedInv'
  BY TrackedStep
<1>3. TrackedInv => TrackedHasPidFile
  BY DEF TrackedInv
<1>4. QED BY <1>1, <1>2, <1>3, TypeCorrect, PTL DEF NPSpec

-----------------------------------------------------------------------------
(* While a goroutine is inside Stop, no step touches the process it stops.   *)
THEOREM StopExclusive == NPSpec => StopIsExclusive
<1> DEFINE Exclusive ==
             (holder # NoThread /\ holder' = holder) =>
                UNCHANGED <<running, cmd, started>>
<1>1. ASSUME NPTypeOK, NPNext PROVE Exclusive
  <2> SUFFICES ASSUME holder # NoThread, holder' = holder
               PROVE  UNCHANGED <<running, cmd, started>>
    OBVIOUS
  <2>1. ASSUME NEW t \in Threads, NPCall(t)
        PROVE  UNCHANGED <<running, cmd, started>>
    <3>1. ~Start(t) /\ ~StartFails(t) /\ ~StopBegin(t)
      BY DEF Start, StartFails, StopBegin, CanCall, MuFree
    <3>2. ~StopEnd(t) /\ ~WaitEnd(t)
      BY DEF StopEnd, WaitEnd, MuFree
    <3>3. CASE WaitBegin(t) \/ KillByPIDFile(t)
      BY <3>3 DEF WaitBegin, KillByPIDFile
    <3>4. QED BY <2>1, <3>1, <3>2, <3>3 DEF NPCall
  <2>2. CASE \E p \in Pids : ProcExit(p)
    BY <2>2 DEF ProcExit
  <2>3. CASE CleanupOrphanNode \/ KillOrphanEnd
    BY <2>3 DEF CleanupOrphanNode, KillOrphanEnd
  <2>4. ~HubDies
    BY DEF HubDies
  <2>5. QED BY <1>1, <2>1, <2>2, <2>3, <2>4 DEF NPNext
<1>2. NPTypeOK /\ [NPNext]_npVars => [Exclusive]_npVars
  BY <1>1
<1>3. QED BY <1>2, TypeCorrect, PTL DEF NPSpec, StopIsExclusive

-----------------------------------------------------------------------------
(* Why nothing else loses a node: once the session has looked for an orphan, *)
(* a live process that node.pid names is either the tracked one, which only  *)
(* Stop and a reaping give up, or the orphan the session adopted; and nobody *)
(* waits for a process before that.                                          *)
NamedIsKnown ==
    (booted /\ ~killed /\ pidFile \in alive) => running \/ adopted = pidFile

WaitsAfterBoot == \A t \in Threads : waiting[t] # None => booted

LossInv == TrackedInv /\ NamedIsKnown /\ WaitsAfterBoot

(* The invariant behind LossesAreKnown is kept by every step.                *)
LEMMA LossStep ==
    ASSUME NPTypeOK, LossInv, [NPNext]_npVars
    PROVE  LossInv'
<1>1. TrackedInv'
  BY TrackedStep DEF LossInv
<1>2. NamedIsKnown'
  <2> USE DEF NPTypeOK, LossInv, TrackedInv, NamedIsKnown, Pids, None,
              Unstarted, CanCall
  <2>1. CASE UNCHANGED npVars
    BY <2>1 DEF npVars
  <2>2. ASSUME NEW t \in Threads, NPCall(t) PROVE NamedIsKnown'
    <3>1. CASE Start(t)
      BY <3>1 DEF Start
    <3>2. CASE StartFails(t)
      BY <3>2 DEF StartFails
    <3>3. CASE StopBegin(t)
      BY <3>3 DEF StopBegin
    <3>4. CASE WaitBegin(t)
      BY <3>4 DEF WaitBegin
    <3>5. CASE StopEnd(t) \/ WaitEnd(t)
      <4>1. pidFile' = None /\ alive' \subseteq Pids
        BY <3>5 DEF StopEnd, WaitEnd
      <4>2. QED BY <4>1
    <3>6. CASE KillByPIDFile(t)
      BY <3>6 DEF KillByPIDFile
    <3>7. QED BY <2>2, <3>1, <3>2, <3>3, <3>4, <3>5, <3>6 DEF NPCall
  <2>3. CASE \E p \in Pids : ProcExit(p)
    BY <2>3 DEF ProcExit
  <2>4. CASE CleanupOrphanNode
    BY <2>4 DEF CleanupOrphanNode
  <2>5. CASE KillOrphanEnd \/ HubDies
    BY <2>5 DEF KillOrphanEnd, HubDies
  <2>6. QED BY <2>1, <2>2, <2>3, <2>4, <2>5 DEF NPNext
<1>3. WaitsAfterBoot'
  <2> USE DEF NPTypeOK, LossInv, WaitsAfterBoot, CanCall
  <2>1. CASE UNCHANGED npVars
    BY <2>1 DEF npVars
  <2>2. ASSUME NEW t \in Threads, NPCall(t) PROVE WaitsAfterBoot'
    <3>1. CASE Start(t) \/ StartFails(t)
      BY <3>1 DEF Start, StartFails
    <3>2. CASE StopBegin(t) \/ KillByPIDFile(t)
      BY <3>2 DEF StopBegin, KillByPIDFile
    <3>3. CASE WaitBegin(t)
      BY <3>3 DEF WaitBegin
    <3>4. CASE WaitEnd(t)
      BY <3>4 DEF WaitEnd
    <3>5. CASE StopEnd(t)
      <4>1. UNCHANGED booted /\ running
        BY <3>5, ThreadsAssumption DEF StopEnd, TrackedInv
      <4>2. booted'
        BY <4>1 DEF TrackedInv
      <4>3. QED BY <4>2
    <3>6. QED BY <2>2, <3>1, <3>2, <3>3, <3>4, <3>5 DEF NPCall
  <2>3. CASE (\E p \in Pids : ProcExit(p)) \/ KillOrphanEnd
    BY <2>3 DEF ProcExit, KillOrphanEnd
  <2>4. CASE CleanupOrphanNode
    BY <2>4 DEF CleanupOrphanNode
  <2>5. CASE HubDies
    BY <2>5 DEF HubDies
  <2>6. QED BY <2>1, <2>2, <2>3, <2>4, <2>5 DEF NPNext
<1>4. QED BY <1>1, <1>2, <1>3 DEF LossInv

(* A step that loses a node reaps late or runs over an adopted orphan.       *)
LEMMA LossCause ==
    ASSUME NPTypeOK, LossInv, NPNext, NoLostNode, ~NoLostNode'
    PROVE  KnownLoss
<1>1. ASSUME NEW t \in Threads, NPCall(t) PROVE KnownLoss
  <2>1. CASE Start(t)
    <3>1. ~killed /\ booted /\ ~running /\ pidFile \in alive
      BY <2>1 DEF Start, NoLostNode, CanCall
    <3>2. adopted \in alive
      BY <3>1 DEF LossInv, NamedIsKnown
    <3>3. QED BY <2>1, <3>1, <3>2 DEF KnownLoss, OverOrphan
  <2>2. CASE WaitEnd(t)
    <3>1. ~killed /\ pidFile \in alive /\ waiting[t] \notin alive
      BY <2>2 DEF WaitEnd, NoLostNode
    <3>2. CASE running
      <4>1. waiting[t] # cmd
        BY <3>1, <3>2 DEF LossInv, TrackedInv, TrackedHasPidFile
      <4>2. QED BY <2>2, <4>1 DEF KnownLoss, LateReap
    <3>3. CASE ~running
      <4>1. booted
        BY <2>2 DEF WaitEnd, LossInv, WaitsAfterBoot, Pids, None, Unstarted
      <4>2. QED
        BY <2>2, <3>1, <3>3, <4>1 DEF KnownLoss, OverOrphan, LossInv,
           NamedIsKnown
    <3>4. QED BY <3>2, <3>3
  <2>3. ~StartFails(t) /\ ~StopBegin(t) /\ ~WaitBegin(t) /\ ~KillByPIDFile(t)
    BY DEF StartFails, StopBegin, WaitBegin, KillByPIDFile, NoLostNode
  <2>4. ~StopEnd(t)
    <3>1. SUFFICES ASSUME StopEnd(t) PROVE FALSE
      OBVIOUS
    <3>2. holder # NoThread /\ UNCHANGED killed /\ alive' = alive \ {cmd}
      BY <3>1, ThreadsAssumption DEF StopEnd
    <3>3. ~killed => pidFile = cmd
      BY <3>2 DEF LossInv, TrackedInv, TrackedHasPidFile
    <3>4. QED BY <3>2, <3>3 DEF NoLostNode
  <2>5. QED BY <1>1, <2>1, <2>2, <2>3, <2>4 DEF NPCall
<1>2. ASSUME NEW p \in Pids, ProcExit(p) PROVE FALSE
  <2>1. UNCHANGED <<killed, pidFile>> /\ alive' \subseteq alive
    BY <1>2 DEF ProcExit
  <2>2. QED BY <2>1 DEF NoLostNode
<1>3. ~CleanupOrphanNode /\ ~KillOrphanEnd /\ ~HubDies
  BY DEF CleanupOrphanNode, KillOrphanEnd, HubDies, NoLostNode, LossInv,
         TrackedInv
<1>4. QED BY <1>1, <1>2, <1>3 DEF NPNext

(* Whatever goroutines start, stop, wait and kill, and however often the     *)
(* node and the Hub die, a node is lost only by a late reaping or by a step  *)
(* over an adopted orphan.                                                   *)
THEOREM LossesKnown == NPSpec => LossesAreKnown
<1> DEFINE Known == (NoLostNode /\ ~NoLostNode') => KnownLoss
<1>1. NPInit => LossInv
  BY DEF NPInit, LossInv, TrackedInv, TrackedHasPidFile, NamedIsKnown,
         WaitsAfterBoot
<1>2. NPTypeOK /\ LossInv /\ [NPNext]_npVars => LossInv'
  BY LossStep
<1>3. NPTypeOK /\ LossInv /\ [NPNext]_npVars => [Known]_npVars
  <2>1. NPTypeOK /\ LossInv /\ NPNext => Known
    BY LossCause
  <2>2. QED BY <2>1
<1>4. QED BY <1>1, <1>2, <1>3, TypeCorrect, PTL DEF NPSpec, LossesAreKnown

(* Hence, in a history without these two steps, node.pid names every live    *)
(* node, across crashes of the node and of the Hub.                          *)
THEOREM NothingLost == NPSpec /\ [][~KnownLoss]_npVars => []NoLostNode
<1> DEFINE Known == (NoLostNode /\ ~NoLostNode') => KnownLoss
<1>1. NPInit => NoLostNode
  BY DEF NPInit, NoLostNode
<1>2. NoLostNode /\ [Known]_npVars /\ [~KnownLoss]_npVars => NoLostNode'
  BY DEF NoLostNode, npVars
<1>3. QED BY <1>1, <1>2, LossesKnown, PTL DEF NPSpec, LossesAreKnown
=============================================================================
