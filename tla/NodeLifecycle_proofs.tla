----------------------- MODULE NodeLifecycle_proofs -----------------------
(* Proofs about NodeLifecycle: it uses the process manager as NodeProcess    *)
(* allows, so that what is proved there holds of the whole; and the status   *)
(* "resyncing" always has an owner or an aborted resync behind it.           *)
EXTENDS NodeLifecycle, NodeProcess_proofs

(* The goroutines of the assumption are callers of the process manager.      *)
LEMMA KnownThreads ==
    /\ {"setup", "doctor", "slow", "fast", "ui", "shutdown"} \subseteq Threads
    /\ Resetters \subseteq Threads /\ Resetters = Lags \cup {"slow"}
    /\ Lags \cap {"setup", "doctor", "slow", "fast", "ui", "shutdown"} = {}
BY LifecycleAssumption DEF Threads, Lags

(* Each step of a goroutine is one call of the process manager or none.      *)
LEMMA StepImplements ==
    ASSUME LNext PROVE [NPNext]_npVars
<1> USE KnownThreads
<1>1. CASE SetupStep
  <2> USE <1>1 DEF SetupStep
  <2>1. CASE SetupCleanup BY <2>1 DEF SetupCleanup, NPNext
  <2>2. CASE SetupStart BY <2>2 DEF SetupStart, NPNext, NPCall
  <2>3. CASE SetupFailed \/ SetupLaunch BY <2>3 DEF SetupFailed, SetupLaunch
  <2>4. QED BY <2>1, <2>2, <2>3
<1>2. CASE DoctorStep
  <2>1. CASE DoctorWait BY <2>1 DEF DoctorWait, NPNext, NPCall
  <2>2. CASE DoctorReap BY <2>2 DEF DoctorReap, NPNext, NPCall
  <2>3. CASE DoctorStart BY <2>3 DEF DoctorStart, NPNext, NPCall
  <2>4. CASE \/ DoctorBeat \/ DoctorLook \/ DoctorJudge \/ DoctorDeclare
             \/ DoctorAnnounce \/ DoctorCancelled \/ DoctorSettle
             \/ DoctorGaveUp \/ DoctorMourn
    BY <2>4 DEF DoctorBeat, DoctorLook, DoctorJudge, DoctorDeclare, DoctorAnnounce,
                DoctorCancelled, DoctorSettle, DoctorGaveUp, DoctorMourn
  <2>5. QED BY <1>2, <2>1, <2>2, <2>3, <2>4 DEF DoctorStep
<1>3. ASSUME NEW t \in Resetters, ResyncStep(t) PROVE [NPNext]_npVars
  <2>1. CASE ResyncStop(t) BY <2>1 DEF ResyncStop, NPNext, NPCall
  <2>2. CASE ResyncStopped(t) BY <2>2 DEF ResyncStopped, NPNext, NPCall
  <2>3. CASE ResyncStart(t) BY <2>3 DEF ResyncStart, NPNext, NPCall
  <2>4. CASE \/ ResyncGuard(t) \/ ResyncMark(t) \/ ResyncPublic(t)
             \/ ResyncReset(t) \/ ResyncWiped(t) \/ ResyncConfigured(t)
             \/ ResyncError(t) \/ ResyncFailed(t) \/ ResyncDone(t)
    BY <2>4 DEF ResyncGuard, ResyncMark, ResyncPublic, ResyncReset, ResyncWiped,
                ResyncConfigured, ResyncWork, ResyncError, ResyncFailed,
                ResyncDone
  <2>5. QED BY <1>3, <2>1, <2>2, <2>3, <2>4 DEF ResyncStep
<1>4. ASSUME NEW t \in {"fast", "ui"}, ReinitStep(t) PROVE [NPNext]_npVars
  <2>1. CASE ReinitStop(t) BY <2>1 DEF ReinitStop, NPNext, NPCall
  <2>2. CASE ReinitStopped(t) BY <2>2 DEF ReinitStopped, NPNext, NPCall
  <2>3. CASE \/ ReinitGuard(t) \/ ReinitClaim(t) \/ ReinitMark(t)
             \/ ReinitWipe(t)
    BY <2>3 DEF ReinitGuard, ReinitClaim, ReinitMark, ReinitWipe
  <2>4. QED BY <1>4, <2>1, <2>2, <2>3 DEF ReinitStep
<1>5. CASE FastStep
  <2>1. CASE \/ FastTick \/ FastPoll \/ FastUnreachable \/ FastUpdate
             \/ FastRoute \/ FastWatchdog \/ FastSpawn
    BY <2>1 DEF FastTick, FastPoll, FastUnreachable, FastUpdate, FastRoute,
                FastWatchdog, FastSpawn
  <2>2. QED BY <1>4, <1>5, <2>1 DEF FastStep
<1>6. CASE SlowStep \/ \E l \in Lags : LagStep(l)
  BY <1>3, <1>6
     DEF SlowStep, LagStep, SlowTick, SlowPoll, LagNear, LagFar
<1>7. CASE UiStep
  BY <1>4, <1>7 DEF UiStep, UiPoll, UiUpdate, UiRoute, UiReinit
<1>8. CASE ShutdownStep
  <2>1. CASE ShutdownStop BY <2>1 DEF ShutdownStop, NPNext, NPCall
  <2>2. CASE ShutdownStopped BY <2>2 DEF ShutdownStopped, NPNext, NPCall
  <2>3. CASE ShutdownKill BY <2>3 DEF ShutdownKill, NPNext, NPCall
  <2>4. CASE ShutdownKilled BY <2>4 DEF ShutdownKilled, NPNext
  <2>5. CASE \/ ShutdownMark \/ ShutdownChoose \/ ShutdownCancel \/ ShutdownWait
    BY <2>5 DEF ShutdownMark, ShutdownChoose, ShutdownCancel, ShutdownWait
  <2>6. QED BY <1>8, <2>1, <2>2, <2>3, <2>4, <2>5 DEF ShutdownStep
<1>9. CASE Elapse BY <1>9 DEF Elapse
<1>10. CASE NodeExits BY <1>10 DEF NodeExits, NPNext
<1>11. CASE NextSession BY <1>11 DEF NextSession, NPNext
<1>12. QED
  BY <1>1, <1>2, <1>5, <1>6, <1>7, <1>8, <1>9, <1>10, <1>11 DEF LNext, Step

(* Every behaviour of the goroutines is, on the state of the process         *)
(* manager, a behaviour NodeProcess allows.                                  *)
THEOREM Implements == LSpec => NPSpec
<1>1. LInit => NPInit
  BY DEF LInit
<1>2. [LNext]_vars => [NPNext]_npVars
  BY StepImplements DEF vars
<1>3. QED BY <1>1, <1>2, PTL DEF LSpec, NPSpec

(* With the goroutines of the Hub, too, a tracked node is one the Hub really *)
(* started and node.pid names it until shutdown kills by PID.                *)
THEOREM LifecycleTracked == LSpec => []TrackedHasPidFile
BY Implements, Tracked

-----------------------------------------------------------------------------
(* What makes ResyncingIsOwned inductive: pc is a function on the goroutines, *)
(* and launching the loops at the end of setupNode interrupts no resync.     *)
InSetup == {"boot", "start", "launch"}
OwnedInv ==
    /\ ResyncingIsOwned
    /\ DOMAIN pc = Threads
    /\ pc["setup"] \in InSetup => pc["slow"] = "off"

(* What a step of goroutine t to l must respect for the launch.              *)
Launched(t, l) ==
    /\ t = "slow" => pc["slow"] # "off"
    /\ t = "setup" /\ l \in InSetup => pc["setup"] \in InSetup

(* Steps that keep the owners and do not set the status to resyncing.        *)
LEMMA OwnersStay ==
    ASSUME OwnedInv, NEW t \in Threads, NEW l, Goto(t, l), Launched(t, l),
           pc[t] \in OwnerSteps => l \in OwnerSteps,
           status' = "resyncing" => status = "resyncing",
           aborted' = aborted
    PROVE  OwnedInv'
BY KnownThreads DEF OwnedInv, ResyncingIsOwned, Goto, Launched

(* A step after which the status is not resyncing, or the resync aborted.    *)
LEMMA OwnersFreed ==
    ASSUME OwnedInv, NEW t \in Threads, NEW l, Goto(t, l), Launched(t, l),
           status' # "resyncing" \/ aborted'
    PROVE  OwnedInv'
BY KnownThreads DEF OwnedInv, ResyncingIsOwned, Goto, Launched

LEMMA OwnedStep ==
    ASSUME OwnedInv, [LNext]_vars PROVE OwnedInv'
<1> USE KnownThreads DEF At, Set, OwnerSteps, ResyncSteps, Launched, InSetup
<1>1. CASE SetupStep
  <2>1. CASE SetupCleanup
    <3>1. PICK l \in {"launch", "start"} : Goto("setup", l)
      BY <2>1 DEF SetupCleanup
    <3>2. status' # "resyncing"
      BY <2>1 DEF SetupCleanup
    <3>3. Launched("setup", l)
      BY <2>1 DEF SetupCleanup
    <3>4. QED BY <3>1, <3>2, <3>3, OwnersFreed
  <2>2. CASE SetupStart
    BY <2>2, OwnersStay DEF SetupStart, ctlVars, appVars
  <2>3. CASE SetupFailed
    BY <2>3, OwnersFreed DEF SetupFailed
  <2>4. CASE SetupLaunch
    BY <2>4 DEF SetupLaunch, ctlVars, OwnedInv, ResyncingIsOwned
  <2>5. QED BY <1>1, <2>1, <2>2, <2>3, <2>4 DEF SetupStep
<1>2. CASE DoctorStep
  <2> USE OwnersStay DEF ctlVars, appVars
  <2>1. CASE DoctorBeat \/ DoctorLook BY <2>1 DEF DoctorBeat, DoctorLook
  <2>2. CASE DoctorWait BY <2>2 DEF DoctorWait
  <2>3. CASE DoctorReap BY <2>3 DEF DoctorReap
  <2>4. CASE DoctorJudge BY <2>4 DEF DoctorJudge
  <2>5. CASE DoctorDeclare BY <2>5 DEF DoctorDeclare
  <2>6. CASE DoctorAnnounce BY <2>6 DEF DoctorAnnounce
  <2>7. CASE DoctorCancelled BY <2>7 DEF DoctorCancelled
  <2>8. CASE DoctorStart BY <2>8 DEF DoctorStart, NextAttempt
  <2>9. CASE DoctorSettle BY <2>9 DEF DoctorSettle, NextAttempt
  <2>10. CASE DoctorGaveUp \/ DoctorMourn
    BY <2>10 DEF DoctorGaveUp, DoctorMourn
  <2>11. QED
    BY <1>2, <2>1, <2>2, <2>3, <2>4, <2>5, <2>6, <2>7, <2>8, <2>9, <2>10
       DEF DoctorStep
<1>3. ASSUME NEW t \in Resetters, ResyncStep(t) PROVE OwnedInv'
  <2> USE DEF ctlVars, appVars
  <2>1. CASE ResyncGuard(t) BY <2>1, OwnersStay DEF ResyncGuard
  <2>2. CASE ResyncMark(t)
    <3>1. pc'[t] = "rpublic" /\ DOMAIN pc' = Threads
          /\ (pc'["setup"] \in InSetup => pc'["slow"] = "off")
      BY <2>2 DEF ResyncMark, Goto, OwnedInv
    <3>2. QED BY <3>1 DEF OwnedInv, ResyncingIsOwned
  <2>3. CASE ResyncPublic(t) BY <2>3, OwnersStay DEF ResyncPublic
  <2>4. CASE ResyncStop(t) BY <2>4, OwnersStay DEF ResyncStop
  <2>5. CASE ResyncStopped(t) BY <2>5, OwnersStay DEF ResyncStopped
  <2>6. CASE ResyncReset(t) BY <2>6, OwnersStay DEF ResyncReset
  <2>7. CASE ResyncWiped(t) \/ ResyncConfigured(t)
    BY <2>7, OwnersStay, OwnersFreed
       DEF ResyncWiped, ResyncConfigured, ResyncWork
  <2>8. CASE ResyncStart(t) BY <2>8, OwnersStay DEF ResyncStart
  <2>9. CASE ResyncError(t) BY <2>9, OwnersFreed DEF ResyncError
  <2>10. CASE ResyncFailed(t) BY <2>10, OwnersStay DEF ResyncFailed
  <2>11. CASE ResyncDone(t) BY <2>11, OwnersFreed DEF ResyncDone
  <2>12. QED
    BY <1>3, <2>1, <2>2, <2>3, <2>4, <2>5, <2>6, <2>7, <2>8, <2>9, <2>10,
       <2>11 DEF ResyncStep
<1>4. ASSUME NEW t \in {"fast", "ui"}, ReinitStep(t) PROVE OwnedInv'
  <2> USE OwnersStay DEF ctlVars, appVars, ReinitReturn
  <2>1. CASE ReinitGuard(t) BY <2>1 DEF ReinitGuard
  <2>2. CASE ReinitClaim(t) BY <2>2 DEF ReinitClaim
  <2>3. CASE ReinitMark(t) BY <2>3 DEF ReinitMark
  <2>4. CASE ReinitStop(t) BY <2>4 DEF ReinitStop
  <2>5. CASE ReinitStopped(t) BY <2>5 DEF ReinitStopped
  <2>6. CASE ReinitWipe(t) BY <2>6 DEF ReinitWipe
  <2>7. QED BY <1>4, <2>1, <2>2, <2>3, <2>4, <2>5, <2>6 DEF ReinitStep
<1>5. CASE FastStep
  <2> USE OwnersStay DEF ctlVars, appVars
  <2>1. CASE FastTick BY <2>1 DEF FastTick
  <2>2. CASE FastPoll BY <2>2 DEF FastPoll
  <2>3. CASE FastUnreachable BY <2>3 DEF FastUnreachable
  <2>4. CASE FastUpdate BY <2>4 DEF FastUpdate
  <2>5. CASE FastRoute BY <2>5 DEF FastRoute
  <2>6. CASE FastWatchdog BY <2>6 DEF FastWatchdog
  <2>7. CASE FastSpawn
    <3>1. CASE Goto("fast", "idle") BY <2>7, <3>1 DEF FastSpawn
    <3>2. ASSUME NEW l \in Lags, pc[l] = "idle",
                 pc' = [pc EXCEPT !["fast"] = "idle", ![l] = "check"]
          PROVE  OwnedInv'
      BY <2>7, <3>2 DEF FastSpawn, OwnedInv, ResyncingIsOwned
    <3>3. QED BY <2>7, <3>1, <3>2 DEF FastSpawn
  <2>8. QED
    BY <1>4, <1>5, <2>1, <2>2, <2>3, <2>4, <2>5, <2>6, <2>7 DEF FastStep
<1>6. CASE SlowStep \/ \E l \in Lags : LagStep(l)
  <2> USE OwnersStay DEF ctlVars, appVars
  <2>1. CASE SlowTick BY <2>1 DEF SlowTick
  <2>2. CASE SlowPoll BY <2>2 DEF SlowPoll
  <2>3. ASSUME NEW l \in Lags, LagNear(l) PROVE OwnedInv'
    BY <2>3 DEF LagNear
  <2>4. ASSUME NEW l \in Lags, LagFar(l) PROVE OwnedInv'
    BY <2>4 DEF LagFar
  <2>5. QED BY <1>3, <1>6, <2>1, <2>2, <2>3, <2>4 DEF SlowStep, LagStep
<1>7. CASE UiStep
  <2> USE OwnersStay DEF ctlVars, appVars
  <2>1. CASE UiPoll BY <2>1 DEF UiPoll
  <2>2. CASE UiUpdate BY <2>2 DEF UiUpdate
  <2>3. CASE UiRoute BY <2>3 DEF UiRoute
  <2>4. CASE UiReinit BY <2>4 DEF UiReinit
  <2>5. QED BY <1>4, <1>7, <2>1, <2>2, <2>3, <2>4 DEF UiStep
<1>8. CASE ShutdownStep
  <2> USE OwnersStay DEF ctlVars, appVars
  <2>1. CASE ShutdownMark BY <2>1 DEF ShutdownMark
  <2>2. CASE ShutdownChoose BY <2>2 DEF ShutdownChoose
  <2>3. CASE ShutdownStop BY <2>3 DEF ShutdownStop
  <2>4. CASE ShutdownStopped BY <2>4 DEF ShutdownStopped
  <2>5. CASE ShutdownKill BY <2>5 DEF ShutdownKill
  <2>6. CASE ShutdownKilled BY <2>6 DEF ShutdownKilled
  <2>7. CASE ShutdownCancel BY <2>7 DEF ShutdownCancel
  <2>8. CASE ShutdownWait BY <2>8 DEF ShutdownWait
  <2>9. QED
    BY <1>8, <2>1, <2>2, <2>3, <2>4, <2>5, <2>6, <2>7, <2>8 DEF ShutdownStep
<1>9. CASE Elapse \/ NodeExits
  BY <1>9 DEF Elapse, NodeExits, appVars, ctlVars, OwnedInv, ResyncingIsOwned
<1>10. CASE NextSession
  BY <1>10 DEF NextSession, OwnedInv, ResyncingIsOwned
<1>11. CASE UNCHANGED vars
  BY <1>11 DEF vars, appVars, ctlVars, OwnedInv, ResyncingIsOwned
<1>12. QED
  BY <1>1, <1>2, <1>5, <1>6, <1>7, <1>8, <1>9, <1>10, <1>11 DEF LNext, Step

(* The status resyncing, in which everything else stands back, is never left *)
(* behind by nobody.                                                         *)
THEOREM ResyncingOwned == LSpec => []ResyncingIsOwned
<1>1. LInit => OwnedInv
  BY KnownThreads DEF LInit, OwnedInv, ResyncingIsOwned, InSetup
<1>2. OwnedInv /\ [LNext]_vars => OwnedInv'
  BY OwnedStep
<1>3. OwnedInv => ResyncingIsOwned
  BY DEF OwnedInv
<1>4. QED BY <1>1, <1>2, <1>3, PTL DEF LSpec

-----------------------------------------------------------------------------
(* Types.  What the process manager's state has as its types follows from    *)
(* Implements; the rest is split by who holds the variable.                  *)
AppTypeOK ==
    /\ status \in Status /\ work \in Work
    /\ target \in {"local", "public"}
    /\ aged \in SUBSET Timers
FlagsTypeOK ==
    /\ publicSet \in BOOLEAN /\ debounced \in BOOLEAN
    /\ cooldown \in BOOLEAN /\ installed \in BOOLEAN
    /\ relaunched \in BOOLEAN /\ aborted \in BOOLEAN
    /\ ctxDone \in BOOLEAN /\ elapsed \in 0..MaxElapses
LocTypeOK ==
    /\ tracked \in BOOLEAN
    /\ reply \in [{"fast", "ui"} -> Answers]
    /\ attempt \in 1..MaxAttempts
    /\ pc \in [Threads -> Steps]
OwnTypeOK == AppTypeOK /\ FlagsTypeOK /\ LocTypeOK

(* A step of one goroutine that only sets what the Hub itself keeps.         *)
LEMMA SetterTypes ==
    ASSUME OwnTypeOK, NEW t \in Threads, NEW l \in Steps, Goto(t, l),
           status' \in Status, work' \in Work, target' \in {"local", "public"},
           NEW T, Touch(T) \/ UNCHANGED aged,
           UNCHANGED <<hmVars, ctlVars, locVars>>
    PROVE  OwnTypeOK'
<1>1. AppTypeOK'
  BY DEF OwnTypeOK, AppTypeOK, Touch
<1>2. FlagsTypeOK'
  BY DEF OwnTypeOK, FlagsTypeOK, hmVars, ctlVars
<1>3. LocTypeOK'
  BY DEF OwnTypeOK, LocTypeOK, locVars, Goto
<1>4. QED BY <1>1, <1>2, <1>3 DEF OwnTypeOK

(* A step of one goroutine that leaves AppState alone.                       *)
LEMMA MoveTypes ==
    ASSUME OwnTypeOK, NEW t \in Threads, NEW l \in Steps, Goto(t, l),
           UNCHANGED <<appVars, hmVars, ctlVars, locVars>>
    PROVE  OwnTypeOK'
<1>1. status' \in Status /\ work' \in Work /\ target' \in {"local", "public"}
  BY DEF OwnTypeOK, AppTypeOK, appVars
<1>2. QED BY <1>1, SetterTypes DEF appVars

LEMMA DoctorTypes ==
    ASSUME OwnTypeOK, DoctorStep PROVE OwnTypeOK'
<1> USE KnownThreads, LifecycleAssumption
<1>1. /\ status \in Status /\ work \in Work /\ target \in {"local", "public"}
      /\ "doctor" \in Threads /\ attempt \in 1..MaxAttempts
  BY DEF OwnTypeOK, AppTypeOK, LocTypeOK
<1>2. {"off", "watch", "look", "enter", "waiting", "woke", "crashed", "recover", "delay",
       "settle", "gaveup", "mourn"} \subseteq Steps
  BY DEF Steps
<1>3. CASE DoctorBeat
  <2>1. PICK l \in Steps : Goto("doctor", l)
    BY <1>2, <1>3 DEF DoctorBeat
  <2>2. Touch({"beat"}) \/ UNCHANGED aged
    BY <1>3 DEF DoctorBeat, appVars
  <2>3. UNCHANGED <<status, target, work, hmVars, ctlVars, locVars>>
    BY <1>3 DEF DoctorBeat, appVars
  <2>4. QED BY <1>1, <2>1, <2>2, <2>3, SetterTypes
<1>4. CASE \/ DoctorLook \/ DoctorWait \/ DoctorReap \/ DoctorJudge
           \/ DoctorCancelled
  BY <1>1, <1>2, <1>4, MoveTypes
     DEF DoctorLook, DoctorWait, DoctorReap, DoctorJudge, DoctorCancelled
<1>5. CASE DoctorAnnounce \/ DoctorGaveUp \/ DoctorMourn
  <2>1. PICK l \in Steps : Goto("doctor", l)
    BY <1>2, <1>5 DEF DoctorAnnounce, DoctorGaveUp, DoctorMourn
  <2>2. Touch({}) \/ Touch({"work"})
    BY <1>5 DEF DoctorAnnounce, DoctorGaveUp, DoctorMourn, Set
  <2>3. status' \in Status /\ work' \in Work /\ target' \in {"local", "public"}
    BY <1>1, <1>5
       DEF DoctorAnnounce, DoctorGaveUp, DoctorMourn, Set, Work
  <2>4. UNCHANGED <<hmVars, ctlVars, locVars>>
    BY <1>5 DEF DoctorAnnounce, DoctorGaveUp, DoctorMourn
  <2>5. QED BY <1>1, <2>1, <2>2, <2>3, <2>4, SetterTypes
<1>6. CASE DoctorDeclare \/ DoctorStart \/ DoctorSettle
  <2>1. AppTypeOK'
    BY <1>6 DEF DoctorDeclare, DoctorStart, DoctorSettle, OwnTypeOK, AppTypeOK,
                appVars, Set, Touch, Status, Work
  <2>2. FlagsTypeOK'
    BY <1>6 DEF DoctorDeclare, DoctorStart, DoctorSettle, OwnTypeOK,
                FlagsTypeOK, hmVars, ctlVars
  <2>3. attempt' \in 1..MaxAttempts
    <3>1. NextAttempt => attempt' \in 1..MaxAttempts
      BY <1>1 DEF NextAttempt
    <3>2. \/ attempt' = 1 \/ attempt' = attempt \/ NextAttempt
      BY <1>6 DEF DoctorDeclare, DoctorStart, DoctorSettle
    <3>3. QED BY <1>1, <3>1, <3>2
  <2>4. \E l \in Steps : Goto("doctor", l)
    BY <1>2, <1>6 DEF DoctorDeclare, DoctorStart, DoctorSettle, NextAttempt
  <2>5. LocTypeOK'
    BY <1>6, <2>3, <2>4
       DEF DoctorDeclare, DoctorStart, DoctorSettle, OwnTypeOK, LocTypeOK, Goto
  <2>6. QED BY <2>1, <2>2, <2>5 DEF OwnTypeOK
<1>7. QED BY <1>3, <1>4, <1>5, <1>6 DEF DoctorStep

LEMMA ResyncTypes ==
    ASSUME OwnTypeOK, NEW t \in Resetters, ResyncStep(t)
    PROVE  OwnTypeOK'
<1> USE KnownThreads
<1>1. /\ status \in Status /\ work \in Work /\ target \in {"local", "public"}
      /\ t \in Threads
  BY DEF OwnTypeOK, AppTypeOK
<1>2. ResyncSteps \cup {"idle"} \subseteq Steps
  BY DEF Steps
<1>3. CASE \/ ResyncGuard(t) \/ ResyncStop(t) \/ ResyncStopped(t)
           \/ ResyncStart(t)
  BY <1>1, <1>2, <1>3, MoveTypes
     DEF ResyncGuard, ResyncStop, ResyncStopped, ResyncStart, ResyncSteps
<1>4. CASE \/ ResyncMark(t) \/ ResyncPublic(t) \/ ResyncReset(t)
           \/ ResyncError(t) \/ ResyncFailed(t) \/ ResyncDone(t)
  <2> USE DEF ResyncMark, ResyncPublic, ResyncReset, ResyncError, ResyncFailed,
              ResyncDone, Set
  <2>1. PICK l \in Steps : Goto(t, l)
    BY <1>2, <1>4 DEF ResyncSteps
  <2>2. Touch({}) \/ Touch({"work"})
    BY <1>4
  <2>3. status' \in Status /\ work' \in Work /\ target' \in {"local", "public"}
    BY <1>1, <1>4 DEF Status, Work
  <2>4. UNCHANGED <<hmVars, ctlVars, locVars>>
    BY <1>4
  <2>5. QED BY <1>1, <2>1, <2>2, <2>3, <2>4, SetterTypes
<1>5. CASE ResyncWiped(t) \/ ResyncConfigured(t)
  <2> USE DEF ResyncWiped, ResyncConfigured, ResyncWork
  <2>1. AppTypeOK'
    BY <1>5 DEF OwnTypeOK, AppTypeOK, Set, Touch, Work
  <2>2. FlagsTypeOK'
    BY <1>5 DEF OwnTypeOK, FlagsTypeOK, hmVars
  <2>3. \E l \in Steps : Goto(t, l)
    BY <1>2, <1>5 DEF ResyncSteps
  <2>4. LocTypeOK'
    BY <1>5, <2>3 DEF OwnTypeOK, LocTypeOK, locVars, Goto
  <2>5. QED BY <2>1, <2>2, <2>4 DEF OwnTypeOK
<1>6. QED BY <1>3, <1>4, <1>5 DEF ResyncStep

LEMMA ReinitTypes ==
    ASSUME OwnTypeOK, NEW t \in {"fast", "ui"}, ReinitStep(t)
    PROVE  OwnTypeOK'
<1> USE KnownThreads
<1>1. /\ status \in Status /\ work \in Work /\ target \in {"local", "public"}
      /\ t \in Threads
  BY DEF OwnTypeOK, AppTypeOK
<1>2. ReinitSteps \cup {"idle", "spawn"} \subseteq Steps
  BY DEF Steps
<1>3. CASE ReinitGuard(t) \/ ReinitStop(t) \/ ReinitStopped(t)
  BY <1>1, <1>2, <1>3, MoveTypes
     DEF ReinitGuard, ReinitStop, ReinitStopped, ReinitReturn, ReinitSteps
<1>4. CASE ReinitMark(t)
  <2>1. PICK l \in Steps : Goto(t, l)
    BY <1>2, <1>4 DEF ReinitMark, ReinitSteps
  <2>2. Touch({}) \/ UNCHANGED aged
    BY <1>4 DEF ReinitMark, Set
  <2>3. status' \in Status /\ work' \in Work /\ target' \in {"local", "public"}
    BY <1>1, <1>4 DEF ReinitMark, Set, Status
  <2>4. UNCHANGED <<hmVars, ctlVars, locVars>>
    BY <1>4 DEF ReinitMark
  <2>5. QED BY <1>1, <2>1, <2>2, <2>3, <2>4, SetterTypes
<1>5. CASE ReinitClaim(t) \/ ReinitWipe(t)
  <2> USE DEF ReinitClaim, ReinitWipe
  <2>1. AppTypeOK' /\ FlagsTypeOK'
    BY <1>5 DEF OwnTypeOK, AppTypeOK, FlagsTypeOK, appVars, hmVars
  <2>2. \E l \in Steps : Goto(t, l)
    BY <1>2, <1>5 DEF ReinitReturn, ReinitSteps
  <2>3. LocTypeOK'
    BY <1>5, <2>2 DEF OwnTypeOK, LocTypeOK, locVars, Goto
  <2>4. QED BY <2>1, <2>3 DEF OwnTypeOK
<1>6. QED BY <1>3, <1>4, <1>5 DEF ReinitStep

LEMMA FastTypes ==
    ASSUME OwnTypeOK, NPTypeOK, FastStep PROVE OwnTypeOK'
<1> USE KnownThreads
<1>1. /\ status \in Status /\ work \in Work /\ target \in {"local", "public"}
      /\ "fast" \in Threads
  BY DEF OwnTypeOK, AppTypeOK
<1>2. {"off", "idle", "poll", "unreachable", "update", "route", "watchdog",
       "fguard", "spawn", "check"} \subseteq Steps
  BY DEF Steps, ReinitSteps
<1>3. CASE FastTick \/ FastPoll
  <2> USE DEF FastTick, FastPoll
  <2>1. AppTypeOK' /\ FlagsTypeOK'
    BY <1>3 DEF OwnTypeOK, AppTypeOK, FlagsTypeOK, appVars, hmVars, ctlVars
  <2>2. \E l \in Steps : Goto("fast", l)
    BY <1>2, <1>3
  <2>3. tracked' \in BOOLEAN /\ reply' \in [{"fast", "ui"} -> Answers]
    BY <1>3 DEF OwnTypeOK, LocTypeOK, NPTypeOK
  <2>4. LocTypeOK'
    BY <1>3, <2>2, <2>3 DEF OwnTypeOK, LocTypeOK, Goto
  <2>5. QED BY <2>1, <2>4 DEF OwnTypeOK
<1>4. CASE FastUnreachable
  BY <1>1, <1>2, <1>4, MoveTypes DEF FastUnreachable
<1>5. CASE FastUpdate
  <2>1. Goto("fast", "route") /\ Touch({}) /\ "route" \in Steps
    BY <1>2, <1>5 DEF FastUpdate, Set
  <2>2. \/ status' = "error" \/ status' = "synced" \/ status' = "syncing"
    <3>1. status' = CASE reply["fast"] = "err" -> "error"
                      [] reply["fast"] = "fresh" -> "synced"
                      [] OTHER -> "syncing"
      BY <1>5 DEF FastUpdate, Set
    <3>2. QED BY <3>1
  <2>3. status' \in Status /\ work' \in Work /\ target' \in {"local", "public"}
    BY <1>1, <1>5, <2>2 DEF FastUpdate, Set, Status
  <2>4. UNCHANGED <<hmVars, ctlVars, locVars>>
    BY <1>5 DEF FastUpdate
  <2>5. QED BY <1>1, <2>1, <2>3, <2>4, SetterTypes
<1>6. CASE FastRoute \/ FastWatchdog
  <2> USE DEF FastRoute, FastWatchdog
  <2>1. AppTypeOK'
    BY <1>6 DEF OwnTypeOK, AppTypeOK, Touch, Work
  <2>2. FlagsTypeOK'
    BY <1>6 DEF OwnTypeOK, FlagsTypeOK, ctlVars
  <2>3. \E l \in Steps : Goto("fast", l)
    BY <1>2, <1>6
  <2>4. LocTypeOK'
    BY <1>6, <2>3 DEF OwnTypeOK, LocTypeOK, locVars, Goto
  <2>5. QED BY <2>1, <2>2, <2>4 DEF OwnTypeOK
<1>7. CASE FastSpawn
  <2>1. CASE Goto("fast", "idle")
    BY <1>1, <1>2, <1>7, <2>1, MoveTypes DEF FastSpawn
  <2>2. ASSUME NEW l \in Lags,
               pc' = [pc EXCEPT !["fast"] = "idle", ![l] = "check"]
        PROVE  OwnTypeOK'
    BY <1>2, <1>7, <2>2
       DEF FastSpawn, OwnTypeOK, AppTypeOK, FlagsTypeOK, LocTypeOK, appVars,
           hmVars, ctlVars, locVars
  <2>3. QED BY <1>7, <2>1, <2>2 DEF FastSpawn
<1>8. QED
  BY <1>3, <1>4, <1>5, <1>6, <1>7, ReinitTypes DEF FastStep

LEMMA SlowLagTypes ==
    ASSUME OwnTypeOK, SlowStep \/ \E l \in Lags : LagStep(l)
    PROVE  OwnTypeOK'
<1> USE KnownThreads
<1>1. {"off", "idle", "poll", "rguard"} \subseteq Steps
  BY DEF Steps
<1>2. CASE SlowTick \/ SlowPoll
  BY <1>1, <1>2, MoveTypes DEF SlowTick, SlowPoll
<1>3. ASSUME NEW l \in Lags, LagNear(l) PROVE OwnTypeOK'
  BY <1>1, <1>3, MoveTypes DEF LagNear
<1>4. ASSUME NEW l \in Lags, LagFar(l) PROVE OwnTypeOK'
  <2>1. AppTypeOK' /\ FlagsTypeOK'
    BY <1>4 DEF LagFar, OwnTypeOK, AppTypeOK, FlagsTypeOK, appVars, ctlVars
  <2>2. LocTypeOK'
    BY <1>1, <1>4 DEF LagFar, OwnTypeOK, LocTypeOK, locVars, Goto
  <2>3. QED BY <2>1, <2>2 DEF OwnTypeOK
<1>5. QED BY <1>2, <1>3, <1>4, ResyncTypes DEF SlowStep, LagStep

LEMMA UiTypes ==
    ASSUME OwnTypeOK, UiStep PROVE OwnTypeOK'
<1> USE KnownThreads
<1>1. /\ status \in Status /\ work \in Work /\ target \in {"local", "public"}
      /\ "ui" \in Threads
      /\ {"idle", "update", "route", "fguard"} \subseteq Steps
  BY DEF OwnTypeOK, AppTypeOK, Steps, ReinitSteps
<1>2. CASE UiPoll \/ UiRoute
  <2>1. AppTypeOK' /\ FlagsTypeOK'
    BY <1>2 DEF UiPoll, UiRoute, OwnTypeOK, AppTypeOK, FlagsTypeOK, appVars,
                hmVars, ctlVars
  <2>2. LocTypeOK'
    BY <1>1, <1>2 DEF UiPoll, UiRoute, OwnTypeOK, LocTypeOK, Goto, Answers
  <2>3. QED BY <2>1, <2>2 DEF OwnTypeOK
<1>3. CASE UiUpdate
  <2>1. Goto("ui", "route") /\ Touch({})
    BY <1>3 DEF UiUpdate, Set
  <2>2. status' \in Status /\ work' \in Work /\ target' \in {"local", "public"}
    BY <1>1, <1>3 DEF UiUpdate, Set, Status
  <2>3. UNCHANGED <<hmVars, ctlVars, locVars>>
    BY <1>3 DEF UiUpdate
  <2>4. QED BY <1>1, <2>1, <2>2, <2>3, SetterTypes
<1>4. CASE UiReinit
  BY <1>1, <1>4, MoveTypes DEF UiReinit
<1>5. QED BY <1>2, <1>3, <1>4, ReinitTypes DEF UiStep

LEMMA ShutdownTypes ==
    ASSUME OwnTypeOK, ShutdownStep PROVE OwnTypeOK'
<1> USE KnownThreads
<1>1. /\ status \in Status /\ work \in Work /\ target \in {"local", "public"}
      /\ "shutdown" \in Threads
      /\ {"xstop", "xhalt", "xhalting", "xkill", "xkilling", "xcancel", "xwait",
          "done"} \subseteq Steps
  BY DEF OwnTypeOK, AppTypeOK, Steps
<1>2. CASE ShutdownMark
  BY <1>1, <1>2, SetterTypes DEF ShutdownMark, Set, Status
<1>3. CASE \/ ShutdownChoose \/ ShutdownStop \/ ShutdownStopped
           \/ ShutdownKill \/ ShutdownKilled \/ ShutdownWait
  BY <1>1, <1>3, MoveTypes
     DEF ShutdownChoose, ShutdownStop, ShutdownStopped, ShutdownKill,
         ShutdownKilled, ShutdownWait
<1>4. CASE ShutdownCancel
  <2>1. AppTypeOK' /\ FlagsTypeOK'
    BY <1>4 DEF ShutdownCancel, OwnTypeOK, AppTypeOK, FlagsTypeOK, appVars,
                hmVars
  <2>2. LocTypeOK'
    BY <1>1, <1>4 DEF ShutdownCancel, OwnTypeOK, LocTypeOK, locVars, Goto
  <2>3. QED BY <2>1, <2>2 DEF OwnTypeOK
<1>5. QED BY <1>2, <1>3, <1>4 DEF ShutdownStep

LEMMA SetupTypes ==
    ASSUME OwnTypeOK, SetupStep PROVE OwnTypeOK'
<1> USE KnownThreads
<1>1. /\ status \in Status /\ work \in Work /\ target \in {"local", "public"}
      /\ "setup" \in Threads
      /\ {"start", "launch", "failing", "done", "watch", "idle"} \subseteq Steps
  BY DEF OwnTypeOK, AppTypeOK, Steps
<1>2. CASE SetupCleanup \/ SetupFailed
  <2> USE DEF SetupCleanup, SetupFailed, Set
  <2>1. PICK l \in Steps : Goto("setup", l)
    BY <1>1, <1>2
  <2>2. Touch({}) \/ Touch({"work"})
    BY <1>2
  <2>3. status' \in Status /\ work' \in Work /\ target' \in {"local", "public"}
    BY <1>1, <1>2 DEF Status, Work
  <2>4. UNCHANGED <<hmVars, ctlVars, locVars>>
    BY <1>2
  <2>5. QED BY <1>1, <2>1, <2>2, <2>3, <2>4, SetterTypes
<1>3. CASE SetupStart
  BY <1>1, <1>3, MoveTypes DEF SetupStart
<1>4. CASE SetupLaunch
  <2>1. AppTypeOK' /\ FlagsTypeOK'
    BY <1>4 DEF SetupLaunch, OwnTypeOK, AppTypeOK, FlagsTypeOK, Set, Touch, Work,
                hmVars, ctlVars
  <2>2. LocTypeOK'
    BY <1>1, <1>4 DEF SetupLaunch, OwnTypeOK, LocTypeOK, locVars
  <2>3. QED BY <2>1, <2>2 DEF OwnTypeOK
<1>5. QED BY <1>2, <1>3, <1>4 DEF SetupStep

LEMMA OwnTypesStep ==
    ASSUME OwnTypeOK, NPTypeOK, [LNext]_vars PROVE OwnTypeOK'
<1>1. CASE \/ SetupStep \/ DoctorStep \/ FastStep \/ SlowStep
           \/ (\E l \in Lags : LagStep(l)) \/ UiStep \/ ShutdownStep
  BY <1>1, SetupTypes, DoctorTypes, FastTypes, SlowLagTypes, UiTypes,
     ShutdownTypes
<1>2. CASE Elapse
  <2>1. AppTypeOK'
    BY <1>2 DEF Elapse, OwnTypeOK, AppTypeOK, Timers
  <2>2. elapsed' \in 0..MaxElapses
    <3>1. elapsed \in 0..MaxElapses
      BY DEF OwnTypeOK, FlagsTypeOK
    <3>2. elapsed < MaxElapses /\ elapsed' = elapsed + 1
      BY <1>2 DEF Elapse
    <3>3. MaxElapses \in Nat
      BY LifecycleAssumption
    <3>4. QED BY <3>1, <3>2, <3>3
  <2>3. FlagsTypeOK'
    BY <1>2, <2>2 DEF Elapse, OwnTypeOK, FlagsTypeOK
  <2>4. LocTypeOK'
    BY <1>2 DEF Elapse, OwnTypeOK, LocTypeOK, locVars
  <2>5. QED BY <2>1, <2>3, <2>4 DEF OwnTypeOK
<1>3. CASE NodeExits \/ UNCHANGED vars
  BY <1>3 DEF NodeExits, vars, appVars, hmVars, ctlVars, locVars, OwnTypeOK,
              AppTypeOK, FlagsTypeOK, LocTypeOK
<1>4. CASE NextSession
  <2>1. AppTypeOK' /\ FlagsTypeOK'
    BY <1>4 DEF NextSession, OwnTypeOK, AppTypeOK, FlagsTypeOK, Status, Work
  <2>2. pc' \in [Threads -> Steps]
    BY <1>4 DEF NextSession, Steps
  <2>3. LocTypeOK'
    BY <1>4, <2>2 DEF NextSession, OwnTypeOK, LocTypeOK, locVars
  <2>4. QED BY <2>1, <2>3 DEF OwnTypeOK
<1>5. QED BY <1>1, <1>2, <1>3, <1>4 DEF LNext, Step

(* Type correctness of the goroutines and everything they share: no order of *)
(* their steps takes the doctor past its last attempt or a goroutine out of  *)
(* its program.                                                              *)
THEOREM LifecycleTypeCorrect == LSpec => []LTypeOK
<1>1. LInit => OwnTypeOK
  <2> SUFFICES ASSUME LInit PROVE OwnTypeOK
    OBVIOUS
  <2>1. AppTypeOK
    BY DEF LInit, AppTypeOK, Status, Work
  <2>2. FlagsTypeOK /\ attempt \in 1..MaxAttempts
    <3>1. 0 \in 0..MaxElapses /\ 1 \in 1..MaxAttempts
      BY LifecycleAssumption
    <3>2. QED BY <3>1 DEF LInit, FlagsTypeOK
  <2>3. pc \in [Threads -> Steps] /\ reply \in [{"fast", "ui"} -> Answers]
    BY DEF LInit, Steps, Answers
  <2>4. QED BY <2>1, <2>2, <2>3 DEF LInit, LocTypeOK, OwnTypeOK
<1>2. OwnTypeOK /\ NPTypeOK /\ [LNext]_vars => OwnTypeOK'
  BY OwnTypesStep
<1>3. LSpec => []NPTypeOK
  BY Implements, TypeCorrect, PTL
<1>4. NPTypeOK /\ OwnTypeOK => LTypeOK
  BY DEF LTypeOK, OwnTypeOK, AppTypeOK, FlagsTypeOK, LocTypeOK
<1>5. QED BY <1>1, <1>2, <1>3, <1>4, PTL DEF LSpec
=============================================================================
