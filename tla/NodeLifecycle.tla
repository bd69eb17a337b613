--------------------------- MODULE NodeLifecycle ---------------------------
(***************************************************************************)
(* The goroutines that keep the local node running, around the process      *)
(* manager of NodeProcess and the node fields of AppState: the tail of       *)
(* setupNode, Doctor.Watch, the fast and slow loops of HealthMonitor with     *)
(* their watchdog and lag check, performResync, quickNodeCheck,              *)
(* ForceReInitNode and shutdown.                                             *)
(*                                                                         *)
(* An action is what a goroutine does between two points where another one   *)
(* can interfere in a way some property can tell: each AppState setter and   *)
(* each NodeProcess method is atomic; adjacent setters of one goroutine share*)
(* an action where the order they take effect in changes no guard elsewhere. *)
(* Waits (delays, tickers, timeouts) end at any time.  The ages the watchdog *)
(* compares with its thresholds are the members of `aged`.                   *)
(***************************************************************************)
EXTENDS NodeProcess

CONSTANTS
    Routines,      \* which of fast, slow, lag, ui and shutdown run
    MaxAttempts,   \* Doctor: number of retry delays
    MaxElapses     \* bound: how often minutes pass unnoticed (Elapse)

ASSUME LifecycleAssumption ==
    /\ Routines \subseteq {"fast", "slow", "lag", "ui", "shutdown"}
    /\ Starters = {"setup", "doctor"} /\ Waiters = {"doctor"}
    /\ "slow" \in Resetters
    /\ Stoppers = Resetters \cup {"fast", "ui", "shutdown"}
    /\ Resetters \cap {"setup", "doctor", "fast", "ui", "shutdown"} = {}
    /\ MaxAttempts \in Nat \ {0} /\ MaxElapses \in Nat

(* The lag checks: maybeResyncIfTooFarBehind starts one a minute, ended the  *)
(* previous ones or not.  There are as many here as Resetters has room for.  *)
Lags == Resetters \ {"slow"}

VARIABLES
    status,       \* AppState.nodeStatus
    target,       \* AppState.proxyTarget
    work,         \* AppState.currentWork, "" when there is none
    aged,         \* the timers of the watchdog past their threshold
    publicSet,    \* HealthMonitor.publicSince is not zero
    debounced,    \* HealthMonitor.lastLagResync is less than 5 minutes old
    cooldown,     \* App.lastForceReInit is less than 1 minute old
    installed,    \* the node directory and the binary exist
    relaunched,   \* ForceReInitNode launched setupNode again
    aborted,      \* a performResync returned half-way
    ctxDone,      \* the routine manager's context is cancelled
    pc,           \* per goroutine, where it is
    reply,        \* what /status answered the fast loop (or the UI), while used
    tracked,      \* the fast loop's last IsRunning
    attempt,      \* Doctor.recover: number of the current attempt
    elapsed       \* how often Elapse happened

appVars == <<status, target, work, aged>>
hmVars  == <<publicSet, debounced>>
ctlVars == <<cooldown, installed, relaunched, aborted, ctxDone, elapsed>>
locVars == <<reply, tracked, attempt>>
vars == <<npVars, appVars, hmVars, ctlVars, locVars, pc>>

Status  == {"not_started", "starting", "syncing", "synced", "resyncing",
            "error", "stopped"}
Work    == {"", "setup", "syncing", "resync", "failed", "recovery", "crashed"}
Answers == {"err", "catching", "stale", "fresh"}
Timers  == {"status", "work", "public", "beat"}

ResyncSteps == {"rset", "rpublic", "rstop", "rstopping", "rreset", "rwiping",
                "rconfig", "rstart", "rerror", "rsyncing", "rfailed"}
ReinitSteps == {"fguard", "fclaim", "fstop", "fhalt", "fhalting", "fwipe"}
Steps == ResyncSteps \cup ReinitSteps \cup
         {"off", "idle", "rguard", "poll", "unreachable", "update",
          "route", "watchdog", "spawn", "check", "boot", "start", "failing",
          "launch", "watch", "look", "enter", "waiting", "woke", "crashed", "recover",
          "delay", "settle", "gaveup", "mourn", "xstop", "xhalt", "xhalting",
          "xkill", "xkilling", "xcancel", "xwait", "done"}

LTypeOK ==
    /\ NPTypeOK
    /\ status \in Status
    /\ target \in {"local", "public"}
    /\ work \in Work
    /\ aged \in SUBSET Timers
    /\ publicSet \in BOOLEAN /\ debounced \in BOOLEAN
    /\ cooldown \in BOOLEAN /\ installed \in BOOLEAN
    /\ relaunched \in BOOLEAN /\ aborted \in BOOLEAN
    /\ ctxDone \in BOOLEAN /\ tracked \in BOOLEAN
    /\ pc \in [Threads -> Steps]
    /\ reply \in [{"fast", "ui"} -> Answers]
    /\ attempt \in 1..MaxAttempts
    /\ elapsed \in 0..MaxElapses

LInit ==
    /\ NPInit
    /\ status = "not_started"
    /\ target = "public"
    /\ work = "setup"
    /\ aged = {}
    /\ publicSet = TRUE
    /\ debounced = FALSE
    /\ cooldown = FALSE
    /\ installed = TRUE
    /\ relaunched = FALSE
    /\ aborted = FALSE
    /\ ctxDone = FALSE
    /\ pc = [t \in Threads |->
               IF t = "setup" THEN "boot"
               ELSE IF t \in {"doctor", "fast", "slow"} THEN "off" ELSE "idle"]
    /\ reply = [t \in {"fast", "ui"} |-> "err"]
    /\ tracked = FALSE
    /\ attempt = 1
    /\ elapsed = 0

-----------------------------------------------------------------------------
(* Goroutine t is at l; the process ends with shutdown.                      *)
At(t, l) == pc[t] = l /\ pc["shutdown"] # "done"
Goto(t, l) == pc' = [pc EXCEPT ![t] = l]

(* A setter restarts a timer only when the value changes; T restarts anyway. *)
Touch(T) ==
    aged' = aged \ (T \cup {x \in {"status"} : status' # status}
                      \cup {x \in {"work"} : work' # work})

Set(s, w) == status' = s /\ work' = w /\ Touch({})

(* What /status can answer: nothing without a live node, anything with one.  *)
CanAnswer(a) == a = "err" \/ alive # {}

-----------------------------------------------------------------------------
(* setupNode, steps 9 to 11: adopt an orphan or start the node, then launch  *)
(* the two health loops and the doctor.                                      *)
SetupCleanup ==
    /\ At("setup", "boot")
    /\ CleanupOrphanNode
    /\ IF adopted' # None
         THEN Goto("setup", "launch") /\ status' = "syncing"
         ELSE Goto("setup", "start") /\ status' = "starting"
    /\ work' = "setup" /\ Touch({"work"})
    /\ UNCHANGED <<target, hmVars, ctlVars, locVars>>

SetupStart ==
    /\ At("setup", "start")
    /\ \/ installed /\ Start("setup") /\ Goto("setup", "launch")
       \/ StartFails("setup") /\ Goto("setup", "failing")
    /\ UNCHANGED <<appVars, hmVars, ctlVars, locVars>>

SetupFailed ==
    /\ At("setup", "failing")
    /\ Set("error", "")
    /\ Goto("setup", "done")
    /\ UNCHANGED <<npVars, target, hmVars, ctlVars, locVars>>

SetupLaunch ==
    /\ At("setup", "launch")
    /\ Set(status, "syncing")
    /\ pc' = [pc EXCEPT !["setup"] = "done", !["doctor"] = "watch",
                        !["fast"] = "idle", !["slow"] = "idle"]
    /\ UNCHANGED <<npVars, target, hmVars, ctlVars, locVars>>

-----------------------------------------------------------------------------
(* Doctor.Watch: the heartbeat is recorded before IsRunning may block on mu. *)
DoctorBeat ==
    /\ At("doctor", "watch")
    /\ IF ctxDone
         THEN Goto("doctor", "off") /\ UNCHANGED appVars
         ELSE /\ Goto("doctor", "look")
              /\ UNCHANGED <<status, target, work>> /\ Touch({"beat"})
    /\ UNCHANGED <<npVars, hmVars, ctlVars, locVars>>

DoctorLook ==
    /\ At("doctor", "look") /\ MuFree
    /\ Goto("doctor", IF running THEN "enter" ELSE "watch")
    /\ UNCHANGED <<npVars, appVars, hmVars, ctlVars, locVars>>

DoctorWait ==
    /\ At("doctor", "enter") /\ MuFree
    /\ \/ WaitBegin("doctor") /\ Goto("doctor", "waiting")
       \/ cmd = None /\ Goto("doctor", "woke") /\ UNCHANGED npVars
    /\ UNCHANGED <<appVars, hmVars, ctlVars, locVars>>

(* Mutant: an exit during start-up passes for an intentional one.            *)
JudgeStartingToo ==
    /\ At("doctor", "woke")
    /\ Goto("doctor", IF ctxDone THEN "off"
                      ELSE IF status \in {"stopped", "resyncing", "starting"}
                           THEN "watch" ELSE "crashed")
    /\ UNCHANGED <<npVars, appVars, hmVars, ctlVars, locVars>>

DoctorReap ==
    /\ At("doctor", "waiting")
    /\ WaitEnd("doctor")
    /\ Goto("doctor", "woke")
    /\ UNCHANGED <<appVars, hmVars, ctlVars, locVars>>

DoctorJudge ==
    /\ At("doctor", "woke")
    /\ Goto("doctor", IF ctxDone THEN "off"
                      ELSE IF status \in {"stopped", "resyncing"} THEN "watch"
                      ELSE "crashed")
    /\ UNCHANGED <<npVars, appVars, hmVars, ctlVars, locVars>>

DoctorDeclare ==
    /\ At("doctor", "crashed")
    /\ Set("error", work)
    /\ attempt' = 1
    /\ Goto("doctor", "recover")
    /\ UNCHANGED <<npVars, target, hmVars, ctlVars, reply, tracked>>

(* Mutant: one attempt more than there are delays.                           *)
OneAttemptMore ==
    IF attempt <= MaxAttempts
      THEN attempt' = attempt + 1 /\ Goto("doctor", "recover")
      ELSE UNCHANGED attempt /\ Goto("doctor", "gaveup")

(* Doctor.recover: announce an attempt (SetProxyTarget of Watch comes with    *)
(* the first), wait, start, wait again and look at IsRunning.                *)
DoctorAnnounce ==
    /\ At("doctor", "recover")
    /\ target' = IF attempt = 1 THEN "public" ELSE target
    /\ IF ctxDone
         THEN Goto("doctor", "gaveup") /\ Set(status, work)
         ELSE Goto("doctor", "delay") /\ status' = status /\ work' = "recovery"
              /\ Touch({"work"})
    /\ UNCHANGED <<npVars, hmVars, ctlVars, locVars>>

NextAttempt ==
    IF attempt < MaxAttempts
      THEN attempt' = attempt + 1 /\ Goto("doctor", "recover")
      ELSE UNCHANGED attempt /\ Goto("doctor", "gaveup")

DoctorCancelled ==
    /\ ctxDone
    /\ At("doctor", "delay") \/ At("doctor", "settle")
    /\ Goto("doctor", "gaveup")
    /\ UNCHANGED <<npVars, appVars, hmVars, ctlVars, locVars>>

DoctorStart ==
    /\ At("doctor", "delay") /\ MuFree
    /\ \/ /\ installed /\ Start("doctor")
          /\ Goto("doctor", "settle") /\ UNCHANGED attempt
       \/ StartFails("doctor") /\ NextAttempt
       \/ running /\ NextAttempt /\ UNCHANGED npVars
    /\ UNCHANGED <<appVars, hmVars, ctlVars, reply, tracked>>

DoctorSettle ==
    /\ At("doctor", "settle") /\ MuFree
    /\ IF running
         THEN Set("starting", "") /\ Goto("doctor", "watch") /\ UNCHANGED attempt
         ELSE NextAttempt /\ UNCHANGED <<status, work, aged>>
    /\ UNCHANGED <<npVars, target, hmVars, ctlVars, reply, tracked>>

DoctorGaveUp ==
    /\ At("doctor", "gaveup")
    /\ Set(status, "crashed")
    /\ Goto("doctor", "mourn")
    /\ UNCHANGED <<npVars, target, hmVars, ctlVars, locVars>>

DoctorMourn ==
    /\ At("doctor", "mourn")
    /\ Set(status, "")
    /\ Goto("doctor", "watch")
    /\ UNCHANGED <<npVars, target, hmVars, ctlVars, locVars>>

DoctorStep ==
    \/ DoctorBeat \/ DoctorLook \/ DoctorWait \/ DoctorReap \/ DoctorJudge \/ DoctorDeclare
    \/ DoctorAnnounce \/ DoctorCancelled \/ DoctorStart \/ DoctorSettle
    \/ DoctorGaveUp \/ DoctorMourn

-----------------------------------------------------------------------------
(* HealthMonitor, fast loop: IsRunning, the poll, then what the answer says. *)
FastTick ==
    /\ At("fast", "idle") /\ MuFree
    /\ tracked' = running
    /\ Goto("fast", IF ctxDone THEN "off" ELSE "poll")
    /\ UNCHANGED <<npVars, appVars, hmVars, ctlVars, reply, attempt>>

FastPoll ==
    /\ At("fast", "poll")
    /\ \E a \in Answers :
         /\ CanAnswer(a)
         /\ reply' = [reply EXCEPT !["fast"] = a]
         /\ Goto("fast", IF a # "err" THEN "update"
                         ELSE IF tracked THEN "unreachable" ELSE "idle")
    /\ UNCHANGED <<npVars, appVars, hmVars, ctlVars, tracked, attempt>>

(* Mutant: whatever the status, a poll without an answer ends the check.     *)
UnreachableIgnored ==
    /\ At("fast", "unreachable")
    /\ Goto("fast", "idle")
    /\ UNCHANGED <<npVars, appVars, hmVars, ctlVars, locVars>>

FastUnreachable ==
    /\ At("fast", "unreachable")
    /\ Goto("fast", IF status \in {"stopped", "resyncing", "starting"}
                    THEN "idle" ELSE "update")
    /\ UNCHANGED <<npVars, appVars, hmVars, ctlVars, locVars>>

FastUpdate ==
    /\ At("fast", "update")
    /\ Set(CASE reply["fast"] = "err" -> "error"
             [] reply["fast"] = "fresh" -> "synced"
             [] OTHER -> "syncing", work)
    /\ Goto("fast", "route")
    /\ UNCHANGED <<npVars, target, hmVars, ctlVars, locVars>>

FastRoute ==
    /\ At("fast", "route")
    /\ UNCHANGED status
    /\ IF reply["fast"] = "fresh"
         THEN /\ target' = "local" /\ work' = "" /\ publicSet' = FALSE
              /\ Touch({"public"})
              /\ Goto("fast", "idle")
         ELSE /\ target' = "public" /\ UNCHANGED <<work, aged, publicSet>>
              /\ Goto("fast", "watchdog")
    /\ UNCHANGED <<npVars, debounced, ctlVars, locVars>>

(* checkPublicStallWatchdog: the four reasons to escalate, in their order.   *)
WorkStuck   == "work" \in aged
StatusStuck == work = "" /\ status # "synced" /\ "status" \in aged
PublicStuck == work = "" /\ publicSet /\ "public" \in aged
BeatStale   == work = "" /\ "beat" \in aged

Escalates ==
    /\ status \notin {"resyncing", "stopped"}
    /\ WorkStuck \/ StatusStuck \/ PublicStuck \/ BeatStale

FastWatchdog ==
    /\ At("fast", "watchdog")
    /\ publicSet' = TRUE
    /\ UNCHANGED <<status, target, work>>
    /\ IF Escalates
         THEN Goto("fast", "fguard") /\ Touch({"public"})
         ELSE Goto("fast", "spawn") /\ UNCHANGED aged
    /\ UNCHANGED <<npVars, debounced, ctlVars, locVars>>

(* maybeResyncIfTooFarBehind, only while catching up and once a minute.      *)
FastSpawn ==
    /\ At("fast", "spawn")
    /\ \/ /\ reply["fast"] = "catching" /\ "lag" \in Routines
          /\ \E l \in Lags :
               /\ pc[l] = "idle"
               /\ pc' = [pc EXCEPT !["fast"] = "idle", ![l] = "check"]
       \/ Goto("fast", "idle")
    /\ UNCHANGED <<npVars, appVars, hmVars, ctlVars, locVars>>

(* lagResyncCheck: within the threshold (or no public height), or too far.   *)
LagNear(l) ==
    /\ At(l, "check")
    /\ Goto(l, "idle")
    /\ UNCHANGED <<npVars, appVars, hmVars, ctlVars, locVars>>

LagFar(l) ==
    /\ At(l, "check")
    /\ status # "resyncing" /\ ~debounced
    /\ debounced' = TRUE
    /\ Goto(l, "rguard")
    /\ UNCHANGED <<npVars, appVars, publicSet, ctlVars, locVars>>

(* Slow loop: skip unless a node runs in a settled state, then the range.    *)
SlowTick ==
    /\ At("slow", "idle") /\ MuFree
    /\ IF ctxDone THEN Goto("slow", "off")
       ELSE /\ running /\ status \notin {"stopped", "resyncing", "starting"}
            /\ Goto("slow", "poll")
    /\ UNCHANGED <<npVars, appVars, hmVars, ctlVars, locVars>>

SlowPoll ==
    /\ At("slow", "poll")
    /\ \/ Goto("slow", "idle")
       \/ alive # {} /\ Goto("slow", "rguard")
    /\ UNCHANGED <<npVars, appVars, hmVars, ctlVars, locVars>>

-----------------------------------------------------------------------------
(* performResync, run by the slow loop or by a lag check.                    *)
ResyncGuard(t) ==
    /\ At(t, "rguard")
    /\ Goto(t, IF status = "resyncing" THEN "idle" ELSE "rset")
    /\ UNCHANGED <<npVars, appVars, hmVars, ctlVars, locVars>>

ResyncMark(t) ==
    /\ At(t, "rset")
    /\ Set("resyncing", work)
    /\ Goto(t, "rpublic")
    /\ UNCHANGED <<npVars, target, hmVars, ctlVars, locVars>>

ResyncPublic(t) ==
    /\ At(t, "rpublic")
    /\ target' = "public"
    /\ Set(status, "resync")
    /\ Goto(t, "rstop")
    /\ UNCHANGED <<npVars, hmVars, ctlVars, locVars>>

ResyncStop(t) ==
    /\ At(t, "rstop") /\ MuFree
    /\ \/ StopBegin(t) /\ Goto(t, "rstopping")
       \/ ~running /\ Goto(t, "rreset") /\ UNCHANGED npVars
    /\ UNCHANGED <<appVars, hmVars, ctlVars, locVars>>

ResyncStopped(t) ==
    /\ At(t, "rstopping")
    /\ StopEnd(t)
    /\ Goto(t, "rreset")
    /\ UNCHANGED <<appVars, hmVars, ctlVars, locVars>>

(* The config fetch never fails (the cached one is kept); then UnsafeResetAll *)
(* runs as a process of its own.                                             *)
ResyncReset(t) ==
    /\ At(t, "rreset")
    /\ work' = "resync" /\ UNCHANGED <<status, target>> /\ Touch({"work"})
    /\ Goto(t, "rwiping")
    /\ UNCHANGED <<npVars, hmVars, ctlVars, locVars>>

(* UnsafeResetAll, then ReInitConfigs, succeed or end the resync half-way.   *)
ResyncWork(t, from, to) ==
    /\ At(t, from)
    /\ \/ /\ installed
          /\ Goto(t, to)
          /\ work' = "resync" /\ UNCHANGED <<status, target, aborted>>
          /\ Touch({"work"})
       \/ /\ Goto(t, "rfailed")
          /\ aborted' = TRUE
          /\ Set(status, "failed") /\ UNCHANGED target
    /\ UNCHANGED <<npVars, hmVars, cooldown, installed, relaunched, ctxDone,
                   elapsed, locVars>>

(* Mutant: the restart does not look whether the doctor was faster.          *)
RestartBlindly(t) ==
    /\ At(t, "rstart") /\ MuFree
    /\ cmd' = Unstarted /\ running' = FALSE /\ Goto(t, "rerror")
    /\ UNCHANGED <<holder, waiting, alive, started, pidFile, killed, killing,
                   adopted, booted, deaths>>
    /\ UNCHANGED <<appVars, hmVars, ctlVars, locVars>>

ResyncWiped(t) == ResyncWork(t, "rwiping", "rconfig")
ResyncConfigured(t) == ResyncWork(t, "rconfig", "rstart")

(* Mutant: a failed restart is reported, the status left as it is.           *)
ErrorUnreported(t) ==
    /\ At(t, "rerror")
    /\ Set(status, "failed")
    /\ Goto(t, "rfailed")
    /\ UNCHANGED <<npVars, target, hmVars, ctlVars, locVars>>

ResyncStart(t) ==
    /\ At(t, "rstart") /\ MuFree
    /\ \/ installed /\ Start(t) /\ Goto(t, "rsyncing")
       \/ StartFails(t) /\ Goto(t, "rerror")
       \/ running /\ Goto(t, "rerror") /\ UNCHANGED npVars
    /\ UNCHANGED <<appVars, hmVars, ctlVars, locVars>>

ResyncError(t) ==
    /\ At(t, "rerror")
    /\ Set("error", "failed")
    /\ Goto(t, "rfailed")
    /\ UNCHANGED <<npVars, target, hmVars, ctlVars, locVars>>

ResyncFailed(t) ==
    /\ At(t, "rfailed")
    /\ Set(status, "")
    /\ Goto(t, "idle")
    /\ UNCHANGED <<npVars, target, hmVars, ctlVars, locVars>>

ResyncDone(t) ==
    /\ At(t, "rsyncing")
    /\ Set("syncing", "syncing")
    /\ Goto(t, "idle")
    /\ UNCHANGED <<npVars, target, hmVars, ctlVars, locVars>>

ResyncStep(t) ==
    \/ ResyncGuard(t) \/ ResyncMark(t) \/ ResyncPublic(t) \/ ResyncStop(t)
    \/ ResyncStopped(t) \/ ResyncReset(t) \/ ResyncWiped(t)
    \/ ResyncConfigured(t) \/ ResyncStart(t) \/ ResyncError(t)
    \/ ResyncFailed(t) \/ ResyncDone(t)

-----------------------------------------------------------------------------
(* ForceReInitNode, run by the watchdog in the fast loop or by the UI.       *)
ReinitReturn(t) == Goto(t, IF t = "fast" THEN "spawn" ELSE "idle")

Busy ==
    \/ work # "" /\ "work" \notin aged
    \/ status \in {"resyncing", "starting"} /\ "status" \notin aged

ReinitGuard(t) ==
    /\ At(t, "fguard")
    /\ IF cooldown \/ Busy THEN ReinitReturn(t) ELSE Goto(t, "fclaim")
    /\ UNCHANGED <<npVars, appVars, hmVars, ctlVars, locVars>>

ReinitClaim(t) ==
    /\ At(t, "fclaim")
    /\ cooldown' = TRUE
    /\ Goto(t, "fstop")
    /\ UNCHANGED <<npVars, appVars, hmVars, installed, relaunched, aborted,
                   ctxDone, elapsed, locVars>>

ReinitMark(t) ==
    /\ At(t, "fstop") /\ MuFree
    /\ IF running
         THEN Set("stopped", work) /\ Goto(t, "fhalt")
         ELSE UNCHANGED <<status, work, aged>> /\ Goto(t, "fwipe")
    /\ UNCHANGED <<npVars, target, hmVars, ctlVars, locVars>>

ReinitStop(t) ==
    /\ At(t, "fhalt") /\ MuFree
    /\ \/ StopBegin(t) /\ Goto(t, "fhalting")
       \/ ~running /\ Goto(t, "fwipe") /\ UNCHANGED npVars
    /\ UNCHANGED <<appVars, hmVars, ctlVars, locVars>>

ReinitStopped(t) ==
    /\ At(t, "fhalting")
    /\ StopEnd(t)
    /\ Goto(t, "fwipe")
    /\ UNCHANGED <<appVars, hmVars, ctlVars, locVars>>

(* The node directory, the binary, the cached config and the instance file   *)
(* are removed and setupNode is launched again; its download takes it out of *)
(* this module, whose goroutines run on.                                     *)
ReinitWipe(t) ==
    /\ At(t, "fwipe")
    /\ ReinitReturn(t)
    /\ \/ installed' = FALSE /\ relaunched' = TRUE
       \/ UNCHANGED <<installed, relaunched>>
    /\ UNCHANGED <<npVars, appVars, hmVars, cooldown, aborted, ctxDone,
                   elapsed, locVars>>

ReinitStep(t) ==
    \/ ReinitGuard(t) \/ ReinitClaim(t) \/ ReinitMark(t) \/ ReinitStop(t) \/ ReinitStopped(t)
    \/ ReinitWipe(t)

(* The UI: GetNodeSnapshot polls first (quickNodeCheck), or the button.      *)
UiPoll ==
    /\ At("ui", "idle")
    /\ \E a \in {"catching", "fresh"} :
         /\ CanAnswer(a)
         /\ reply' = [reply EXCEPT !["ui"] = a]
    /\ Goto("ui", "update")
    /\ UNCHANGED <<npVars, appVars, hmVars, ctlVars, tracked, attempt>>

UiUpdate ==
    /\ At("ui", "update")
    /\ Set(IF reply["ui"] = "fresh" THEN "synced" ELSE "syncing", work)
    /\ Goto("ui", "route")
    /\ UNCHANGED <<npVars, target, hmVars, ctlVars, locVars>>

UiRoute ==
    /\ At("ui", "route")
    /\ target' = IF reply["ui"] = "fresh" THEN "local" ELSE "public"
    /\ reply' = [reply EXCEPT !["ui"] = "err"]
    /\ Goto("ui", "idle")
    /\ UNCHANGED <<npVars, status, work, aged, hmVars, ctlVars, tracked, attempt>>

UiReinit ==
    /\ At("ui", "idle")
    /\ Goto("ui", "fguard")
    /\ UNCHANGED <<npVars, appVars, hmVars, ctlVars, locVars>>

-----------------------------------------------------------------------------
(* shutdown: stop the node, cancel the routines, wait for them 30 s at most. *)
ShutdownMark ==
    /\ At("shutdown", "idle")
    /\ Set("stopped", work)
    /\ Goto("shutdown", "xstop")
    /\ UNCHANGED <<npVars, target, hmVars, ctlVars, locVars>>

ShutdownChoose ==
    /\ At("shutdown", "xstop") /\ MuFree
    /\ Goto("shutdown", IF running THEN "xhalt" ELSE "xkill")
    /\ UNCHANGED <<npVars, appVars, hmVars, ctlVars, locVars>>

ShutdownStop ==
    /\ At("shutdown", "xhalt") /\ MuFree
    /\ \/ StopBegin("shutdown") /\ Goto("shutdown", "xhalting")
       \/ ~running /\ Goto("shutdown", "xcancel") /\ UNCHANGED npVars
    /\ UNCHANGED <<appVars, hmVars, ctlVars, locVars>>

ShutdownStopped ==
    /\ At("shutdown", "xhalting")
    /\ StopEnd("shutdown")
    /\ Goto("shutdown", "xcancel")
    /\ UNCHANGED <<appVars, hmVars, ctlVars, locVars>>

ShutdownKill ==
    /\ At("shutdown", "xkill")
    /\ \/ KillByPIDFile("shutdown") /\ Goto("shutdown", "xkilling")
       \/ pidFile = None /\ Goto("shutdown", "xcancel") /\ UNCHANGED npVars
    /\ UNCHANGED <<appVars, hmVars, ctlVars, locVars>>

ShutdownKilled ==
    /\ At("shutdown", "xkilling")
    /\ KillOrphanEnd \/ (killing = None /\ UNCHANGED npVars)
    /\ Goto("shutdown", "xcancel")
    /\ UNCHANGED <<appVars, hmVars, ctlVars, locVars>>

(* Mutant: the wait for the routines has no timeout.                         *)
WaitForRoutines ==
    /\ At("shutdown", "xwait")
    /\ \A t \in {"doctor", "fast", "slow"} : pc[t] = "off"
    /\ Goto("shutdown", "done")
    /\ UNCHANGED <<npVars, appVars, hmVars, ctlVars, locVars>>

ShutdownCancel ==
    /\ At("shutdown", "xcancel")
    /\ ctxDone' = TRUE
    /\ Goto("shutdown", "xwait")
    /\ UNCHANGED <<npVars, appVars, hmVars, cooldown, installed, relaunched,
                   aborted, elapsed, locVars>>

ShutdownWait ==
    /\ At("shutdown", "xwait")
    /\ Goto("shutdown", "done")
    /\ UNCHANGED <<npVars, appVars, hmVars, ctlVars, locVars>>

ShutdownStep ==
    \/ ShutdownMark \/ ShutdownChoose \/ ShutdownStop \/ ShutdownStopped
    \/ ShutdownKill \/ ShutdownKilled \/ ShutdownCancel \/ ShutdownWait

-----------------------------------------------------------------------------
(* Three minutes pass (the heartbeat is old, the cooldown over), or ten (all *)
(* timers that run are past their threshold, the debounce over).             *)
Elapse ==
    /\ elapsed < MaxElapses /\ elapsed' = elapsed + 1
    /\ cooldown' = FALSE
    /\ \/ aged' = aged \cup {"beat"} /\ UNCHANGED debounced
       \/ /\ aged' = {"status", "beat"} \cup {x \in {"work"} : work # ""}
                       \cup {x \in {"public"} : publicSet}
          /\ debounced' = FALSE
    /\ UNCHANGED <<npVars, status, target, work, publicSet, installed,
                   relaunched, aborted, ctxDone, locVars, pc>>

(* The node exits by itself or on a signal.                                  *)
NodeExits ==
    /\ \E p \in Pids : ProcExit(p)
    /\ UNCHANGED <<appVars, hmVars, ctlVars, locVars, pc>>

(* The Hub dies, or ends after shutdown; the next session starts from scratch. *)
NextSession ==
    /\ HubDies
    /\ status' = "not_started" /\ target' = "public" /\ work' = "setup"
    /\ aged' = {} /\ publicSet' = TRUE /\ debounced' = FALSE
    /\ cooldown' = FALSE /\ installed' = TRUE
    /\ relaunched' = FALSE /\ aborted' = FALSE /\ ctxDone' = FALSE
    /\ pc' = [t \in Threads |->
                IF t = "setup" THEN "boot"
                ELSE IF t \in {"doctor", "fast", "slow"} THEN "off" ELSE "idle"]
    /\ UNCHANGED <<locVars, elapsed>>

SetupStep == SetupCleanup \/ SetupStart \/ SetupFailed \/ SetupLaunch

FastStep ==
    \/ FastTick \/ FastPoll \/ FastUnreachable \/ FastUpdate \/ FastRoute
    \/ FastWatchdog \/ FastSpawn
    \/ ReinitStep("fast")

SlowStep == SlowTick \/ SlowPoll \/ ResyncStep("slow")
LagStep(l) == LagNear(l) \/ LagFar(l) \/ ResyncStep(l)
UiStep == UiPoll \/ UiUpdate \/ UiRoute \/ UiReinit \/ ReinitStep("ui")

Step(t) ==
    \/ t = "setup" /\ SetupStep
    \/ t = "doctor" /\ DoctorStep
    \/ t = "fast" /\ t \in Routines /\ FastStep
    \/ t = "slow" /\ t \in Routines /\ SlowStep
    \/ t \in Lags /\ "lag" \in Routines /\ LagStep(t)
    \/ t = "ui" /\ t \in Routines /\ UiStep
    \/ t = "shutdown" /\ t \in Routines /\ ShutdownStep

LNext ==
    \/ \E t \in Threads : Step(t)
    \/ Elapse \/ NodeExits \/ NextSession

LSpec == LInit /\ [][LNext]_vars

(* Every goroutine that can take a step eventually does: the Go scheduler    *)
(* runs every runnable goroutine, a delay or a timeout ends, and an HTTP     *)
(* request of the poll returns after 3 s at the latest.  UnsafeResetAll is    *)
(* waited for without a timeout and may hang; the UI need not call, the user *)
(* need not quit and the node need not exit.                                 *)
Wiping(t) == pc[t] = "rwiping"
Fairness ==
    /\ WF_vars(SetupStep) /\ WF_vars(DoctorStep) /\ WF_vars(Step("fast"))
    /\ \A t \in Resetters : WF_vars(~Wiping(t) /\ Step(t))
    /\ WF_vars(ReinitStep("ui") /\ "ui" \in Routines)
    /\ WF_vars(pc["shutdown"] # "idle" /\ Step("shutdown"))

LFairSpec == LSpec /\ Fairness

-----------------------------------------------------------------------------
InResync(t) == pc[t] \in ResyncSteps

(* The status "resyncing", in which the doctor, the slow loop and the        *)
(* watchdog all stand back, is never left behind by nobody: a performResync  *)
(* is under way, or one gave up half-way.                                    *)
OwnerSteps == ResyncSteps \ {"rset", "rfailed"}
ResyncingIsOwned ==
    status = "resyncing" => aborted \/ \E t \in Resetters : pc[t] \in OwnerSteps

(* An exit of the tracked node is noticed and answered: the doctor leaves    *)
(* its wait, and then restarts the node or exhausts its attempts, unless a   *)
(* resync or a re-init has taken the node over or the Hub is shutting down.  *)
(* (ResyncingIsOwned says who answers for resyncing; a wait that Stop has    *)
(* hung is the matter of WaitEndsWithNode.)                                  *)
Exited == pc["doctor"] = "waiting" /\ waiting["doctor"] \notin alive
Answered == pc["doctor"] \in {"settle", "gaveup", "off"}
               \/ status \in {"stopped", "resyncing"}
               \/ waiting["doctor"] = Hung
               \/ pc["shutdown"] # "idle" \/ ~booted
CrashIsAnswered == Exited ~> Answered

(* performResync always comes to an end, whoever else holds the process mutex *)
(* and whatever fails on the way, unless the Hub itself ends first; all it    *)
(* relies on is that UnsafeResetAll returns.                                 *)
ResyncEnds ==
    \A t \in Resetters :
      []<>~Wiping(t) =>
        (InResync(t) ~> (~InResync(t) \/ pc["shutdown"] = "done"))

(* A tracked node that keeps the Hub on public endpoints for ten minutes, be  *)
(* it stuck in discovery or deaf to its polls, is noticed by the watchdog,    *)
(* which calls ForceReInitNode ("will eventually be caught by the 10-minute  *)
(* public-stall watchdog", 02-node-manager.md:284): unless some work is in    *)
(* progress, or its status is one of those in which health.go:157 and :304   *)
(* stand back.                                                               *)
Stalled ==
    /\ running /\ publicSet /\ work = ""
    /\ status \notin {"resyncing", "stopped", "starting"}
StallIsEscalated ==
    (Stalled /\ "public" \in aged) ~> (pc["fast"] \in ReinitSteps \/ ~Stalled)

(* Quitting the Hub always comes to an end.                                  *)
ShutdownEnds == pc["shutdown"] # "idle" ~> pc["shutdown"] = "done" \/ ~booted

-----------------------------------------------------------------------------
(* What comments and documents claim of this code (runs that refute them).   *)

(* "The node must be stopped first" (lifecycle.go:152): no node runs while   *)
(* UnsafeResetAll deletes its data.                                          *)
ResetOnlyWhenStopped ==
    alive # {} => \A t \in Resetters : pc[t] # "rwiping"

(* "WaitForExit blocks until the node process exits" (lifecycle.go:110): the  *)
(* doctor leaves its wait once the process is gone.                          *)
WaitEndsWithNode == Exited ~> pc["doctor"] # "waiting"

(* A stale doctor heartbeat means the doctor routine is dead (health.go:296, *)
(* health.go:339): a doctor that is waiting for a live node is not.          *)
DoctorServes == pc["doctor"] = "waiting" /\ waiting["doctor"] \in alive
StaleBeatMeansDead ==
    [][(pc["fast"] = "watchdog" /\ pc'["fast"] = "fguard" /\ DoctorServes) =>
          WorkStuck \/ StatusStuck \/ PublicStuck]_vars

(* "Stop node process if we own it" (app.go:205): no node started by this    *)
(* session survives a finished shutdown.                                     *)
ShutdownStopsNode ==
    pc["shutdown"] = "done" => \A p \in alive : p = adopted \/ killed

(* "stuck for ~10 minutes ... the health monitor escalates to                *)
(* ForceReInitNode" (02-node-manager.md:322): ten minutes of resyncing with    *)
(* nobody at work on it are ended by somebody.                               *)
StuckIsEscalated ==
    (status = "resyncing" /\ "status" \in aged /\ work = "")
       ~> (status # "resyncing" \/ relaunched \/ \E t \in Resetters : InResync(t))
=============================================================================
