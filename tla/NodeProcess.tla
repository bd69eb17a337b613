---------------------------- MODULE NodeProcess ----------------------------
(***************************************************************************)
(* The manager of the bzed child process (internal/node/lifecycle.go): a    *)
(* mutex around running, process and cmd, the PID file in the config        *)
(* directory, and the operating system's processes.  Several goroutines     *)
(* call it concurrently: the doctor waits and starts, performResync stops   *)
(* and starts, shutdown and ForceReInitNode stop.  The Hub itself may die   *)
(* at any step; the next session finds the node through the PID file.       *)
(*                                                                         *)
(* A pid is the number of the start that created it, so pids never repeat.  *)
(* process and running are set and cleared together in the source, as are   *)
(* cmd and process once a start succeeded: cmd alone is kept.               *)
(***************************************************************************)
EXTENDS Integers, FiniteSets

CONSTANTS
    Starters,    \* goroutines that start a node only for lack of an adopted one
    Resetters,   \* goroutines running performResync: Start whatever was adopted
    Stoppers,    \* goroutines that call Stop
    Waiters,     \* goroutines that call WaitForExit (the doctor)
    NoThread,    \* nobody holds the mutex
    MaxStarts,   \* bound: processes ever started
    MaxDeaths    \* bound: times the Hub dies

Threads == Starters \cup Resetters \cup Stoppers \cup Waiters

ASSUME BoundsAssumption == MaxStarts \in Nat /\ MaxDeaths \in Nat
ASSUME ThreadsAssumption == NoThread \notin Threads

None      == 0      \* a nil cmd, a missing PID file, no orphan, not waiting
Unstarted == -1     \* exec.Cmd whose Start failed: cmd is set, running is not
Hung      == -2     \* a WaitForExit that never returns (see StopEnd)

Pids == 1..MaxStarts

VARIABLES
    running,    \* NodeProcess.running
    cmd,        \* NodeProcess.cmd: None, Unstarted or the pid it runs
    holder,     \* the goroutine inside Stop, which holds mu while it waits
    waiting,    \* per goroutine, the process its WaitForExit waits for
    alive,      \* live bzed processes of this node home
    started,    \* how many processes were ever started
    pidFile,    \* content of node.pid
    killed,     \* KillNodeByPIDFile was called in some session
    killing,    \* the pid KillOrphanNode signalled and sleeps for
    adopted,    \* the orphan CleanupOrphanNode reported, while node.pid names it
    booted,     \* this session ran CleanupOrphanNode
    deaths      \* how many times the Hub died

npVars == <<running, cmd, holder, waiting, alive, started, pidFile, killed,
            killing, adopted, booted, deaths>>

NPTypeOK ==
    /\ running \in BOOLEAN
    /\ cmd \in Pids \cup {None, Unstarted}
    /\ holder \in Threads \cup {NoThread}
    /\ waiting \in [Threads -> Pids \cup {None, Unstarted, Hung}]
    /\ alive \in SUBSET Pids
    /\ started \in 0..MaxStarts
    /\ pidFile \in Pids \cup {None}
    /\ killed \in BOOLEAN
    /\ killing \in Pids \cup {None}
    /\ adopted \in Pids \cup {None}
    /\ booted \in BOOLEAN
    /\ deaths \in 0..MaxDeaths

NPInit ==
    /\ running = FALSE
    /\ cmd = None
    /\ holder = NoThread
    /\ waiting = [t \in Threads |-> None]
    /\ alive = {}
    /\ started = 0
    /\ pidFile = None
    /\ killed = FALSE
    /\ killing = None
    /\ adopted = None
    /\ booted = FALSE
    /\ deaths = 0

(* A goroutine can enter an operation when the session has booted, it is    *)
(* not inside another one, and nobody holds mu.                             *)
MuFree == holder = NoThread
CanCall(t) == booted /\ MuFree /\ waiting[t] = None

(* Mutant: the PID file is removed whether or not its process lives.         *)
CleanupAlwaysRemoves ==
    /\ ~booted
    /\ booted' = TRUE
    /\ adopted' = None /\ pidFile' = None
    /\ UNCHANGED <<running, cmd, holder, waiting, alive, started, killed,
                   killing, deaths>>

-----------------------------------------------------------------------------
(* CleanupOrphanNode: a PID file naming a live process is adopted and kept,  *)
(* a stale one is removed.                                                   *)
CleanupOrphanNode ==
    /\ ~booted
    /\ booted' = TRUE
    /\ IF pidFile \in alive
         THEN adopted' = pidFile /\ UNCHANGED pidFile
         ELSE adopted' = None /\ pidFile' = None
    /\ UNCHANGED <<running, cmd, holder, waiting, alive, started, killed,
                   killing, deaths>>

(* Mutant: no PID file is written.                                           *)
StartWithoutPidFile(t) ==
    /\ CanCall(t)
    /\ t \in Resetters \/ (t \in Starters /\ adopted = None)
    /\ ~running
    /\ started < MaxStarts
    /\ started' = started + 1
    /\ cmd' = started + 1
    /\ running' = TRUE
    /\ alive' = alive \cup {started + 1}
    /\ adopted' = None
    /\ UNCHANGED <<holder, waiting, pidFile, killed, killing, booted, deaths>>

(* Start: refused while running; otherwise the child is spawned and the PID  *)
(* file written, all under mu.  setupNode starts nothing next to an orphan,  *)
(* and the doctor only restarts what was started; performResync just starts. *)
Start(t) ==
    /\ CanCall(t)
    /\ t \in Resetters \/ (t \in Starters /\ adopted = None)
    /\ ~running
    /\ started < MaxStarts
    /\ started' = started + 1
    /\ cmd' = started + 1
    /\ running' = TRUE
    /\ alive' = alive \cup {started + 1}
    /\ pidFile' = started + 1
    /\ adopted' = None
    /\ UNCHANGED <<holder, waiting, killed, killing, booted, deaths>>

(* Mutant: the PID file is written before the error is looked at.            *)
StartFailsLate(t) ==
    /\ CanCall(t)
    /\ t \in Resetters \/ (t \in Starters /\ adopted = None)
    /\ ~running
    /\ cmd' = Unstarted
    /\ pidFile' = Unstarted
    /\ UNCHANGED <<running, holder, waiting, alive, started, killed, killing,
                   adopted, booted, deaths>>

(* exec fails (no binary, no permission): np.cmd stays set, nothing runs.    *)
StartFails(t) ==
    /\ CanCall(t)
    /\ t \in Resetters \/ (t \in Starters /\ adopted = None)
    /\ ~running
    /\ cmd' = Unstarted
    /\ UNCHANGED <<running, holder, waiting, alive, started, pidFile, killed,
                   killing, adopted, booted, deaths>>

(* Stop, first half: SIGTERM is sent and mu stays held for up to 30 s.       *)
StopBegin(t) ==
    /\ t \in Stoppers
    /\ CanCall(t)
    /\ running
    /\ holder' = t
    /\ UNCHANGED <<running, cmd, waiting, alive, started, pidFile, killed,
                   killing, adopted, booted, deaths>>

(* The goroutine in WaitForExit and the one Stop spawns are then both inside *)
(* Wait of the same exec.Cmd, which allows one call only.  Both reap the     *)
(* child, then both receive on the one-message channel of the output         *)
(* copiers, unless the first has cleared the field before the second reads   *)
(* it.  So the late one returns or blocks for ever: here, the waiter.        *)
HungBy(p) == {t \in Waiters : waiting[t] = p}

(* Mutant: no kill after 30 s.                                               *)
StopWithoutKill(t) ==
    /\ holder = t
    /\ t \in Stoppers
    /\ cmd \notin alive
    /\ running' = FALSE
    /\ cmd' = None
    /\ pidFile' = None
    /\ holder' = NoThread
    /\ UNCHANGED <<waiting, alive, started, killed, killing, adopted, booted,
                   deaths>>

(* Stop, second half: the child exited, or it is killed after 30 s.          *)
StopEnd(t) ==
    /\ holder = t
    /\ t \in Stoppers
    /\ alive' = alive \ {cmd}
    /\ running' = FALSE
    /\ cmd' = None
    /\ pidFile' = None
    /\ holder' = NoThread
    /\ \E H \in SUBSET HungBy(cmd) :
         waiting' = [w \in Threads |-> IF w \in H THEN Hung ELSE waiting[w]]
    /\ UNCHANGED <<started, killed, killing, adopted, booted, deaths>>

(* WaitForExit, first half: the cmd is read under mu, the wait is outside.   *)
(* A nil cmd returns at once and is no step here.                            *)
WaitBegin(t) ==
    /\ t \in Waiters
    /\ CanCall(t)
    /\ cmd # None
    /\ waiting' = [waiting EXCEPT ![t] = cmd]
    /\ UNCHANGED <<running, cmd, holder, alive, started, pidFile, killed,
                   killing, adopted, booted, deaths>>

(* Mutant: the second half does not take the mutex.                          *)
WaitEndUnlocked(t) ==
    /\ waiting[t] \in Pids \cup {Unstarted}
    /\ waiting[t] \notin alive
    /\ running' = FALSE
    /\ cmd' = None
    /\ pidFile' = None
    /\ waiting' = [waiting EXCEPT ![t] = None]
    /\ UNCHANGED <<holder, alive, started, killed, killing, adopted, booted,
                   deaths>>

(* WaitForExit, second half: whatever np holds by then is cleared, be it the *)
(* process that was waited for or one started since.                         *)
WaitEnd(t) ==
    /\ waiting[t] \in Pids \cup {Unstarted}
    /\ waiting[t] \notin alive
    /\ MuFree
    /\ running' = FALSE
    /\ cmd' = None
    /\ pidFile' = None
    /\ waiting' = [waiting EXCEPT ![t] = None]
    /\ UNCHANGED <<holder, alive, started, killed, killing, adopted, booted,
                   deaths>>

(* KillNodeByPIDFile: a live process is sent SIGTERM (KillOrphanNode) and    *)
(* the file removed 5 s later, exited or not; a dead one loses its file.     *)
(* Neither takes mu: it may happen while another goroutine is inside Stop.   *)
KillByPIDFile(t) ==
    /\ t \in Stoppers
    /\ booted /\ waiting[t] = None /\ holder # t
    /\ killing = None
    /\ pidFile # None
    /\ killed' = TRUE
    /\ IF pidFile \in alive
         THEN killing' = pidFile /\ UNCHANGED pidFile
         ELSE pidFile' = None /\ UNCHANGED killing
    /\ UNCHANGED <<running, cmd, holder, waiting, alive, started, adopted,
                   booted, deaths>>

KillOrphanEnd ==
    /\ killing # None
    /\ killing' = None
    /\ pidFile' = None
    /\ UNCHANGED <<running, cmd, holder, waiting, alive, started, killed,
                   adopted, booted, deaths>>

(* The child exits: a crash, a panic, a signal taking effect.                *)
ProcExit(p) ==
    /\ p \in alive
    /\ alive' = alive \ {p}
    /\ UNCHANGED <<running, cmd, holder, waiting, started, pidFile, killed,
                   killing, adopted, booted, deaths>>

(* The Hub dies; memory is lost, children and the PID file survive it.       *)
HubDies ==
    /\ booted
    /\ deaths < MaxDeaths
    /\ deaths' = deaths + 1
    /\ booted' = FALSE
    /\ running' = FALSE
    /\ cmd' = None
    /\ holder' = NoThread
    /\ waiting' = [t \in Threads |-> None]
    /\ killing' = None
    /\ adopted' = None
    /\ UNCHANGED <<alive, started, pidFile, killed>>

NPCall(t) ==
    \/ Start(t) \/ StartFails(t)
    \/ StopBegin(t) \/ StopEnd(t)
    \/ WaitBegin(t) \/ WaitEnd(t)
    \/ KillByPIDFile(t)

NPNext ==
    \/ \E t \in Threads : NPCall(t)
    \/ \E p \in Pids : ProcExit(p)
    \/ CleanupOrphanNode
    \/ KillOrphanEnd
    \/ HubDies

NPSpec == NPInit /\ [][NPNext]_npVars

-----------------------------------------------------------------------------
(* A node the Hub believes to be running is a process it really started,     *)
(* and node.pid names it, so that a Hub that dies now leaves a PID file the  *)
(* next session adopts.  Only the shutdown path, which removes the file      *)
(* without looking at running, may break the second half.                    *)
TrackedHasPidFile ==
    running => cmd \in 1..started /\ (killed \/ pidFile = cmd)

(* While one goroutine waits inside Stop, nobody starts, reaps or replaces   *)
(* the process it waits for: Stop never clears a newer process.              *)
StopIsExclusive ==
    [][(holder # NoThread /\ holder' = holder) =>
          UNCHANGED <<running, cmd, started>>]_npVars

(* No node is lost: every live process of this home is the one node.pid      *)
(* names, across crashes of the node and of the Hub.                         *)
NoLostNode == ~killed => alive \subseteq {pidFile}

(* The code keeps that, but for two steps.  One is a WaitForExit that returns *)
(* when np already holds another process and clears that one                 *)
(* (lifecycle.go:123).  The other is a step of a session next to an orphan   *)
(* it adopted: a start that overwrites node.pid, or the reaping of a start   *)
(* that failed, which removes it.                                            *)
LateReap   == \E t \in Threads : waiting[t] # cmd /\ WaitEnd(t)
OverOrphan == /\ adopted \in alive /\ ~running
              /\ \E t \in Threads : Start(t) \/ WaitEnd(t)
KnownLoss  == LateReap \/ OverOrphan

(* Nothing else loses a node: no interleaving of starts, stops, kills, exits *)
(* and crashes of the Hub leaves a live process node.pid does not name.      *)
LossesAreKnown == [][(NoLostNode /\ ~NoLostNode') => KnownLoss]_npVars
=============================================================================
