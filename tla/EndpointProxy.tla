--------------------------- MODULE EndpointProxy ---------------------------
(***************************************************************************)
(* One of the two reverse proxies (internal/proxy/proxy.go): each request    *)
(* goes to the local node when its status is synced and the circuit breaker  *)
(* lets it, and to the public endpoint otherwise or when the local attempt   *)
(* failed.  Every request is a goroutine; the breaker is shared by all.      *)
(*                                                                         *)
(* The local node, the public endpoint and the clients are the environment.  *)
(* What net/http's ReverseProxy does with a request (it closes the request   *)
(* body when it returns; it pipes an upgraded connection until one side or   *)
(* the request's context ends) is modelled from how the code calls it.       *)
(***************************************************************************)
EXTENDS Integers, FiniteSets

CONSTANTS
    Requests,      \* slots for requests under way at the same time
    Kinds,         \* what clients send: "query", "broadcast", "upgrade"
    Threshold      \* circuitBreaker.threshold

ASSUME ProxyAssumption ==
    /\ Kinds \subseteq {"query", "broadcast", "upgrade"}
    /\ Threshold \in Nat \ {0}

VARIABLES
    synced,        \* AppState.nodeStatus is synced, as the health loops see it
    node,          \* the local node: "up", "slow" (past the timeout) or "down"
    serving,       \* the server listens
    failCount,     \* circuitBreaker.failCount, which counts up to threshold here
    cooling,       \* circuitBreaker.unsafeUntil lies ahead
    stage,         \* per request, where its handler is
    kind,          \* per request, what it is
    tried,         \* per request, an attempt at the local node was made
    broken,        \* per request, the local error to record is unrecoverable
    gone,          \* per request, the client left
    reached        \* per request, the endpoints that received its body

proxyVars == <<synced, node, serving, failCount, cooling, stage, kind, tried,
               broken, gone, reached>>

(* A slot is free before its request comes and after it was answered, with a *)
(* 502 or otherwise, or broken off.                                          *)
Free(r) == stage[r] = "free"
Stages == {"free", "local", "pipe", "credit", "blame", "public", "pubpipe"}

PTypeOK ==
    /\ synced \in BOOLEAN /\ serving \in BOOLEAN /\ cooling \in BOOLEAN
    /\ node \in {"up", "slow", "down"}
    /\ failCount \in 0..Threshold
    /\ stage \in [Requests -> Stages]
    /\ kind \in [Requests -> Kinds]
    /\ tried \in [Requests -> BOOLEAN]
    /\ broken \in [Requests -> BOOLEAN]
    /\ gone \in [Requests -> BOOLEAN]
    /\ reached \in [Requests -> SUBSET {"local", "public"}]

PInit ==
    /\ synced = FALSE
    /\ node = "down"
    /\ serving = TRUE
    /\ failCount = 0
    /\ cooling = FALSE
    /\ stage = [r \in Requests |-> "free"]
    /\ kind \in [Requests -> Kinds]
    /\ tried = [r \in Requests |-> FALSE]
    /\ broken = [r \in Requests |-> FALSE]
    /\ gone = [r \in Requests |-> FALSE]
    /\ reached = [r \in Requests |-> {}]

-----------------------------------------------------------------------------
Tripped == failCount >= Threshold
(* Mutant: a tripped breaker lets no request through, not even to probe.     *)
NeverProbes == ~Tripped

IsLocalSafe == ~Tripped \/ ~cooling

Move(r, to) == stage' = [stage EXCEPT ![r] = to]

(* The endpoint received the body of a broadcast.                            *)
Deliver(r, endpoint) ==
    reached' = IF kind[r] = "broadcast"
                 THEN [reached EXCEPT ![r] = @ \cup {endpoint}] ELSE reached

(* ServeHTTP, the routing decision.                                          *)
Arrive(r, k) ==
    /\ serving
    /\ Free(r)
    /\ LET useLocal == synced /\ IsLocalSafe IN
         /\ Move(r, IF useLocal THEN "local" ELSE "public")
         /\ tried' = [tried EXCEPT ![r] = useLocal]
    /\ kind' = [kind EXCEPT ![r] = k]
    /\ gone' = [gone EXCEPT ![r] = FALSE]
    /\ reached' = [reached EXCEPT ![r] = {}]
    /\ UNCHANGED <<synced, node, serving, failCount, cooling, broken>>

(* forwardWithTimeout: the local node answers, in time.                      *)
LocalAnswers(r) ==
    /\ stage[r] = "local"
    /\ node # "down"
    /\ Move(r, IF kind[r] = "upgrade" THEN "pipe" ELSE "credit")
    /\ Deliver(r, "local")
    /\ UNCHANGED <<synced, node, serving, failCount, cooling, kind, tried,
                   broken, gone>>

(* forwardWithTimeout: the timeout, which is recoverable unless the dial     *)
(* itself timed out, or an error of the connection: unrecoverable when it is *)
(* a net.OpError (refused, reset) but not when the connection just ends      *)
(* (EOF).  The node may have got the body all the same.                      *)
LocalErrs(r) ==
    /\ stage[r] = "local"
    /\ node # "up"
    /\ Move(r, "blame")
    /\ \E opError \in BOOLEAN :
         broken' = [broken EXCEPT ![r] = opError]
    /\ Deliver(r, "local") \/ UNCHANGED reached
    /\ UNCHANGED <<synced, node, serving, failCount, cooling, kind, tried, gone>>

(* The answer breaks off after its header: ReverseProxy aborts the handler,  *)
(* past both recordSuccess and recordFailure.                                *)
LocalBreaksOff(r) ==
    /\ stage[r] = "local"
    /\ node # "up" /\ kind[r] # "upgrade"
    /\ Move(r, "free")
    /\ Deliver(r, "local")
    /\ UNCHANGED <<synced, node, serving, failCount, cooling, kind, tried,
                   broken, gone>>

(* The request's context ends with its client, at whatever stage.  A local   *)
(* attempt then fails like on a timeout.                                     *)
ClientLeaves(r) ==
    /\ ~Free(r) /\ ~gone[r]
    /\ Move(r, CASE stage[r] \in {"local", "blame"} -> "blame"
                 [] stage[r] \in {"pipe", "credit"} -> "credit"
                 [] OTHER -> "free")
    /\ gone' = [gone EXCEPT ![r] = TRUE]
    /\ UNCHANGED <<synced, node, serving, failCount, cooling, kind, tried,
                   broken, reached>>

(* A local pipe lives in the context with the timeout: it ends with that, if *)
(* the node does not end it before, and counts as a success.                 *)
PipeEnds(r) ==
    /\ stage[r] = "pipe"
    /\ Move(r, "credit")
    /\ UNCHANGED <<synced, node, serving, failCount, cooling, kind, tried,
                   broken, gone, reached>>

(* recordSuccess                                                            *)
Credit(r) ==
    /\ stage[r] = "credit"
    /\ failCount' = 0
    /\ Move(r, "free")
    /\ UNCHANGED <<synced, node, serving, cooling, kind, tried, broken, gone,
                   reached>>

(* Mutant: an unrecoverable error adds a whole threshold to the count.        *)
BlameAdds(r) ==
    /\ stage[r] = "blame"
    /\ failCount' = IF broken[r] THEN failCount + Threshold
                    ELSE IF Tripped THEN failCount ELSE failCount + 1
    /\ cooling' = (cooling \/ failCount' >= Threshold)
    /\ Move(r, "public")
    /\ broken' = [broken EXCEPT ![r] = FALSE]
    /\ UNCHANGED <<synced, node, serving, kind, tried, gone, reached>>

(* recordFailure, then the fallback.                                        *)
Blame(r) ==
    /\ stage[r] = "blame"
    /\ failCount' = IF broken[r] \/ Tripped THEN Threshold ELSE failCount + 1
    /\ cooling' = (cooling \/ failCount' >= Threshold)
    /\ Move(r, "public")
    /\ broken' = [broken EXCEPT ![r] = FALSE]
    /\ UNCHANGED <<synced, node, serving, kind, tried, gone, reached>>

(* Mutant: the body is buffered for the fallback.                            *)
BodyBuffered(r) == kind[r] \in Kinds

(* forwardTo: a body that was sent to the local node is closed by now.       *)
HasBody(r) == kind[r] # "broadcast" \/ ~tried[r]

PublicAnswers(r) ==
    /\ stage[r] = "public"
    /\ ~gone[r] /\ HasBody(r)
    /\ Move(r, IF kind[r] = "upgrade" THEN "pubpipe" ELSE "free")
    /\ Deliver(r, "public")
    /\ UNCHANGED <<synced, node, serving, failCount, cooling, kind, tried,
                   broken, gone>>

(* The public endpoint, or the connection to it, fails: 502.                 *)
PublicFails(r) ==
    /\ stage[r] = "public"
    /\ Move(r, "free")
    /\ \/ HasBody(r) /\ Deliver(r, "public")
       \/ UNCHANGED reached
    /\ UNCHANGED <<synced, node, serving, failCount, cooling, kind, tried,
                   broken, gone>>

(* The public endpoint closes an upgraded connection, which it need not do.  *)
PublicCloses(r) ==
    /\ stage[r] = "pubpipe"
    /\ Move(r, "free")
    /\ UNCHANGED <<synced, node, serving, failCount, cooling, kind, tried,
                   broken, gone, reached>>

(* The cooldown passes.                                                     *)
CooldownEnds ==
    /\ cooling
    /\ cooling' = FALSE
    /\ UNCHANGED <<synced, node, serving, failCount, stage, kind, tried, broken,
                   gone, reached>>

(* The node and what the health loops say of it change at any time.          *)
NodeChanges ==
    /\ \/ node' \in {"up", "slow", "down"} \ {node} /\ UNCHANGED synced
       \/ synced' = ~synced /\ UNCHANGED node
    /\ UNCHANGED <<serving, failCount, cooling, stage, kind, tried, broken, gone,
                   reached>>

(* Stop: no new requests; those under way go on.                             *)
ProxyStop ==
    /\ serving
    /\ serving' = FALSE
    /\ UNCHANGED <<synced, node, failCount, cooling, stage, kind, tried, broken,
                   gone, reached>>

Handle(r) ==
    \/ LocalAnswers(r) \/ LocalErrs(r) \/ LocalBreaksOff(r) \/ PipeEnds(r)
    \/ Credit(r) \/ Blame(r) \/ PublicAnswers(r) \/ PublicFails(r)

PNext ==
    \/ \E r \in Requests :
         \/ \E k \in Kinds : Arrive(r, k)
         \/ ClientLeaves(r)
         \/ Handle(r) \/ PublicCloses(r)
    \/ CooldownEnds \/ NodeChanges \/ ProxyStop

PSpec == PInit /\ [][PNext]_proxyVars

(* A handler goes on until its request has ended: the timeout ends a local   *)
(* attempt, the client's timeout (10 s, 30 s for a broadcast) a public one,  *)
(* and the clock ends a cooldown.  Clients keep asking (the dashboard polls) *)
(* and a node that is up answers them now and then.                          *)
PFairness ==
    /\ \A r \in Requests : WF_proxyVars(Handle(r))
    /\ WF_proxyVars(CooldownEnds)
    /\ WF_proxyVars(\E r \in Requests, k \in Kinds : Arrive(r, k))
    /\ SF_proxyVars(\E r \in Requests : node = "up" /\ LocalAnswers(r))

PFairSpec == PSpec /\ PFairness

-----------------------------------------------------------------------------
(* A transaction reaches one of the two endpoints at most: a broadcast whose *)
(* local attempt timed out, and may have been accepted, is never sent again. *)
NoDoubleBroadcast == \A r \in Requests : Cardinality(reached[r]) <= 1

(* Connections piped to the public endpoint hold every slot, so that no      *)
(* request can be made: nothing probes the local node then.                  *)
NobodyAsks == \A r \in Requests : stage[r] = "pubpipe"

(* A tripped breaker does not outlive its cause: it closes once the node is  *)
(* up and synced, although late failures of older requests may renew the     *)
(* cooldown.                                                                 *)
BreakerHeals ==
    Tripped ~> (~Tripped \/ node # "up" \/ ~synced \/ ~serving \/ NobodyAsks)
=============================================================================
