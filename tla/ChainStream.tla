---------------------------- MODULE ChainStream ----------------------------
(***************************************************************************)
(* The chain event stream (internal/events/stream.go): one goroutine that    *)
(* keeps a WebSocket to the RPC proxy, reconnecting with a backoff that      *)
(* doubles, is capped, and starts over after a connection that was stable.   *)
(* The proxy is that of EndpointProxy, whose only client here is the stream: *)
(* an upgraded connection is a pipe of the proxy, and whatever ends the pipe *)
(* ends the stream's connection.                                            *)
(***************************************************************************)
EXTENDS EndpointProxy

CONSTANT MaxBackoff    \* cap of the backoff, in units of the initial one

ASSUME StreamAssumption == MaxBackoff \in Nat \ {0} /\ Kinds = {"upgrade"}

VARIABLES
    spc,           \* where Run is
    conn,          \* the slot of its latest connection
    closed,        \* slots of connections it closed before the proxy ended them
    backoff,       \* Run's backoff
    long,          \* the connection was dialled stableThreshold ago or earlier
    ctxDone        \* the routine manager's context is cancelled

streamVars == <<spc, conn, closed, backoff, long, ctxDone>>
csVars == <<proxyVars, streamVars>>

Pipes == {"pipe", "pubpipe"}
Connected == spc \in {"handshake", "reading"}

STypeOK ==
    /\ PTypeOK
    /\ spc \in {"dial", "handshake", "reading", "down", "sleep", "stopped"}
    /\ conn \in Requests /\ closed \in SUBSET Requests
    /\ backoff \in 1..MaxBackoff
    /\ long \in BOOLEAN /\ ctxDone \in BOOLEAN

SInit ==
    /\ PInit
    /\ spc = "dial"
    /\ conn \in Requests /\ closed = {}
    /\ backoff = 1
    /\ long = FALSE /\ ctxDone = FALSE

-----------------------------------------------------------------------------
Continue(next) == spc' = IF ctxDone THEN "stopped" ELSE next

(* serve: dial.  The proxy accepts the request, or does not listen any more.  *)
StreamDial ==
    /\ spc = "dial" /\ ~ctxDone
    /\ \E r \in Requests :
         Arrive(r, "upgrade") /\ conn' = r /\ closed' = closed \ {r}
    /\ spc' = "handshake"
    /\ UNCHANGED <<backoff, long, ctxDone>>

StreamRefused ==
    /\ spc = "dial"
    /\ ctxDone \/ ~serving
    /\ Continue("down")
    /\ UNCHANGED <<proxyVars, conn, closed, backoff, long, ctxDone>>

(* The upgrade is answered; both subscriptions are sent.                     *)
StreamOpen ==
    /\ spc = "handshake" /\ stage[conn] \in Pipes
    /\ spc' = "reading"
    /\ UNCHANGED <<proxyVars, conn, closed, backoff, long, ctxDone>>

(* The proxy answers with an error, or the pipe is gone.                     *)
StreamDropped ==
    /\ Connected /\ stage[conn] \in {"free", "credit"}
    /\ Continue("down")
    /\ UNCHANGED <<proxyVars, conn, closed, backoff, long, ctxDone>>

(* Mutant: serve returns without closing the connection.                     *)
TimesOutOpen ==
    /\ Connected /\ stage[conn] \in {"public", "pubpipe"}
    /\ Continue("down")
    /\ UNCHANGED <<proxyVars, conn, closed, backoff, long, ctxDone>>

(* serve closes its end; the proxy, which may be in the middle of the       *)
(* attempt, notices when it does (ProxyNotices).                             *)
CloseConn ==
    /\ closed' = closed \cup {conn}
    /\ UNCHANGED <<proxyVars, conn, backoff, long, ctxDone>>

(* The handshake timeout, a failed ping, or no pong within pongWait.  A local *)
(* connection does not live that long.                                       *)
StreamTimesOut ==
    /\ Connected /\ stage[conn] \in {"public", "pubpipe"}
    /\ CloseConn
    /\ Continue("down")

(* Mutant: no keepAlive closes the connection, so ReadMessage blocks on.     *)
CancelDialOnly ==
    /\ ctxDone /\ spc = "handshake"
    /\ CloseConn
    /\ spc' = "stopped"

(* keepAlive (or DialContext) closes the connection of a cancelled stream.   *)
StreamCancel ==
    /\ ctxDone /\ Connected
    /\ CloseConn
    /\ spc' = "stopped"

(* stableThreshold passes since the dial: only on the way to, or on, the     *)
(* public endpoint, since a local attempt or pipe ends before.                *)
StreamAges ==
    /\ Connected /\ ~long /\ stage[conn] \in {"public", "pubpipe"}
    /\ long' = TRUE
    /\ UNCHANGED <<proxyVars, spc, conn, closed, backoff, ctxDone>>

(* Mutant: Run returns with the error of serve.                              *)
GiveUp ==
    /\ spc = "down"
    /\ spc' = "stopped"
    /\ UNCHANGED <<proxyVars, conn, closed, backoff, long, ctxDone>>

(* Run: the backoff starts over after a stable connection, else it doubles   *)
(* after every wait.                                                        *)
StreamBackOff ==
    /\ spc = "down"
    /\ Continue("sleep")
    /\ backoff' = IF long THEN 1 ELSE backoff
    /\ long' = FALSE
    /\ UNCHANGED <<proxyVars, conn, closed, ctxDone>>

(* Mutant: the backoff is not capped.                                        *)
Uncapped(cur) == 2 * cur

NextBackoff(cur) == IF 2 * cur > MaxBackoff THEN MaxBackoff ELSE 2 * cur

StreamWake ==
    /\ spc = "sleep"
    /\ Continue("dial")
    /\ backoff' = NextBackoff(backoff)
    /\ UNCHANGED <<proxyVars, conn, closed, long, ctxDone>>

StreamStep ==
    \/ StreamDial \/ StreamRefused \/ StreamOpen \/ StreamDropped
    \/ StreamCancel \/ StreamBackOff \/ StreamWake

(* shutdown stops the proxies first and cancels the routines after that.     *)
Cancel ==
    /\ ~serving /\ ~ctxDone
    /\ ctxDone' = TRUE
    /\ UNCHANGED <<proxyVars, spc, conn, closed, backoff, long>>

(* The proxy learns that the stream has closed its end: the context of the   *)
(* request is done, a pipe ends.                                             *)
ProxyNotices(r) == r \in closed /\ ClientLeaves(r)

ProxyStep ==
    /\ \/ \E r \in Requests : Handle(r) \/ PublicCloses(r) \/ ProxyNotices(r)
       \/ CooldownEnds \/ NodeChanges \/ ProxyStop
    /\ UNCHANGED streamVars

SNext == StreamStep \/ StreamTimesOut \/ StreamAges \/ Cancel \/ ProxyStep

SSpec == SInit /\ [][SNext]_csVars

(* Run goes on until it returns, handlers until their request has ended, a   *)
(* closed connection is noticed, and cooldowns end.  The public endpoint     *)
(* accepts an upgrade that is not given up now and then, a local node that is *)
(* up does, and the answer reaches the stream before the connection is gone  *)
(* again.  Nobody need close a public connection.                            *)
SFairness ==
    /\ WF_csVars(StreamStep) /\ SF_csVars(StreamOpen)
    /\ \A r \in Requests :
         /\ WF_csVars(Handle(r) /\ UNCHANGED streamVars)
         /\ WF_csVars(ProxyNotices(r) /\ UNCHANGED streamVars)
    /\ WF_csVars(CooldownEnds /\ UNCHANGED streamVars)
    /\ SF_csVars(conn \notin closed /\ PublicAnswers(conn)
                    /\ UNCHANGED streamVars)
    /\ SF_csVars(conn \notin closed /\ node = "up" /\ LocalAnswers(conn)
                    /\ UNCHANGED streamVars)

SFairSpec == SSpec /\ SFairness

-----------------------------------------------------------------------------
(* "Stream maintains a single CometBFT WebSocket subscription" (stream.go:28): *)
(* whatever is piped to an endpoint is the latest connection, or one the     *)
(* stream has closed and the proxy is about to end, be it that the endpoint  *)
(* answers an attempt the stream gave up when the next one is under way.     *)
SingleSubscription ==
    \A r \in Requests :
       (stage[r] \in Pipes /\ r \notin closed) => r = conn /\ Connected

(* The stream subscribes again after any loss, while the proxy listens: no   *)
(* state of breaker, node and health status locks it out.                    *)
StreamReturns == spc = "down" ~> (spc = "reading" \/ ~serving)

(* The stream ends with the Hub, also out of a blocking read.                *)
StreamStops == ctxDone ~> spc = "stopped"

(* "local-public failover and node restarts surface here as an ordinary      *)
(* dropped connection" (stream.go:31): with a local node that stays up and   *)
(* synced there is neither, so the stream stays connected.                   *)
StreamStays ==
    (<>[](node = "up" /\ synced /\ serving)) => <>[](spc = "reading")
=============================================================================
