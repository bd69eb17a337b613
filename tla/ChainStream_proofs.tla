------------------------ MODULE ChainStream_proofs ------------------------
(* Proofs about ChainStream: the stream is a client the proxy knows, and it  *)
(* never has two subscriptions at once.                                     *)
EXTENDS ChainStream, EndpointProxy_proofs

(* Each step of the stream is one of the proxy, its client, or none of both. *)
LEMMA StreamStepImplements ==
    ASSUME STypeOK, [SNext]_csVars
    PROVE  [PNext]_proxyVars
<1>1. CASE UNCHANGED csVars
  BY <1>1 DEF csVars
<1>2. CASE StreamDial
  <2>1. PICK r \in Requests : Arrive(r, "upgrade")
    BY <1>2 DEF StreamDial
  <2>2. "upgrade" \in Kinds
    BY StreamAssumption
  <2>3. QED BY <2>1, <2>2 DEF PNext
<1>3. CASE StreamCancel \/ StreamTimesOut
  BY <1>3 DEF StreamCancel, StreamTimesOut, CloseConn
<1>4. CASE \/ StreamRefused \/ StreamOpen \/ StreamDropped \/ StreamBackOff
           \/ StreamWake \/ StreamAges \/ Cancel
  BY <1>4 DEF StreamRefused, StreamOpen, StreamDropped, StreamBackOff,
              StreamWake, StreamAges, Cancel
<1>5. CASE ProxyStep
  BY <1>5 DEF ProxyStep, ProxyNotices, PNext
<1>6. QED BY <1>1, <1>2, <1>3, <1>4, <1>5 DEF SNext, StreamStep

(* Every step of the stream or of its environment leaves the state well typed. *)
LEMMA StreamTypeStep ==
    ASSUME STypeOK, [SNext]_csVars
    PROVE  STypeOK'
<1>1. PTypeOK'
  BY StreamStepImplements, ProxyTypeStep DEF STypeOK
<1>2. /\ spc' \in {"dial", "handshake", "reading", "down", "sleep", "stopped"}
      /\ conn' \in Requests /\ closed' \in SUBSET Requests
      /\ backoff' \in 1..MaxBackoff
      /\ long' \in BOOLEAN /\ ctxDone' \in BOOLEAN
  <2> USE StreamAssumption DEF STypeOK, Continue
  <2>1. CASE UNCHANGED csVars BY <2>1 DEF csVars, streamVars
  <2>2. CASE StreamDial BY <2>2 DEF StreamDial
  <2>3. CASE StreamRefused BY <2>3 DEF StreamRefused
  <2>4. CASE StreamOpen BY <2>4 DEF StreamOpen
  <2>5. CASE StreamDropped BY <2>5 DEF StreamDropped
  <2>6. CASE StreamCancel BY <2>6 DEF StreamCancel, CloseConn
  <2>7. CASE StreamBackOff
    <3>1. backoff' \in 1..MaxBackoff
      BY <2>7 DEF StreamBackOff
    <3>2. QED BY <2>7, <3>1 DEF StreamBackOff
  <2>8. CASE StreamWake BY <2>8 DEF StreamWake, NextBackoff
  <2>9. CASE StreamTimesOut BY <2>9 DEF StreamTimesOut, CloseConn
  <2>10. CASE StreamAges BY <2>10 DEF StreamAges
  <2>11. CASE Cancel BY <2>11 DEF Cancel
  <2>12. CASE ProxyStep BY <2>12 DEF ProxyStep, streamVars
  <2>13. QED
    BY <2>1, <2>2, <2>3, <2>4, <2>5, <2>6, <2>7, <2>8, <2>9, <2>10, <2>11,
       <2>12 DEF SNext, StreamStep
<1>3. QED BY <1>1, <1>2 DEF STypeOK

(* Type correctness of the stream and its proxy.                             *)
THEOREM StreamTypeCorrect == SSpec => []STypeOK
<1>1. SInit => PInit
  BY DEF SInit
<1>2. ASSUME SInit PROVE STypeOK
  <2>1. PTypeOK
    BY <1>1, <1>2, ProxyInitTyped
  <2>2. backoff \in 1..MaxBackoff
    BY <1>2, StreamAssumption DEF SInit
  <2>3. QED BY <1>2, <2>1, <2>2 DEF SInit, STypeOK
<1>3. STypeOK /\ [SNext]_csVars => STypeOK'
  BY StreamTypeStep
<1>4. QED BY <1>2, <1>3, PTL DEF SSpec

(* The stream drives the proxy only as a client may: what holds of the proxy *)
(* for all clients holds for it.                                            *)
THEOREM StreamIsClient == SSpec => PSpec
<1>1. SInit => PInit
  BY DEF SInit
<1>2. STypeOK /\ [SNext]_csVars => [PNext]_proxyVars
  BY StreamStepImplements
<1>3. QED BY <1>1, <1>2, StreamTypeCorrect, PTL DEF SSpec, PSpec

-----------------------------------------------------------------------------
(* Why there is only one subscription: a request under way is the stream's    *)
(* present connection, or one it closed, or one it found ended whose handler *)
(* has only to record the success.                                           *)
Known(r) ==
    \/ stage[r] \in {"free", "credit"} \/ r \in closed
    \/ r = conn /\ Connected

OneInv == \A r \in Requests : Known(r)

(* The invariant behind SingleSubscription is kept by every step.            *)
LEMMA OneStep ==
    ASSUME STypeOK, OneInv, [SNext]_csVars
    PROVE  OneInv'
<1> USE DEF STypeOK, PTypeOK, OneInv, Known, Connected, Free, Move, Continue
<1>1. CASE UNCHANGED csVars
  BY <1>1 DEF csVars, proxyVars, streamVars
<1>2. CASE StreamDial
  <2>1. PICK r \in Requests :
          Arrive(r, "upgrade") /\ conn' = r /\ closed' = closed \ {r}
    BY <1>2 DEF StreamDial
  <2>2. /\ spc' = "handshake" /\ ~Connected
        /\ \A q \in Requests \ {r} : stage'[q] = stage[q]
    BY <1>2, <2>1 DEF StreamDial, Arrive
  <2>3. QED BY <2>1, <2>2
<1>3. CASE StreamTimesOut \/ StreamCancel
  BY <1>3 DEF StreamTimesOut, StreamCancel, CloseConn, proxyVars
<1>4. CASE StreamRefused \/ StreamOpen \/ StreamDropped
  BY <1>4 DEF StreamRefused, StreamOpen, StreamDropped, proxyVars
<1>5. CASE StreamBackOff \/ StreamWake \/ StreamAges \/ Cancel
  BY <1>5 DEF StreamBackOff, StreamWake, StreamAges, Cancel, proxyVars
<1>6. CASE ProxyStep
  <2>1. UNCHANGED <<spc, conn, closed>>
    BY <1>6 DEF ProxyStep, streamVars
  <2>2. ASSUME NEW r \in Requests, Handle(r) \/ PublicCloses(r) PROVE OneInv'
    <3>1. \A q \in Requests \ {r} : stage'[q] = stage[q]
      BY <2>2 DEF Handle, LocalAnswers, LocalErrs, LocalBreaksOff, PipeEnds,
                  Credit, Blame, PublicAnswers, PublicFails, PublicCloses
    <3>2. Known(r) => Known(r)'
      <4>1. stage[r] \in {"free", "credit"} => stage'[r] = "free"
        BY <2>2 DEF Handle, LocalAnswers, LocalErrs, LocalBreaksOff, PipeEnds,
                    Credit, Blame, PublicAnswers, PublicFails, PublicCloses
      <4>2. QED BY <2>1, <4>1
    <3>3. QED BY <2>1, <3>1, <3>2
  <2>3. ASSUME NEW r \in Requests, ProxyNotices(r) PROVE OneInv'
    <3>1. r \in closed /\ \A q \in Requests \ {r} : stage'[q] = stage[q]
      BY <2>3 DEF ProxyNotices, ClientLeaves
    <3>2. QED BY <2>1, <3>1
  <2>4. CASE CooldownEnds \/ NodeChanges \/ ProxyStop
    BY <2>1, <2>4 DEF CooldownEnds, NodeChanges, ProxyStop
  <2>5. QED BY <1>6, <2>2, <2>3, <2>4 DEF ProxyStep
<1> HIDE DEF OneInv
<1>7. QED
  BY <1>1, <1>2, <1>3, <1>4, <1>5, <1>6 DEF SNext, StreamStep

(* Whatever the stream gave up, and however late the proxy gets round to it, *)
(* what is piped to an endpoint is the stream's latest connection or one it  *)
(* has closed.                                                               *)
THEOREM OneSubscription == SSpec => []SingleSubscription
<1>1. SInit => OneInv
  BY DEF SInit, PInit, OneInv, Known
<1>2. STypeOK /\ OneInv /\ [SNext]_csVars => OneInv'
  BY OneStep
<1>3. OneInv => SingleSubscription
  BY DEF OneInv, SingleSubscription, Known, Pipes
<1>4. QED BY <1>1, <1>2, <1>3, StreamTypeCorrect, PTL DEF SSpec
=============================================================================
