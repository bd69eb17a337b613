----------------------- MODULE EndpointProxy_proofs -----------------------
(* Proofs about EndpointProxy, for any number of requests and any threshold. *)
EXTENDS EndpointProxy, FiniteSetTheorems, TLAPS

(* Every step of a handler, of a client or of the environment leaves the     *)
(* state well typed.                                                        *)
LEMMA ProxyTypeStep ==
    ASSUME PTypeOK, [PNext]_proxyVars
    PROVE  PTypeOK'
<1> USE ProxyAssumption
<1> USE DEF PTypeOK, Move, Deliver, Stages
<1>1. CASE UNCHANGED proxyVars
  BY <1>1 DEF proxyVars
<1>2. ASSUME NEW r \in Requests, NEW k \in Kinds, Arrive(r, k) PROVE PTypeOK'
  <2>1. tried' \in [Requests -> BOOLEAN]
    BY <1>2 DEF Arrive, IsLocalSafe, Tripped
  <2>2. QED BY <1>2, <2>1 DEF Arrive
<1>3. ASSUME NEW r \in Requests, ClientLeaves(r) PROVE PTypeOK'
  BY <1>3 DEF ClientLeaves
<1>4. ASSUME NEW r \in Requests, Handle(r) PROVE PTypeOK'
  <2>1. CASE LocalAnswers(r) BY <2>1 DEF LocalAnswers
  <2>2. CASE LocalErrs(r)
    <3>1. broken' \in [Requests -> BOOLEAN]
      BY <2>2 DEF LocalErrs
    <3>2. QED BY <2>2, <3>1 DEF LocalErrs
  <2>3. CASE LocalBreaksOff(r) BY <2>3 DEF LocalBreaksOff
  <2>4. CASE PipeEnds(r) BY <2>4 DEF PipeEnds
  <2>5. CASE Credit(r) BY <2>5 DEF Credit
  <2>6. CASE Blame(r)
    <3>1. failCount' \in 0..Threshold
      BY <2>6 DEF Blame, Tripped
    <3>2. cooling' \in BOOLEAN
      BY <2>6 DEF Blame
    <3>3. QED BY <2>6, <3>1, <3>2 DEF Blame
  <2>7. CASE PublicAnswers(r) BY <2>7 DEF PublicAnswers
  <2>8. CASE PublicFails(r) BY <2>8 DEF PublicFails
  <2>9. QED
    BY <1>4, <2>1, <2>2, <2>3, <2>4, <2>5, <2>6, <2>7, <2>8 DEF Handle
<1>5. ASSUME NEW r \in Requests, PublicCloses(r) PROVE PTypeOK'
  BY <1>5 DEF PublicCloses
<1>6. CASE CooldownEnds \/ ProxyStop
  BY <1>6 DEF CooldownEnds, ProxyStop
<1>7. CASE NodeChanges
  BY <1>7 DEF NodeChanges
<1> HIDE DEF PTypeOK
<1>8. QED BY <1>1, <1>2, <1>3, <1>4, <1>5, <1>6, <1>7 DEF PNext

(* A proxy just created is well typed.                                      *)
LEMMA ProxyInitTyped ==
    ASSUME PInit PROVE PTypeOK
<1>1. /\ tried \in [Requests -> BOOLEAN]
      /\ broken \in [Requests -> BOOLEAN]
      /\ gone \in [Requests -> BOOLEAN]
  BY DEF PInit
<1>2. /\ stage \in [Requests -> Stages]
      /\ reached \in [Requests -> SUBSET {"local", "public"}]
  BY DEF PInit, Stages
<1>3. failCount \in 0..Threshold
  BY ProxyAssumption DEF PInit
<1>4. QED BY <1>1, <1>2, <1>3 DEF PInit, PTypeOK

(* Type correctness of the proxy.                                           *)
THEOREM ProxyTypeCorrect == PSpec => []PTypeOK
<1>1. PInit => PTypeOK
  BY ProxyInitTyped
<1>2. PTypeOK /\ [PNext]_proxyVars => PTypeOK'
  BY ProxyTypeStep
<1>3. QED BY <1>1, <1>2, PTL DEF PSpec

-----------------------------------------------------------------------------
(* Why nothing is broadcast twice: a body reaches the local node only in a   *)
(* request that tries it, and the public endpoint only in one that does not, *)
(* and no request gets back from the public stage to the local one.          *)
SentOnce(r) ==
    /\ reached[r] \in {{}, {"local"}, {"public"}}
    /\ "local" \in reached[r] => tried[r]
    /\ "public" \in reached[r] => ~tried[r]
    /\ reached[r] # {} => kind[r] = "broadcast"
    /\ stage[r] = "local" => tried[r]

SentInv == \A r \in Requests : SentOnce(r)

(* A step that touches no request but r keeps what holds of the others.      *)
LEMMA OthersKeep ==
    ASSUME PTypeOK, SentInv, NEW r \in Requests,
           \A q \in Requests \ {r} :
              /\ reached'[q] = reached[q] /\ tried'[q] = tried[q]
              /\ kind'[q] = kind[q] /\ stage'[q] = stage[q],
           SentOnce(r)'
    PROVE  SentInv'
BY DEF SentInv, SentOnce

(* The invariant behind NoDoubleBroadcast is kept by every step.             *)
LEMMA SentStep ==
    ASSUME PTypeOK, SentInv, [PNext]_proxyVars
    PROVE  SentInv'
<1> USE DEF PTypeOK, Move, Deliver
<1>1. CASE UNCHANGED proxyVars
  BY <1>1 DEF proxyVars, SentInv, SentOnce
<1>2. ASSUME NEW r \in Requests, NEW k \in Kinds, Arrive(r, k) PROVE SentInv'
  <2>1. /\ reached'[r] = {}
        /\ stage'[r] = "local" => tried'[r]
    BY <1>2 DEF Arrive
  <2>2. SentOnce(r)'
    BY <2>1 DEF SentOnce
  <2>3. QED BY <1>2, <2>2, OthersKeep DEF Arrive
<1>3. ASSUME NEW r \in Requests, ClientLeaves(r) PROVE SentInv'
  BY <1>3 DEF ClientLeaves, SentInv, SentOnce
<1>4. ASSUME NEW r \in Requests, Handle(r) PROVE SentInv'
  <2>0. SentOnce(r)
    BY DEF SentInv
  <2>1. CASE LocalAnswers(r) \/ LocalErrs(r) \/ LocalBreaksOff(r)
    <3>1. /\ stage[r] = "local" /\ tried'[r] = tried[r] /\ kind'[r] = kind[r]
          /\ stage'[r] # "local"
      BY <2>1 DEF LocalAnswers, LocalErrs, LocalBreaksOff
    <3>2. \/ reached'[r] = reached[r]
          \/ kind[r] = "broadcast" /\ reached'[r] = reached[r] \cup {"local"}
      BY <2>1 DEF LocalAnswers, LocalErrs, LocalBreaksOff
    <3>3. SentOnce(r)'
      BY <2>0, <3>1, <3>2 DEF SentOnce
    <3>4. QED
      BY <2>1, <3>3, OthersKeep DEF LocalAnswers, LocalErrs, LocalBreaksOff
  <2>2. CASE PublicAnswers(r) \/ PublicFails(r)
    <3>1. /\ tried'[r] = tried[r] /\ kind'[r] = kind[r] /\ stage'[r] # "local"
      BY <2>2 DEF PublicAnswers, PublicFails
    <3>2. \/ reached'[r] = reached[r]
          \/ /\ kind[r] = "broadcast" /\ ~tried[r]
             /\ reached'[r] = reached[r] \cup {"public"}
      BY <2>2 DEF PublicAnswers, PublicFails, HasBody
    <3>3. SentOnce(r)'
      BY <2>0, <3>1, <3>2 DEF SentOnce
    <3>4. QED BY <2>2, <3>3, OthersKeep DEF PublicAnswers, PublicFails
  <2>3. CASE PipeEnds(r) \/ Credit(r) \/ Blame(r)
    BY <2>3 DEF PipeEnds, Credit, Blame, SentInv, SentOnce
  <2>4. QED BY <1>4, <2>1, <2>2, <2>3 DEF Handle
<1>5. ASSUME NEW r \in Requests, PublicCloses(r) PROVE SentInv'
  BY <1>5 DEF PublicCloses, SentInv, SentOnce
<1>6. CASE CooldownEnds \/ ProxyStop \/ NodeChanges
  BY <1>6 DEF CooldownEnds, ProxyStop, NodeChanges, SentInv, SentOnce
<1>7. QED BY <1>1, <1>2, <1>3, <1>4, <1>5, <1>6 DEF PNext

(* However often the breaker, the node and the clients change their minds,   *)
(* the body of a broadcast reaches one endpoint at most.                     *)
THEOREM BroadcastOnce == PSpec => []NoDoubleBroadcast
<1>1. PInit => SentInv
  BY DEF PInit, SentInv, SentOnce
<1>2. PTypeOK /\ SentInv /\ [PNext]_proxyVars => SentInv'
  BY SentStep
<1>3. SentInv => NoDoubleBroadcast
  <2> SUFFICES ASSUME SentInv, NEW r \in Requests
               PROVE  Cardinality(reached[r]) <= 1
    BY DEF NoDoubleBroadcast
  <2>1. reached[r] \in {{}, {"local"}, {"public"}}
    BY DEF SentInv, SentOnce
  <2>2. Cardinality({}) = 0
    BY FS_EmptySet
  <2>3. Cardinality({"local"}) = 1 /\ Cardinality({"public"}) = 1
    BY FS_Singleton
  <2>4. CASE reached[r] = {} BY <2>2, <2>4
  <2>5. CASE reached[r] = {"local"} BY <2>3, <2>5
  <2>6. CASE reached[r] = {"public"} BY <2>3, <2>6
  <2>7. QED BY <2>1, <2>4, <2>5, <2>6
<1>4. QED BY <1>1, <1>2, <1>3, ProxyTypeCorrect, PTL DEF PSpec
=============================================================================
