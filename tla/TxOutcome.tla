----------------------------- MODULE TxOutcome -----------------------------
(***************************************************************************)
(* What the transaction pipeline of the frontend promises its callers: a   *)
(* submission is answered once, with a success or a failure; a success is  *)
(* told of a transaction the mempool accepted, and it alone refreshes the  *)
(* page, once; every submission is answered in the end.                    *)
(***************************************************************************)
EXTENDS Naturals

CONSTANT Txs

VARIABLES
    told,        \* told[t]: what the user was told last
    accepted,    \* the submissions the mempool accepted
    refreshed    \* refreshed[t]: how often onConfirmed was called

vars == <<told, accepted, refreshed>>

Init ==
    /\ told = [t \in Txs |-> "nothing"]
    /\ accepted = {}
    /\ refreshed = [t \in Txs |-> 0]

Submit(t) ==
    /\ told[t] = "nothing"
    /\ told' = [told EXCEPT ![t] = "pending"]
    /\ UNCHANGED <<accepted, refreshed>>

Accept(t) ==
    /\ told[t] = "pending" /\ t \notin accepted
    /\ accepted' = accepted \cup {t}
    /\ UNCHANGED <<told, refreshed>>

Succeed(t) ==
    /\ told[t] = "pending" /\ t \in accepted
    /\ told' = [told EXCEPT ![t] = "success"]
    /\ refreshed' = [refreshed EXCEPT ![t] = @ + 1]
    /\ UNCHANGED accepted

Fail(t) ==
    /\ told[t] = "pending"
    /\ told' = [told EXCEPT ![t] = "failure"]
    /\ UNCHANGED <<accepted, refreshed>>

Next == \E t \in Txs : Submit(t) \/ Accept(t) \/ Succeed(t) \/ Fail(t)

Spec ==
    /\ Init /\ [][Next]_vars
    /\ \A t \in Txs : WF_vars(Succeed(t) \/ Fail(t))
=============================================================================
