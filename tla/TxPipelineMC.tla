---------------------------- MODULE TxPipelineMC ----------------------------
(* Two sections, two accounts and two submissions, for TLC.              *)
EXTENDS TxPipeline

CONSTANTS t1, t2, swap, earn, alice, bob

MCTxs == {t1, t2}
MCSections == {swap, earn}
MCAccounts == {alice, bob}

\* A claim with nothing to claim builds no message and is never submitted.
MCRequests == {[op |-> "claimAll", args |-> <<>>, ids |-> <<>>],
               [op |-> "autoStake", args |-> <<"v1", "v2">>], [op |-> "swap", args |-> <<"quote">>],
               [op |-> "cancelOrders", args |-> <<"order">>], [op |-> "send", args |-> <<"coins">>],
               [op |-> "addLiquidity", args |-> <<"amounts">>]}
=============================================================================
