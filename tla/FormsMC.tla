------------------------------ MODULE FormsMC ------------------------------
(* Small inputs for the five forms.                                       *)
EXTENDS Forms

AllForms == {"swap", "order", "pool", "send", "stake"}
OrderOnly == {"order"}

\* Bounds by form, in the order of their interest.
MCMaxRequests == [p \in Pages |-> CASE p = "swap" -> 3 [] p = "order" -> 1 [] OTHER -> 2]

MCMaxBlocks == [p \in Pages |-> IF p \in {"order", "pool"} THEN 1 ELSE 2]

MCPoolStates == {[base |-> "a", quote |-> "b", reserveBase |-> 10, reserveQuote |-> 20],
                 [base |-> "a", quote |-> "b", reserveBase |-> 14, reserveQuote |-> 15]}

MCSendDenoms == {FeeDenom, "atom"}

MCSpendables == {[d \in MCSendDenoms |-> IF d = FeeDenom THEN n ELSE 40] : n \in {50}}

MCSendAmounts == {[n |-> 3, e |-> 0]}

Val(addr, tokens, jailed) ==
    [addr |-> addr, moniker |-> tokens, tokens |-> tokens, rate |-> 50, bonded |-> ~jailed, jailed |-> jailed]

\* The second validator is jailed in one answer; the program ends in another.
StakeData(jailed, payouts, due) ==
    [bonded |-> IF jailed THEN <<Val("v1", 1, FALSE)>> ELSE <<Val("v1", 1, FALSE), Val("v2", 2, FALSE)>>,
     delegated |-> <<Val("v2", 2, jailed)>>,
     delegations |-> <<[val |-> "v2", amount |-> 3]>>,
     participants |-> <<[id |-> "r1", amount |-> 2]>>,
     rewards |-> <<[id |-> "r1", payouts |-> payouts, duration |-> 2, native |-> TRUE, min |-> 0],
                   [id |-> "r2", payouts |-> payouts, duration |-> 2, native |-> FALSE, min |-> 2]>>,
     due |-> due]

MCStakeDatas == {StakeData(FALSE, 1, {"native", "r1"}), StakeData(TRUE, 1, {"native"}), StakeData(FALSE, 2, {"r1"})}
=============================================================================
