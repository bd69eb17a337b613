----------------------------- MODULE HelpersMC -----------------------------
(* Small input sets for the pure functions of the frontend.                *)
EXTENDS Helpers

Val(i, tokens, rate, bonded, jailed) ==
    [addr |-> <<"v1", "v2", "v3">>[i], moniker |-> 4 - i, tokens |-> tokens, rate |-> rate,
     bonded |-> bonded, jailed |-> jailed]

ValsAt(i, rates) ==
    {Val(i, t, r, s # "unbonding", s = "jailed") :
        t \in 1..3, r \in rates, s \in {"ok", "jailed", "unbonding"}}

\* 50 and 57 are within the neutral band, 90 is outside it, 600 above the cap.
MCValidatorLists ==
    {<<a>> : a \in ValsAt(1, {50, 600})}
    \cup {<<a, b>> : a \in ValsAt(1, {50, 57, 90, 600}), b \in ValsAt(2, {50, 90, 600})}
    \cup {<<a, b, c>> : a \in {v \in ValsAt(1, {50, 57, 90}) : IsHealthy(v)},
                        b \in {v \in ValsAt(2, {50, 90, 600}) : IsHealthy(v)},
                        c \in {v \in ValsAt(3, {50, 57, 90}) : ~v.jailed}}

MCStakes == {1, 5, 9}

\* The two answers about validators are read one after the other: a validator
\* may be jailed in one and bonded in the other.
MCHealthInputs ==
    [delegations : {<<[val |-> "v1", amount |-> a], [val |-> "v2", amount |-> b]>> :
                       a \in {0, 5}, b \in {3}},
     delegated : {<<Val(1, 2, 50, x, ~x)>> : x \in BOOLEAN}
                   \cup {<<Val(1, 2, 50, FALSE, FALSE), Val(2, 1, 50, TRUE, y)>> : y \in BOOLEAN},
     bonded : {<<>>, <<Val(1, 1, 50, TRUE, FALSE)>>, <<Val(1, 1, 50, TRUE, FALSE), Val(2, 3, 90, TRUE, FALSE)>>,
               <<Val(2, 1, 600, TRUE, FALSE), Val(3, 2, 60, TRUE, TRUE)>>},
     participants : {<<[id |-> 1, amount |-> a], [id |-> 2, amount |-> 4]>> : a \in {0, 7}},
     rewards : {<<>>} \cup {<<[id |-> 1, payouts |-> p, duration |-> d, native |-> n],
                              [id |-> 2, payouts |-> 2, duration |-> 2, native |-> TRUE]>> :
                              p \in 0..3, d \in 0..2, n \in BOOLEAN}]

MCUnlockInputs ==
    [unbonding : {<<>>} \cup {<<[val |-> "v1", entries |-> <<[height |-> 7, at |-> a, balance |-> 2],
                                                            [height |-> 7, at |-> b, balance |-> 1]>>]>> :
                                a \in {0, 59, 60, 61, 1439, 1440}, b \in {1500, 3000, 4321}},
     unlocks : {<<[epoch |-> e, id |-> 1, amount |-> 1], [epoch |-> e, id |-> 2, amount |-> 1]>> :
                  e \in {3, 27, 50}},
     now : {0, 1, 60},
     epoch : {0, 2, 27}]

MCDenoms == {"a", "b", "c", "d"}

MCPools == {[base |-> "a", quote |-> "b"], [base |-> "c", quote |-> "b"], [base |-> "c", quote |-> "d"],
            [base |-> "b", quote |-> "d"], [base |-> NoDenom, quote |-> "a"]}

MCPoolSets == SUBSET MCPools

MCDeposits ==
    [base : {1, 3, 7, 10},
     pool : [base : {"a"}, quote : {"b"}, reserveBase : {1, 7, 10}, reserveQuote : {1, 3, 20}],
     supply : {1, 3, 100}, slip : {0, 5, 500}]

Levels(a, b, p, q) == <<[amount |-> a, price |-> p], [amount |-> b, price |-> q]>>

MCOrderInputs ==
    [levels : {<<>>} \cup {Levels(a, b, 2, 3) : a, b \in 1..3}, isBuy : {TRUE},
     amount : 0..6, limit : 1..4]
    \cup [levels : {<<>>} \cup {Levels(a, b, 3, 2) : a, b \in 1..3}, isBuy : {FALSE},
          amount : 0..6, limit : 1..4]

MCSendInputs ==
    [denom : {FeeDenom, "atom"}, balance : {0, 3, 25, 100}, feeBalance : {0, 2, 50},
     fee : {0, 2, 30}, decimals : 0..2,
     typed : {Blank} \cup {[n |-> n, e |-> e] : n \in {0, 1, 3, 25, 99, 100}, e \in 0..3}]

\* A bar, one that only a line shows, and an interval without trades.
Bar(t) == [time |-> t, open |-> 1, high |-> 1, low |-> 1, close |-> 1]
Half(t) == [Bar(t) EXCEPT !.open = 0]
Void(t) == [Half(t) EXCEPT !.close = 0]

MCCandleInputs ==
    [raw : {<<>>, <<Bar(3), Bar(1), Bar(-1)>>, <<Bar(1), Bar(2), Void(3)>>, <<Bar(2), Bar(2)>>,
            <<Half(2), Bar(1)>>, <<Void(2)>>, <<Bar(4), Bar(2), Half(3)>>},
     live : UNION {[1..k -> {Bar(t) : t \in 2..4} \cup {Half(t) : t \in 2..4} \cup {Void(t) : t \in 3..4}] :
                      k \in 0..3}]
=============================================================================
