--------------------------- MODULE WalletHelpers ---------------------------
(***************************************************************************)
(* The pure function behind the Send form that decides what may be sent:   *)
(* components/portfolio/sendHelpers.ts.                                    *)
(***************************************************************************)
EXTENDS TradeHelpers

\* The checks of a send amount in the order of the code, on a typed decimal.
ValidateSendAmount(a, denom, decimals, spendable, fee, feeSpendable) ==
    LET u         == Floor(AmountToUAmount(a, decimals))
        no(error) == [valid |-> FALSE, error |-> error, uAmount |-> 0]
    IN  IF a = Blank THEN no("empty")
        ELSE IF a.n <= 0 THEN no("not positive")
        ELSE IF u <= 0 THEN no("too small")
        ELSE IF u > spendable THEN no("over balance")
        ELSE IF denom = FeeDenom /\ u > spendable - fee THEN no("no room for the fee")
        ELSE IF denom # FeeDenom /\ fee > 0 /\ feeSpendable < fee THEN no("no fee balance")
        ELSE [valid |-> TRUE, error |-> "", uAmount |-> u]
=============================================================================
