------------------------------ MODULE SendForm ------------------------------
(***************************************************************************)
(* The send dialog: components/portfolio/SendForm.tsx.  The component      *)
(* stays mounted while the dialog opens and closes; what it knew of the    *)
(* spendable balances the last time is there until the new answer.         *)
(***************************************************************************)
EXTENDS FormBase, WalletHelpers

CONSTANTS SendDenoms, SendAmounts, Memos, Spendables, Fees

NoFee == [value |-> 0, of |-> <<>>]

NoSpendable == [id |-> 0, of |-> [d \in SendDenoms |-> 0]]

SendInit == [open |-> FALSE, opening |-> 0, denom |-> NoDenom, to |-> "nobody", amount |-> Blank,
             memo |-> 0, step |-> "form", bypass |-> FALSE, spendable |-> NoSpendable, failed |-> FALSE,
             fee |-> NoFee, feeLoading |-> FALSE, feeError |-> FALSE, feeReq |-> 0, feeTimer |-> FALSE]

Sendable(u) == {d \in SendDenoms : u.spendable.of[d] > 0}

\* The denom falls back to the first sendable one, native first.
DefaultDenom(u) ==
    IF Sendable(u) = {} \/ u.denom \in Sendable(u) THEN u
    ELSE [u EXCEPT !.denom = IF FeeDenom \in Sendable(u) THEN FeeDenom
                             ELSE CHOOSE d \in Sendable(u) : TRUE]

\* The fee effect, on a change of the dialog, the denom or the memo: the
\* estimate under way is dropped, and another one is due.
FeeEffect(u) ==
    IF u.open /\ u.denom # NoDenom THEN [u EXCEPT !.feeReq = @ + 1, !.feeLoading = TRUE, !.feeTimer = TRUE]
    ELSE [u EXCEPT !.feeReq = @ + 1, !.feeTimer = FALSE]

\* Effects after a render in which the denom may have changed.
Settled(u) ==
    LET v == DefaultDenom(u) IN IF v.denom = ui.denom /\ v.memo = ui.memo /\ v.open = ui.open THEN v
                                ELSE FeeEffect(v)

\* Opening resets the form, asks for the balances, and for the fee.
SendOpen(preset) ==
    /\ page = "send" /\ ~ui.open /\ ui.opening < MaxRequests[page]
    /\ ui' = Settled([ui EXCEPT !.open = TRUE, !.opening = @ + 1, !.denom = preset, !.to = "nobody",
                                !.amount = Blank, !.memo = 0, !.step = "form", !.bypass = FALSE,
                                !.failed = FALSE, !.fee = NoFee, !.feeError = FALSE])
    /\ wire' = wire \cup {[kind |-> "spendable", id |-> ui.opening + 1]}
    /\ FormOnly

\* The dialog can be dismissed in either step, also while a send is in flight.
SendClose ==
    /\ page = "send" /\ ui.open
    /\ ui' = FeeEffect([ui EXCEPT !.open = FALSE])
    /\ UiOnly

\* Answers to an earlier opening are dropped.
SendSpendable(r, b) ==
    /\ page = "send" /\ r.kind = "spendable"
    /\ ui' = IF ui.open /\ r.id = ui.opening THEN Settled([ui EXCEPT !.spendable = [id |-> r.id, of |-> b]])
             ELSE ui
    /\ wire' = wire \ {r}
    /\ FormOnly

SendSpendableFails(r) ==
    /\ page = "send" /\ r.kind = "spendable"
    /\ ui' = IF ui.open /\ r.id = ui.opening THEN [ui EXCEPT !.failed = TRUE] ELSE ui
    /\ wire' = wire \ {r}
    /\ FormOnly

SendFeeDebounce ==
    /\ page = "send" /\ ui.feeTimer
    /\ ui' = [ui EXCEPT !.feeTimer = FALSE]
    /\ wire' = wire \cup {[kind |-> "fee", id |-> ui.feeReq, of |-> <<ui.denom, ui.memo>>]}
    /\ FormOnly

\* Mutant: the effect's cleanup does not cancel.
FeeAlways(r, f) == [ui EXCEPT !.fee = f, !.feeError = f = NoFee, !.feeLoading = FALSE]

\* The answer to the effect that is current; a cancelled one changes nothing.
FeeKnown(r, f) ==
    IF r.id = ui.feeReq THEN [ui EXCEPT !.fee = f, !.feeError = f = NoFee, !.feeLoading = FALSE] ELSE ui

SendFee(r, value) ==
    /\ page = "send" /\ r.kind = "fee"
    /\ \/ ui' = FeeKnown(r, [value |-> value, of |-> r.of])
       \/ ui' = FeeKnown(r, NoFee)
    /\ wire' = wire \ {r}
    /\ FormOnly

\* The inputs are hidden once the balances failed to load.
SendEdits == page = "send" /\ ui.open /\ ui.step = "form" /\ ~ui.failed

\* Bound: estimates asked for by edits.
FeeMayChange == ui.feeReq <= ui.opening

SendDenom(d) ==
    /\ SendEdits /\ FeeMayChange /\ d \in Sendable(ui)
    /\ ui' = Settled([ui EXCEPT !.denom = d])
    /\ UiOnly

SendRecipient(to) ==
    /\ SendEdits
    /\ ui' = [ui EXCEPT !.to = to]
    /\ UiOnly

SendAmount(a) ==
    /\ SendEdits
    /\ ui' = [ui EXCEPT !.amount = a]
    /\ UiOnly

SendMemo(m) ==
    /\ SendEdits /\ FeeMayChange
    /\ ui' = Settled([ui EXCEPT !.memo = m])
    /\ UiOnly

SendBypass ==
    /\ SendEdits /\ ui.to = "self"
    /\ ui' = [ui EXCEPT !.bypass = TRUE]
    /\ UiOnly

SpendableOf(u, d) == IF d \in SendDenoms THEN u.spendable.of[d] ELSE 0

\* handleMax.
SendMax ==
    /\ SendEdits /\ SpendableOf(ui, ui.denom) > 0
    /\ ui' = [ui EXCEPT !.amount = UAmountToAmount(
                  [n |-> MaxSendable(SpendableOf(ui, ui.denom), ui.denom = FeeDenom, ui.fee.value), e |-> 0], 1)]
    /\ UiOnly

AmountCheck(u) ==
    ValidateSendAmount(u.amount, u.denom, 1, SpendableOf(u, u.denom), u.fee.value, SpendableOf(u, FeeDenom))

CanReviewSend(u) ==
    /\ u.denom # NoDenom /\ AmountCheck(u).valid
    /\ \/ u.to = "other"
       \/ u.to = "self" /\ u.bypass

\* The footer stays when the inputs are hidden.
SendReview ==
    /\ page = "send" /\ ui.open /\ ui.step = "form" /\ CanReviewSend(ui)
    /\ ui' = [ui EXCEPT !.step = "confirm"]
    /\ UiOnly

SendBack ==
    /\ page = "send" /\ ui.open /\ ui.step = "confirm" /\ ~Busy("send")
    /\ ui' = [ui EXCEPT !.step = "form"]
    /\ UiOnly

SendShown(u) == <<u.denom, u.to, AmountCheck(u).uAmount, u.memo>>

SendConfirm ==
    /\ page = "send" /\ ui.open /\ ui.step = "confirm" /\ CanReviewSend(ui)
    /\ SubmitForm("send", "send", SendShown(ui), <<ui.denom, ui.to, AmountCheck(ui).uAmount, ui.memo>>, TRUE)

\* Acceptance closes the dialog, whichever opening of it is shown by then.
SendAnswered(r, ok) ==
    /\ page = "send"
    /\ TxAnswered(r, ok)
    /\ ui' = IF ok /\ ui.open THEN FeeEffect([ui EXCEPT !.open = FALSE]) ELSE ui

\* onSent reloads the assets of the page; the form has no part in it.
SendConfirmed ==
    /\ page = "send"
    /\ Confirmed
    /\ UNCHANGED ui

\* A transfer is checked against what was answered to this opening of the
\* dialog, once it was, and against the fee of its own denom and memo unless an
\* estimate is under way or failed: late answers never take their place.
SendChecksAreCurrent ==
    [][Submits("send") =>
          /\ [kind |-> "spendable", id |-> ui.opening] \notin wire /\ ~ui.failed
                => ui.spendable.id = ui.opening
          /\ ~ui.feeLoading /\ ~ui.feeError => ui.fee.of = <<ui.denom, ui.memo>>]_formVars
=============================================================================
