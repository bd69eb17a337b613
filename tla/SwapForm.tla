------------------------------ MODULE SwapForm ------------------------------
(***************************************************************************)
(* The swap card: components/trade/SwapCard.tsx with hooks/useSwapQuote.ts *)
(* and the slippage setting.  A quote is asked for when the inputs have    *)
(* been still for 350 ms and again with every block; its answer counts     *)
(* only if no later request was made.  The confirm step shows the current  *)
(* quote and executes it.                                                  *)
(***************************************************************************)
EXTENDS FormBase

CONSTANTS SwapDenoms, SwapAmounts, SwapBalance

NoQuote == [kind |-> "none", id |-> 0, from |-> "", to |-> "", amount |-> 0, asked |-> 0, height |-> 0]

\* The default pair is seeded; the amount is empty (0).
SwapInit == [from |-> "a", to |-> "b", amount |-> 0, step |-> "form", ack |-> FALSE,
            slippage |-> 5, loaded |-> FALSE, quoted |-> NoQuote, quoting |-> FALSE, req |-> 0,
            timer |-> FALSE, quoteHeight |-> 0, height |-> 0]

InputsReady(u) == u.from # "" /\ u.to # "" /\ u.from # u.to /\ u.amount > 0

\* Mutant: the amount is not compared.
PairMatches(u) == u.quoted.kind # "none" /\ u.quoted.from = u.from /\ u.quoted.to = u.to

\* The quote belongs to the inputs shown.
InputsMatch(u) ==
    /\ u.quoted.kind # "none"
    /\ u.quoted.from = u.from /\ u.quoted.to = u.to /\ u.quoted.amount = u.amount

HasRoute(u) == InputsMatch(u) /\ u.quoted.kind # "noRoute"

\* A newer block than the quote's, or a quote on its way.
NeedsFreshQuote(u) ==
    \/ u.quoting
    \/ InputsMatch(u) /\ u.height # 0 /\ u.quoted.height # u.height

CanReview(u) == HasRoute(u) /\ u.amount > 0 /\ u.amount <= SwapBalance /\ u.from # u.to

CanExecute(u) ==
    /\ CanReview(u) /\ ~NeedsFreshQuote(u) /\ ~Busy("swap")
    /\ u.quoted.kind = "high" => u.ack

\* The effect of useSwapQuote on an input change: a new timer, or no quote and
\* nothing in flight that counts.
InputsChanged(u) ==
    IF InputsReady(u) THEN [u EXCEPT !.timer = TRUE]
    ELSE [u EXCEPT !.timer = FALSE, !.req = @ + 1, !.quoted = NoQuote, !.quoting = FALSE]

\* The confirm step is shown while there is a quote for the inputs; without one
\* the form comes back, and with the next quote the confirm step again.
ConfirmShown == page = "swap" /\ ui.step = "confirm" /\ InputsMatch(ui)

FormShown == page = "swap" /\ ~(ui.step = "confirm" /\ InputsMatch(ui))

SwapEdits == FormShown /\ ui.req < MaxRequests[page]

\* An asset picked in the first or the second picker; the list of a picker
\* leaves out nothing, so both may hold the same denom.
SwapPick(d) ==
    /\ SwapEdits
    /\ \/ d # ui.from /\ ui' = InputsChanged([ui EXCEPT !.from = d])
       \/ d # ui.to /\ ui' = InputsChanged([ui EXCEPT !.to = d])
    /\ UiOnly

SwapType(a) ==
    /\ SwapEdits /\ a # ui.amount
    /\ ui' = InputsChanged([ui EXCEPT !.amount = a])
    /\ UiOnly

\* The output of the current quote becomes the input.
SwapFlip ==
    /\ SwapEdits
    /\ ui' = InputsChanged([ui EXCEPT !.from = ui.to, !.to = ui.from,
                                      !.amount = IF HasRoute(ui) THEN ui.quoted.amount ELSE 0])
    /\ UiOnly

\* The deep link from the portfolio, in either step.
SwapPreselect(d) ==
    /\ page = "swap" /\ ui.req < MaxRequests[page]
    /\ ui' = InputsChanged([ui EXCEPT !.from = d, !.to = IF @ = d THEN "" ELSE @,
                                      !.amount = 0, !.step = "form"])
    /\ UiOnly

\* The slippage control of the form.
SwapSlippage(s) ==
    /\ FormShown
    /\ ui' = [ui EXCEPT !.slippage = s]
    /\ UiOnly

\* The setting read on mount arrives, in either step, and takes the place of
\* what was chosen meanwhile.
SwapStored(s) ==
    /\ page = "swap" /\ ~ui.loaded
    /\ ui' = [ui EXCEPT !.slippage = s, !.loaded = TRUE]
    /\ UiOnly

\* runQuote: a request with the next id.
RunQuote(u) ==
    /\ ui' = [u EXCEPT !.req = @ + 1, !.quoting = TRUE]
    /\ wire' = wire \cup {[kind |-> "quote", id |-> u.req + 1, from |-> u.from, to |-> u.to,
                           amount |-> u.amount, asked |-> u.height]}

SwapDebounce ==
    /\ page = "swap" /\ ui.timer /\ ui.req < MaxRequests[page]
    /\ RunQuote([ui EXCEPT !.timer = FALSE])
    /\ FormOnly

\* Both listeners of chain:block run: the card's height and the quote's.
SwapBlock ==
    /\ page = "swap" /\ ui.req < MaxRequests[page]
    /\ WorldMoves
    /\ LET u == [ui EXCEPT !.height = world', !.quoteHeight = world']
       IN  IF InputsReady(u) THEN RunQuote(u) ELSE ui' = u /\ UNCHANGED wire

\* The answer as the state keeps it, stamped with the height of its arrival.
QuotedBy(r, kind) ==
    [kind |-> kind, id |-> r.id, from |-> r.from, to |-> r.to, amount |-> r.amount,
     asked |-> r.asked, height |-> ui.quoteHeight]

\* Mutant: the id of the answer is not compared.
QuotedAlways(r, kind) ==
    ui' = [ui EXCEPT !.quoted = QuotedBy(r, kind), !.quoting = FALSE]

\* A superseded answer is dropped.
Quoted(r, kind) ==
    ui' = IF r.id = ui.req THEN [ui EXCEPT !.quoted = QuotedBy(r, kind), !.quoting = FALSE] ELSE ui

SwapQuote(r, kind) ==
    /\ page = "swap" /\ r.kind = "quote"
    /\ Quoted(r, kind)
    /\ wire' = wire \ {r}
    /\ FormOnly

SwapQuoteFails(r) ==
    /\ page = "swap" /\ r.kind = "quote"
    /\ ui' = IF r.id = ui.req THEN [ui EXCEPT !.quoted = NoQuote, !.quoting = FALSE] ELSE ui
    /\ wire' = wire \ {r}
    /\ FormOnly

SwapReview ==
    /\ FormShown /\ CanReview(ui)
    /\ ui' = [ui EXCEPT !.step = "confirm"]
    /\ UiOnly

SwapBack ==
    /\ ConfirmShown /\ ~Busy("swap")
    /\ ui' = [ui EXCEPT !.step = "form"]
    /\ UiOnly

\* The box is offered for a quote with a high impact.
SwapAck ==
    /\ ConfirmShown /\ ui.quoted.kind = "high"
    /\ ui' = [ui EXCEPT !.ack = ~@]
    /\ UiOnly

\* What the confirm step shows of a swap, and what useSwapTx builds of it: the
\* route and the output are those of the quote.
SwapShown(u) == <<<<u.from, u.to, u.amount>>, <<u.from, u.amount>>, <<u.to, u.quoted.id, u.slippage>>>>

SwapMsg(u) == <<<<u.quoted.from, u.quoted.to, u.quoted.amount>>, <<u.from, u.amount>>,
                <<u.to, u.quoted.id, u.slippage>>>>

SwapExecute ==
    /\ ConfirmShown /\ CanExecute(ui)
    /\ SubmitForm("swap", "swap", SwapShown(ui), SwapMsg(ui), TRUE)

\* resetAfterSwap; the cleared amount takes the quote along.
AfterSwap(u) == InputsChanged([u EXCEPT !.amount = 0, !.ack = FALSE, !.step = "form"])

SwapAnswered(r, ok) ==
    /\ page = "swap"
    /\ TxAnswered(r, ok)
    /\ ui' = IF ok THEN AfterSwap(ui) ELSE ui

\* onConfirmed resets again, whatever was entered meanwhile.
SwapConfirmed ==
    /\ page = "swap"
    /\ Confirmed
    /\ ui' = AfterSwap(ui)

\* A swap that is executed was quoted after the last block the card saw, for
\* the inputs it shows, whichever answers were late: no execution at the price
\* of an earlier block.
SwapQuoteIsFresh ==
    [][Submits("swap") =>
          /\ ui.quoted.asked = ui.height
          /\ <<ui.quoted.from, ui.quoted.to, ui.quoted.amount>> = <<ui.from, ui.to, ui.amount>>]_formVars
=============================================================================
