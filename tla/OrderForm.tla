----------------------------- MODULE OrderForm -----------------------------
(***************************************************************************)
(* The trading terminal: components/trade/terminal/Terminal.tsx with the   *)
(* order form, the order book that prefills its price and the open orders. *)
(* Prices and amounts are small numbers, 0 an empty field; the total shown *)
(* is their product; the messages of an order                              *)
(* (TradeHelpers!BuildOrderMessages) stand for what they order.            *)
(***************************************************************************)
EXTENDS FormBase

CONSTANTS Prices, OrderAmounts, OrderBalance

\* The mount effects ask for the balances and for a fee.
OrderInit == [side |-> "buy", price |-> 0, amount |-> 0, selected |-> 0,
              step |-> "form", msgs |-> <<>>, seq |-> 0, timer |-> FALSE, invalid |-> FALSE,
              balance |-> 0, tab |-> "trades", orders |-> 0, builds |-> 0, account |-> 0]

\* GetSpendableBalances of an account, on mount and on every switch.
AskBalances(account) == {[kind |-> "balances", of |-> account]}

\* uAmount and uPrice, what validation and review depend on.
Inputs(u) == <<u.side, u.price, u.amount>>

Complete(u) == u.price > 0 /\ u.amount > 0

\* The validation effect runs when an input changed: a new timer with the next
\* number, or no error at all; then the number stays.
Validate(u) ==
    IF Inputs(u) = Inputs(ui) THEN u
    ELSE IF Complete(u) THEN [u EXCEPT !.seq = @ + 1, !.timer = TRUE]
    ELSE [u EXCEPT !.invalid = FALSE, !.timer = FALSE]

OrderEdits == page = "order" /\ ui.step = "form" /\ ui.seq < MaxRequests[page]

OrderSide ==
    /\ OrderEdits
    /\ ui' = Validate([ui EXCEPT !.side = IF @ = "buy" THEN "sell" ELSE "buy"])
    /\ UiOnly

OrderPrice(p) ==
    /\ OrderEdits
    /\ ui' = Validate([ui EXCEPT !.price = p])
    /\ UiOnly

OrderAmount(a) ==
    /\ OrderEdits
    /\ ui' = Validate([ui EXCEPT !.amount = a])
    /\ UiOnly

\* The amount follows a total typed in, rounded down.
OrderTotal(t) ==
    /\ OrderEdits
    /\ ui' = Validate([ui EXCEPT !.amount = IF ui.price = 0 THEN 0 ELSE t \div ui.price])
    /\ UiOnly

\* The whole balance; nothing to fill in without a price for a purchase.
OrderShortcut ==
    /\ OrderEdits
    /\ ui.side = "buy" => ui.price > 0
    /\ LET a == IF ui.side = "buy" THEN ui.balance \div ui.price ELSE ui.balance
       IN  ui' = Validate([ui EXCEPT !.amount = a])
    /\ UiOnly

\* The price follows a new selectedPrice of the terminal, in either step.
Prefilled(u, p) == [u EXCEPT !.selected = p, !.price = p]

\* A click on a level of the book; the same price again changes nothing.
LevelClick(p) ==
    /\ page = "order" /\ ui.seq < MaxRequests[page] /\ p # ui.selected
    /\ ui' = Validate(Prefilled(ui, p))
    /\ UiOnly

\* The active account is switched: other balances, the same form.
OrderSwitch ==
    /\ page = "order"
    /\ WorldMoves
    /\ ui' = [ui EXCEPT !.account = world']
    /\ wire' = wire \cup AskBalances(world')

\* The answer to the balances (a failure is none), whichever account's.
OrderBalances(r, b) ==
    /\ page = "order" /\ r.kind = "balances"
    /\ ui' = [ui EXCEPT !.balance = b]
    /\ wire' = wire \ {r}
    /\ FormOnly

OrderDebounce ==
    /\ page = "order" /\ ui.timer
    /\ ui' = [ui EXCEPT !.timer = FALSE]
    /\ wire' = wire \cup {[kind |-> "validate", id |-> ui.seq]}
    /\ FormOnly

OrderValidated(r, bad) ==
    /\ page = "order" /\ r.kind = "validate"
    /\ ui' = IF r.id = ui.seq THEN [ui EXCEPT !.invalid = bad] ELSE ui
    /\ wire' = wire \ {r}
    /\ FormOnly

CanReviewOrder(u) == Complete(u) /\ ~u.invalid /\ u.step = "form"

\* The order on the screen: its inputs, and its creator.
OrderOf(u) == <<Inputs(u), u.account>>

\* handleReview asks for the messages; the form stays as it is meanwhile.
OrderReview ==
    /\ page = "order" /\ CanReviewOrder(ui) /\ ui.builds < MaxRequests[page]
    /\ ui' = [ui EXCEPT !.builds = @ + 1]
    /\ wire' = wire \cup {[kind |-> "build", id |-> ui.builds, order |-> OrderOf(ui)]}
    /\ FormOnly

\* The messages arrive, whatever the form holds by then.
OrderBuilt(r) ==
    /\ page = "order" /\ r.kind = "build"
    /\ ui' = [ui EXCEPT !.msgs = r.order, !.step = "confirm"]
    /\ wire' = wire \ {r}
    /\ FormOnly

OrderNotBuilt(r) ==
    /\ page = "order" /\ r.kind = "build"
    /\ wire' = wire \ {r}
    /\ UNCHANGED ui
    /\ FormOnly

OrderBack ==
    /\ page = "order" /\ ui.step = "confirm" /\ ~Busy("order")
    /\ ui' = [ui EXCEPT !.step = "form"]
    /\ UiOnly

\* What the confirm step shows is the form, what is signed are the messages.
OrderConfirm ==
    /\ page = "order" /\ ui.step = "confirm"
    /\ SubmitForm("order", "order", OrderOf(ui), ui.msgs, TRUE)

\* The book of the market was reloaded: its levels and the open orders.
OrderBookChanged(n) ==
    /\ page = "order"
    /\ WorldMoves
    /\ ui' = [ui EXCEPT !.orders = n]
    /\ UNCHANGED wire

TerminalTab(t) ==
    /\ page = "order" /\ t # ui.tab
    /\ ui' = [ui EXCEPT !.tab = t]
    /\ UiOnly

\* One message for every order that is passed.
CancelOrders(orders) == SubmitForm("cancel", "cancel", <<ui.orders>>, <<orders>>, TRUE)

\* Cancelling one order, or all: the list is the one shown.  The tab has a hook
\* of its own.
MyOrdersCancel ==
    /\ page = "order" /\ ui.tab = "myOrders" /\ ui.orders > 0
    /\ CancelOrders(ui.orders)

\* reset after an accepted order.
OrderAnswered(r, ok) ==
    /\ page = "order"
    /\ TxAnswered(r, ok)
    /\ ui' = IF ok /\ r.op = "order"
             THEN Validate([ui EXCEPT !.amount = 0, !.msgs = <<>>, !.step = "form"])
             ELSE ui

\* The form has no onOrderPlaced here; the open orders reload.
OrderConfirmed ==
    /\ page = "order"
    /\ Confirmed
    /\ UNCHANGED ui
=============================================================================
