------------------------------ MODULE PoolForm ------------------------------
(***************************************************************************)
(* The manage view of a pool: components/trade/pools/PoolManage.tsx.       *)
(* The pool, the balances and the shares are the ones last loaded; the two *)
(* forms are tabs, and a tab left behind is unmounted.  All amounts are in *)
(* base units; the share arithmetic is that of TradeHelpers.               *)
(***************************************************************************)
EXTENDS FormBase, TradeHelpers

CONSTANTS PoolStates, PoolAmounts, PoolBalance, PoolShares, PoolSupply, PoolSlippages

PoolInit == [mount |-> 0, tab |-> "add", pool |-> CHOOSE p \in PoolStates : TRUE, shares |-> PoolShares,
             base |-> 0, quote |-> 0, pct |-> 0, slip |-> 5]

\* The amount that goes with another one at the reserves shown.
Opposite(u, a, isBase) ==
    LET opp == PoolOppositeAmount(u.pool, [n |-> a, e |-> 0], isBase) IN RoundHalfUp(opp.n, opp.e)

PoolType(a) ==
    /\ page = "pool" /\ ui.tab = "add"
    /\ \/ ui' = [ui EXCEPT !.base = a, !.quote = Opposite(ui, a, TRUE)]
       \/ ui' = [ui EXCEPT !.quote = a, !.base = Opposite(ui, a, FALSE)]
    /\ UiOnly

\* The Max buttons.
PoolMax ==
    /\ page = "pool" /\ ui.tab = "add"
    /\ \/ ui' = [ui EXCEPT !.base = PoolBalance, !.quote = Opposite(ui, PoolBalance, TRUE)]
       \/ ui' = [ui EXCEPT !.quote = PoolBalance, !.base = Opposite(ui, PoolBalance, FALSE)]
    /\ UiOnly

PoolSlippage(s) ==
    /\ page = "pool" /\ s # ui.slip
    /\ ui' = [ui EXCEPT !.slip = s]
    /\ UiOnly

PoolPercent(p) ==
    /\ page = "pool" /\ ui.tab = "remove" /\ ui.shares > 0
    /\ ui' = [ui EXCEPT !.pct = p]
    /\ UiOnly

\* The other tab: a form and a hook of its own, with nothing filled in.
PoolTab ==
    /\ page = "pool" /\ ui.mount < MaxRequests[page]
    /\ ui' = [ui EXCEPT !.tab = IF @ = "add" THEN "remove" ELSE "add", !.mount = @ + 1,
                        !.base = 0, !.quote = 0, !.pct = 0, !.slip = 5]
    /\ UiOnly

\* The pools or the assets were loaded again; what was typed stays.
PoolReloaded(p, shares) ==
    /\ page = "pool"
    /\ WorldMoves
    /\ ui' = [ui EXCEPT !.pool = p, !.shares = shares]
    /\ UNCHANGED wire

ExpectedShares(u) ==
    IF u.base > 0 /\ u.quote > 0 THEN SharesFromAmounts(u.base, u.quote, u.pool, PoolSupply) ELSE 0

PoolAddValid(u) ==
    u.base > 0 /\ u.quote > 0 /\ ExpectedShares(u) > 0 /\ u.base <= PoolBalance /\ u.quote <= PoolBalance

\* usePoolTx floors what is expected by the tolerance.
AddMsg(u) == <<u.base, u.quote, MinWithSlippage(ExpectedShares(u), u.slip)>>

PoolAdd ==
    /\ page = "pool" /\ ui.tab = "add" /\ PoolAddValid(ui)
    /\ SubmitForm(<<"add", ui.mount>>, "add", <<ui.base, ui.quote>>, SubSeq(AddMsg(ui), 1, 2), TRUE)

LpToRemove(u) == (u.shares * u.pct) \div 100

Receives(u) == RemoveAmounts(LpToRemove(u), u.pool, PoolSupply)

RemoveMsg(u) ==
    <<LpToRemove(u), MinWithSlippage(Receives(u).base, u.slip), MinWithSlippage(Receives(u).quote, u.slip)>>

PoolRemove ==
    /\ page = "pool" /\ ui.tab = "remove" /\ ui.shares > 0 /\ LpToRemove(ui) > 0
    /\ SubmitForm(<<"remove", ui.mount>>, "remove", <<LpToRemove(ui)>>, SubSeq(RemoveMsg(ui), 1, 1), TRUE)

\* An accepted submission clears its form if it is still there.
PoolAnswered(r, ok) ==
    /\ page = "pool"
    /\ TxAnswered(r, ok)
    /\ ui' = IF ok /\ r.hook = <<ui.tab, ui.mount>> THEN [ui EXCEPT !.base = 0, !.quote = 0, !.pct = 0] ELSE ui

\* onConfirmed reloads the pools and the assets (PoolReloaded follows).
PoolConfirmed ==
    /\ page = "pool"
    /\ Confirmed
    /\ UNCHANGED ui
=============================================================================
