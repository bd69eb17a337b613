------------------------------- MODULE Forms -------------------------------
(***************************************************************************)
(* The transaction forms of the frontend, one of them mounted: what is     *)
(* signed against what is shown, whatever order answers, blocks, polls and *)
(* clicks come in.                                                         *)
(***************************************************************************)
EXTENDS SwapForm, OrderForm, PoolForm, SendForm, StakeForm

UiOf(p) ==
    CASE p = "swap" -> SwapInit
      [] p = "order" -> OrderInit
      [] p = "pool" -> PoolInit
      [] p = "send" -> SendInit
      [] p = "stake" -> StakeInit

WireOf(p) == IF p = "order" THEN AskBalances(0) ELSE {}

FormsInit ==
    /\ page \in Pages
    /\ ui = UiOf(page)
    /\ wire = WireOf(page)
    /\ unconfirmed = 0 /\ sent = NotSent /\ world = 0

\* Another page is shown: its form is mounted afresh.
ShowPage ==
    /\ page' \in Pages
    /\ ui' = UiOf(page')
    /\ wire' = WireOf(page')
    /\ unconfirmed' = 0 /\ sent' = NotSent /\ world' = 0

SwapPicked == \E d \in SwapDenoms : SwapPick(d)
SwapTyped == \E a \in SwapAmounts : SwapType(a)
SwapPreselected == \E d \in SwapDenoms : SwapPreselect(d)
SwapSlippageSet == \E s \in {5, 10} : SwapSlippage(s)
SwapSettingArrived == \E s \in {5, 10} : SwapStored(s)
SwapQuoteAnswered == \E r \in wire, kind \in {"fair", "high", "noRoute"} : SwapQuote(r, kind)
SwapQuoteFailed == \E r \in wire : SwapQuoteFails(r)
SwapTxAnswered == \E r \in wire, ok \in BOOLEAN : SwapAnswered(r, ok)

OrderPriced == \E p \in Prices \cup {0} : OrderPrice(p)
OrderSized == \E a \in OrderAmounts \cup {0} : OrderAmount(a)
OrderTotalled == \E p \in Prices, a \in OrderAmounts : OrderTotal(p * a)
LevelClicked == \E p \in Prices : LevelClick(p)
OrderBalancesAnswered == \E r \in wire, b \in {0, OrderBalance} : OrderBalances(r, b)
OrderValidationAnswered == \E r \in wire, bad \in BOOLEAN : OrderValidated(r, bad)
OrderMessagesBuilt == \E r \in wire : OrderBuilt(r)
OrderMessagesFailed == \E r \in wire : OrderNotBuilt(r)
OrderBookReloaded == \E n \in 0..1 : OrderBookChanged(n)
TerminalTabbed == \E t \in {"trades", "myOrders"} : TerminalTab(t)
OrderTxAnswered == \E r \in wire, ok \in BOOLEAN : OrderAnswered(r, ok)

PoolTyped == \E a \in PoolAmounts : PoolType(a)
PoolSlippageSet == \E s \in PoolSlippages : PoolSlippage(s)
PoolPercentSet == \E p \in {25, 100} : PoolPercent(p)
PoolPolled == \E p \in PoolStates, n \in {0, PoolShares} : PoolReloaded(p, n)
PoolTxAnswered == \E r \in wire, ok \in BOOLEAN : PoolAnswered(r, ok)

SendOpened == \E d \in SendDenoms \cup {NoDenom} : SendOpen(d)
SendSpendableAnswered == \E r \in wire, b \in Spendables : SendSpendable(r, b)
SendSpendableFailed == \E r \in wire : SendSpendableFails(r)
SendFeeAnswered == \E r \in wire, f \in Fees : SendFee(r, f)
SendDenomPicked == \E d \in SendDenoms : SendDenom(d)
SendRecipientTyped == \E to \in {"other", "self"} : SendRecipient(to)
SendAmountTyped == \E a \in SendAmounts : SendAmount(a)
SendMemoTyped == \E m \in Memos : SendMemo(m)
SendTxAnswered == \E r \in wire, ok \in BOOLEAN : SendAnswered(r, ok)

StakePolled == \E d \in StakeDatas : StakeReloaded(d)
NativeOpened ==
    /\ page = "stake"
    /\ \E v \in MergedValidators(ui.data), type \in {"delegate", "undelegate", "redelegate"} : OpenNative(v, type)
JoinOpened == page = "stake" /\ \E r \in Range(ui.data.rewards) : OpenJoin(r)
ModalTyped == \E a \in StakeAmounts : ModalType(a)
ModalTargeted == page = "stake" /\ \E val \in OtherValidators(ui) : ModalTarget(val)
ClaimedOne == page = "stake" /\ \E item \in PendingItems(ui.data) : ClaimOne(item)
StakeTxAnswered == \E r \in wire, ok \in BOOLEAN : StakeAnswered(r, ok)

FormsNext ==
    \/ ShowPage
    \/ SwapPicked \/ SwapTyped \/ SwapFlip \/ SwapPreselected \/ SwapSlippageSet \/ SwapSettingArrived
    \/ SwapDebounce
    \/ SwapBlock \/ SwapQuoteAnswered \/ SwapQuoteFailed \/ SwapReview \/ SwapBack \/ SwapAck
    \/ SwapExecute \/ SwapTxAnswered \/ SwapConfirmed
    \/ OrderSide \/ OrderPriced \/ OrderSized \/ OrderTotalled \/ OrderShortcut \/ LevelClicked
    \/ OrderSwitch \/ OrderBalancesAnswered \/ OrderDebounce \/ OrderValidationAnswered \/ OrderReview
    \/ OrderMessagesBuilt \/ OrderMessagesFailed \/ OrderBack \/ OrderConfirm \/ OrderBookReloaded
    \/ TerminalTabbed \/ MyOrdersCancel \/ OrderTxAnswered \/ OrderConfirmed
    \/ PoolTyped \/ PoolMax \/ PoolSlippageSet \/ PoolPercentSet \/ PoolTab \/ PoolPolled
    \/ PoolAdd \/ PoolRemove \/ PoolTxAnswered \/ PoolConfirmed
    \/ SendOpened \/ SendClose \/ SendSpendableAnswered \/ SendSpendableFailed \/ SendFeeDebounce
    \/ SendFeeAnswered \/ SendDenomPicked \/ SendRecipientTyped \/ SendAmountTyped \/ SendMemoTyped
    \/ SendBypass \/ SendMax \/ SendReview \/ SendBack \/ SendConfirm \/ SendTxAnswered \/ SendConfirmed
    \/ StakePolled \/ StakeView \/ OpenStake \/ NativeOpened \/ JoinOpened
    \/ ModalTyped \/ ModalMax \/ ModalTargeted \/ ModalClose \/ SubmitStake \/ SubmitDelegate
    \/ SubmitUndelegate \/ SubmitRedelegate \/ SubmitJoin \/ ClaimedOne \/ ClaimAll
    \/ PageClaimAll \/ StakeFix \/ StakeUnlock \/ StakeTxAnswered

FormsSpec == FormsInit /\ [][FormsNext]_formVars

\* Types; and no hook instance has two submissions on their way.
FormTypeOK ==
    /\ page \in Pages /\ unconfirmed \in Nat /\ world \in 0..MaxBlocks[page]
    /\ DOMAIN ui = DOMAIN UiOf(page)
    /\ \A r, s \in wire : r.kind = "submit" /\ s.kind = "submit" /\ r.hook = s.hook => r = s

\* What a form signs is what it shows at that moment: a quote for other inputs,
\* shares of a pool reloaded meanwhile, validators of another list never get
\* into the messages.  The two forms that break it are left to OrderIsAsShown
\* and to the README: an order, and the target of a redelegation.
SignedAsShown ==
    [][sent'.op \notin {"order", "redelegate"} => sent'.signed = sent'.shown]_formVars

\* "A review -> confirm -> broadcast flow" (OrderForm.tsx): the order signed is
\* the one reviewed on the screen.
OrderIsAsShown == [][sent'.op = "order" => sent'.signed = sent'.shown]_formVars
=============================================================================
