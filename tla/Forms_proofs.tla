---------------------------- MODULE Forms_proofs ----------------------------
(* Proofs about Forms: no hook has two submissions under way, what is signed *)
(* is what is shown, and what is executed was checked against current        *)
(* answers.                                                                  *)
EXTENDS Forms, Helpers_proofs

-----------------------------------------------------------------------------
(* The inductive invariant                                                   *)

(* Of every form.                                                            *)
OneSubmit ==
    \A r, s \in wire : r.kind = "submit" /\ s.kind = "submit" /\ r.hook = s.hook => r = s

Unshown == {"order", "redelegate"}

SentAsShown == sent.op \notin Unshown => sent.signed = sent.shown

BaseInv ==
    /\ page \in Pages /\ unconfirmed \in Nat /\ world \in 0..MaxBlocks[page]
    /\ DOMAIN ui = DOMAIN UiOf(page)
    /\ OneSubmit
    /\ SentAsShown

(* The swap card: only the last request counts, and it was made at the tip;  *)
(* none counts while the inputs are incomplete.                              *)
SwapFields == {"from", "to", "amount", "step", "ack", "slippage", "loaded", "quoted", "quoting",
               "req", "timer", "quoteHeight", "height"}

QuotesCurrent ==
    \A r \in wire : r.kind = "quote" =>
        /\ r.id \in Nat /\ r.id <= ui.req
        /\ r.id = ui.req => r.asked = world /\ InputsReady(ui)

SwapInv ==
    page = "swap" =>
        /\ DOMAIN ui = SwapFields
        /\ ui.req \in Nat /\ ui.height = world /\ ui.quoteHeight = world
        /\ ui.quoted.asked = ui.quoted.height /\ ui.quoted.asked \in 0..world
        /\ ui.timer => InputsReady(ui)
        /\ QuotesCurrent

(* The send dialog: the balances are those of this opening once its request  *)
(* is answered, and the fee that of the denom and memo shown.                *)
SendFields == {"open", "opening", "denom", "to", "amount", "memo", "step", "bypass", "spendable",
               "failed", "fee", "feeLoading", "feeError", "feeReq", "feeTimer"}

SpendableCurrent ==
    /\ \A r \in wire : r.kind = "spendable" => r = [kind |-> "spendable", id |-> r.id]
    /\ ui.open /\ ~ui.failed /\ [kind |-> "spendable", id |-> ui.opening] \notin wire
         => ui.spendable.id = ui.opening

FeeCurrent ==
    /\ \A r \in wire : r.kind = "fee" =>
          /\ r.id \in Nat /\ r.id <= ui.feeReq
          /\ r.id = ui.feeReq => r.of = <<ui.denom, ui.memo>>
    /\ ui.open /\ ui.denom # NoDenom /\ ~ui.feeLoading /\ ~ui.feeError => ui.fee.of = <<ui.denom, ui.memo>>

SendInv ==
    page = "send" =>
        /\ DOMAIN ui = SendFields
        /\ ui.feeReq \in Nat /\ ui.opening \in Nat
        /\ SpendableCurrent
        /\ FeeCurrent

(* The Earn section: what is staked automatically is an amount.              *)
StakeInv ==
    page = "stake" =>
        /\ DOMAIN ui = {"view", "mount", "modal", "data"}
        /\ DOMAIN ui.modal = {"type", "target", "limit", "amount", "dst"}
        /\ ui.data \in StakeDatas
        /\ ui.modal.type = "stake" => ui.modal.amount \in Int

FormInv == BaseInv /\ SwapInv /\ SendInv /\ StakeInv

-----------------------------------------------------------------------------
(* What a swap and a transfer must be when they are submitted.               *)
SwapFresh ==
    /\ ui.quoted.asked = ui.height
    /\ <<ui.quoted.from, ui.quoted.to, ui.quoted.amount>> = <<ui.from, ui.to, ui.amount>>

SendCurrent ==
    /\ [kind |-> "spendable", id |-> ui.opening] \notin wire /\ ~ui.failed
          => ui.spendable.id = ui.opening
    /\ ~ui.feeLoading /\ ~ui.feeError => ui.fee.of = <<ui.denom, ui.memo>>

StepSafe ==
    /\ Submits("swap") => SwapFresh
    /\ Submits("send") => SendCurrent

(* Steps that submit nothing.                                                *)
LEMMA QuietBase ==
    ASSUME BaseInv, page' = page, DOMAIN ui' = DOMAIN ui, sent' = sent, unconfirmed' \in Nat,
           world' \in 0..MaxBlocks[page], \A r \in wire' : r \in wire \/ r.kind # "submit"
    PROVE  BaseInv' /\ StepSafe
<1>1. OneSubmit'
  BY DEF BaseInv, OneSubmit
<1>2. StepSafe
  BY DEF StepSafe, Submits
<1>3. QED BY <1>1, <1>2 DEF BaseInv, SentAsShown

(* Steps that submit what is shown, or one of the two exceptions.            *)
LEMMA SubmitBase ==
    ASSUME BaseInv, NEW hook, NEW op, NEW seen, NEW signed, NEW confirm,
           SubmitForm(hook, op, seen, signed, confirm),
           op \notin Unshown => signed = seen
    PROVE  /\ BaseInv' /\ UNCHANGED <<page, ui, world>>
           /\ \A o : Submits(o) => o = op
           /\ \A r \in wire' : r \in wire \/ r.kind = "submit"
<1> DEFINE r == [kind |-> "submit", hook |-> hook, op |-> op, confirm |-> confirm]
<1>1. /\ ~Busy(hook) /\ wire' = wire \cup {r}
      /\ sent' = [op |-> op, shown |-> seen, signed |-> signed]
      /\ UNCHANGED <<page, ui, unconfirmed, world>>
  BY DEF SubmitForm
<1>2. r.kind = "submit" /\ r.hook = hook /\ r.op = op
  OBVIOUS
<1> HIDE DEF r
<1>3. OneSubmit'
  BY <1>1, <1>2 DEF BaseInv, OneSubmit, Busy
<1>4. SentAsShown'
  BY <1>1 DEF SentAsShown
<1>5. \A o : Submits(o) => o = op
  BY <1>1, <1>2 DEF Submits
<1>6. QED BY <1>1, <1>2, <1>3, <1>4, <1>5 DEF BaseInv

(* An answer to a submission, and a confirmation.                            *)
LEMMA AnswerBase ==
    ASSUME BaseInv, DOMAIN ui' = DOMAIN ui,
           Confirmed \/ \E r, ok : TxAnswered(r, ok)
    PROVE  BaseInv' /\ StepSafe /\ page' = page /\ world' = world /\ wire' \subseteq wire
<1>1. /\ page' = page /\ world' = world /\ sent' = sent
      /\ wire' \subseteq wire /\ unconfirmed' \in Nat
  BY DEF Confirmed, TxAnswered, BaseInv
<1>2. QED BY <1>1, QuietBase DEF BaseInv

-----------------------------------------------------------------------------
(* The swap card                                                             *)

(* The inputs change: either they are complete and the requests still count, *)
(* or nothing that was asked counts any longer.                              *)
LEMMA InputsChangedIs ==
    ASSUME NEW u, DOMAIN u = SwapFields, u.req \in Nat
    PROVE  /\ DOMAIN InputsChanged(u) = SwapFields
           /\ InputsChanged(u).height = u.height /\ InputsChanged(u).quoteHeight = u.quoteHeight
           /\ InputsChanged(u).timer => InputsReady(InputsChanged(u))
           /\ \/ /\ InputsReady(InputsChanged(u))
                 /\ InputsChanged(u).req = u.req /\ InputsChanged(u).quoted = u.quoted
              \/ InputsChanged(u).req = u.req + 1 /\ InputsChanged(u).quoted = NoQuote
<1>1. CASE InputsReady(u)
  BY <1>1 DEF InputsChanged, InputsReady, SwapFields
<1>2. CASE ~InputsReady(u)
  BY <1>2 DEF InputsChanged, SwapFields
<1>3. QED BY <1>1, <1>2

(* A step of the card that asks nothing, and after which the requests that   *)
(* count are among those that counted before.                                *)
LEMMA SwapKeeps ==
    ASSUME FormInv, page = "swap", page' = page, world' = world, sent' = sent,
           unconfirmed' \in Nat, wire' \subseteq wire,
           DOMAIN ui' = SwapFields, ui'.req \in Nat, ui.req <= ui'.req,
           ui'.height = ui.height, ui'.quoteHeight = ui.quoteHeight,
           ui'.quoted \in {ui.quoted, NoQuote}, ui'.timer => InputsReady(ui'),
           ui'.req = ui.req =>
               \/ InputsReady(ui')
               \/ /\ ui'.from = ui.from /\ ui'.to = ui.to /\ ui'.amount = ui.amount
    PROVE  FormInv' /\ StepSafe
<1>1. BaseInv /\ SwapInv /\ DOMAIN ui = SwapFields
  BY DEF FormInv, SwapInv
<1>2. BaseInv' /\ StepSafe
  BY <1>1, QuietBase DEF BaseInv
<1>3. QuotesCurrent'
  <2>1. SUFFICES ASSUME NEW r \in wire', r.kind = "quote"
                 PROVE  /\ r.id \in Nat /\ r.id <= ui'.req
                        /\ r.id = ui'.req => r.asked = world' /\ InputsReady(ui')
    BY DEF QuotesCurrent
  <2>2. /\ r.id \in Nat /\ r.id <= ui.req /\ ui.req \in Nat
        /\ r.id = ui.req => r.asked = world /\ InputsReady(ui)
    BY <1>1, <2>1 DEF SwapInv, QuotesCurrent
  <2>3. r.id <= ui'.req /\ (r.id = ui'.req => ui'.req = ui.req /\ r.id = ui.req)
    BY <2>2
  <2>4. ui'.req = ui.req /\ InputsReady(ui) => InputsReady(ui')
    BY DEF InputsReady
  <2>5. QED BY <2>2, <2>3, <2>4
<1>4. ui'.quoted.asked = ui'.quoted.height /\ ui'.quoted.asked \in 0..world'
  <2>1. world \in Nat
    BY <1>1, FormAssumption DEF BaseInv
  <2>2. CASE ui'.quoted = ui.quoted
    BY <1>1, <2>2 DEF SwapInv
  <2>3. CASE ui'.quoted = NoQuote
    <3>1. NoQuote.asked = 0 /\ NoQuote.height = 0
      BY DEF NoQuote
    <3>2. 0 \in 0..world'
      BY <2>1
    <3>3. QED BY <2>3, <3>1, <3>2
  <2>4. QED BY <2>2, <2>3
<1>5. SwapInv'
  BY <1>1, <1>3, <1>4 DEF SwapInv
<1>6. QED BY <1>2, <1>5 DEF FormInv, SendInv, StakeInv

(* An edit that goes through the effect of the inputs.                       *)
LEMMA SwapEdited ==
    ASSUME FormInv, page = "swap", page' = page, world' = world, sent' = sent,
           unconfirmed' \in Nat, wire' \subseteq wire,
           NEW u, DOMAIN u = SwapFields, u.req = ui.req, u.height = ui.height,
           u.quoteHeight = ui.quoteHeight, u.quoted = ui.quoted,
           ui' = InputsChanged(u)
    PROVE  FormInv' /\ StepSafe
<1>1. ui.req \in Nat
  BY DEF FormInv, SwapInv
<1> DEFINE v == InputsChanged(u)
<1>2. /\ DOMAIN v = SwapFields
      /\ v.height = u.height /\ v.quoteHeight = u.quoteHeight
      /\ v.timer => InputsReady(v)
      /\ \/ InputsReady(v) /\ v.req = u.req /\ v.quoted = u.quoted
         \/ v.req = u.req + 1 /\ v.quoted = NoQuote
  BY <1>1, InputsChangedIs
<1>3. ui' = v
  OBVIOUS
<1> HIDE DEF v
<1>4. DOMAIN ui' = SwapFields /\ ui'.height = ui.height /\ ui'.quoteHeight = ui.quoteHeight
  BY <1>2, <1>3
<1>5. /\ ui'.req \in Nat /\ ui.req <= ui'.req /\ ui'.quoted \in {ui.quoted, NoQuote}
      /\ ui'.req = ui.req => InputsReady(ui')
      /\ ui'.timer => InputsReady(ui')
  BY <1>1, <1>2, <1>3
<1>6. QED BY <1>4, <1>5, SwapKeeps

(* The edits.                                                                *)
SwapEditing == SwapPicked \/ SwapTyped \/ SwapFlip \/ SwapPreselected

LEMMA SwapEditingKeeps ==
    ASSUME FormInv, SwapEditing
    PROVE  FormInv' /\ StepSafe
<1>1. page = "swap" /\ UiOnly
  BY DEF SwapEditing, SwapPicked, SwapTyped, SwapFlip, SwapPreselected, SwapPick, SwapType, SwapPreselect,
         SwapEdits, FormShown
<1>2. DOMAIN ui = SwapFields /\ unconfirmed \in Nat
  BY <1>1 DEF FormInv, SwapInv, BaseInv
<1>3. PICK u : /\ DOMAIN u = SwapFields /\ u.req = ui.req /\ u.height = ui.height
               /\ u.quoteHeight = ui.quoteHeight /\ u.quoted = ui.quoted
               /\ ui' = InputsChanged(u)
  <2> DEFINE Is(u) == /\ DOMAIN u = SwapFields /\ u.req = ui.req /\ u.height = ui.height
                      /\ u.quoteHeight = ui.quoteHeight /\ u.quoted = ui.quoted
                      /\ ui' = InputsChanged(u)
  <2>0. SUFFICES \E u : Is(u)
    OBVIOUS
  <2>1. CASE SwapPicked
    <3>1. PICK d \in SwapDenoms : SwapPick(d)
      BY <2>1 DEF SwapPicked
    <3>2. CASE ui' = InputsChanged([ui EXCEPT !.from = d])
      <4>1. Is([ui EXCEPT !.from = d])
        BY <1>2, <3>2 DEF SwapFields
      <4>2. QED BY <4>1
    <3>3. CASE ui' = InputsChanged([ui EXCEPT !.to = d])
      <4>1. Is([ui EXCEPT !.to = d])
        BY <1>2, <3>3 DEF SwapFields
      <4>2. QED BY <4>1
    <3>4. QED BY <3>1, <3>2, <3>3 DEF SwapPick
  <2>2. CASE SwapTyped
    <3>1. PICK a \in SwapAmounts : SwapType(a)
      BY <2>2 DEF SwapTyped
    <3>2. Is([ui EXCEPT !.amount = a])
      BY <1>2, <3>1 DEF SwapFields, SwapType
    <3>3. QED BY <3>2
  <2>3. CASE SwapFlip
    <3>1. PICK x : x = IF HasRoute(ui) THEN ui.quoted.amount ELSE 0
      OBVIOUS
    <3>2. Is([ui EXCEPT !.from = ui.to, !.to = ui.from, !.amount = x])
      BY <1>2, <2>3, <3>1 DEF SwapFields, SwapFlip
    <3>3. QED BY <3>2
  <2>4. CASE SwapPreselected
    <3>1. PICK d \in SwapDenoms : SwapPreselect(d)
      BY <2>4 DEF SwapPreselected
    <3>2. PICK x : x = IF ui.to = d THEN "" ELSE ui.to
      OBVIOUS
    <3>3. Is([ui EXCEPT !.from = d, !.to = x, !.amount = 0, !.step = "form"])
      BY <1>2, <3>1, <3>2 DEF SwapFields, SwapPreselect
    <3>4. QED BY <3>3
  <2>5. QED BY <2>1, <2>2, <2>3, <2>4 DEF SwapEditing
<1>4. QED BY <1>1, <1>2, <1>3, SwapEdited DEF UiOnly, FormOnly

(* The steps that leave inputs and quote alone.                              *)
SwapChoosing == SwapSlippageSet \/ SwapSettingArrived \/ SwapReview \/ SwapBack \/ SwapAck

LEMMA SwapChoosingKeeps ==
    ASSUME FormInv, SwapChoosing
    PROVE  FormInv' /\ StepSafe
<1>1. page = "swap" /\ UiOnly
  BY DEF SwapChoosing, SwapSlippageSet, SwapSettingArrived, SwapReview, SwapBack, SwapAck, SwapSlippage,
         SwapStored, FormShown, ConfirmShown
<1>2. DOMAIN ui = SwapFields /\ unconfirmed \in Nat /\ ui.req \in Nat
  BY <1>1 DEF FormInv, SwapInv, BaseInv
<1>3. /\ DOMAIN ui' = SwapFields
      /\ \A f \in {"from", "to", "amount", "quoted", "req", "timer", "height", "quoteHeight"} : ui'[f] = ui[f]
  BY <1>2 DEF SwapChoosing, SwapSlippageSet, SwapSettingArrived, SwapReview, SwapBack, SwapAck, SwapSlippage,
              SwapStored, SwapFields
<1>4. InputsReady(ui') <=> InputsReady(ui)
  BY <1>3 DEF InputsReady
<1>5. ui'.timer => InputsReady(ui')
  BY <1>1, <1>3, <1>4 DEF FormInv, SwapInv
<1>6. QED BY <1>1, <1>2, <1>3, <1>5, SwapKeeps DEF UiOnly, FormOnly

(* A request: it is made with the inputs and the height of now.              *)
LEMMA SwapAsks ==
    ASSUME FormInv, page = "swap", page' = page, sent' = sent, unconfirmed' = unconfirmed,
           world' \in Nat, world <= world', world' <= MaxBlocks[page],
           NEW u, DOMAIN u = SwapFields, u.req = ui.req, u.height = world', u.quoteHeight = world',
           u.quoted = ui.quoted, InputsReady(u), RunQuote(u)
    PROVE  FormInv' /\ StepSafe
<1>1. /\ BaseInv /\ DOMAIN ui = SwapFields /\ ui.req \in Nat /\ QuotesCurrent
      /\ ui.quoted.asked = ui.quoted.height /\ ui.quoted.asked \in 0..world
  BY DEF FormInv, SwapInv
<1>2. PICK r : r = [kind |-> "quote", id |-> u.req + 1, from |-> u.from, to |-> u.to,
                    amount |-> u.amount, asked |-> u.height]
  OBVIOUS
<1>3. r.kind = "quote" /\ r.id = ui.req + 1 /\ r.asked = world'
  BY <1>2
<1>4. wire' = wire \cup {r} /\ ui' = [u EXCEPT !.req = ui.req + 1, !.quoting = TRUE]
  BY <1>2 DEF RunQuote
<1>5. /\ DOMAIN ui' = SwapFields /\ ui'.req = ui.req + 1 /\ ui'.height = world'
      /\ ui'.quoteHeight = world' /\ ui'.quoted = ui.quoted
      /\ ui'.from = u.from /\ ui'.to = u.to /\ ui'.amount = u.amount
  BY <1>4 DEF SwapFields
<1>6. world \in Nat /\ MaxBlocks[page] \in Nat /\ unconfirmed \in Nat
  BY <1>1, FormAssumption DEF BaseInv
<1>7. BaseInv' /\ StepSafe
  BY <1>1, <1>3, <1>4, <1>5, <1>6, QuietBase DEF BaseInv
<1>8. InputsReady(ui')
  BY <1>5 DEF InputsReady
<1>9. QuotesCurrent'
  BY <1>1, <1>3, <1>4, <1>5, <1>8 DEF QuotesCurrent
<1>10. ui'.quoted.asked = ui'.quoted.height /\ ui'.quoted.asked \in 0..world'
  BY <1>1, <1>5, <1>6
<1>11. QED BY <1>5, <1>1, <1>7, <1>8, <1>9, <1>10 DEF FormInv, SwapInv, SendInv, StakeInv

SwapAsking == SwapDebounce \/ SwapBlock

LEMMA SwapAskingKeeps ==
    ASSUME FormInv, SwapAsking
    PROVE  FormInv' /\ StepSafe
<1>1. /\ page = "swap" /\ page' = page /\ sent' = sent /\ unconfirmed' = unconfirmed
  BY DEF SwapAsking, SwapDebounce, SwapBlock, FormOnly, WorldMoves
<1>2. /\ DOMAIN ui = SwapFields /\ unconfirmed \in Nat /\ ui.req \in Nat /\ ui.height = world
      /\ ui.quoteHeight = world /\ world \in 0..MaxBlocks[page] /\ MaxBlocks[page] \in Nat
  BY <1>1, FormAssumption DEF FormInv, SwapInv, BaseInv
<1>3. CASE SwapDebounce
  <2>1. world' = world
    BY <1>3 DEF SwapDebounce, FormOnly
  <2>2. PICK u : u = [ui EXCEPT !.timer = FALSE]
    OBVIOUS
  <2>3. /\ DOMAIN u = SwapFields /\ u.req = ui.req /\ u.height = world' /\ u.quoteHeight = world'
        /\ u.quoted = ui.quoted
    BY <1>2, <2>1, <2>2 DEF SwapFields
  <2>4. RunQuote(u)
    BY <1>3, <2>2 DEF SwapDebounce
  <2>5. InputsReady(u)
    <3>1. InputsReady(ui) /\ u.from = ui.from /\ u.to = ui.to /\ u.amount = ui.amount
      BY <1>1, <1>2, <1>3, <2>2 DEF FormInv, SwapInv, SwapDebounce, SwapFields
    <3>2. QED BY <3>1 DEF InputsReady
  <2>6. QED BY <1>1, <1>2, <2>1, <2>3, <2>4, <2>5, SwapAsks
<1>4. CASE SwapBlock
  <2>1. world' = world + 1 /\ world < MaxBlocks[page]
    BY <1>4 DEF SwapBlock, WorldMoves
  <2>2. PICK u : u = [ui EXCEPT !.height = world', !.quoteHeight = world']
    OBVIOUS
  <2>3. /\ DOMAIN u = SwapFields /\ u.req = ui.req /\ u.height = world' /\ u.quoteHeight = world'
        /\ u.quoted = ui.quoted /\ u.from = ui.from /\ u.to = ui.to /\ u.amount = ui.amount
    BY <1>2, <2>2 DEF SwapFields
  <2>4. IF InputsReady(u) THEN RunQuote(u) ELSE ui' = u /\ UNCHANGED wire
    BY <1>4, <2>2 DEF SwapBlock
  <2>5. CASE InputsReady(u)
    BY <1>1, <1>2, <2>1, <2>3, <2>4, <2>5, SwapAsks
  <2>6. CASE ~InputsReady(u)
    <3>1. ui' = u /\ wire' = wire
      BY <2>4, <2>6
    <3>2. ~InputsReady(ui) /\ ~InputsReady(ui')
      BY <2>3, <2>6, <3>1 DEF InputsReady
    <3>3. /\ ui'.timer = ui.timer /\ BaseInv /\ SwapInv /\ ~ui.timer
      BY <1>1, <1>2, <2>2, <3>1, <3>2 DEF FormInv, SwapInv, SwapFields
    <3>4. BaseInv' /\ StepSafe
      BY <1>1, <1>2, <2>1, <2>3, <3>1, <3>3, QuietBase DEF BaseInv
    <3>5. QuotesCurrent'
      BY <1>1, <2>3, <3>1, <3>2, <3>3 DEF SwapInv, QuotesCurrent
    <3>6. ui'.quoted = ui.quoted /\ 0..world \subseteq 0..world'
      BY <1>2, <2>1, <2>3, <3>1
    <3>7. ui'.quoted.asked = ui'.quoted.height /\ ui'.quoted.asked \in 0..world'
      BY <1>1, <3>3, <3>6 DEF SwapInv
    <3>8. QED BY <1>1, <1>2, <2>3, <3>1, <3>3, <3>4, <3>5, <3>7 DEF FormInv, SwapInv, SendInv, StakeInv
  <2>7. QED BY <2>5, <2>6
<1>5. QED BY <1>3, <1>4 DEF SwapAsking

(* An answer to a request for a quote.                                       *)
SwapQuoting == SwapQuoteAnswered \/ SwapQuoteFailed

LEMMA SwapQuotingKeeps ==
    ASSUME FormInv, SwapQuoting
    PROVE  FormInv' /\ StepSafe
<1>1. PICK r \in wire : (\E kind \in {"fair", "high", "noRoute"} : SwapQuote(r, kind)) \/ SwapQuoteFails(r)
  BY DEF SwapQuoting, SwapQuoteAnswered, SwapQuoteFailed
<1>2. page = "swap" /\ r.kind = "quote" /\ wire' = wire \ {r} /\ FormOnly
  BY <1>1 DEF SwapQuote, SwapQuoteFails
<1>3. /\ DOMAIN ui = SwapFields /\ unconfirmed \in Nat /\ ui.req \in Nat /\ QuotesCurrent /\ BaseInv
      /\ SwapInv
  BY <1>2 DEF FormInv, SwapInv, BaseInv
<1> DEFINE Becomes(q) ==
               /\ r.id = ui.req
               /\ ui' = [ui EXCEPT !.quoted = q, !.quoting = FALSE]
               /\ q = NoQuote \/ (q.asked = r.asked /\ q.height = ui.quoteHeight)
<1>4. ui' = ui \/ \E q : Becomes(q)
  <2>1. CASE SwapQuoteFails(r)
    <3>1. ui' = ui \/ Becomes(NoQuote)
      BY <2>1 DEF SwapQuoteFails
    <3>2. QED BY <3>1
  <2>2. CASE \E kind \in {"fair", "high", "noRoute"} : SwapQuote(r, kind)
    <3>1. PICK kind \in {"fair", "high", "noRoute"} : SwapQuote(r, kind)
      BY <2>2
    <3>2. QuotedBy(r, kind).asked = r.asked /\ QuotedBy(r, kind).height = ui.quoteHeight
      BY DEF QuotedBy
    <3>3. ui' = ui \/ Becomes(QuotedBy(r, kind))
      BY <3>1, <3>2 DEF SwapQuote, Quoted
    <3>4. QED BY <3>3
  <2>3. QED BY <1>1, <2>1, <2>2
<1>5. CASE ui' = ui
  BY <1>2, <1>3, <1>5, SwapKeeps DEF FormOnly, SwapInv
<1>6. CASE \E q : Becomes(q)
  <2>1. PICK q : Becomes(q)
    BY <1>6
  <2>2. /\ DOMAIN ui' = SwapFields /\ ui'.quoted = q
        /\ \A f \in {"from", "to", "amount", "req", "timer", "height", "quoteHeight"} : ui'[f] = ui[f]
    BY <1>3, <2>1 DEF SwapFields
  <2>3. r.asked = world /\ ui.quoteHeight = world /\ world \in Nat
    BY <1>1, <1>2, <1>3, <2>1, FormAssumption DEF QuotesCurrent, SwapInv, BaseInv
  <2>4. q.asked = q.height /\ q.asked \in 0..world
    <3>1. NoQuote.asked = 0 /\ NoQuote.height = 0
      BY DEF NoQuote
    <3>2. QED BY <2>1, <2>3, <3>1
  <2>5. InputsReady(ui') <=> InputsReady(ui)
    BY <2>2 DEF InputsReady
  <2>6. BaseInv' /\ StepSafe
    BY <1>2, <1>3, <2>2, QuietBase DEF BaseInv, FormOnly
  <2>7. QuotesCurrent'
    BY <1>2, <1>3, <2>2, <2>5 DEF QuotesCurrent, FormOnly
  <2>8. SwapInv'
    BY <1>2, <1>3, <2>2, <2>4, <2>5, <2>7 DEF SwapInv, FormOnly
  <2>9. QED BY <1>2, <2>6, <2>8 DEF FormInv, SendInv, StakeInv, FormOnly
<1>7. QED BY <1>4, <1>5, <1>6

(* The answer to a swap, and its confirmation: an accepted swap resets the   *)
(* form.                                                                     *)
SwapEnding == SwapTxAnswered \/ SwapConfirmed

LEMMA SwapEndingKeeps ==
    ASSUME FormInv, SwapEnding
    PROVE  FormInv' /\ StepSafe
<1>1. /\ page = "swap"
      /\ ui' = ui \/ ui' = AfterSwap(ui)
      /\ Confirmed \/ \E r, ok : TxAnswered(r, ok)
  BY DEF SwapEnding, SwapTxAnswered, SwapAnswered, SwapConfirmed
<1>2. /\ DOMAIN ui = SwapFields /\ unconfirmed \in Nat /\ ui.req \in Nat /\ BaseInv /\ SwapInv
  BY <1>1 DEF FormInv, SwapInv, BaseInv
<1>3. page' = page /\ world' = world /\ sent' = sent /\ wire' \subseteq wire /\ unconfirmed' \in Nat
  BY <1>1, <1>2 DEF Confirmed, TxAnswered
<1>4. CASE ui' = ui
  BY <1>1, <1>2, <1>3, <1>4, SwapKeeps DEF SwapInv
<1>5. CASE ui' = AfterSwap(ui)
  <2>1. PICK u : u = [ui EXCEPT !.amount = 0, !.ack = FALSE, !.step = "form"]
    OBVIOUS
  <2>2. /\ DOMAIN u = SwapFields /\ u.req = ui.req /\ u.height = ui.height
        /\ u.quoteHeight = ui.quoteHeight /\ u.quoted = ui.quoted /\ ui' = InputsChanged(u)
    BY <1>2, <1>5, <2>1 DEF SwapFields, AfterSwap
  <2>3. QED BY <1>1, <1>3, <2>2, SwapEdited
<1>6. QED BY <1>1, <1>4, <1>5

(* The swap itself: what allows it makes the quote current.                  *)
LEMMA SwapExecuteKeeps ==
    ASSUME FormInv, SwapExecute
    PROVE  FormInv' /\ StepSafe
<1>1. page = "swap" /\ CanExecute(ui) /\ SubmitForm("swap", "swap", SwapShown(ui), SwapMsg(ui), TRUE)
  BY DEF SwapExecute, ConfirmShown
<1>2. /\ ui.height = world /\ ui.quoted.asked = ui.quoted.height /\ ui.quoted.asked \in 0..world
      /\ world \in Nat /\ BaseInv /\ SwapInv
  BY <1>1, FormAssumption DEF FormInv, SwapInv, BaseInv
<1>3. InputsMatch(ui) /\ ~NeedsFreshQuote(ui)
  BY <1>1 DEF CanExecute, CanReview, HasRoute
<1>4. <<ui.quoted.from, ui.quoted.to, ui.quoted.amount>> = <<ui.from, ui.to, ui.amount>>
  BY <1>3 DEF InputsMatch
<1>5. ui.quoted.asked = ui.height
  BY <1>2, <1>3 DEF NeedsFreshQuote
<1>6. SwapShown(ui) = SwapMsg(ui)
  BY <1>4 DEF SwapShown, SwapMsg
<1>7. /\ BaseInv' /\ UNCHANGED <<page, ui, world>>
      /\ \A o : Submits(o) => o = "swap"
      /\ \A r \in wire' : r \in wire \/ r.kind = "submit"
  BY <1>1, <1>2, <1>6, SubmitBase
<1>8. StepSafe
  BY <1>4, <1>5, <1>7 DEF StepSafe, SwapFresh
<1>9. QuotesCurrent'
  BY <1>1, <1>2, <1>7 DEF QuotesCurrent, SwapInv
<1>10. QED BY <1>1, <1>2, <1>7, <1>8, <1>9 DEF FormInv, SwapInv, SendInv, StakeInv

-----------------------------------------------------------------------------
(* The send dialog                                                           *)

(* After a render either nothing the fee depends on changed, or the estimate *)
(* that counts is a new one.                                                 *)
LEMMA SettledIs ==
    ASSUME NEW u, DOMAIN u = SendFields
    PROVE  /\ DOMAIN Settled(u) = SendFields
           /\ \A f \in SendFields \ {"denom", "feeReq", "feeLoading", "feeTimer"} : Settled(u)[f] = u[f]
           /\ \/ /\ Settled(u).denom = ui.denom /\ Settled(u).memo = ui.memo /\ Settled(u).open = ui.open
                 /\ Settled(u).feeReq = u.feeReq /\ Settled(u).feeLoading = u.feeLoading
              \/ /\ Settled(u).feeReq = u.feeReq + 1
                 /\ Settled(u).open /\ Settled(u).denom # NoDenom => Settled(u).feeLoading
<1> DEFINE w == DefaultDenom(u)
<1>1. /\ DOMAIN w = SendFields
      /\ \A f \in SendFields \ {"denom"} : w[f] = u[f]
  <2>1. PICK d : w = u \/ w = [u EXCEPT !.denom = d]
    BY DEF DefaultDenom
  <2>2. QED BY <2>1 DEF SendFields
<1>2. Settled(u) = IF w.denom = ui.denom /\ w.memo = ui.memo /\ w.open = ui.open THEN w ELSE FeeEffect(w)
  BY DEF Settled
<1> HIDE DEF w
<1>3. CASE w.denom = ui.denom /\ w.memo = ui.memo /\ w.open = ui.open
  BY <1>1, <1>2, <1>3 DEF SendFields
<1>4. CASE ~(w.denom = ui.denom /\ w.memo = ui.memo /\ w.open = ui.open)
  <2>1. Settled(u) = FeeEffect(w)
    BY <1>2, <1>4
  <2>2. CASE w.open /\ w.denom # NoDenom
    <3>1. Settled(u) = [w EXCEPT !.feeReq = @ + 1, !.feeLoading = TRUE, !.feeTimer = TRUE]
      BY <2>1, <2>2 DEF FeeEffect
    <3>2. QED BY <1>1, <3>1 DEF SendFields
  <2>3. CASE ~(w.open /\ w.denom # NoDenom)
    <3>1. Settled(u) = [w EXCEPT !.feeReq = @ + 1, !.feeTimer = FALSE]
      BY <2>1, <2>3 DEF FeeEffect
    <3>2. QED BY <1>1, <2>3, <3>1 DEF SendFields
  <2>4. QED BY <2>2, <2>3
<1>5. QED BY <1>3, <1>4

LEMMA FeeEffectClosed ==
    ASSUME NEW u, DOMAIN u = SendFields, ~u.open
    PROVE  /\ DOMAIN FeeEffect(u) = SendFields
           /\ \A f \in SendFields \ {"feeReq", "feeTimer"} : FeeEffect(u)[f] = u[f]
           /\ FeeEffect(u).feeReq = u.feeReq + 1
BY DEF FeeEffect, SendFields

(* No estimate is asked for: the one that counts stays, or none does.        *)
LEMMA FeeKeeps ==
    ASSUME FeeCurrent, ui.feeReq \in Nat, \A r \in wire' : r.kind = "fee" => r \in wire,
           \/ \A f \in {"denom", "memo", "open", "feeReq", "feeLoading", "fee", "feeError"} : ui'[f] = ui[f]
           \/ ui'.feeReq = ui.feeReq + 1 /\ (ui'.open /\ ui'.denom # NoDenom => ui'.feeLoading)
    PROVE  FeeCurrent' /\ ui'.feeReq \in Nat
<1>1. CASE \A f \in {"denom", "memo", "open", "feeReq", "feeLoading", "fee", "feeError"} : ui'[f] = ui[f]
  BY <1>1 DEF FeeCurrent
<1>2. CASE ui'.feeReq = ui.feeReq + 1 /\ (ui'.open /\ ui'.denom # NoDenom => ui'.feeLoading)
  BY <1>2 DEF FeeCurrent
<1>3. QED BY <1>1, <1>2

(* A step that changes neither the balances nor which of them are awaited.   *)
LEMMA SpendableKeeps ==
    ASSUME SpendableCurrent, ui'.open => ui.open, ui'.failed = ui.failed, ui'.opening = ui.opening,
           ui'.spendable = ui.spendable,
           \A r \in wire \cup wire' : r.kind = "spendable" => r \in wire /\ r \in wire'
    PROVE  SpendableCurrent'
BY DEF SpendableCurrent

(* Together, for a step that submits nothing.                                *)
LEMMA SendKeeps ==
    ASSUME FormInv, page = "send", page' = page, world' = world, sent' = sent, unconfirmed' \in Nat,
           \A r \in wire' : r \in wire \/ r.kind # "submit",
           DOMAIN ui' = SendFields, ui'.opening \in Nat, ui'.feeReq \in Nat,
           SpendableCurrent', FeeCurrent'
    PROVE  FormInv' /\ StepSafe
<1>1. BaseInv /\ DOMAIN ui = SendFields
  BY DEF FormInv, SendInv
<1>2. BaseInv' /\ StepSafe
  BY <1>1, QuietBase DEF BaseInv
<1>3. QED BY <1>2 DEF FormInv, SwapInv, SendInv, StakeInv

(* The dialog opens.                                                         *)
LEMMA SendOpenKeeps ==
    ASSUME FormInv, SendOpened
    PROVE  FormInv' /\ StepSafe
<1>1. PICK preset : SendOpen(preset)
  BY DEF SendOpened
<1>2. page = "send" /\ ~ui.open /\ FormOnly
  BY <1>1 DEF SendOpen
<1>3. /\ DOMAIN ui = SendFields /\ ui.feeReq \in Nat /\ ui.opening \in Nat /\ unconfirmed \in Nat
      /\ SpendableCurrent /\ FeeCurrent
  BY <1>2 DEF FormInv, SendInv, BaseInv
<1>4. PICK u : u = [ui EXCEPT !.open = TRUE, !.opening = @ + 1, !.denom = preset, !.to = "nobody",
                              !.amount = Blank, !.memo = 0, !.step = "form", !.bypass = FALSE,
                              !.failed = FALSE, !.fee = NoFee, !.feeError = FALSE]
  OBVIOUS
<1>5. DOMAIN u = SendFields /\ u.open /\ u.opening = ui.opening + 1 /\ u.feeReq = ui.feeReq
  BY <1>3, <1>4 DEF SendFields
<1>6. ui' = Settled(u) /\ wire' = wire \cup {[kind |-> "spendable", id |-> ui.opening + 1]}
  BY <1>1, <1>4 DEF SendOpen
<1>7. /\ DOMAIN ui' = SendFields /\ ui'.opening = ui.opening + 1 /\ ui'.open
      /\ ui'.feeReq = ui.feeReq + 1 /\ (ui'.open /\ ui'.denom # NoDenom => ui'.feeLoading)
  BY <1>2, <1>5, <1>6, SettledIs DEF SendFields
<1>8. FeeCurrent' /\ ui'.feeReq \in Nat
  BY <1>3, <1>6, <1>7, FeeKeeps
<1>9. SpendableCurrent'
  BY <1>3, <1>6, <1>7 DEF SpendableCurrent
<1>10. QED BY <1>2, <1>3, <1>6, <1>7, <1>8, <1>9, SendKeeps DEF FormOnly

(* The dialog is dismissed.                                                  *)
LEMMA SendClosing ==
    ASSUME FormInv, page = "send", page' = page, world' = world, sent' = sent, unconfirmed' \in Nat,
           wire' \subseteq wire, \A r \in wire : r.kind = "spendable" => r \in wire',
           ui' = FeeEffect([ui EXCEPT !.open = FALSE])
    PROVE  FormInv' /\ StepSafe
<1>1. /\ DOMAIN ui = SendFields /\ ui.feeReq \in Nat /\ ui.opening \in Nat
      /\ SpendableCurrent /\ FeeCurrent
  BY DEF FormInv, SendInv
<1>2. PICK u : u = [ui EXCEPT !.open = FALSE]
  OBVIOUS
<1>3. /\ DOMAIN u = SendFields /\ ~u.open
      /\ \A f \in SendFields \ {"open"} : u[f] = ui[f]
  BY <1>1, <1>2 DEF SendFields
<1>4. /\ DOMAIN ui' = SendFields /\ ~ui'.open /\ ui'.feeReq = ui.feeReq + 1
      /\ ui'.opening = ui.opening /\ ui'.failed = ui.failed /\ ui'.spendable = ui.spendable
  BY <1>2, <1>3, FeeEffectClosed DEF SendFields
<1>5. FeeCurrent' /\ ui'.feeReq \in Nat
  BY <1>1, <1>4, FeeKeeps
<1>6. SpendableCurrent'
  BY <1>1, <1>4, SpendableKeeps
<1>7. QED BY <1>1, <1>4, <1>5, <1>6, SendKeeps

(* The balances arrive, or fail to.                                          *)
SendLoading == SendSpendableAnswered \/ SendSpendableFailed

LEMMA SendLoadingKeeps ==
    ASSUME FormInv, SendLoading
    PROVE  FormInv' /\ StepSafe
<1>1. PICK r \in wire : (\E b \in Spendables : SendSpendable(r, b)) \/ SendSpendableFails(r)
  BY DEF SendLoading, SendSpendableAnswered, SendSpendableFailed
<1>2. page = "send" /\ r.kind = "spendable" /\ wire' = wire \ {r} /\ FormOnly
  BY <1>1 DEF SendSpendable, SendSpendableFails
<1>3. /\ DOMAIN ui = SendFields /\ ui.feeReq \in Nat /\ ui.opening \in Nat /\ unconfirmed \in Nat
      /\ SpendableCurrent /\ FeeCurrent
  BY <1>2 DEF FormInv, SendInv, BaseInv
<1>4. r = [kind |-> "spendable", id |-> r.id]
  BY <1>2, <1>3 DEF SpendableCurrent
<1>5. SUFFICES DOMAIN ui' = SendFields /\ ui'.opening = ui.opening /\ ui'.feeReq \in Nat
               /\ SpendableCurrent' /\ FeeCurrent'
  BY <1>2, <1>3, SendKeeps DEF FormOnly
<1>6. CASE ~(ui.open /\ r.id = ui.opening)
  <2>0. ui' = ui
    BY <1>1, <1>6 DEF SendSpendable, SendSpendableFails
  <2>1. FeeCurrent' /\ ui'.feeReq \in Nat
    BY <1>2, <1>3, <2>0, FeeKeeps
  <2>2. SpendableCurrent'
    BY <1>2, <1>3, <1>4, <1>6, <2>0 DEF SpendableCurrent
  <2>3. QED BY <1>3, <2>0, <2>1, <2>2
<1>7. CASE ui.open /\ r.id = ui.opening /\ \E b \in Spendables : SendSpendable(r, b)
  <2>1. PICK b \in Spendables : SendSpendable(r, b)
    BY <1>7
  <2>2. PICK u : u = [ui EXCEPT !.spendable = [id |-> r.id, of |-> b]]
    OBVIOUS
  <2>3. /\ DOMAIN u = SendFields /\ u.spendable.id = r.id
        /\ \A f \in SendFields \ {"spendable"} : u[f] = ui[f]
    BY <1>3, <2>2 DEF SendFields
  <2>4. ui' = Settled(u)
    BY <1>7, <2>1, <2>2 DEF SendSpendable
  <2>5. DOMAIN ui' = SendFields /\ ui'.opening = ui.opening /\ ui'.spendable.id = ui.opening
    <3>1. DOMAIN ui' = SendFields /\ ui'.opening = u.opening /\ ui'.spendable = u.spendable
      BY <2>3, <2>4, SettledIs DEF SendFields
    <3>2. u.opening = ui.opening
      BY <2>3 DEF SendFields
    <3>3. QED BY <1>7, <2>3, <3>1, <3>2
  <2>6. \/ \A f \in {"denom", "memo", "open", "feeReq", "feeLoading", "fee", "feeError"} : ui'[f] = ui[f]
        \/ ui'.feeReq = ui.feeReq + 1 /\ (ui'.open /\ ui'.denom # NoDenom => ui'.feeLoading)
    BY <2>3, <2>4, SettledIs DEF SendFields
  <2>7. FeeCurrent' /\ ui'.feeReq \in Nat
    BY <1>2, <1>3, <2>6, FeeKeeps
  <2>8. SpendableCurrent'
    BY <1>2, <1>3, <2>5 DEF SpendableCurrent
  <2>9. QED BY <2>5, <2>7, <2>8
<1>8. CASE ui.open /\ r.id = ui.opening /\ SendSpendableFails(r)
  <2>1. ui' = [ui EXCEPT !.failed = TRUE]
    BY <1>8 DEF SendSpendableFails
  <2>2. /\ DOMAIN ui' = SendFields /\ ui'.failed
        /\ \A f \in SendFields \ {"failed"} : ui'[f] = ui[f]
    BY <1>3, <2>1 DEF SendFields
  <2>3. FeeCurrent' /\ ui'.feeReq \in Nat
    BY <1>2, <1>3, <2>2, FeeKeeps DEF SendFields
  <2>4. SpendableCurrent'
    BY <1>2, <1>3, <2>2 DEF SpendableCurrent
  <2>5. QED BY <2>2, <2>3, <2>4 DEF SendFields
<1>9. QED BY <1>1, <1>6, <1>7, <1>8 DEF SendSpendable, SendSpendableFails

(* An estimate is asked for, and answered.                                   *)
SendEstimating == SendFeeDebounce \/ SendFeeAnswered

LEMMA SendEstimatingKeeps ==
    ASSUME FormInv, SendEstimating
    PROVE  FormInv' /\ StepSafe
<1>1. page = "send" /\ FormOnly
  BY DEF SendEstimating, SendFeeDebounce, SendFeeAnswered, SendFee
<1>2. /\ DOMAIN ui = SendFields /\ ui.feeReq \in Nat /\ ui.opening \in Nat /\ unconfirmed \in Nat
      /\ SpendableCurrent /\ FeeCurrent
  BY <1>1 DEF FormInv, SendInv, BaseInv
<1>3. CASE SendFeeDebounce
  <2>1. PICK r : r = [kind |-> "fee", id |-> ui.feeReq, of |-> <<ui.denom, ui.memo>>]
    OBVIOUS
  <2>2. r.kind = "fee" /\ r.id = ui.feeReq /\ r.of = <<ui.denom, ui.memo>>
    BY <2>1
  <2>3. wire' = wire \cup {r} /\ ui' = [ui EXCEPT !.feeTimer = FALSE]
    BY <1>3, <2>1 DEF SendFeeDebounce
  <2>4. /\ DOMAIN ui' = SendFields
        /\ \A f \in SendFields \ {"feeTimer"} : ui'[f] = ui[f]
    BY <1>2, <2>3 DEF SendFields
  <2>5. FeeCurrent'
    BY <1>2, <2>2, <2>3, <2>4 DEF FeeCurrent, SendFields
  <2>6. SpendableCurrent'
    BY <1>2, <2>2, <2>3, <2>4 DEF SpendableCurrent, SendFields
  <2>7. QED BY <1>1, <1>2, <2>2, <2>3, <2>4, <2>5, <2>6, SendKeeps DEF FormOnly, SendFields
<1>4. CASE SendFeeAnswered
  <2>1. PICK r \in wire, value \in Fees : SendFee(r, value)
    BY <1>4 DEF SendFeeAnswered
  <2>2. r.kind = "fee" /\ wire' = wire \ {r}
    BY <2>1 DEF SendFee
  <2>3. PICK f : ui' = FeeKnown(r, f) /\ (f = NoFee \/ f.of = r.of)
    <3>1. [value |-> value, of |-> r.of].of = r.of
      OBVIOUS
    <3>2. QED BY <2>1, <3>1 DEF SendFee
  <2>4. CASE ui' = ui
    <3>1. FeeCurrent'
      BY <1>2, <2>2, <2>4, FeeKeeps
    <3>2. SpendableCurrent'
      BY <1>2, <2>2, <2>4, SpendableKeeps
    <3>3. QED BY <1>1, <1>2, <2>2, <2>4, <3>1, <3>2, SendKeeps DEF FormOnly
  <2>5. CASE r.id = ui.feeReq /\ ui' = [ui EXCEPT !.fee = f, !.feeError = f = NoFee, !.feeLoading = FALSE]
    <3>1. /\ DOMAIN ui' = SendFields /\ ui'.fee = f /\ (ui'.feeError <=> f = NoFee)
          /\ \A g \in SendFields \ {"fee", "feeError", "feeLoading"} : ui'[g] = ui[g]
      BY <1>2, <2>5 DEF SendFields
    <3>2. r.of = <<ui.denom, ui.memo>>
      BY <1>2, <2>2, <2>5 DEF FeeCurrent
    <3>3. FeeCurrent'
      BY <1>2, <2>2, <2>3, <3>1, <3>2 DEF FeeCurrent, SendFields
    <3>4. SpendableCurrent'
      BY <1>2, <2>2, <3>1, SpendableKeeps DEF SendFields
    <3>5. QED BY <1>1, <1>2, <2>2, <3>1, <3>3, <3>4, SendKeeps DEF FormOnly, SendFields
  <2>6. QED BY <2>3, <2>4, <2>5 DEF FeeKnown
<1>5. QED BY <1>3, <1>4 DEF SendEstimating

(* Edits: of the denom and the memo, and of what the fee does not depend on. *)
SendEditing ==
    \/ SendDenomPicked \/ SendMemoTyped
    \/ SendRecipientTyped \/ SendAmountTyped \/ SendBypass \/ SendMax \/ SendReview \/ SendBack

LEMMA SendEditingKeeps ==
    ASSUME FormInv, SendEditing
    PROVE  FormInv' /\ StepSafe
<1>1. page = "send" /\ UiOnly /\ wire' = wire /\ page' = page /\ world' = world /\ sent' = sent
      /\ unconfirmed' = unconfirmed
  BY DEF SendEditing, SendDenomPicked, SendMemoTyped, SendRecipientTyped, SendAmountTyped, SendBypass, SendMax,
         SendReview, SendBack, SendDenom, SendMemo, SendRecipient, SendAmount, SendEdits, UiOnly, FormOnly
<1>2. /\ DOMAIN ui = SendFields /\ ui.feeReq \in Nat /\ ui.opening \in Nat /\ unconfirmed \in Nat
      /\ SpendableCurrent /\ FeeCurrent
  BY <1>1 DEF FormInv, SendInv, BaseInv
<1>3. \/ \E x : \E f \in {"to", "amount", "bypass", "step"} : ui' = [ui EXCEPT ![f] = x]
      \/ \E x : \E f \in {"denom", "memo"} : ui' = Settled([ui EXCEPT ![f] = x])
  <2>1. CASE SendDenomPicked
    <3>1. PICK d \in SendDenoms : ui' = Settled([ui EXCEPT !["denom"] = d])
      BY <2>1 DEF SendDenomPicked, SendDenom
    <3>2. QED BY <3>1
  <2>2. CASE SendMemoTyped
    <3>1. PICK d \in Memos : ui' = Settled([ui EXCEPT !["memo"] = d])
      BY <2>2 DEF SendMemoTyped, SendMemo
    <3>2. QED BY <3>1
  <2>3. CASE SendRecipientTyped \/ SendAmountTyped \/ SendBypass \/ SendReview \/ SendBack
    BY <2>3 DEF SendRecipientTyped, SendAmountTyped, SendRecipient, SendAmount, SendBypass, SendReview, SendBack
  <2>4. CASE SendMax
    <3>1. PICK x : ui' = [ui EXCEPT !["amount"] = x]
      BY <2>4 DEF SendMax
    <3>2. QED BY <3>1
  <2>5. QED BY <2>1, <2>2, <2>3, <2>4 DEF SendEditing
<1>4. /\ DOMAIN ui' = SendFields
      /\ \A f \in {"open", "opening", "spendable", "failed"} : ui'[f] = ui[f]
      /\ \/ \A f \in {"denom", "memo", "open", "feeReq", "feeLoading", "fee", "feeError"} : ui'[f] = ui[f]
         \/ ui'.feeReq = ui.feeReq + 1 /\ (ui'.open /\ ui'.denom # NoDenom => ui'.feeLoading)
  <2>1. CASE \E x : \E f \in {"to", "amount", "bypass", "step"} : ui' = [ui EXCEPT ![f] = x]
    BY <1>2, <2>1 DEF SendFields
  <2>2. CASE \E x : \E f \in {"denom", "memo"} : ui' = Settled([ui EXCEPT ![f] = x])
    <3>0. PICK x : \E f \in {"denom", "memo"} : ui' = Settled([ui EXCEPT ![f] = x])
      BY <2>2
    <3>1. PICK f \in {"denom", "memo"} : ui' = Settled([ui EXCEPT ![f] = x])
      BY <3>0
    <3>2. PICK u : u = [ui EXCEPT ![f] = x]
      OBVIOUS
    <3>3. DOMAIN u = SendFields /\ \A g \in SendFields \ {"denom", "memo"} : u[g] = ui[g]
      BY <1>2, <3>2 DEF SendFields
    <3>4. ui' = Settled(u)
      BY <3>1, <3>2
    <3>5. QED BY <3>3, <3>4, SettledIs DEF SendFields
  <2>3. QED BY <1>3, <2>1, <2>2
<1>5. FeeCurrent' /\ ui'.feeReq \in Nat
  BY <1>1, <1>2, <1>4, FeeKeeps
<1>6. SpendableCurrent'
  BY <1>1, <1>2, <1>4, SpendableKeeps
<1>7. QED BY <1>1, <1>2, <1>4, <1>5, <1>6, SendKeeps

(* The dialog closes, the transfer is answered, and confirmed.               *)
SendEnding == SendClose \/ SendTxAnswered \/ SendConfirmed

LEMMA SendEndingKeeps ==
    ASSUME FormInv, SendEnding
    PROVE  FormInv' /\ StepSafe
<1>1. page = "send"
  BY DEF SendEnding, SendClose, SendTxAnswered, SendAnswered, SendConfirmed
<1>2. /\ DOMAIN ui = SendFields /\ ui.feeReq \in Nat /\ ui.opening \in Nat /\ unconfirmed \in Nat
      /\ SpendableCurrent /\ FeeCurrent
  BY <1>1 DEF FormInv, SendInv, BaseInv
<1>3. /\ page' = page /\ world' = world /\ sent' = sent /\ unconfirmed' \in Nat /\ wire' \subseteq wire
      /\ \A r \in wire : r.kind = "spendable" => r \in wire'
  BY <1>2 DEF SendEnding, SendClose, SendTxAnswered, SendAnswered, SendConfirmed, UiOnly, FormOnly, Confirmed,
              TxAnswered
<1>4. ui' = ui \/ ui' = FeeEffect([ui EXCEPT !.open = FALSE])
  BY DEF SendEnding, SendClose, SendTxAnswered, SendAnswered, SendConfirmed
<1>5. CASE ui' = ui
  <2>1. FeeCurrent'
    BY <1>2, <1>3, <1>5, FeeKeeps
  <2>2. SpendableCurrent'
    BY <1>2, <1>3, <1>5, SpendableKeeps
  <2>3. QED BY <1>1, <1>2, <1>3, <1>5, <2>1, <2>2, SendKeeps
<1>6. CASE ui' = FeeEffect([ui EXCEPT !.open = FALSE])
  BY <1>1, <1>3, <1>6, SendClosing
<1>7. QED BY <1>4, <1>5, <1>6

(* The transfer itself.                                                      *)
LEMMA SendConfirmKeeps ==
    ASSUME FormInv, SendConfirm
    PROVE  FormInv' /\ StepSafe
<1>1. /\ page = "send" /\ ui.open /\ CanReviewSend(ui)
      /\ SubmitForm("send", "send", SendShown(ui), <<ui.denom, ui.to, AmountCheck(ui).uAmount, ui.memo>>, TRUE)
  BY DEF SendConfirm
<1>2. SendInv /\ BaseInv /\ SpendableCurrent /\ FeeCurrent
  BY <1>1 DEF FormInv, SendInv
<1>3. /\ BaseInv' /\ UNCHANGED <<page, ui, world>>
      /\ \A o : Submits(o) => o = "send"
      /\ \A r \in wire' : r \in wire \/ r.kind = "submit"
  <2>1. SendShown(ui) = <<ui.denom, ui.to, AmountCheck(ui).uAmount, ui.memo>>
    BY DEF SendShown
  <2>2. QED BY <1>1, <1>2, <2>1, SubmitBase
<1>4. wire \subseteq wire'
  BY <1>1 DEF SubmitForm
<1>5. ui.denom # NoDenom
  BY <1>1 DEF CanReviewSend
<1>6. StepSafe
  BY <1>1, <1>2, <1>3, <1>5 DEF StepSafe, SendCurrent, SpendableCurrent, FeeCurrent
<1>7. FeeCurrent' /\ SpendableCurrent'
  BY <1>2, <1>3, <1>4 DEF FeeCurrent, SpendableCurrent
<1>8. QED BY <1>1, <1>2, <1>3, <1>6, <1>7 DEF FormInv, SwapInv, SendInv, StakeInv

-----------------------------------------------------------------------------
(* The trading terminal, the pool and the Earn section: what is signed is    *)
(* what is shown                                                             *)

(* A step of a form other than the swap card and the send dialog: the        *)
(* invariant asks no more than its first part, and of the Earn section the   *)
(* last one.                                                                 *)
LEMMA OtherKeeps ==
    ASSUME FormInv, page \in {"order", "pool", "stake"}, page' = page, sent' = sent, unconfirmed' \in Nat,
           world' = world \/ WorldMoves, DOMAIN ui' = DOMAIN ui,
           \A r \in wire' : r \in wire \/ r.kind # "submit",
           StakeInv'
    PROVE  FormInv' /\ StepSafe
<1>1. world' \in 0..MaxBlocks[page]
  BY FormAssumption DEF FormInv, BaseInv, WorldMoves
<1>2. BaseInv' /\ StepSafe
  BY <1>1, QuietBase DEF FormInv
<1>3. QED BY <1>2 DEF FormInv, SwapInv, SendInv

LEMMA OtherSubmits ==
    ASSUME FormInv, page \in {"order", "pool", "stake"},
           NEW hook, NEW op, op \notin {"swap", "send"}, NEW seen, NEW signed, NEW confirm,
           SubmitForm(hook, op, seen, signed, confirm),
           op \notin Unshown => signed = seen
    PROVE  FormInv' /\ StepSafe
<1>1. /\ BaseInv' /\ UNCHANGED <<page, ui, world>>
      /\ \A o : Submits(o) => o = op
  BY SubmitBase DEF FormInv
<1>2. StepSafe
  BY <1>1 DEF StepSafe
<1>3. QED BY <1>1, <1>2 DEF FormInv, SwapInv, SendInv, StakeInv

LEMMA ValidateDomain ==
    ASSUME NEW u
    PROVE  DOMAIN Validate(u) = DOMAIN u
BY DEF Validate

(* What goes through the validation effect.                                  *)
OrderEditing ==
    OrderSide \/ OrderPriced \/ OrderSized \/ OrderTotalled \/ OrderShortcut \/ LevelClicked

LEMMA OrderEditingKeeps ==
    ASSUME FormInv, OrderEditing
    PROVE  FormInv' /\ StepSafe
<1>1. page = "order" /\ UiOnly
  BY DEF OrderEditing, OrderSide, OrderPriced, OrderPrice, OrderSized, OrderAmount, OrderTotalled, OrderTotal,
         OrderShortcut, LevelClicked, LevelClick, OrderEdits
<1>2. \E u : DOMAIN u = DOMAIN ui /\ ui' = Validate(u)
  <2> DEFINE Is(u) == DOMAIN u = DOMAIN ui /\ ui' = Validate(u)
  <2>0. SUFFICES \E u : Is(u)
    OBVIOUS
  <2>1. CASE OrderSide
    <3>1. Is([ui EXCEPT !.side = IF @ = "buy" THEN "sell" ELSE "buy"])
      BY <2>1 DEF OrderSide
    <3>2. QED BY <3>1
  <2>2. CASE OrderPriced
    <3>1. PICK p : ui' = Validate([ui EXCEPT !.price = p])
      BY <2>2 DEF OrderPriced, OrderPrice
    <3>2. Is([ui EXCEPT !.price = p])
      BY <3>1
    <3>3. QED BY <3>2
  <2>3. CASE OrderSized \/ OrderTotalled \/ OrderShortcut
    <3>1. PICK a : ui' = Validate([ui EXCEPT !.amount = a])
      BY <2>3 DEF OrderSized, OrderAmount, OrderTotalled, OrderTotal, OrderShortcut
    <3>2. Is([ui EXCEPT !.amount = a])
      BY <3>1
    <3>3. QED BY <3>2
  <2>4. CASE LevelClicked
    <3>1. PICK p : ui' = Validate(Prefilled(ui, p))
      BY <2>4 DEF LevelClicked, LevelClick
    <3>2. Is(Prefilled(ui, p))
      BY <3>1 DEF Prefilled
    <3>3. QED BY <3>2
  <2>5. QED BY <2>1, <2>2, <2>3, <2>4 DEF OrderEditing
<1>3. DOMAIN ui' = DOMAIN ui
  BY <1>2, ValidateDomain
<1>4. StakeInv' /\ unconfirmed \in Nat
  BY <1>1 DEF StakeInv, UiOnly, FormOnly, FormInv, BaseInv
<1>5. QED BY <1>1, <1>3, <1>4, OtherKeeps DEF UiOnly, FormOnly

(* The rest of the terminal that signs nothing.                              *)
OrderWorking ==
    \/ OrderSwitch \/ OrderBalancesAnswered \/ OrderDebounce \/ OrderValidationAnswered \/ OrderReview
    \/ OrderMessagesBuilt \/ OrderMessagesFailed \/ OrderBack \/ OrderBookReloaded \/ TerminalTabbed

LEMMA OrderWorkingKeeps ==
    ASSUME FormInv, OrderWorking
    PROVE  FormInv' /\ StepSafe
<1>1. /\ page = "order" /\ page' = page /\ sent' = sent /\ unconfirmed' = unconfirmed
      /\ world' = world \/ WorldMoves
      /\ DOMAIN ui' = DOMAIN ui
  BY DEF OrderWorking, OrderSwitch, OrderBalancesAnswered, OrderBalances, OrderDebounce, OrderValidationAnswered,
         OrderValidated, OrderReview, OrderMessagesBuilt, OrderBuilt, OrderMessagesFailed, OrderNotBuilt, OrderBack,
         OrderBookReloaded, OrderBookChanged, TerminalTabbed, TerminalTab, UiOnly, FormOnly, WorldMoves
<1>2. \A r \in wire' : r \in wire \/ r.kind # "submit"
  <2>1. CASE OrderSwitch
    <3>1. PICK r : r = [kind |-> "balances", of |-> world']
      OBVIOUS
    <3>2. r.kind = "balances" /\ wire' = wire \cup {r}
      BY <2>1, <3>1 DEF OrderSwitch, AskBalances
    <3>3. QED BY <3>2
  <2>2. CASE OrderDebounce
    <3>1. PICK r : r = [kind |-> "validate", id |-> ui.seq]
      OBVIOUS
    <3>2. r.kind = "validate" /\ wire' = wire \cup {r}
      BY <2>2, <3>1 DEF OrderDebounce
    <3>3. QED BY <3>2
  <2>3. CASE OrderReview
    <3>1. PICK r : r = [kind |-> "build", id |-> ui.builds, order |-> OrderOf(ui)]
      OBVIOUS
    <3>2. r.kind = "build" /\ wire' = wire \cup {r}
      BY <2>3, <3>1 DEF OrderReview
    <3>3. QED BY <3>2
  <2>4. CASE \/ OrderBalancesAnswered \/ OrderValidationAnswered \/ OrderMessagesBuilt \/ OrderMessagesFailed
             \/ OrderBack \/ OrderBookReloaded \/ TerminalTabbed
    BY <2>4 DEF OrderBalancesAnswered, OrderBalances, OrderValidationAnswered, OrderValidated, OrderMessagesBuilt,
                OrderBuilt, OrderMessagesFailed, OrderNotBuilt, OrderBack, OrderBookReloaded, OrderBookChanged,
                TerminalTabbed, TerminalTab, UiOnly
  <2>5. QED BY <2>1, <2>2, <2>3, <2>4 DEF OrderWorking
<1>3. StakeInv' /\ unconfirmed \in Nat
  BY <1>1 DEF StakeInv, FormInv, BaseInv
<1>4. QED BY <1>1, <1>2, <1>3, OtherKeeps

(* The order and the cancellations; their answers.                           *)
OrderSending == OrderConfirm \/ MyOrdersCancel \/ OrderTxAnswered \/ OrderConfirmed

LEMMA OrderSendingKeeps ==
    ASSUME FormInv, OrderSending
    PROVE  FormInv' /\ StepSafe
<1>1. page = "order"
  BY DEF OrderSending, OrderConfirm, MyOrdersCancel, OrderTxAnswered, OrderAnswered, OrderConfirmed
<1>2. CASE OrderConfirm
  BY <1>1, <1>2, OtherSubmits DEF OrderConfirm, Unshown
<1>3. CASE MyOrdersCancel
  BY <1>1, <1>3, OtherSubmits DEF MyOrdersCancel, CancelOrders
<1>4. CASE OrderTxAnswered \/ OrderConfirmed
  <2>1. DOMAIN ui' = DOMAIN ui
    <3>1. DOMAIN [ui EXCEPT !.amount = 0, !.msgs = <<>>, !.step = "form"] = DOMAIN ui
      OBVIOUS
    <3>2. QED BY <1>4, <3>1, ValidateDomain DEF OrderTxAnswered, OrderAnswered, OrderConfirmed
  <2>2. Confirmed \/ \E r, ok : TxAnswered(r, ok)
    BY <1>4 DEF OrderTxAnswered, OrderAnswered, OrderConfirmed
  <2>3. BaseInv' /\ StepSafe /\ page' = page
    BY <2>1, <2>2, AnswerBase DEF FormInv
  <2>4. QED BY <1>1, <2>3 DEF FormInv, SwapInv, SendInv, StakeInv
<1>5. QED BY <1>2, <1>3, <1>4 DEF OrderSending

(* The pool.                                                                 *)
PoolWorking == PoolTyped \/ PoolMax \/ PoolSlippageSet \/ PoolPercentSet \/ PoolTab \/ PoolPolled

LEMMA PoolWorkingKeeps ==
    ASSUME FormInv, PoolWorking
    PROVE  FormInv' /\ StepSafe
<1>1. /\ page = "pool" /\ page' = page /\ sent' = sent /\ unconfirmed' = unconfirmed
      /\ world' = world \/ WorldMoves
      /\ wire' = wire
  BY DEF PoolWorking, PoolTyped, PoolType, PoolMax, PoolSlippageSet, PoolSlippage, PoolPercentSet, PoolPercent,
         PoolTab, PoolPolled, PoolReloaded, UiOnly, FormOnly, WorldMoves
<1>2. DOMAIN ui' = DOMAIN ui
  BY DEF PoolWorking, PoolTyped, PoolType, PoolMax, PoolSlippageSet, PoolSlippage, PoolPercentSet, PoolPercent,
         PoolTab, PoolPolled, PoolReloaded
<1>3. StakeInv' /\ unconfirmed \in Nat
  BY <1>1 DEF StakeInv, FormInv, BaseInv
<1>4. QED BY <1>1, <1>2, <1>3, OtherKeeps

(* The first two elements of a triple, and the first one.                    *)
LEMMA FirstOfThree ==
    ASSUME NEW a, NEW b, NEW c
    PROVE  SubSeq(<<a, b, c>>, 1, 2) = <<a, b>> /\ SubSeq(<<a, b, c>>, 1, 1) = <<a>>
<1>1. PICK s : s = <<a, b, c>>
  OBVIOUS
<1>2. Len(s) = 3 /\ s[1] = a /\ s[2] = b /\ s \in Seq({a, b, c})
  BY <1>1
<1>3. SubSeq(s, 1, 2) = [i \in 1..2 |-> s[i]] /\ SubSeq(s, 1, 1) = [i \in 1..1 |-> s[i]]
  BY <1>2
<1>4. [i \in 1..2 |-> s[i]] = <<a, b>> /\ [i \in 1..1 |-> s[i]] = <<a>>
  BY <1>2
<1>5. QED BY <1>1, <1>3, <1>4

PoolSending == PoolAdd \/ PoolRemove \/ PoolTxAnswered \/ PoolConfirmed

LEMMA PoolSendingKeeps ==
    ASSUME FormInv, PoolSending
    PROVE  FormInv' /\ StepSafe
<1>1. page = "pool"
  BY DEF PoolSending, PoolAdd, PoolRemove, PoolTxAnswered, PoolAnswered, PoolConfirmed
<1>2. CASE PoolAdd
  <2>1. SubSeq(AddMsg(ui), 1, 2) = <<ui.base, ui.quote>>
    BY FirstOfThree DEF AddMsg
  <2>2. QED BY <1>1, <1>2, <2>1, OtherSubmits DEF PoolAdd
<1>3. CASE PoolRemove
  <2>1. SubSeq(RemoveMsg(ui), 1, 1) = <<LpToRemove(ui)>>
    BY FirstOfThree DEF RemoveMsg
  <2>2. QED BY <1>1, <1>3, <2>1, OtherSubmits DEF PoolRemove
<1>4. CASE PoolTxAnswered \/ PoolConfirmed
  <2>1. DOMAIN ui' = DOMAIN ui
    BY <1>4 DEF PoolTxAnswered, PoolAnswered, PoolConfirmed
  <2>2. Confirmed \/ \E r, ok : TxAnswered(r, ok)
    BY <1>4 DEF PoolTxAnswered, PoolAnswered, PoolConfirmed
  <2>3. BaseInv' /\ StepSafe /\ page' = page
    BY <2>1, <2>2, AnswerBase DEF FormInv
  <2>4. QED BY <1>1, <2>3 DEF FormInv, SwapInv, SendInv, StakeInv
<1>5. QED BY <1>2, <1>3, <1>4 DEF PoolSending

(* The Earn section: dialogs, views and polls.                               *)
StakeWorking ==
    \/ StakePolled \/ StakeView \/ OpenStake \/ NativeOpened \/ JoinOpened \/ ModalTyped \/ ModalMax
    \/ ModalTargeted \/ ModalClose

LEMMA StakeWorkingKeeps ==
    ASSUME FormInv, StakeWorking
    PROVE  FormInv' /\ StepSafe
<1>1. /\ page = "stake" /\ page' = page /\ sent' = sent /\ unconfirmed' = unconfirmed
      /\ world' = world \/ WorldMoves
      /\ wire' = wire
  BY DEF StakeWorking, StakePolled, StakeReloaded, StakeView, OpenStake, NativeOpened, OpenNative, JoinOpened,
         OpenJoin, ModalTyped, ModalType, ModalMax, ModalTargeted, ModalTarget, ModalClose, InModal, Opens, UiOnly,
         FormOnly, WorldMoves
<1>2. /\ DOMAIN ui = {"view", "mount", "modal", "data"}
      /\ DOMAIN ui.modal = {"type", "target", "limit", "amount", "dst"}
      /\ ui.data \in StakeDatas
      /\ ui.modal.type = "stake" => ui.modal.amount \in Int
      /\ unconfirmed \in Nat
  BY <1>1 DEF FormInv, StakeInv, BaseInv
<1>3. /\ DOMAIN NoModal = {"type", "target", "limit", "amount", "dst"}
      /\ NoModal.type = "none" /\ NoModal.amount \in Int
  BY DEF NoModal, NoAmount
<1> DEFINE Ok(modal) == /\ DOMAIN modal = {"type", "target", "limit", "amount", "dst"}
                        /\ modal.type = "stake" => modal.amount \in Int
<1>4. \E modal, data, view, mount :
         /\ Ok(modal) /\ data \in StakeDatas
         /\ ui' = [ui EXCEPT !.modal = modal, !.data = data, !.view = view, !.mount = mount]
  <2> DEFINE Becomes(modal, data, view, mount) ==
                 /\ Ok(modal) /\ data \in StakeDatas
                 /\ ui' = [ui EXCEPT !.modal = modal, !.data = data, !.view = view, !.mount = mount]
  <2>0. SUFFICES \E modal, data, view, mount : Becomes(modal, data, view, mount)
    OBVIOUS
  <2>1. CASE StakePolled
    <3>1. PICK d \in StakeDatas : StakeReloaded(d)
      BY <2>1 DEF StakePolled
    <3>2. PICK m \in {NoModal, ui.modal} : ui' = [ui EXCEPT !.data = d, !.modal = m]
      BY <3>1 DEF StakeReloaded
    <3>3. Becomes(m, d, ui.view, ui.mount)
      BY <1>2, <1>3, <3>2
    <3>4. QED BY <3>3
  <2>2. CASE StakeView
    <3>1. PICK v, n : ui' = [ui EXCEPT !.view = v, !.mount = n]
      BY <2>2 DEF StakeView
    <3>2. Becomes(ui.modal, ui.data, v, n)
      BY <1>2, <3>1
    <3>3. QED BY <3>2
  <2>3. CASE OpenStake \/ NativeOpened \/ JoinOpened \/ ModalClose
    <3>1. PICK m : Ok(m) /\ ui' = [ui EXCEPT !.modal = m]
      <4>1. CASE OpenStake
        <5>1. PICK m : m = [NoModal EXCEPT !.type = "stake"]
          OBVIOUS
        <5>2. Ok(m)
          BY <1>3, <5>1
        <5>3. QED BY <4>1, <5>1, <5>2 DEF OpenStake, Opens
      <4>2. CASE NativeOpened
        <5>1. PICK v \in MergedValidators(ui.data), type \in {"delegate", "undelegate", "redelegate"} :
                 OpenNative(v, type)
          BY <4>2 DEF NativeOpened
        <5>2. PICK t, limit : ui' = [ui EXCEPT !.modal = [NoModal EXCEPT !.type = type, !.target = t,
                                                                        !.limit = limit]]
          BY <5>1 DEF OpenNative, Opens
        <5>3. PICK m : m = [NoModal EXCEPT !.type = type, !.target = t, !.limit = limit]
          OBVIOUS
        <5>4. Ok(m)
          BY <1>3, <5>3
        <5>5. QED BY <5>2, <5>3, <5>4
      <4>3. CASE JoinOpened
        <5>1. PICK t, limit : ui' = [ui EXCEPT !.modal = [NoModal EXCEPT !.type = "join", !.target = t,
                                                                        !.limit = limit]]
          BY <4>3 DEF JoinOpened, OpenJoin, Opens
        <5>2. PICK m : m = [NoModal EXCEPT !.type = "join", !.target = t, !.limit = limit]
          OBVIOUS
        <5>3. Ok(m)
          BY <1>3, <5>2
        <5>4. QED BY <5>1, <5>2, <5>3
      <4>4. CASE ModalClose
        BY <1>3, <4>4 DEF ModalClose, Opens
      <4>5. QED BY <2>3, <4>1, <4>2, <4>3, <4>4
    <3> HIDE DEF Ok
    <3>2. Becomes(m, ui.data, ui.view, ui.mount)
      BY <1>2, <3>1
    <3>3. QED BY <3>2
  <2>4. CASE ModalTyped \/ ModalMax \/ ModalTargeted
    <3>0. PICK x : \E f \in {"amount", "dst"} :
             /\ ui' = [ui EXCEPT !.modal[f] = x]
             /\ f = "amount" /\ ui.modal.type = "stake" => x \in Int
      <4>1. CASE ModalTyped
        <5>1. PICK a \in StakeAmounts : ui' = [ui EXCEPT !.modal["amount"] = a]
          BY <4>1 DEF ModalTyped, ModalType
        <5>2. QED BY <5>1, StakeAssumption
      <4>2. CASE ModalMax
        <5>1. ui.modal.type # "stake"
          BY <4>2 DEF ModalMax, InModal, ModalOffers, StakeModal
        <5>2. ui' = [ui EXCEPT !.modal["amount"] = ui.modal.limit]
          BY <4>2 DEF ModalMax
        <5>3. QED BY <5>1, <5>2
      <4>3. CASE ModalTargeted
        <5>1. PICK val : ui' = [ui EXCEPT !.modal["dst"] = val]
          BY <4>3 DEF ModalTargeted, ModalTarget
        <5>2. QED BY <5>1
      <4>4. QED BY <2>4, <4>1, <4>2, <4>3
    <3>1. PICK f \in {"amount", "dst"} :
             /\ ui' = [ui EXCEPT !.modal[f] = x]
             /\ f = "amount" /\ ui.modal.type = "stake" => x \in Int
      BY <3>0
    <3>2. PICK m : m = [ui.modal EXCEPT ![f] = x]
      OBVIOUS
    <3>3. Ok(m)
      BY <1>2, <3>1, <3>2
    <3> HIDE DEF Ok
    <3>4. Becomes(m, ui.data, ui.view, ui.mount)
      BY <1>2, <3>1, <3>2, <3>3
    <3>5. QED BY <3>4
  <2>5. QED BY <2>1, <2>2, <2>3, <2>4 DEF StakeWorking
<1>5. DOMAIN ui' = DOMAIN ui /\ StakeInv'
  BY <1>2, <1>4 DEF StakeInv
<1>6. QED BY <1>1, <1>2, <1>5, OtherKeeps

(* An automatic stake: the preview names the validators, and their parts add *)
(* up to the amount.                                                         *)
LEMMA StakeIsShown ==
    ASSUME FormInv, SubmitStake
    PROVE  FormInv' /\ StepSafe
<1>1. /\ page = "stake" /\ ui.modal.amount > 0 /\ ui.modal.type = "stake"
      /\ ui.modal.amount \in Int /\ ui.data \in StakeDatas
  BY DEF SubmitStake, InModalOf, FormInv, StakeInv
<1> DEFINE top == TopOf(ui.data)
           amount == ui.modal.amount
           parts == SplitDelegation(amount, top)
           shown == <<top # <<>>, [i \in DOMAIN top |-> top[i].addr]>>
           signed == <<SumSeq(parts, LAMBDA x : x.amount) = amount, [i \in DOMAIN parts |-> parts[i].val]>>
<1>2. Len(top) \in Nat /\ DOMAIN top = 1..Len(top) /\ (Len(top) = 0 <=> top = <<>>)
  BY <1>1, StakeAssumption, TopDomain DEF TopOf, TopN
<1>3. SubmitForm(HookOf(ui), "stake", shown, signed, FALSE)
  BY DEF SubmitStake, SubmitModal, StakeParts
<1> HIDE DEF top
<1>4. signed = shown
  <2>1. CASE top # <<>>
    <3>0. Len(top) > 0
      BY <1>2, <2>1
    <3>1. /\ DOMAIN parts = DOMAIN top
          /\ \A i \in DOMAIN top : parts[i].val = top[i].addr
          /\ SumSeq(parts, LAMBDA x : x.amount) = amount
      BY <1>1, <1>2, <3>0, SplitAddsUp
    <3> HIDE DEF parts, amount
    <3>2. [i \in DOMAIN parts |-> parts[i].val] = [i \in DOMAIN top |-> top[i].addr]
      BY <3>1
    <3>3. QED BY <2>1, <3>1, <3>2
  <2>2. CASE top = <<>>
    <3>1. DOMAIN parts = {} /\ DOMAIN top = {} /\ ~(top # <<>>)
      BY <2>2 DEF SplitDelegation
    <3> HIDE DEF parts
    <3> DEFINE a == [i \in DOMAIN parts |-> parts[i].amount]
    <3>2. a = <<>> /\ Len(a) = 0
      BY <3>1
    <3> HIDE DEF a
    <3>3. TotalFrom(0, a) = 0
      BY <3>2, TotalUnfolds DEF IsTotal
    <3>4. SumSeq(parts, LAMBDA x : x.amount) = 0
      BY <3>3 DEF SumSeq, a
    <3>5. [i \in DOMAIN parts |-> parts[i].val] = [i \in DOMAIN top |-> top[i].addr]
      BY <3>1
    <3>6. (SumSeq(parts, LAMBDA x : x.amount) = amount) = FALSE /\ (top # <<>>) = FALSE
      BY <1>1, <3>1, <3>4
    <3>7. QED BY <3>5, <3>6
  <2>3. QED BY <2>1, <2>2
<1> HIDE DEF shown, signed
<1>5. QED BY <1>1, <1>3, <1>4, OtherSubmits DEF Unshown

(* The other submissions of the section, and the answers.                    *)
StakeSending ==
    \/ SubmitDelegate \/ SubmitUndelegate \/ SubmitRedelegate \/ SubmitJoin \/ ClaimedOne \/ ClaimAll
    \/ PageClaimAll \/ StakeFix \/ StakeUnlock

LEMMA StakeSendingKeeps ==
    ASSUME FormInv, StakeSending
    PROVE  FormInv' /\ StepSafe
<1>1. page = "stake"
  BY DEF StakeSending, SubmitDelegate, SubmitUndelegate, SubmitRedelegate, SubmitJoin, ClaimedOne, ClaimAll,
         PageClaimAll, StakeFix, StakeUnlock, InModalOf, OnCompact
<1>2. CASE SubmitDelegate \/ SubmitUndelegate \/ SubmitJoin
  <2>1. PICK x : \E op \in {"delegate", "undelegate", "join"} : SubmitForm(HookOf(ui), op, x, x, FALSE)
    BY <1>2 DEF SubmitDelegate, SubmitUndelegate, SubmitJoin, SubmitModal
  <2>2. QED BY <1>1, <2>1, OtherSubmits DEF Unshown
<1>3. CASE SubmitRedelegate
  BY <1>1, <1>3, OtherSubmits DEF SubmitRedelegate, SubmitModal, Unshown
<1>4. CASE ClaimedOne \/ StakeFix \/ StakeUnlock
  <2>1. PICK x : \E op \in {"claim", "fix", "unlock"} : SubmitForm(<<"compact", ui.mount>>, op, x, x, FALSE)
    BY <1>4 DEF ClaimedOne, ClaimOne, StakeFix, StakeUnlock, Compact
  <2>2. QED BY <1>1, <2>1, OtherSubmits DEF Unshown
<1>5. CASE PageClaimAll
  BY <1>1, <1>5, OtherSubmits DEF PageClaimAll, Unshown
<1>6. CASE ClaimAll
  <2>1. (ui.data.due \cap {"native"}) \cup (PendingItems(ui.data) \ {"native"}) = PendingItems(ui.data)
    BY DEF PendingItems
  <2>2. SubmitForm(<<"compact", ui.mount>>, "claimAll", <<PendingItems(ui.data)>>, <<PendingItems(ui.data)>>, FALSE)
    BY <1>6, <2>1 DEF ClaimAll, Compact
  <2>3. QED BY <1>1, <2>2, OtherSubmits DEF Unshown
<1>7. QED BY <1>2, <1>3, <1>4, <1>5, <1>6 DEF StakeSending

LEMMA StakeAnsweredKeeps ==
    ASSUME FormInv, StakeTxAnswered
    PROVE  FormInv' /\ StepSafe
<1>1. PICK r, ok : StakeAnswered(r, ok)
  BY DEF StakeTxAnswered
<1>2. page = "stake" /\ (ui' = ui \/ ui' = [ui EXCEPT !.modal = NoModal])
  BY <1>1 DEF StakeAnswered
<1>3. DOMAIN ui' = DOMAIN ui
  BY <1>2
<1>4. BaseInv' /\ StepSafe /\ page' = page
  BY <1>1, <1>3, AnswerBase DEF FormInv, StakeAnswered
<1>5. /\ DOMAIN NoModal = {"type", "target", "limit", "amount", "dst"}
      /\ NoModal.type = "none"
  BY DEF NoModal
<1>6. StakeInv'
  BY <1>2, <1>4, <1>5 DEF FormInv, StakeInv
<1>7. QED BY <1>2, <1>4, <1>6 DEF FormInv, SwapInv, SendInv

-----------------------------------------------------------------------------
(* Theorems                                                                  *)

(* A form that is mounted has nothing under way and nothing quoted.          *)
Mounted ==
    /\ page \in Pages /\ ui = UiOf(page) /\ wire = WireOf(page)
    /\ unconfirmed = 0 /\ sent = NotSent /\ world = 0

LEMMA MountedInv == Mounted => FormInv
<1> SUFFICES ASSUME Mounted PROVE FormInv
  OBVIOUS
<1> USE DEF Mounted
<1>1. \A r \in wire : r.kind = "balances"
  BY DEF WireOf, AskBalances
<1>2. BaseInv
  <2>1. sent.signed = sent.shown
    BY DEF NotSent
  <2>2. QED BY <1>1, <2>1, FormAssumption DEF BaseInv, OneSubmit, SentAsShown
<1>3. SwapInv
  <2>1. SUFFICES ASSUME page = "swap" PROVE SwapInv
    BY DEF SwapInv
  <2>2. ui = SwapInit
    BY <2>1 DEF UiOf
  <2>3. /\ DOMAIN ui = SwapFields /\ ui.req = 0 /\ ui.height = 0 /\ ui.quoteHeight = 0
        /\ ui.quoted = NoQuote /\ ui.timer = FALSE
    BY <2>2 DEF SwapInit, SwapFields
  <2>4. NoQuote.asked = 0 /\ NoQuote.height = 0
    BY DEF NoQuote
  <2>5. QED BY <1>1, <2>3, <2>4 DEF SwapInv, QuotesCurrent
<1>4. SendInv
  <2>1. SUFFICES ASSUME page = "send" PROVE SendInv
    BY DEF SendInv
  <2>2. ui = SendInit
    BY <2>1 DEF UiOf
  <2>3. DOMAIN ui = SendFields /\ ui.feeReq = 0 /\ ui.opening = 0 /\ ui.open = FALSE
    BY <2>2 DEF SendInit, SendFields
  <2>4. QED BY <1>1, <2>3 DEF SendInv, SpendableCurrent, FeeCurrent
<1>5. StakeInv
  <2>1. SUFFICES ASSUME page = "stake" PROVE StakeInv
    BY DEF StakeInv
  <2>2. ui = StakeInit
    BY <2>1 DEF UiOf
  <2>3. DOMAIN ui = {"view", "mount", "modal", "data"} /\ ui.modal = NoModal /\ ui.data \in StakeDatas
    BY <2>2, StakeAssumption DEF StakeInit
  <2>4. DOMAIN NoModal = {"type", "target", "limit", "amount", "dst"} /\ NoModal.type = "none"
    BY DEF NoModal
  <2>5. QED BY <2>3, <2>4 DEF StakeInv
<1>6. QED BY <1>2, <1>3, <1>4, <1>5 DEF FormInv

(* Another page.                                                             *)
LEMMA ShowPageKeeps == ShowPage => FormInv' /\ StepSafe
<1>1. ShowPage => Mounted'
  BY DEF ShowPage, Mounted
<1>2. Mounted' => FormInv'
  BY MountedInv, PTL
<1>3. Mounted' => StepSafe
  BY DEF Mounted, WireOf, AskBalances, StepSafe, Submits
<1>4. QED BY <1>1, <1>2, <1>3

LEMMA FormStep ==
    ASSUME FormInv, [FormsNext]_formVars
    PROVE  FormInv' /\ StepSafe
<1>1. CASE ShowPage
  BY <1>1, ShowPageKeeps
<1>2. CASE SwapEditing \/ SwapChoosing \/ SwapAsking \/ SwapQuoting \/ SwapEnding \/ SwapExecute
  BY <1>2, SwapEditingKeeps, SwapChoosingKeeps, SwapAskingKeeps, SwapQuotingKeeps, SwapEndingKeeps,
     SwapExecuteKeeps
<1>3. CASE OrderEditing \/ OrderWorking \/ OrderSending
  BY <1>3, OrderEditingKeeps, OrderWorkingKeeps, OrderSendingKeeps
<1>4. CASE PoolWorking \/ PoolSending
  BY <1>4, PoolWorkingKeeps, PoolSendingKeeps
<1>5. CASE SendOpened \/ SendLoading \/ SendEstimating \/ SendEditing \/ SendEnding \/ SendConfirm
  BY <1>5, SendOpenKeeps, SendLoadingKeeps, SendEstimatingKeeps, SendEditingKeeps, SendEndingKeeps,
     SendConfirmKeeps
<1>6. CASE StakeWorking \/ SubmitStake \/ StakeSending \/ StakeTxAnswered
  BY <1>6, StakeWorkingKeeps, StakeIsShown, StakeSendingKeeps, StakeAnsweredKeeps
<1>7. CASE UNCHANGED formVars
  <2>1. /\ page' = page /\ ui' = ui /\ wire' = wire /\ unconfirmed' = unconfirmed /\ sent' = sent
        /\ world' = world
    BY <1>7 DEF formVars
  <2>2. FormInv'
    BY <2>1 DEF FormInv, BaseInv, OneSubmit, SentAsShown, SwapInv, QuotesCurrent, SendInv, SpendableCurrent,
                FeeCurrent, StakeInv
  <2>3. QED BY <2>1, <2>2 DEF StepSafe, Submits
<1>8. QED
  BY <1>1, <1>2, <1>3, <1>4, <1>5, <1>6, <1>7
  DEF FormsNext, SwapEditing, SwapChoosing, SwapAsking, SwapQuoting, SwapEnding,
      OrderEditing, OrderWorking, OrderSending, PoolWorking, PoolSending,
      SendLoading, SendEstimating, SendEditing, SendEnding, StakeWorking, StakeSending

(* The inductive invariant holds of every behaviour of the forms.            *)
THEOREM FormInvariant == FormsSpec => []FormInv
<1>1. FormsInit => FormInv
  BY MountedInv DEF FormsInit, Mounted
<1>2. FormInv /\ [FormsNext]_formVars => FormInv'
  BY FormStep
<1>3. QED BY <1>1, <1>2, PTL DEF FormsSpec

(* A form has the fields of its page, and no hook has two submissions on     *)
(* their way.                                                                *)
THEOREM FormTypeCorrect == FormsSpec => []FormTypeOK
<1>1. FormInv => FormTypeOK
  BY DEF FormInv, BaseInv, OneSubmit, FormTypeOK
<1>2. QED BY <1>1, FormInvariant, PTL

(* What a form signs is what it shows, but for the two known exceptions.     *)
THEOREM SignedIsShown == FormsSpec => SignedAsShown
<1>1. FormInv' => (sent'.op \notin {"order", "redelegate"} => sent'.signed = sent'.shown)
  BY DEF FormInv, BaseInv, SentAsShown, Unshown
<1>2. QED BY <1>1, FormInvariant, PTL DEF SignedAsShown

(* A swap that is executed was quoted at the tip, for the inputs shown.      *)
THEOREM SwapIsFresh == FormsSpec => SwapQuoteIsFresh
<1>1. FormInv /\ [FormsNext]_formVars => (Submits("swap") => SwapFresh)
  BY FormStep DEF StepSafe
<1>2. FormInv /\ [FormsNext]_formVars =>
        (Submits("swap") =>
          /\ ui.quoted.asked = ui.height
          /\ <<ui.quoted.from, ui.quoted.to, ui.quoted.amount>> = <<ui.from, ui.to, ui.amount>>)
  BY <1>1 DEF SwapFresh
<1>3. QED BY <1>2, FormInvariant, PTL DEF FormsSpec, SwapQuoteIsFresh

(* A transfer is checked against the answers of this opening of the dialog.  *)
THEOREM SendIsCurrent == FormsSpec => SendChecksAreCurrent
<1>1. FormInv /\ [FormsNext]_formVars => (Submits("send") => SendCurrent)
  BY FormStep DEF StepSafe
<1>2. FormInv /\ [FormsNext]_formVars =>
        (Submits("send") =>
          /\ [kind |-> "spendable", id |-> ui.opening] \notin wire /\ ~ui.failed
                => ui.spendable.id = ui.opening
          /\ ~ui.feeLoading /\ ~ui.feeError => ui.fee.of = <<ui.denom, ui.memo>>)
  BY <1>1 DEF SendCurrent
<1>3. QED BY <1>2, FormInvariant, PTL DEF FormsSpec, SendChecksAreCurrent
=============================================================================
