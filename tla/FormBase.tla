------------------------------ MODULE FormBase ------------------------------
(***************************************************************************)
(* What the transaction forms of the frontend share: one form is mounted,  *)
(* its inputs and answers live in its state, requests to the Go side are   *)
(* answered later and in any order, and a submission runs through the      *)
(* transaction hook of the form, whose promise (module TxOutcome) is all   *)
(* that is used here: it is answered, and confirmed later if accepted.     *)
(*                                                                         *)
(* The forms are modelled one at a time because the pages really unmount   *)
(* them when another one is shown: nothing a form renders outlives that,   *)
(* and what becomes of its submissions is the matter of TxPipeline.        *)
(***************************************************************************)
EXTENDS Naturals, Sequences, SequencesExt

CONSTANTS
    Pages,          \* the forms of this run
    MaxRequests,    \* MaxRequests[p]: requests of one kind a form makes
    MaxBlocks       \* MaxBlocks[p]: blocks, polls and account switches it sees

ASSUME FormAssumption == MaxRequests \in [Pages -> Nat] /\ MaxBlocks \in [Pages -> Nat]

VARIABLES
    page,        \* the form that is mounted
    ui,          \* its state: the hooks of the component, by name
    wire,        \* requests not answered yet, [kind, id, ...]
    unconfirmed, \* accepted submissions whose onConfirmed is to come
    sent,        \* the last submission: what the user saw, what was signed
    world        \* height: the chain tip the page was told of

formVars == <<page, ui, wire, unconfirmed, sent, world>>

NotSent == [op |-> "none", shown |-> <<>>, signed |-> <<>>]

\* Mutant: isSubmitting is not looked at.
BusyNever(hook) == FALSE

\* isSubmitting of a hook instance.
Busy(hook) == \E r \in wire : r.kind = "submit" /\ r.hook = hook

\* A submission; onConfirmed says whether the form passes one.
SubmitForm(hook, op, shown, signed, onConfirmed) ==
    /\ ~Busy(hook) /\ unconfirmed < MaxRequests[page]
    /\ wire' = wire \cup {[kind |-> "submit", hook |-> hook, op |-> op, confirm |-> onConfirmed]}
    /\ sent' = [op |-> op, shown |-> shown, signed |-> signed]
    /\ UNCHANGED <<page, ui, unconfirmed, world>>

\* A step that submits.
Submits(op) == \E r \in wire' \ wire : r.kind = "submit" /\ r.op = op

\* The submission is answered; an accepted one is confirmed later.
TxAnswered(r, ok) ==
    /\ r.kind = "submit"
    /\ wire' = wire \ {r}
    /\ unconfirmed' = IF ok /\ r.confirm THEN unconfirmed + 1 ELSE unconfirmed
    /\ UNCHANGED <<page, sent, world>>

\* A confirmation arrives: the on-chain outcome was a success.
Confirmed ==
    /\ unconfirmed > 0
    /\ unconfirmed' = unconfirmed - 1
    /\ UNCHANGED <<page, wire, sent, world>>

\* Only the state of the form and its requests change.
FormOnly == UNCHANGED <<page, unconfirmed, sent, world>>

\* The form changes and asks nothing.
UiOnly == FormOnly /\ UNCHANGED wire

\* The page is told of something new: a block, a poll, an account switch.
WorldMoves ==
    /\ world < MaxBlocks[page]
    /\ world' = world + 1
    /\ UNCHANGED <<page, unconfirmed, sent>>
=============================================================================
