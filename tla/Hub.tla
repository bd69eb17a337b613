-------------------------------- MODULE Hub --------------------------------
(***************************************************************************)
(* The shell of the frontend: first-run wizard, main view with the wallet  *)
(* menu, and the data of the active account that the sections share, over  *)
(* the account bindings of AccountBook.  Calls are carried out and         *)
(* answered in any order; the page may be reloaded and the Hub closed or   *)
(* crash at any moment.                                                    *)
(***************************************************************************)
EXTENDS AccountBook

CONSTANTS
    StartBooks,  \* the accounts the first start of a behaviour finds
    MaxTurns,    \* bound: account switches, dialogs, reloads, restarts and faults
    FirstTurns   \* the same bound when there are no accounts yet

\* A store as RecordAccount and SwitchAccount leave it.
BookOK(b) ==
    /\ DOMAIN b = {"mnemonics", "accounts", "active"}
    /\ b.mnemonics \in Seq(Labels) /\ b.accounts \in Seq(Range(b.accounts))
    /\ \A acc \in Range(b.accounts) : acc.address.seed # NoSeed
    /\ (b.active = NoAddress) = (b.accounts = <<>>)
    /\ b.active # NoAddress => b.active \in Addresses(b)

ASSUME HubAssumption ==
    /\ {MaxTurns, FirstTurns} \subseteq Nat /\ FirstTurns <= MaxTurns
    /\ \A b \in StartBooks : BookOK(b)

VARIABLES
    ui,       \* the state of App, Wizard and WalletMenu, by name
    shown,    \* whose assets and whose staking data are shown
    turns     \* switches, dialogs, reloads, restarts and faults so far

hubVars == <<bookVars, ui, shown, turns>>

Nobody == [seed |-> NoSeed, index |-> 1]
NothingShown == [assets |-> Nobody, staking |-> NoAddress]

UiInit == [view |-> "loading", step |-> "welcome", isImport |-> FALSE, phrase |-> NoSeed,
           account |-> NoAddress, active |-> NoAddress, menu |-> "closed", form |-> 0]

\* The Hub starts on accounts an earlier session left, without any at its first
\* start; the first session is given the turns that bound leaves it.
HubInit ==
    \E b \in StartBooks :
       /\ book = b /\ appActive = b.active
       /\ created = IF b = EmptyBook THEN 0 ELSE MaxCreated
       /\ disk = [book |-> b, settings |-> b # EmptyBook]
       /\ keyring = [phrases |-> [l \in Labels |-> PhraseOf(b, l)], keys |-> Addresses(b)]
       /\ ui = UiInit /\ shown = NothingShown
       /\ turns = IF b = EmptyBook THEN MaxTurns - FirstTurns ELSE 0
       /\ wire = {Call("firstRun", "app")}

GoIdle == UNCHANGED <<book, disk, keyring, appActive, created>>
UiOnly == GoIdle /\ UNCHANGED <<wire, shown, turns>>
Asks(calls) == wire' = wire \cup calls

\* The components that made these calls are gone: what the calls change is
\* still changed, and nobody waits for an answer.
Abandoned(calls) ==
    {[r EXCEPT !.by = "gone"] :
        r \in {x \in calls : x.kind \in Adding \cup {"setup", "switch"} /\ x.stage # "answered"}}

\* The next answer is delivered: r is what the code awaited.
Delivered(r, kind, by) == r \in wire /\ r.stage = "answered" /\ r.kind = kind /\ r.by = by

\* Another view: only App goes on waiting.
Unmounted ==
    LET ofApp == {r \in wire : r.kind \in {"firstRun", "accounts"}}
    IN  ofApp \cup Abandoned(wire \ ofApp)

----------------------------------------------------------------------------
(* Wizard *)

InWizard(step) == ui.view = "wizard" /\ ui.step = step

\* Mutant: the submit buttons are not disabled while a call is under way.
NeverLoading == FALSE

\* The loading flag of the wizard.
Loading == \E r \in wire : r.by = "wizard" /\ r.kind \in Adding \cup {"setup"}

\* Next and Back where they only change the step; verifyPhrase goes on
\* whatever words were entered.
WizardStep ==
    /\ \E move \in {<<"welcome", "choice">>, <<"choice", "welcome">>, <<"create", "choice">>,
                    <<"import", "choice">>, <<"showPhrase", "create">>,
                    <<"verifyPhrase", "showPhrase">>, <<"verifyPhrase", "trust">>,
                    <<"trust", IF ui.isImport THEN "import" ELSE "verifyPhrase">>} :
          InWizard(move[1]) /\ ui' = [ui EXCEPT !.step = move[2]]
    /\ UiOnly

WizardChoice ==
    /\ InWizard("choice")
    /\ \E imports \in BOOLEAN :
          ui' = [ui EXCEPT !.isImport = imports, !.step = IF imports THEN "import" ELSE "create"]
    /\ UiOnly

WizardCreate ==
    /\ InWizard("create") /\ ~Loading /\ created < MaxCreated
    /\ \E l \in Labels : Asks({[Call("create", "wizard") EXCEPT !.label = l]})
    /\ GoIdle /\ UNCHANGED <<ui, shown, turns>>

WizardImport ==
    /\ InWizard("import") /\ ~Loading
    /\ \E l \in Labels, p \in Phrases :
          Asks({[Call("import", "wizard") EXCEPT !.label = l, !.address.seed = p]})
    /\ GoIdle /\ UNCHANGED <<ui, shown, turns>>

WizardShown ==
    /\ InWizard("showPhrase")
    /\ Asks({Settled(Call("indices", "wizard"))})
    /\ GoIdle /\ UNCHANGED <<ui, shown, turns>>

WizardTrust ==
    /\ InWizard("trust") /\ ~Loading
    /\ Asks({Call("setup", "wizard")})
    /\ GoIdle /\ UNCHANGED <<ui, shown, turns>>

WizardFinish ==
    /\ InWizard("complete") /\ Call("accounts", "wizard") \notin wire
    /\ Asks({Call("accounts", "wizard")})
    /\ GoIdle /\ UNCHANGED <<ui, shown, turns>>

\* Mutant: an answer moves the wizard on although it is an error.
NextWhateverAnswer(r) ==
    CASE r.kind = "create" -> [ui EXCEPT !.step = "showPhrase", !.phrase = r.address.seed, !.account = r.address]
      [] r.kind = "import" -> [ui EXCEPT !.step = "trust", !.account = r.address]
      [] r.kind = "indices" -> [ui EXCEPT !.step = "verifyPhrase"]
      [] r.kind = "setup" -> [ui EXCEPT !.step = "complete"]

\* What an answer makes of the wizard, wherever the user has gone meanwhile.
NextWizard(r) ==
    CASE ~r.ok -> ui
      [] r.ok /\ r.kind = "create" ->
             [ui EXCEPT !.step = "showPhrase", !.phrase = r.address.seed, !.account = r.address]
      [] r.ok /\ r.kind = "import" -> [ui EXCEPT !.step = "trust", !.account = r.address]
      [] r.ok /\ r.kind = "indices" -> [ui EXCEPT !.step = "verifyPhrase"]
      [] r.ok /\ r.kind = "setup" -> [ui EXCEPT !.step = "complete"]

WizardAnswered(r) ==
    /\ r.kind \in {"create", "import", "indices", "setup"} /\ Delivered(r, r.kind, "wizard")
    /\ wire' = wire \ {r}
    /\ ui' = NextWizard(r)
    /\ GoIdle /\ UNCHANGED <<shown, turns>>

----------------------------------------------------------------------------
(* App: views, the active account, and the data the sections share *)

DataCalls(address) ==
    {Call("assets", "data")} \cup
    (IF address = NoAddress THEN {} ELSE {[Settled(Call("staking", "data")) EXCEPT !.address = address]})

FirstRunAnswered(r) ==
    /\ Delivered(r, "firstRun", "app")
    /\ wire' = (wire \ {r}) \cup (IF r.ok THEN {} ELSE {Call("accounts", "start")})
    /\ ui' = IF r.ok THEN [ui EXCEPT !.view = "wizard"] ELSE ui
    /\ GoIdle /\ UNCHANGED <<shown, turns>>

\* Called by the start of the page, the end of the wizard and the wallet
\* menu; the first two show the main view, which mounts the providers and the
\* menu and ends the wizard.  A new
\* address makes both providers fetch.
LoadAccounts(r) ==
    /\ \E by \in {"start", "wizard", "changed"} : Delivered(r, "accounts", by)
    /\ LET address == r.address
           view == IF r.by = "changed" THEN ui.view ELSE "main"
           mounts == view = "main" /\ ui.view # "main"
           fetches == view = "main" /\ (mounts \/ address # ui.active)
       IN /\ ui' = IF mounts THEN [UiInit EXCEPT !.active = address, !.view = view]
                   ELSE [ui EXCEPT !.active = address]
          /\ shown' = CASE mounts -> NothingShown
                        [] ~mounts /\ address = NoAddress -> [shown EXCEPT !.staking = NoAddress]
                        [] OTHER -> shown
          /\ wire' = ((IF mounts THEN Unmounted ELSE wire) \ {r})
                     \cup (IF fetches THEN DataCalls(address) ELSE {})
    /\ GoIdle /\ UNCHANGED turns

\* Mutant: the data is fetched for a new address only.
NeverRefetch(kind) == FALSE

\* The interval, an event of the node or the engine, a transaction: fetch
\* again.  One call of a kind at a time is enough to meet every stale answer.
Refetch(kind) ==
    /\ ui.view = "main" /\ ~\E r \in wire : r.kind = kind
    /\ Asks({r \in DataCalls(ui.active) : r.kind = kind})
    /\ wire' # wire
    /\ GoIdle /\ UNCHANGED <<ui, shown, turns>>

\* An answer is shown, whoever it is about.
DataArrives(r) ==
    /\ r.kind \in {"assets", "staking"} /\ Delivered(r, r.kind, "data")
    /\ shown' = [shown EXCEPT ![r.kind] = r.address]
    /\ wire' = wire \ {r}
    /\ GoIdle /\ UNCHANGED <<ui, turns>>

\* An error leaves what is shown.
DataFails(r) ==
    /\ r.kind \in {"assets", "staking"} /\ Delivered(r, r.kind, "data")
    /\ wire' = wire \ {r}
    /\ GoIdle /\ UNCHANGED <<ui, shown, turns>>

----------------------------------------------------------------------------
(* WalletMenu *)

HasMenu == ui.view = "main" /\ ui.active # NoAddress
Dialogs == {"import", "derive", "key"}
Turn == turns < MaxTurns /\ turns' = turns + 1

\* The menu lists the accounts it read when it was opened.  Accounts are never
\* removed here, so any list it has is part of the store.
MenuToggle ==
    /\ HasMenu /\ ui.menu \in {"closed", "open"}
    /\ ui' = [ui EXCEPT !.menu = IF @ = "open" THEN "closed" ELSE "open"]
    /\ UiOnly

MenuSwitch ==
    /\ HasMenu /\ ui.menu = "open" /\ Turn
    /\ \E a \in Addresses(book) : Asks({[Call("switch", "menu") EXCEPT !.address = a]})
    /\ GoIdle /\ UNCHANGED <<ui, shown>>

MenuDialog ==
    /\ HasMenu /\ ui.menu = "open" /\ Turn
    /\ \E d \in Dialogs : ui' = [ui EXCEPT !.menu = d, !.form = turns']
    /\ GoIdle /\ UNCHANGED <<wire, shown>>

MenuDialogClose ==
    /\ HasMenu /\ ui.menu \in Dialogs
    /\ ui' = [ui EXCEPT !.menu = "closed"]
    /\ UiOnly

\* A dialog disables its own button only: closed and opened again, it can be
\* submitted while the first call is under way.
MenuSubmit ==
    /\ HasMenu /\ ui.menu \in Dialogs /\ ~\E r \in wire : r.by = "menu" /\ r.form = ui.form
    /\ LET call == [Call(ui.menu, "menu") EXCEPT !.form = ui.form]
       IN \/ ui.menu = "import" /\ \E l \in Labels, p \in Phrases :
                Asks({[call EXCEPT !.label = l, !.address.seed = p]})
          \/ ui.menu = "derive" /\ \E l \in Range(book.mnemonics) : Asks({[call EXCEPT !.label = l]})
          \/ ui.menu = "key" /\ \E k \in RawKeys : Asks({[call EXCEPT !.address.seed = k]})
    /\ GoIdle /\ UNCHANGED <<ui, shown, turns>>

\* Success closes the menu after a switch, whatever dialog is open otherwise, and
\* reloads the active account; after an error nothing is read again.
MenuAnswered(r) ==
    /\ r.kind \in {"switch", "import", "derive", "key"} /\ Delivered(r, r.kind, "menu")
    /\ wire' = (wire \ {r}) \cup (IF r.ok THEN {Call("accounts", "changed")} ELSE {})
    /\ ui' = IF r.ok /\ ui.menu \in (IF r.kind = "switch" THEN {"open"} ELSE Dialogs)
             THEN [ui EXCEPT !.menu = "closed"] ELSE ui
    /\ GoIdle /\ UNCHANGED <<shown, turns>>

----------------------------------------------------------------------------
(* Reload, shutdown, restart *)

\* Cmd+R starts the page again, the wizard included; the Go side goes on.
Reload ==
    /\ ui.view # "loading" /\ Turn
    /\ ui' = UiInit /\ shown' = NothingShown
    /\ wire' = Abandoned(wire) \cup {Call("firstRun", "app")}
    /\ GoIdle

\* The answer to a page that is gone.
OrphanAnswered(r) ==
    /\ r.by = "gone" /\ r.stage = "answered" /\ r \in wire
    /\ wire' = wire \ {r}
    /\ GoIdle /\ UNCHANGED <<ui, shown, turns>>

\* The window is closing: the main view and its data calls are gone.
ShuttingDown ==
    /\ ui.view \in {"wizard", "main"}
    /\ ui' = [UiInit EXCEPT !.view = "shutdown", !.active = ui.active]
    /\ wire' = Unmounted
    /\ shown' = NothingShown
    /\ GoIdle /\ UNCHANGED turns

\* The process ends, crashed or closed, and the Hub is started again.
Restart ==
    /\ Turn /\ StartUp
    /\ ui' = UiInit /\ shown' = NothingShown
    /\ wire' = {Call("firstRun", "app")}

GoWorks == \E r \in wire : GoStep(r) /\ UNCHANGED <<ui, shown, turns>>
AssetsRead == \E r \in wire : GetAssets(r) /\ UNCHANGED <<ui, shown, turns>>
GoFails == Turn /\ (\E r \in wire : GoFault(r)) /\ UNCHANGED <<ui, shown>>
StartAnswered == \E r \in wire : FirstRunAnswered(r)
AccountsLoaded == \E r \in wire : LoadAccounts(r)
WizardProceeds == \E r \in wire : WizardAnswered(r)
MenuProceeds == \E r \in wire : MenuAnswered(r)
Arrives(kind) == \E r \in wire : r.kind = kind /\ DataArrives(r)
DataLost == \E r \in wire : DataFails(r)
OrphanGone == \E r \in wire : OrphanAnswered(r)

HubNext ==
    \/ GoWorks \/ GoFails
    \/ WizardStep \/ WizardChoice \/ WizardCreate \/ WizardImport \/ WizardShown
    \/ WizardTrust \/ WizardFinish \/ WizardProceeds
    \/ StartAnswered \/ AccountsLoaded
    \/ Refetch("assets") \/ Refetch("staking") \/ Arrives("assets") \/ Arrives("staking") \/ DataLost
    \/ MenuToggle \/ MenuSwitch \/ MenuDialog \/ MenuDialogClose
    \/ MenuSubmit \/ MenuProceeds
    \/ Reload \/ OrphanGone \/ ShuttingDown \/ Restart

\* GetAssets is carried out, the intervals run, and a fetch that is repeated
\* for ever succeeds again and again.
HubFairness ==
    /\ WF_hubVars(AssetsRead) /\ WF_hubVars(Refetch("assets")) /\ WF_hubVars(Refetch("staking"))
    /\ SF_hubVars(Arrives("assets")) /\ SF_hubVars(Arrives("staking"))

HubSpec == HubInit /\ [][HubNext]_hubVars /\ HubFairness

----------------------------------------------------------------------------
(* Properties *)

\* Types; and the wizard has one call of its own under way.
HubTypeOK ==
    /\ ui.view \in {"loading", "wizard", "main", "shutdown"} /\ ui.menu \in {"closed", "open"} \cup Dialogs
    /\ created \in 0..MaxCreated /\ turns \in 0..MaxTurns
    /\ BookOK(book) /\ BookOK(disk.book)
    /\ \A r, s \in wire : r.by = "wizard" /\ s.by = "wizard" /\ {r.kind, s.kind} \subseteq Adding \cup {"setup"} => r = s

\* An account the Hub knows, now or after a restart, can sign: its key is in the
\* keyring, whichever store or save failed and wherever the Hub crashed
\* (wallet.go, app.go).
AccountsCanSign == Addresses(book) \cup Addresses(disk.book) \subseteq keyring.keys

\* "You're All Set" is said of an account that is in the store and can sign, and
\* if the Hub generated its phrase, of the phrase shown last: Back, errors and
\* late answers notwithstanding (Wizard.tsx).
WizardEndsWell ==
    InWizard("complete") =>
        /\ ui.account \in Addresses(book) \cap keyring.keys
        /\ ui.account.seed \in Phrases \cup {ui.phrase}

\* Once the user stops switching accounts, what is shown becomes and stays the
\* data of the account the Go side holds active and of the address the page
\* shows: no answer of before the switch is the last one (useAssets.ts,
\* useStakingData.ts).
DataSettles == <>[](ui.view = "main" => shown = [assets |-> appActive, staking |-> ui.active])

\* "Which mnemonic this was derived from" (accounts.go): the phrase stored under
\* the label of an account is the one it was derived from.
PhraseRecoversAccount ==
    \A acc \in Range(book.accounts) :
        acc.mnemonic # NoLabel => keyring.phrases[acc.mnemonic] = acc.address.seed
=============================================================================
