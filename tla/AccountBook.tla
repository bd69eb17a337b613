---------------------------- MODULE AccountBook ----------------------------
(***************************************************************************)
(* Accounts, their phrases and keys, as the Go side keeps them: the        *)
(* account store in memory, accounts.json and settings.json, the keyring   *)
(* of the system, and the active address of the shared state.              *)
(*                                                                         *)
(* A binding that adds an account is three steps, because nothing excludes *)
(* another one in between: secrets go to the keyring, which may ask the    *)
(* user and may fail, then the account goes into the store, and then the   *)
(* store as it is by then goes on disk.                                    *)
(* A phrase is its seed, an address a seed and an index; passwords and the *)
(* account names are left out.                                             *)
(***************************************************************************)
EXTENDS Naturals, Sequences, SequencesExt

CONSTANTS
    Labels,      \* the names the user gives to phrases
    Phrases,     \* phrases the user owns and may import
    RawKeys,     \* private keys the user owns and may import
    MaxCreated   \* bound: phrases the Hub generates are 1..MaxCreated

NoLabel == "none"
NoSeed == 0
NoAddress == [seed |-> NoSeed, index |-> 0]

ASSUME BookAssumption ==
    /\ MaxCreated \in Nat /\ NoLabel \notin Labels
    /\ Phrases \subseteq Nat \ (0..MaxCreated) /\ RawKeys \subseteq Nat \ (0..MaxCreated)

VARIABLES
    book,        \* a.store: phrase labels, accounts, active address
    disk,        \* accounts.json and whether settings.json exists
    keyring,     \* phrases by label, and the addresses whose key is stored
    appActive,   \* the active address of the shared state
    created,     \* phrases generated so far
    wire         \* calls of the frontend, until their answer is delivered

bookVars == <<book, disk, keyring, appActive, created, wire>>

EmptyBook == [mnemonics |-> <<>>, accounts |-> <<>>, active |-> NoAddress]

Addresses(b) == {acc.address : acc \in Range(b.accounts)}

\* The phrase the accounts of a label were derived from.
PhraseOf(b, label) ==
    Max({NoSeed} \cup {acc.address.seed : acc \in {x \in Range(b.accounts) : x.mnemonic = label}})

HasMnemonic(b, label) == label \in Range(b.mnemonics)

\* The next unused index of a phrase.
NextIndex(b, label) ==
    LET used == {acc.address.index : acc \in {x \in Range(b.accounts) : x.mnemonic = label}}
    IN  IF used = {} THEN 0 ELSE Max(used) + 1

\* The first account becomes the active one.
AddAccount(b, acc) ==
    [b EXCEPT !.accounts = Append(@, acc),
              !.active = IF @ = NoAddress THEN acc.address ELSE @]

\* A call; by is the code that waits for it, form the instance of a dialog.
Call(kind, by) ==
    [kind |-> kind, by |-> by, form |-> 0, label |-> NoLabel, address |-> NoAddress,
     stage |-> "asked", ok |-> TRUE]

Adding == {"create", "import", "derive", "key"}

Replaced(r, s) == wire' = (wire \ {r}) \cup {s}
Answered(r, ok) == Replaced(r, [r EXCEPT !.stage = "answered", !.ok = ok])
Asked(r, kind) == r \in wire /\ r.kind = kind /\ r.stage = "asked"

\* Mutant: the error of storing the key is not looked at.
KeyErrorIgnored(r, address, outcome) ==
    Replaced(r, [r EXCEPT !.address = address, !.stage = "stored"])

\* The key is stored after the phrase; only then is the account recorded.
KeyStored(r, address, outcome) ==
    IF outcome = "stored"
    THEN Replaced(r, [r EXCEPT !.address = address, !.stage = "stored"])
    ELSE Answered(r, FALSE)

\* Storing the secrets of a call: the phrase first if it brings one, then the
\* key.  Whatever fails, what is stored already stays.
StoreSecrets(r, address, isNew, outcome) ==
    /\ KeyStored(r, address, outcome)
    /\ keyring' =
         [phrases |-> IF isNew /\ outcome # "nothing"
                      THEN [keyring.phrases EXCEPT ![r.label] = address.seed] ELSE keyring.phrases,
          keys |-> IF outcome = "stored" THEN keyring.keys \cup {address} ELSE keyring.keys]
    /\ UNCHANGED <<book, disk, appActive>>

\* A new phrase, under whatever name: the store is not asked.
GenerateNewWallet(r, outcome) ==
    /\ Asked(r, "create") /\ created < MaxCreated
    /\ created' = created + 1
    /\ StoreSecrets(r, [seed |-> created', index |-> 0], TRUE, outcome)

\* A phrase of the user, refused under a name that is taken.
ImportMnemonic(r, outcome) ==
    /\ Asked(r, "import") /\ ~HasMnemonic(book, r.label)
    /\ StoreSecrets(r, [seed |-> r.address.seed, index |-> 0], TRUE, outcome)
    /\ UNCHANGED created

ImportPrivateKey(r, outcome) ==
    /\ Asked(r, "key")
    /\ StoreSecrets(r, r.address, FALSE, outcome)
    /\ UNCHANGED created

\* The next address of the phrase that is stored under the name now.
DeriveNewAddress(r, outcome) ==
    /\ Asked(r, "derive") /\ HasMnemonic(book, r.label) /\ keyring.phrases[r.label] # NoSeed
    /\ StoreSecrets(r, [seed |-> keyring.phrases[r.label], index |-> NextIndex(book, r.label)],
                    FALSE, outcome)
    /\ UNCHANGED created

\* The early error returns.
Refused(r) ==
    /\ \/ Asked(r, "import") /\ HasMnemonic(book, r.label)
       \/ Asked(r, "derive") /\ (~HasMnemonic(book, r.label) \/ keyring.phrases[r.label] = NoSeed)
    /\ Answered(r, FALSE)
    /\ UNCHANGED <<book, disk, keyring, appActive, created>>

\* The account is recorded in memory, whether or not it gets on disk.
RecordAccount(r) ==
    /\ r \in wire /\ r.kind \in Adding /\ r.stage = "stored"
    /\ book' = AddAccount([book EXCEPT !.mnemonics = IF r.kind \in {"create", "import"}
                                                      THEN Append(@, r.label) ELSE @],
                          [address |-> r.address, mnemonic |-> r.label])
    /\ Replaced(r, [r EXCEPT !.stage = "recorded"])
    /\ UNCHANGED <<disk, keyring, appActive, created>>

\* The account becomes active in the store and in the shared state, whether or
\* not that gets on disk; an unknown address is an error.
SwitchAccount(r) ==
    /\ Asked(r, "switch")
    /\ IF r.address \in Addresses(book)
       THEN /\ book' = [book EXCEPT !.active = r.address]
            /\ appActive' = r.address
            /\ Replaced(r, [r EXCEPT !.stage = "recorded"])
       ELSE Answered(r, FALSE) /\ UNCHANGED <<book, appActive>>
    /\ UNCHANGED <<disk, keyring, created>>

\* The end of a call that changed the store: the store is saved as it is now,
\* with what other calls changed meanwhile.  Saving overwrites the file in
\* place: a failed save leaves the old file or one that cannot be read.
SaveAccounts(r, written) ==
    /\ r \in wire /\ r.stage = "recorded"
    /\ disk' = CASE written = "saved" -> [disk EXCEPT !.book = book]
                  [] written = "torn"  -> [disk EXCEPT !.book = EmptyBook]
                  [] OTHER             -> disk
    /\ Answered(r, written = "saved")
    /\ UNCHANGED <<book, keyring, appActive, created>>

CompleteSetup(r, ok) ==
    /\ Asked(r, "setup")
    /\ \E exists \in {TRUE, ok} : disk' = [disk EXCEPT !.settings = @ \/ exists]
    /\ Answered(r, ok)
    /\ UNCHANGED <<book, keyring, appActive, created>>

\* The bindings that read: what they read is read now, answered later.  Of the
\* accounts, the active one.
IsFirstRun(r) ==
    /\ Asked(r, "firstRun")
    /\ Answered(r, ~disk.settings)
    /\ UNCHANGED <<book, disk, keyring, appActive, created>>

GetAccounts(r) ==
    /\ Asked(r, "accounts")
    /\ Replaced(r, [r EXCEPT !.stage = "answered", !.address = book.active])
    /\ UNCHANGED <<book, disk, keyring, appActive, created>>

GetAssets(r) ==
    /\ Asked(r, "assets")
    /\ Replaced(r, [r EXCEPT !.stage = "answered", !.address = appActive])
    /\ UNCHANGED <<book, disk, keyring, appActive, created>>

\* A call whose answer depends on its argument only, GetStakingOverview of an
\* address and GetVerificationIndices, is answered from the start.
Settled(call) == [call EXCEPT !.stage = "answered"]

\* A new process: memory is what the disk has.
StartUp ==
    /\ book' = disk.book
    /\ appActive' = disk.book.active
    /\ UNCHANGED <<disk, keyring, created>>

\* A call is carried out as it should.
GoStep(r) ==
    \/ GenerateNewWallet(r, "stored") \/ ImportMnemonic(r, "stored") \/ ImportPrivateKey(r, "stored")
    \/ DeriveNewAddress(r, "stored") \/ Refused(r) \/ RecordAccount(r)
    \/ SwitchAccount(r) \/ SaveAccounts(r, "saved") \/ CompleteSetup(r, TRUE)
    \/ IsFirstRun(r) \/ GetAccounts(r) \/ GetAssets(r)

\* The keyring or the disk fails it.
GoFault(r) ==
    \/ \E o \in {"phraseOnly", "nothing"} : GenerateNewWallet(r, o) \/ ImportMnemonic(r, o)
    \/ ImportPrivateKey(r, "nothing") \/ DeriveNewAddress(r, "nothing")
    \/ \E w \in {"failed", "torn"} : SaveAccounts(r, w)
    \/ CompleteSetup(r, FALSE)
=============================================================================
