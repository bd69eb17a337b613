----------------------------- MODULE Hub_proofs -----------------------------
(* Proofs about Hub: every account it knows can sign, and the wizard ends    *)
(* only on an account that is stored and whose phrase the user has seen.     *)
EXTENDS Hub, TLAPS

-----------------------------------------------------------------------------
(* The inductive invariant                                                   *)

CallFields == {"kind", "by", "form", "label", "address", "stage", "ok"}
UiFields == {"view", "step", "isImport", "phrase", "account", "active", "menu", "form"}

(* A call under way: names and secrets belong to the user, what is stored is *)
(* in the keyring, and an account that was added is in the store.            *)
CallOK(r) ==
    /\ DOMAIN r = CallFields
    /\ r.kind \in {"create", "import", "derive"} => r.label \in Labels
    /\ r.kind = "import" => r.address.seed \in Phrases
    /\ r.kind = "key" => r.address.seed \in RawKeys
    /\ r.stage = "stored" => r.address \in keyring.keys /\ r.address.seed # NoSeed
    /\ r.kind \in {"create", "import"} /\ r.stage = "recorded" => r.address \in Addresses(book)
    /\ r.kind \in {"create", "import"} /\ r.stage = "answered" /\ r.ok
         => r.address \in Addresses(book)

(* The wizard has one call at a time that does more than read.               *)
OneCall ==
    \A r, s \in wire :
       r.by = "wizard" /\ s.by = "wizard" /\ {r.kind, s.kind} \subseteq Adding \cup {"setup"} => r = s

(* The steps behind the account, and the calls only they make: a late answer *)
(* to one takes the wizard there from anywhere.                              *)
AccountSteps == {"showPhrase", "verifyPhrase", "trust", "complete"}

PastAccount ==
    \/ ui.step \in AccountSteps
    \/ \E r \in wire : r.by = "wizard" /\ r.kind \in {"indices", "setup"}

GoodAccount ==
    /\ ui.account \in Addresses(book) \cap keyring.keys
    /\ ui.account.seed \in Phrases \cup {ui.phrase}

GoInv ==
    /\ BookOK(book) /\ BookOK(disk.book) /\ DOMAIN disk = {"book", "settings"}
    /\ created \in 0..MaxCreated
    /\ AccountsCanSign
    /\ \A r \in wire : CallOK(r)

UiInv ==
    /\ DOMAIN ui = UiFields
    /\ ui.view \in {"loading", "wizard", "main", "shutdown"}
    /\ ui.menu \in {"closed", "open"} \cup Dialogs
    /\ turns \in 0..MaxTurns
    /\ OneCall
    /\ PastAccount => GoodAccount

HubInv == GoInv /\ UiInv

-----------------------------------------------------------------------------
(* Sequences of accounts                                                     *)

(* A sequence over what it holds grows by what is appended.                  *)
LEMMA AppendRange ==
    ASSUME NEW s, s \in Seq(Range(s)), NEW e
    PROVE  /\ Range(Append(s, e)) = Range(s) \cup {e}
           /\ Append(s, e) \in Seq(Range(Append(s, e)))
           /\ Append(s, e) # <<>>
<1>1. /\ DOMAIN Append(s, e) = 1..(Len(s) + 1)
      /\ DOMAIN s = 1..Len(s) /\ Len(s) \in Nat
      /\ \A i \in 1..Len(s) : Append(s, e)[i] = s[i]
      /\ Append(s, e)[Len(s) + 1] = e
  OBVIOUS
<1>2. Range(Append(s, e)) = Range(s) \cup {e}
  BY <1>1 DEF Range
<1>3. s \in Seq(Range(s) \cup {e})
  OBVIOUS
<1>4. Append(s, e) \in Seq(Range(s) \cup {e}) /\ Append(s, e) # <<>>
  BY <1>3
<1>5. QED BY <1>2, <1>4

(* AddAccount keeps a store in order.                                        *)
LEMMA AddAccountOK ==
    ASSUME NEW b, BookOK(b), NEW labels \in Seq(Labels), NEW acc, acc.address.seed # NoSeed
    PROVE  LET c == AddAccount([b EXCEPT !.mnemonics = labels], acc)
           IN  /\ BookOK(c)
               /\ Addresses(c) = Addresses(b) \cup {acc.address}
<1> DEFINE c == AddAccount([b EXCEPT !.mnemonics = labels], acc)
<1>1. /\ DOMAIN c = {"mnemonics", "accounts", "active"}
      /\ c.mnemonics = labels
      /\ c.accounts = Append(b.accounts, acc)
      /\ c.active = IF b.active = NoAddress THEN acc.address ELSE b.active
  BY DEF BookOK, AddAccount
<1>2. /\ Range(c.accounts) = Range(b.accounts) \cup {acc}
      /\ c.accounts \in Seq(Range(c.accounts)) /\ c.accounts # <<>>
  BY <1>1, AppendRange DEF BookOK
<1>3. Addresses(c) = Addresses(b) \cup {acc.address}
  BY <1>2 DEF Addresses
<1>4. acc.address # NoAddress
  BY DEF NoAddress, NoSeed
<1> HIDE DEF c
<1>5. BookOK(c)
  BY <1>1, <1>2, <1>3, <1>4 DEF BookOK
<1>6. QED BY <1>3, <1>5 DEF c

(* Another account of the store becomes the active one.                      *)
LEMMA ActivateOK ==
    ASSUME NEW b, BookOK(b), NEW a \in Addresses(b)
    PROVE  LET c == [b EXCEPT !.active = a]
           IN  BookOK(c) /\ Addresses(c) = Addresses(b)
<1> DEFINE c == [b EXCEPT !.active = a]
<1>1. /\ DOMAIN c = {"mnemonics", "accounts", "active"}
      /\ c.mnemonics = b.mnemonics /\ c.accounts = b.accounts /\ c.active = a
  BY DEF BookOK
<1>2. Addresses(c) = Addresses(b)
  BY <1>1 DEF Addresses
<1>3. PICK acc \in Range(b.accounts) : a = acc.address
  BY DEF Addresses
<1>4. a # NoAddress
  BY <1>3 DEF BookOK, NoAddress, NoSeed
<1>5. b.accounts # <<>>
  BY <1>3 DEF Range
<1> HIDE DEF c
<1>6. BookOK(c)
  BY <1>1, <1>2, <1>4, <1>5 DEF BookOK
<1>7. QED BY <1>2, <1>6 DEF c

(* The store of the first start, and of a save cut short, is in order.       *)
LEMMA EmptyBookOK == BookOK(EmptyBook) /\ Addresses(EmptyBook) = {}
BY DEF EmptyBook, BookOK, Addresses, Range

-----------------------------------------------------------------------------
(* The Go side                                                               *)

(* Keys and accounts only grow while a process lives.                        *)
Grows == keyring.keys \subseteq keyring'.keys /\ Addresses(book) \subseteq Addresses(book')

(* What is true of a call stays true.                                        *)
LEMMA CallsStay ==
    ASSUME Grows, NEW r, CallOK(r)
    PROVE  CallOK(r)'
BY DEF Grows, CallOK

(* A call became s: what it asked for and who waits for it are the same.     *)
Became(r, s) ==
    /\ wire' = (wire \ {r}) \cup {s}
    /\ s.kind = r.kind /\ s.by = r.by
    /\ CallOK(s)'

(* The effect of a Go step on the call it carries out.                       *)
GoEffect(r) == GoInv' /\ Grows /\ \E s : Became(r, s)

(* The calls around one that became another.                                 *)
LEMMA CallsBecome ==
    ASSUME \A q \in wire : CallOK(q), Grows, NEW r, NEW s, Became(r, s)
    PROVE  (\A q \in wire : CallOK(q))'
BY CallsStay DEF Became

(* An answer that promises no new account.                                   *)
LEMMA AnsweredOK ==
    ASSUME GoInv, NEW r \in wire, NEW ok \in BOOLEAN, Answered(r, ok), Grows,
           r.kind \in {"create", "import"} /\ ok => r.address \in Addresses(book')
    PROVE  \E s : Became(r, s)
<1> DEFINE s == [r EXCEPT !.stage = "answered", !.ok = ok]
<1>1. CallOK(r)
  BY DEF GoInv
<1>2. /\ DOMAIN s = CallFields /\ s.kind = r.kind /\ s.by = r.by /\ s.label = r.label
      /\ s.address = r.address /\ s.stage = "answered" /\ s.ok = ok
  BY <1>1 DEF CallOK, CallFields
<1> HIDE DEF s
<1>3. CallOK(s)'
  BY <1>1, <1>2 DEF CallOK
<1>4. wire' = (wire \ {r}) \cup {s}
  BY DEF Answered, Replaced, s
<1>5. QED BY <1>2, <1>3, <1>4 DEF Became

(* Storing the secrets of a call puts the key of its address in the keyring. *)
LEMMA StoreSecretsOK ==
    ASSUME GoInv, NEW r \in wire, NEW address, NEW isNew, NEW outcome,
           StoreSecrets(r, address, isNew, outcome),
           address.seed # NoSeed, created' \in 0..MaxCreated,
           r.kind = "import" => address.seed \in Phrases,
           r.kind = "key" => address.seed \in RawKeys
    PROVE  GoEffect(r)
<1>1. /\ book' = book /\ disk' = disk
      /\ keyring'.keys = IF outcome = "stored" THEN keyring.keys \cup {address} ELSE keyring.keys
  BY DEF StoreSecrets
<1>2. Grows
  BY <1>1 DEF Grows
<1>3. CallOK(r)
  BY DEF GoInv
<1>4. \E s : Became(r, s)
  <2>1. CASE outcome = "stored"
    <3> DEFINE s == [r EXCEPT !.address = address, !.stage = "stored"]
    <3>1. /\ DOMAIN s = CallFields /\ s.kind = r.kind /\ s.by = r.by /\ s.label = r.label
          /\ s.address = address /\ s.stage = "stored" /\ s.ok = r.ok
      BY <1>3 DEF CallOK, CallFields
    <3> HIDE DEF s
    <3>2. CallOK(s)'
      BY <1>1, <1>3, <2>1, <3>1 DEF CallOK
    <3>3. wire' = (wire \ {r}) \cup {s}
      BY <2>1 DEF StoreSecrets, KeyStored, Replaced, s
    <3>4. QED BY <3>1, <3>2, <3>3 DEF Became
  <2>2. CASE outcome # "stored"
    BY <1>2, <2>2, AnsweredOK DEF StoreSecrets, KeyStored
  <2>3. QED BY <2>1, <2>2
<1>5. (\A q \in wire : CallOK(q))'
  BY <1>2, <1>4, CallsBecome DEF GoInv
<1>6. GoInv'
  BY <1>1, <1>5 DEF GoInv, AccountsCanSign
<1>7. QED BY <1>2, <1>4, <1>6 DEF GoEffect

(* The account whose key was stored enters the store.                        *)
LEMMA RecordAccountOK ==
    ASSUME GoInv, NEW r \in wire, RecordAccount(r)
    PROVE  GoEffect(r)
<1> DEFINE labels == IF r.kind \in {"create", "import"} THEN Append(book.mnemonics, r.label)
                                                       ELSE book.mnemonics
           acc == [address |-> r.address, mnemonic |-> r.label]
           s == [r EXCEPT !.stage = "recorded"]
<1>1. /\ CallOK(r) /\ r.stage = "stored"
      /\ keyring' = keyring /\ created' = created /\ disk' = disk
  BY DEF RecordAccount, GoInv
<1>2. acc.address = r.address /\ acc.address.seed # NoSeed /\ r.address \in keyring.keys
  BY <1>1 DEF CallOK
<1>3. labels \in Seq(Labels)
  BY <1>1 DEF GoInv, BookOK, CallOK
<1>4. book' = AddAccount([book EXCEPT !.mnemonics = labels], acc)
  BY DEF RecordAccount, GoInv, BookOK
<1>5. wire' = (wire \ {r}) \cup {s}
  BY DEF RecordAccount, Replaced
<1>6. /\ DOMAIN s = CallFields /\ s.kind = r.kind /\ s.by = r.by /\ s.label = r.label
      /\ s.address = r.address /\ s.stage = "recorded"
  BY <1>1 DEF CallOK, CallFields
<1> HIDE DEF labels, acc, s
<1>7. BookOK(book') /\ Addresses(book') = Addresses(book) \cup {r.address}
  BY <1>2, <1>3, <1>4, AddAccountOK DEF GoInv
<1>8. Grows
  BY <1>1, <1>7 DEF Grows
<1>9. Became(r, s)
  BY <1>1, <1>5, <1>6, <1>7 DEF Became, CallOK
<1>10. (\A q \in wire : CallOK(q))'
  BY <1>8, <1>9, CallsBecome DEF GoInv
<1>11. GoInv'
  BY <1>1, <1>2, <1>7, <1>10 DEF GoInv, AccountsCanSign
<1>12. QED BY <1>8, <1>9, <1>11 DEF GoEffect

(* The account switched to is one of the store, or nothing changes.          *)
LEMMA SwitchAccountOK ==
    ASSUME GoInv, NEW r \in wire, SwitchAccount(r)
    PROVE  GoEffect(r)
<1> DEFINE s == [r EXCEPT !.stage = "recorded"]
<1>1. /\ CallOK(r) /\ r.kind = "switch"
      /\ keyring' = keyring /\ created' = created /\ disk' = disk
  BY DEF SwitchAccount, Asked, GoInv
<1>2. BookOK(book') /\ Addresses(book') = Addresses(book)
  <2>1. CASE r.address \in Addresses(book)
    <3>1. book' = [book EXCEPT !.active = r.address]
      BY <2>1 DEF SwitchAccount
    <3>2. QED BY <2>1, <3>1, ActivateOK DEF GoInv
  <2>2. CASE r.address \notin Addresses(book)
    BY <2>2 DEF SwitchAccount, GoInv
  <2>3. QED BY <2>1, <2>2
<1>3. Grows
  BY <1>1, <1>2 DEF Grows
<1>4. \E q : Became(r, q)
  <2>1. CASE r.address \in Addresses(book)
    <3>1. wire' = (wire \ {r}) \cup {s}
      BY <2>1 DEF SwitchAccount, Replaced
    <3>2. DOMAIN s = CallFields /\ s.kind = r.kind /\ s.by = r.by /\ s.stage = "recorded"
      BY <1>1 DEF CallOK, CallFields
    <3> HIDE DEF s
    <3>3. CallOK(s)'
      BY <1>1, <3>2 DEF CallOK
    <3>4. QED BY <3>1, <3>2, <3>3 DEF Became
  <2>2. CASE r.address \notin Addresses(book)
    BY <1>1, <1>3, <2>2, AnsweredOK DEF SwitchAccount
  <2>3. QED BY <2>1, <2>2
<1>5. (\A q \in wire : CallOK(q))'
  BY <1>3, <1>4, CallsBecome DEF GoInv
<1>6. GoInv'
  BY <1>1, <1>2, <1>5 DEF GoInv, AccountsCanSign
<1>7. QED BY <1>3, <1>4, <1>6 DEF GoEffect

(* A save leaves on disk the store in memory, the old one, or none.          *)
LEMMA SaveAccountsOK ==
    ASSUME GoInv, NEW r \in wire, NEW written \in {"saved", "failed", "torn"},
           SaveAccounts(r, written)
    PROVE  GoEffect(r)
<1>1. /\ CallOK(r) /\ r.stage = "recorded"
      /\ book' = book /\ keyring' = keyring /\ created' = created
  BY DEF SaveAccounts, GoInv
<1>2. disk'.book \in {book, EmptyBook, disk.book} /\ DOMAIN disk' = {"book", "settings"}
  BY DEF SaveAccounts, GoInv
<1>3. BookOK(disk'.book) /\ Addresses(disk'.book) \subseteq keyring.keys
  BY <1>2, EmptyBookOK DEF GoInv, AccountsCanSign
<1>4. Grows
  BY <1>1 DEF Grows
<1>5. \E s : Became(r, s)
  <2>1. r.kind \in {"create", "import"} => r.address \in Addresses(book)
    BY <1>1 DEF CallOK
  <2>2. r.kind \in {"create", "import"} => r.address \in Addresses(book')
    BY <1>1, <2>1
  <2>3. QED BY <1>4, <2>2, AnsweredOK DEF SaveAccounts
<1>6. (\A q \in wire : CallOK(q))'
  BY <1>4, <1>5, CallsBecome DEF GoInv
<1>7. GoInv'
  BY <1>1, <1>2, <1>3, <1>6 DEF GoInv, AccountsCanSign
<1>8. QED BY <1>4, <1>5, <1>7 DEF GoEffect

(* The calls that leave books and keys alone.                                *)
LEMMA ReadsOK ==
    ASSUME GoInv, NEW r \in wire,
           \/ Refused(r) \/ IsFirstRun(r) \/ GetAccounts(r) \/ GetAssets(r)
           \/ \E ok \in BOOLEAN : CompleteSetup(r, ok)
    PROVE  GoEffect(r)
<1>1. /\ book' = book /\ keyring' = keyring /\ created' = created
      /\ disk'.book = disk.book /\ DOMAIN disk' = {"book", "settings"}
  BY DEF Refused, IsFirstRun, GetAccounts, GetAssets, CompleteSetup, GoInv
<1>2. Grows
  BY <1>1 DEF Grows
<1>3. \E s : Became(r, s)
  <2>1. CASE Refused(r)
    BY <1>2, <2>1, AnsweredOK DEF Refused
  <2>2. CASE IsFirstRun(r)
    BY <1>2, <2>2, AnsweredOK DEF IsFirstRun, Asked
  <2>3. CASE \E ok \in BOOLEAN : CompleteSetup(r, ok)
    BY <1>2, <2>3, AnsweredOK DEF CompleteSetup, Asked
  <2>4. CASE GetAccounts(r) \/ GetAssets(r)
    <3>1. CallOK(r) /\ r.kind \in {"accounts", "assets"}
      BY <2>4 DEF GoInv, GetAccounts, GetAssets, Asked
    <3>2. \E s : /\ wire' = (wire \ {r}) \cup {s}
                 /\ \E a : s = [r EXCEPT !.stage = "answered", !.address = a]
      BY <2>4 DEF GetAccounts, GetAssets, Replaced
    <3>3. PICK s : /\ wire' = (wire \ {r}) \cup {s}
                   /\ \E a : s = [r EXCEPT !.stage = "answered", !.address = a]
      BY <3>2
    <3>4. /\ DOMAIN s = CallFields /\ s.kind = r.kind /\ s.by = r.by /\ s.stage = "answered"
      BY <3>1, <3>3 DEF CallOK, CallFields
    <3>5. CallOK(s)'
      BY <3>1, <3>4 DEF CallOK
    <3>6. QED BY <3>3, <3>4, <3>5 DEF Became
  <2>5. QED BY <2>1, <2>2, <2>3, <2>4
<1>4. (\A q \in wire : CallOK(q))'
  BY <1>2, <1>3, CallsBecome DEF GoInv
<1>5. GoInv'
  BY <1>1, <1>4 DEF GoInv, AccountsCanSign
<1>6. QED BY <1>2, <1>3, <1>5 DEF GoEffect

(* Every binding, carried out or failed, has this effect on its call.        *)
LEMMA GoStepOK ==
    ASSUME GoInv, NEW r \in wire, GoStep(r) \/ GoFault(r)
    PROVE  GoEffect(r)
<1> USE BookAssumption DEF Asked, NoSeed
<1>1. CallOK(r) /\ created \in 0..MaxCreated
  BY DEF GoInv
<1>2. ASSUME NEW o, GenerateNewWallet(r, o) PROVE GoEffect(r)
  <2> DEFINE a == [seed |-> created', index |-> 0]
  <2>1. a.seed # NoSeed /\ created' \in 0..MaxCreated
    BY <1>1, <1>2 DEF GenerateNewWallet
  <2>2. StoreSecrets(r, a, TRUE, o) /\ r.kind = "create"
    BY <1>2 DEF GenerateNewWallet
  <2> HIDE DEF a
  <2>3. QED BY <2>1, <2>2, StoreSecretsOK
<1>3. ASSUME NEW o, ImportMnemonic(r, o) PROVE GoEffect(r)
  <2> DEFINE a == [seed |-> r.address.seed, index |-> 0]
  <2>1. a.seed \in Phrases /\ a.seed # NoSeed /\ created' \in 0..MaxCreated /\ r.kind = "import"
    BY <1>1, <1>3 DEF ImportMnemonic, CallOK
  <2>2. StoreSecrets(r, a, TRUE, o)
    BY <1>3 DEF ImportMnemonic
  <2> HIDE DEF a
  <2>3. QED BY <2>1, <2>2, StoreSecretsOK
<1>4. ASSUME NEW o, ImportPrivateKey(r, o) PROVE GoEffect(r)
  <2>1. r.address.seed \in RawKeys /\ r.address.seed # NoSeed /\ created' \in 0..MaxCreated
        /\ r.kind = "key"
    BY <1>1, <1>4 DEF ImportPrivateKey, CallOK
  <2>2. QED BY <1>4, <2>1, StoreSecretsOK DEF ImportPrivateKey
<1>5. ASSUME NEW o, DeriveNewAddress(r, o) PROVE GoEffect(r)
  <2> DEFINE a == [seed |-> keyring.phrases[r.label], index |-> NextIndex(book, r.label)]
  <2>1. a.seed # NoSeed /\ created' \in 0..MaxCreated /\ r.kind = "derive"
    BY <1>1, <1>5 DEF DeriveNewAddress
  <2>2. StoreSecrets(r, a, FALSE, o)
    BY <1>5 DEF DeriveNewAddress
  <2> HIDE DEF a
  <2>3. QED BY <2>1, <2>2, StoreSecretsOK
<1>6. QED
  BY <1>2, <1>3, <1>4, <1>5, RecordAccountOK, SwitchAccountOK, SaveAccountsOK, ReadsOK
     DEF GoStep, GoFault

-----------------------------------------------------------------------------
(* The page                                                                  *)

(* What a Go step does to the calls and the books leaves the page as it is.  *)
LEMMA GoKeepsUi ==
    ASSUME HubInv, NEW r \in wire, GoEffect(r), ui' = ui, turns' \in 0..MaxTurns
    PROVE  HubInv'
<1>1. PICK s : Became(r, s)
  BY DEF GoEffect
<1>2. OneCall'
  BY <1>1 DEF HubInv, UiInv, OneCall, Became
<1>3. PastAccount' => PastAccount
  BY <1>1 DEF PastAccount, Became
<1>4. GoodAccount => GoodAccount'
  BY DEF GoEffect, Grows, GoodAccount
<1>5. QED BY <1>2, <1>3, <1>4 DEF HubInv, UiInv, GoEffect

(* A call that neither adds an account for the wizard nor takes it anywhere. *)
Quiet(q) == CallOK(q) /\ (q.by = "wizard" => q.kind = "accounts")

UiTypes(u) ==
    /\ DOMAIN u = UiFields
    /\ u.view \in {"loading", "wizard", "main", "shutdown"}
    /\ u.menu \in {"closed", "open"} \cup Dialogs

(* While Go is idle, what the page knows of the calls stays true.            *)
LEMMA IdleGo ==
    ASSUME GoInv, GoIdle, \A q \in wire' : q \in wire \/ CallOK(q)
    PROVE  GoInv'
<1>1. \A q : CallOK(q) => CallOK(q)'
  BY DEF GoIdle, CallOK
<1>2. QED BY <1>1 DEF GoInv, GoIdle, AccountsCanSign

(* The wizard keeps its account: it goes past it only from past it.          *)
LEMMA QuietStep ==
    ASSUME HubInv, GoIdle, \A q \in wire' : q \in wire \/ Quiet(q),
           UiTypes(ui'), turns' \in 0..MaxTurns,
           ui'.account = ui.account, ui'.phrase = ui.phrase,
           ui'.step \in AccountSteps => PastAccount
    PROVE  HubInv'
<1>1. GoInv'
  BY IdleGo DEF HubInv, Quiet
<1>2. OneCall'
  BY DEF HubInv, UiInv, OneCall, Quiet, Adding
<1>3. PastAccount' => PastAccount
  BY DEF PastAccount, Quiet
<1>4. GoodAccount => GoodAccount'
  BY DEF GoIdle, GoodAccount
<1>5. QED BY <1>1, <1>2, <1>3, <1>4 DEF HubInv, UiInv, UiTypes

(* A page that starts again has no account and nothing that leads to one.    *)
LEMMA FreshPage ==
    ASSUME HubInv, GoIdle, \A q \in wire' : CallOK(q) /\ (q.by = "wizard" => q.kind \in {"firstRun", "accounts"}),
           UiTypes(ui'), turns' \in 0..MaxTurns, ui'.step = "welcome"
    PROVE  HubInv'
<1>1. GoInv'
  BY IdleGo DEF HubInv
<1>2. OneCall'
  BY DEF OneCall, Adding
<1>3. ~PastAccount'
  BY DEF PastAccount, AccountSteps
<1>4. QED BY <1>1, <1>2, <1>3 DEF HubInv, UiInv, UiTypes

(* The page as it starts.                                                    *)
LEMMA UiInitTypes == UiTypes(UiInit) /\ UiInit.step = "welcome"
BY DEF UiTypes, UiInit, UiFields

(* The shape of a new call, and of the same call with its data filled in.    *)
LEMMA NewCall ==
    ASSUME NEW kind, NEW by
    PROVE  /\ DOMAIN Call(kind, by) = CallFields
           /\ Call(kind, by).kind = kind /\ Call(kind, by).by = by
           /\ Call(kind, by).stage = "asked"
BY DEF Call, CallFields

(* What abandoned calls change is still changed, but the wizard is not told. *)
LEMMA AbandonedQuiet ==
    ASSUME GoInv, NEW q \in Abandoned(wire)
    PROVE  Quiet(q) /\ q.by # "wizard"
<1>1. PICK r \in wire : q = [r EXCEPT !.by = "gone"]
  BY DEF Abandoned
<1>2. CallOK(r)
  BY DEF GoInv
<1>3. /\ DOMAIN q = CallFields /\ q.by = "gone"
      /\ \A f \in CallFields \ {"by"} : q[f] = r[f]
  BY <1>1, <1>2 DEF CallOK, CallFields
<1>4. /\ q.kind = r.kind /\ q.label = r.label /\ q.address = r.address
      /\ q.stage = r.stage /\ q.ok = r.ok
  BY <1>3 DEF CallFields
<1>5. CallOK(q)
  BY <1>2, <1>3, <1>4 DEF CallOK
<1>6. QED BY <1>3, <1>5 DEF Quiet

(* What is left of the calls when another view is shown.                     *)
LEMMA UnmountedQuiet ==
    ASSUME GoInv, NEW q \in Unmounted
    PROVE  CallOK(q) /\ (q.by = "wizard" => q.kind \in {"firstRun", "accounts"})
<1>1. CASE q \in wire /\ q.kind \in {"firstRun", "accounts"}
  BY <1>1 DEF GoInv
<1>2. CASE q \in Abandoned(wire)
  BY <1>2, AbandonedQuiet DEF Quiet
<1>3. QED BY <1>1, <1>2 DEF Unmounted, Abandoned

(* Calls that only read.                                                     *)
Reading == {"firstRun", "accounts", "assets", "staking"}

(* A call that only reads is quiet.                                          *)
LEMMA ReadingQuiet ==
    ASSUME NEW kind \in Reading, NEW by, by = "wizard" => kind = "accounts"
    PROVE  Quiet(Call(kind, by))
BY NewCall DEF Quiet, CallOK, Reading

(* So are the calls for the data of the sections.                            *)
LEMMA DataCallsQuiet ==
    ASSUME NEW address, NEW q \in DataCalls(address)
    PROVE  Quiet(q) /\ q.by # "wizard"
<1> DEFINE c == Call("staking", "data")
<1>1. CASE q = Call("assets", "data")
  BY <1>1, ReadingQuiet, NewCall DEF Reading
<1>2. CASE q = [Settled(c) EXCEPT !.address = address]
  <2>1. DOMAIN c = CallFields /\ c.kind = "staking" /\ c.by = "data"
    BY NewCall
  <2> HIDE DEF c
  <2>2. DOMAIN q = CallFields /\ q.kind = "staking" /\ q.by = "data" /\ q.stage = "answered"
    BY <1>2, <2>1 DEF Settled, CallFields
  <2>3. QED BY <2>2 DEF Quiet, CallOK
<1>3. QED BY <1>1, <1>2 DEF DataCalls

(* Steps that change the page only.                                          *)
LEMMA UiOnlyOK ==
    ASSUME HubInv, UiOnly, UiTypes(ui'),
           ui'.account = ui.account, ui'.phrase = ui.phrase,
           ui'.step \in AccountSteps => PastAccount
    PROVE  HubInv'
BY QuietStep DEF UiOnly, HubInv, UiInv

(* Steps that only ask.                                                      *)
LEMMA AskingOK ==
    ASSUME HubInv, GoIdle, ui' = ui, turns' \in 0..MaxTurns, NEW calls, Asks(calls),
           \A q \in calls : Quiet(q)
    PROVE  HubInv'
<1>1. \A q \in wire' : q \in wire \/ Quiet(q)
  BY DEF Asks
<1>2. UiTypes(ui')
  BY DEF HubInv, UiInv, UiTypes
<1>3. QED BY <1>1, <1>2, QuietStep DEF PastAccount

-----------------------------------------------------------------------------
(* The wizard                                                                *)

(* A call the wizard makes when it has none under way.                       *)
LEMMA WizardAsks ==
    ASSUME HubInv, GoIdle, UNCHANGED <<ui, turns>>, ~Loading, NEW q, wire' = wire \cup {q},
           CallOK(q), q.by = "wizard", q.kind \in Adding \cup {"setup"},
           q.kind = "setup" => PastAccount
    PROVE  HubInv'
<1>1. GoInv'
  BY IdleGo DEF HubInv
<1>2. OneCall'
  BY DEF Loading, OneCall, Adding
<1>3. PastAccount' => PastAccount
  BY DEF PastAccount, Adding
<1>4. GoodAccount => GoodAccount'
  BY DEF GoIdle, GoodAccount
<1>5. QED BY <1>1, <1>2, <1>3, <1>4 DEF HubInv, UiInv

(* Creating, importing, trusting the node and finishing.                     *)
LEMMA WizardAsksOK ==
    ASSUME HubInv, WizardCreate \/ WizardImport \/ WizardTrust \/ WizardFinish
    PROVE  HubInv'
<1>1. ASSUME WizardCreate PROVE HubInv'
  <2>1. PICK l \in Labels : wire' = wire \cup {[Call("create", "wizard") EXCEPT !.label = l]}
    BY <1>1 DEF WizardCreate, Asks
  <2> DEFINE q == [Call("create", "wizard") EXCEPT !.label = l]
  <2>2. DOMAIN q = CallFields /\ q.kind = "create" /\ q.by = "wizard" /\ q.stage = "asked" /\ q.label = l
    BY NewCall DEF CallFields
  <2>3. wire' = wire \cup {q}
    BY <2>1
  <2> HIDE DEF q
  <2>4. CallOK(q)
    BY <2>2 DEF CallOK
  <2>5. QED BY <1>1, <2>2, <2>3, <2>4, WizardAsks DEF WizardCreate, Adding
<1>2. ASSUME WizardImport PROVE HubInv'
  <2>1. PICK l \in Labels, p \in Phrases :
           wire' = wire \cup {[Call("import", "wizard") EXCEPT !.label = l, !.address.seed = p]}
    BY <1>2 DEF WizardImport, Asks
  <2> DEFINE q == [Call("import", "wizard") EXCEPT !.label = l, !.address.seed = p]
  <2>2. /\ DOMAIN q = CallFields /\ q.kind = "import" /\ q.by = "wizard" /\ q.stage = "asked"
        /\ q.label = l /\ q.address.seed = p
    BY DEF Call, CallFields, NoAddress
  <2>3. wire' = wire \cup {q}
    BY <2>1
  <2> HIDE DEF q
  <2>4. CallOK(q)
    BY <2>2 DEF CallOK
  <2>5. QED BY <1>2, <2>2, <2>3, <2>4, WizardAsks DEF WizardImport, Adding
<1>3. ASSUME WizardTrust PROVE HubInv'
  <2> DEFINE q == Call("setup", "wizard")
  <2>1. DOMAIN q = CallFields /\ q.kind = "setup" /\ q.by = "wizard" /\ q.stage = "asked"
    BY NewCall
  <2>2. wire' = wire \cup {q}
    BY <1>3 DEF WizardTrust, Asks
  <2> HIDE DEF q
  <2>3. CallOK(q)
    BY <2>1 DEF CallOK
  <2>4. PastAccount
    BY <1>3 DEF WizardTrust, InWizard, PastAccount, AccountSteps
  <2>5. QED BY <1>3, <2>1, <2>2, <2>3, <2>4, WizardAsks DEF WizardTrust
<1>4. ASSUME WizardFinish PROVE HubInv'
  BY <1>4, AskingOK, ReadingQuiet DEF WizardFinish, Reading, HubInv, UiInv
<1>5. QED BY <1>1, <1>2, <1>3, <1>4

(* The indices to verify are asked for past the account.                     *)
LEMMA WizardShownOK == ASSUME HubInv, WizardShown PROVE HubInv'
<1> DEFINE q == Settled(Call("indices", "wizard"))
<1>1. DOMAIN q = CallFields /\ q.kind = "indices" /\ q.by = "wizard" /\ q.stage = "answered"
  BY NewCall DEF Settled, CallFields
<1>2. wire' = wire \cup {q} /\ GoIdle /\ UNCHANGED <<ui, turns>>
  BY DEF WizardShown, Asks
<1> HIDE DEF q
<1>3. GoInv'
  BY <1>1, <1>2, IdleGo DEF HubInv, CallOK
<1>4. OneCall'
  BY <1>1, <1>2 DEF HubInv, UiInv, OneCall, Adding
<1>5. PastAccount
  BY DEF WizardShown, InWizard, PastAccount, AccountSteps
<1>6. GoodAccount'
  BY <1>2, <1>5 DEF HubInv, UiInv, GoIdle, GoodAccount
<1>7. QED BY <1>2, <1>3, <1>4, <1>6 DEF HubInv, UiInv

(* Next and Back enter the steps behind the account from those steps only.   *)
LEMMA WizardMovesOK == ASSUME HubInv, WizardStep \/ WizardChoice PROVE HubInv'
<1>1. DOMAIN ui = UiFields /\ UiTypes(ui)
  BY DEF HubInv, UiInv, UiTypes
<1>2. ASSUME NEW from, NEW to, InWizard(from), ui' = [ui EXCEPT !.step = to], UiOnly,
             to \in AccountSteps => from \in AccountSteps
      PROVE  HubInv'
  <2>1. UiTypes(ui') /\ ui'.account = ui.account /\ ui'.phrase = ui.phrase /\ ui'.step = to
    BY <1>1, <1>2 DEF UiTypes, UiFields
  <2>2. ui'.step \in AccountSteps => PastAccount
    BY <1>2, <2>1 DEF InWizard, PastAccount
  <2>3. QED BY <1>2, <2>1, <2>2, UiOnlyOK
<1>3. CASE WizardStep
  <2> DEFINE trust == IF ui.isImport THEN "import" ELSE "verifyPhrase"
             moves == {<<"welcome", "choice">>, <<"choice", "welcome">>, <<"create", "choice">>,
                       <<"import", "choice">>, <<"showPhrase", "create">>,
                       <<"verifyPhrase", "showPhrase">>, <<"verifyPhrase", "trust">>,
                       <<"trust", trust>>}
  <2>1. PICK move \in moves : InWizard(move[1]) /\ ui' = [ui EXCEPT !.step = move[2]]
    BY <1>3 DEF WizardStep
  <2>2. move[2] \in AccountSteps => move[1] \in AccountSteps
    BY DEF AccountSteps
  <2> HIDE DEF moves
  <2>3. UiOnly
    BY <1>3 DEF WizardStep
  <2>4. QED BY <1>2, <2>1, <2>2, <2>3
<1>4. CASE WizardChoice
  <2>1. UiTypes(ui') /\ ui'.account = ui.account /\ ui'.phrase = ui.phrase /\ ui'.step \notin AccountSteps
    BY <1>1, <1>4 DEF WizardChoice, UiTypes, UiFields, AccountSteps
  <2>2. QED BY <1>4, <2>1, UiOnlyOK DEF WizardChoice
<1>5. QED BY <1>3, <1>4

(* An answer: an account that was added is stored and can sign, and any other *)
(* answer comes from past it.                                                *)
LEMMA WizardAnsweredOK == ASSUME HubInv, NEW r \in wire, WizardAnswered(r) PROVE HubInv'
<1>1. /\ GoIdle /\ wire' = wire \ {r} /\ ui' = NextWizard(r) /\ turns' \in 0..MaxTurns
      /\ r.by = "wizard" /\ r.stage = "answered" /\ r.kind \in {"create", "import", "indices", "setup"}
  BY DEF WizardAnswered, Delivered, HubInv, UiInv
<1>2. CallOK(r) /\ UiTypes(ui)
  BY DEF HubInv, GoInv, UiInv, UiTypes
<1>3. CASE ~r.ok
  <2>1. ui' = ui
    BY <1>1, <1>3 DEF NextWizard
  <2>2. QED BY <1>1, <1>2, <2>1, QuietStep DEF PastAccount
<1>4. CASE r.ok /\ r.kind \in {"indices", "setup"}
  <2>1. PastAccount
    BY <1>1, <1>4 DEF PastAccount
  <2>2. ui' = [ui EXCEPT !.step = IF r.kind = "indices" THEN "verifyPhrase" ELSE "complete"]
    BY <1>1, <1>4 DEF NextWizard
  <2>3. UiTypes(ui') /\ ui'.account = ui.account /\ ui'.phrase = ui.phrase
    BY <1>2, <2>2 DEF UiTypes, UiFields
  <2>4. QED BY <1>1, <2>1, <2>3, QuietStep
<1>5. CASE r.ok /\ r.kind \in {"create", "import"}
  <2>1. r.address \in Addresses(book)
    BY <1>1, <1>2, <1>5 DEF CallOK
  <2>2. r.address \in keyring.keys
    BY <2>1 DEF HubInv, GoInv, AccountsCanSign
  <2>3. UiTypes(ui') /\ ui'.account = r.address
    <3>1. CASE r.kind = "create"
      <4>1. ui' = [ui EXCEPT !.step = "showPhrase", !.phrase = r.address.seed, !.account = r.address]
        BY <1>1, <1>5, <3>1 DEF NextWizard
      <4>2. QED BY <1>2, <4>1 DEF UiTypes, UiFields
    <3>2. CASE r.kind = "import"
      <4>1. ui' = [ui EXCEPT !.step = "trust", !.account = r.address]
        BY <1>1, <1>5, <3>2 DEF NextWizard
      <4>2. QED BY <1>2, <4>1 DEF UiTypes, UiFields
    <3>3. QED BY <1>5, <3>1, <3>2
  <2>4. r.address.seed \in Phrases \cup {ui'.phrase}
    <3>1. CASE r.kind = "create"
      <4>1. ui' = [ui EXCEPT !.step = "showPhrase", !.phrase = r.address.seed, !.account = r.address]
        BY <1>1, <1>5, <3>1 DEF NextWizard
      <4>2. ui'.phrase = r.address.seed
        BY <1>2, <4>1 DEF UiTypes, UiFields
      <4>3. QED BY <4>2
    <3>2. CASE r.kind = "import"
      BY <1>2, <3>2 DEF CallOK
    <3>3. QED BY <1>5, <3>1, <3>2
  <2>5. GoodAccount'
    BY <1>1, <2>1, <2>2, <2>3, <2>4 DEF GoodAccount, GoIdle
  <2>6. GoInv'
    BY <1>1, IdleGo DEF HubInv
  <2>7. OneCall'
    BY <1>1 DEF HubInv, UiInv, OneCall
  <2>8. QED BY <1>1, <2>3, <2>5, <2>6, <2>7 DEF HubInv, UiInv, UiTypes
<1>6. QED BY <1>1, <1>3, <1>4, <1>5
-----------------------------------------------------------------------------
(* App                                                                       *)

(* The first run leads to the wizard, which starts at its first step, any    *)
(* other to the accounts.                                                    *)
LEMMA FirstRunOK == ASSUME HubInv, NEW r \in wire, FirstRunAnswered(r) PROVE HubInv'
<1>1. GoIdle /\ turns' \in 0..MaxTurns /\ UiTypes(ui)
  BY DEF FirstRunAnswered, HubInv, UiInv, UiTypes
<1>2. \A q \in wire' : q \in wire \/ Quiet(q)
  BY ReadingQuiet DEF FirstRunAnswered, Reading
<1>3. ui' = ui \/ ui' = [ui EXCEPT !.view = "wizard"]
  BY DEF FirstRunAnswered
<1>4. UiTypes(ui') /\ ui'.account = ui.account /\ ui'.phrase = ui.phrase /\ ui'.step = ui.step
  BY <1>1, <1>3 DEF UiTypes, UiFields
<1>5. QED BY <1>1, <1>2, <1>4, QuietStep DEF PastAccount

(* The main view takes the place of the wizard, or a new address is active.  *)
LEMMA LoadAccountsOK == ASSUME HubInv, NEW r \in wire, LoadAccounts(r) PROVE HubInv'
<1> DEFINE address == r.address
           view == IF r.by = "changed" THEN ui.view ELSE "main"
           mounts == view = "main" /\ ui.view # "main"
<1>1. GoIdle /\ turns' \in 0..MaxTurns /\ UiTypes(ui)
  BY DEF LoadAccounts, HubInv, UiInv, UiTypes
<1>2. /\ ui' = IF mounts THEN [UiInit EXCEPT !.active = address, !.view = view]
                         ELSE [ui EXCEPT !.active = address]
      /\ wire' \subseteq (IF mounts THEN Unmounted ELSE wire) \cup DataCalls(address)
  BY DEF LoadAccounts
<1>3. mounts => view = "main"
  OBVIOUS
<1> HIDE DEF address, view, mounts
<1>4. CASE mounts
  <2>1. UiTypes(ui') /\ ui'.step = "welcome"
    BY <1>2, <1>3, <1>4 DEF UiTypes, UiInit, UiFields
  <2>2. \A q \in wire' : CallOK(q) /\ (q.by = "wizard" => q.kind \in {"firstRun", "accounts"})
    BY <1>2, <1>4, UnmountedQuiet, DataCallsQuiet DEF HubInv, Quiet
  <2>3. QED BY <1>1, <2>1, <2>2, FreshPage
<1>5. CASE ~mounts
  <2>1. UiTypes(ui') /\ ui'.account = ui.account /\ ui'.phrase = ui.phrase /\ ui'.step = ui.step
    BY <1>1, <1>2, <1>5 DEF UiTypes, UiFields
  <2>2. \A q \in wire' : q \in wire \/ Quiet(q)
    BY <1>2, <1>5, DataCallsQuiet
  <2>3. QED BY <1>1, <2>1, <2>2, QuietStep DEF PastAccount
<1>6. QED BY <1>4, <1>5

(* An answer that nobody waits for, or that only changes what is shown.      *)
LEMMA ForgottenOK ==
    ASSUME HubInv, NEW r, GoIdle, wire' = wire \ {r}, UNCHANGED <<ui, turns>>
    PROVE  HubInv'
<1>1. UiTypes(ui') /\ turns' \in 0..MaxTurns
  BY DEF HubInv, UiInv, UiTypes
<1>2. QED BY <1>1, QuietStep DEF PastAccount

(* The data of the sections is fetched and shown.                            *)
LEMMA DataOK ==
    ASSUME HubInv,
           \/ \E kind \in {"assets", "staking"} : Refetch(kind)
           \/ \E kind \in {"assets", "staking"} : Arrives(kind)
           \/ DataLost
    PROVE  HubInv'
<1>1. ASSUME NEW kind, Refetch(kind) PROVE HubInv'
  <2>1. turns' \in 0..MaxTurns /\ GoIdle /\ ui' = ui /\ Asks({r \in DataCalls(ui.active) : r.kind = kind})
    BY <1>1 DEF Refetch, HubInv, UiInv
  <2>2. QED BY <2>1, DataCallsQuiet, AskingOK
<1>2. ASSUME NEW kind, Arrives(kind) PROVE HubInv'
  <2>1. PICK r \in wire : DataArrives(r)
    BY <1>2 DEF Arrives
  <2>2. QED BY <2>1, ForgottenOK DEF DataArrives
<1>3. ASSUME DataLost PROVE HubInv'
  <2>1. PICK r \in wire : DataFails(r)
    BY <1>3 DEF DataLost
  <2>2. QED BY <2>1, ForgottenOK DEF DataFails
<1>4. QED BY <1>1, <1>2, <1>3

-----------------------------------------------------------------------------
(* WalletMenu                                                                *)

(* A turn is one of MaxTurns.                                                *)
LEMMA TurnTyped == ASSUME HubInv, Turn PROVE turns' \in 0..MaxTurns
BY HubAssumption DEF Turn, HubInv, UiInv

(* The menu and its dialogs open and close.                                  *)
LEMMA MenuMovesOK ==
    ASSUME HubInv, MenuToggle \/ MenuDialog \/ MenuDialogClose PROVE HubInv'
<1>1. GoIdle /\ wire' = wire /\ UiTypes(ui) /\ turns' \in 0..MaxTurns
  BY TurnTyped DEF MenuToggle, MenuDialog, MenuDialogClose, UiOnly, HubInv, UiInv, UiTypes
<1>2. UiTypes(ui') /\ ui'.account = ui.account /\ ui'.phrase = ui.phrase /\ ui'.step = ui.step
  <2>1. CASE MenuToggle
    <3>1. ui' = [ui EXCEPT !.menu = IF ui.menu = "open" THEN "closed" ELSE "open"]
      BY <2>1 DEF MenuToggle
    <3>2. QED BY <1>1, <3>1 DEF UiTypes, UiFields
  <2>2. CASE MenuDialog
    BY <1>1, <2>2 DEF MenuDialog, UiTypes, UiFields
  <2>3. CASE MenuDialogClose
    BY <1>1, <2>3 DEF MenuDialogClose, UiTypes, UiFields
  <2>4. QED BY <2>1, <2>2, <2>3
<1>3. QED BY <1>1, <1>2, QuietStep DEF PastAccount

(* Labels, phrases and keys that the menu sends are the user's own; it       *)
(* derives from labels of the store only.                                    *)
LEMMA MenuAsksOK == ASSUME HubInv, MenuSwitch \/ MenuSubmit PROVE HubInv'
<1>1. GoIdle /\ ui' = ui /\ turns' \in 0..MaxTurns
  BY TurnTyped DEF MenuSwitch, MenuSubmit, HubInv, UiInv
<1>2. \E q : Asks({q}) /\ Quiet(q)
  <2>1. CASE MenuSwitch
    <3>1. PICK a \in Addresses(book) : Asks({[Call("switch", "menu") EXCEPT !.address = a]})
      BY <2>1 DEF MenuSwitch
    <3> DEFINE q == [Call("switch", "menu") EXCEPT !.address = a]
    <3>2. DOMAIN q = CallFields /\ q.kind = "switch" /\ q.by = "menu" /\ q.stage = "asked"
      BY NewCall DEF CallFields
    <3>3. Asks({q})
      BY <3>1
    <3> HIDE DEF q
    <3>4. Quiet(q)
      BY <3>2 DEF Quiet, CallOK
    <3>5. QED BY <3>3, <3>4
  <2>2. CASE MenuSubmit
    <3> DEFINE call == [Call(ui.menu, "menu") EXCEPT !.form = ui.form]
    <3>1. /\ DOMAIN call = CallFields /\ call.kind = ui.menu /\ call.by = "menu"
          /\ call.stage = "asked" /\ DOMAIN call.address = {"seed", "index"}
      BY DEF Call, CallFields, NoAddress
    <3>2. \/ ui.menu = "import" /\ \E l \in Labels, p \in Phrases :
                Asks({[call EXCEPT !.label = l, !.address.seed = p]})
          \/ ui.menu = "derive" /\ \E l \in Range(book.mnemonics) : Asks({[call EXCEPT !.label = l]})
          \/ ui.menu = "key" /\ \E k \in RawKeys : Asks({[call EXCEPT !.address.seed = k]})
      BY <2>2 DEF MenuSubmit
    <3> HIDE DEF call
    <3>3. CASE ui.menu = "import"
      <4>1. PICK l \in Labels, p \in Phrases : Asks({[call EXCEPT !.label = l, !.address.seed = p]})
        BY <3>2, <3>3
      <4> DEFINE q == [call EXCEPT !.label = l, !.address.seed = p]
      <4>2. /\ DOMAIN q = CallFields /\ q.kind = "import" /\ q.by = "menu" /\ q.stage = "asked"
            /\ q.label = l /\ q.address.seed = p
        BY <3>1, <3>3 DEF CallFields
      <4>3. Asks({q})
        BY <4>1
      <4> HIDE DEF q
      <4>4. Quiet(q)
        BY <4>2 DEF Quiet, CallOK
      <4>5. QED BY <4>3, <4>4
    <3>4. CASE ui.menu = "derive"
      <4>1. PICK l \in Range(book.mnemonics) : Asks({[call EXCEPT !.label = l]})
        BY <3>2, <3>4
      <4>2. l \in Labels
        BY DEF Range, HubInv, GoInv, BookOK
      <4> DEFINE q == [call EXCEPT !.label = l]
      <4>3. /\ DOMAIN q = CallFields /\ q.kind = "derive" /\ q.by = "menu" /\ q.stage = "asked"
            /\ q.label = l
        BY <3>1, <3>4 DEF CallFields
      <4>4. Asks({q})
        BY <4>1
      <4> HIDE DEF q
      <4>5. Quiet(q)
        BY <4>2, <4>3 DEF Quiet, CallOK
      <4>6. QED BY <4>4, <4>5
    <3>5. CASE ui.menu = "key"
      <4>1. PICK k \in RawKeys : Asks({[call EXCEPT !.address.seed = k]})
        BY <3>2, <3>5
      <4> DEFINE q == [call EXCEPT !.address.seed = k]
      <4>2. /\ DOMAIN q = CallFields /\ q.kind = "key" /\ q.by = "menu" /\ q.stage = "asked"
            /\ q.address.seed = k
        BY <3>1, <3>5 DEF CallFields
      <4>3. Asks({q})
        BY <4>1
      <4> HIDE DEF q
      <4>4. Quiet(q)
        BY <4>2 DEF Quiet, CallOK
      <4>5. QED BY <4>3, <4>4
    <3>6. QED BY <3>2, <3>3, <3>4, <3>5
  <2>3. QED BY <2>1, <2>2
<1>3. PICK q : Asks({q}) /\ Quiet(q)
  BY <1>2
<1>4. QED BY <1>1, <1>3, AskingOK

(* An answer closes the menu and reads the accounts again.                   *)
LEMMA MenuAnsweredOK == ASSUME HubInv, NEW r \in wire, MenuAnswered(r) PROVE HubInv'
<1>1. GoIdle /\ turns' \in 0..MaxTurns /\ UiTypes(ui)
  BY DEF MenuAnswered, HubInv, UiInv, UiTypes
<1>2. \A q \in wire' : q \in wire \/ Quiet(q)
  BY ReadingQuiet DEF MenuAnswered, Reading
<1>3. ui' = ui \/ ui' = [ui EXCEPT !.menu = "closed"]
  BY DEF MenuAnswered
<1>4. UiTypes(ui') /\ ui'.account = ui.account /\ ui'.phrase = ui.phrase /\ ui'.step = ui.step
  BY <1>1, <1>3 DEF UiTypes, UiFields
<1>5. QED BY <1>1, <1>2, <1>4, QuietStep DEF PastAccount

-----------------------------------------------------------------------------
(* Reload, shutdown, restart                                                 *)

(* The page starts again or ends.                                            *)
LEMMA PageGoneOK == ASSUME HubInv, Reload \/ ShuttingDown PROVE HubInv'
<1>1. CASE Reload
  <2>1. \A q \in wire' : Quiet(q) /\ q.by # "wizard"
    BY <1>1, AbandonedQuiet, ReadingQuiet, NewCall DEF Reload, HubInv, Reading
  <2>2. QED BY <1>1, <2>1, TurnTyped, UiInitTypes, FreshPage DEF Reload, Quiet
<1>2. CASE ShuttingDown
  <2>1. UiTypes(ui') /\ ui'.step = "welcome"
    BY <1>2 DEF ShuttingDown, UiTypes, UiInit, UiFields
  <2>2. QED BY <1>2, <2>1, UnmountedQuiet, FreshPage DEF ShuttingDown, HubInv, UiInv
<1>3. QED BY <1>1, <1>2

(* A restart finds on disk what the keyring can sign for.                    *)
LEMMA RestartOK == ASSUME HubInv, Restart PROVE HubInv'
<1>1. /\ book' = disk.book /\ UNCHANGED <<disk, keyring, created>> /\ ui' = UiInit
      /\ wire' = {Call("firstRun", "app")} /\ turns' \in 0..MaxTurns
  BY TurnTyped DEF Restart, StartUp
<1>2. CallOK(Call("firstRun", "app"))'
  BY NewCall DEF CallOK
<1>3. GoInv'
  BY <1>1, <1>2 DEF HubInv, GoInv, AccountsCanSign
<1>4. OneCall' /\ ~PastAccount'
  BY <1>1, NewCall DEF OneCall, UiInit, PastAccount, AccountSteps
<1>5. QED BY <1>1, <1>3, <1>4, UiInitTypes DEF HubInv, UiInv, UiTypes

-----------------------------------------------------------------------------
(* The whole                                                                 *)

(* The Hub starts with the invariant, on any store it accepts.               *)
LEMMA InitOK == HubInit => HubInv
<1> SUFFICES ASSUME HubInit PROVE HubInv
  OBVIOUS
<1>1. PICK b \in StartBooks :
       /\ book = b
       /\ created = IF b = EmptyBook THEN 0 ELSE MaxCreated
       /\ disk = [book |-> b, settings |-> b # EmptyBook]
       /\ keyring = [phrases |-> [l \in Labels |-> PhraseOf(b, l)], keys |-> Addresses(b)]
       /\ ui = UiInit
       /\ turns = IF b = EmptyBook THEN MaxTurns - FirstTurns ELSE 0
       /\ wire = {Call("firstRun", "app")}
  BY DEF HubInit
<1>2. created \in 0..MaxCreated
  BY <1>1, BookAssumption
<1>3. turns \in 0..MaxTurns
  BY <1>1, HubAssumption
<1>4. CallOK(Call("firstRun", "app"))
  BY NewCall DEF CallOK
<1>5. disk.book = b /\ DOMAIN disk = {"book", "settings"} /\ keyring.keys = Addresses(b)
  BY <1>1
<1>6. BookOK(b)
  BY HubAssumption
<1>7. GoInv
  BY <1>1, <1>2, <1>4, <1>5, <1>6 DEF GoInv, AccountsCanSign
<1>8. OneCall /\ ~PastAccount
  BY <1>1, NewCall DEF OneCall, UiInit, PastAccount, AccountSteps
<1>9. QED BY <1>1, <1>3, <1>7, <1>8, UiInitTypes DEF HubInv, UiInv, UiTypes

(* Every step keeps it.                                                      *)
LEMMA StepOK == HubInv /\ [HubNext]_hubVars => HubInv'
<1> SUFFICES ASSUME HubInv, [HubNext]_hubVars PROVE HubInv'
  OBVIOUS
<1>1. CASE GoWorks \/ GoFails
  <2>1. PICK r \in wire : (GoStep(r) \/ GoFault(r)) /\ ui' = ui
    BY <1>1 DEF GoWorks, GoFails
  <2>2. turns' \in 0..MaxTurns
    BY <1>1, TurnTyped DEF GoWorks, GoFails, HubInv, UiInv
  <2>3. QED BY <2>1, <2>2, GoStepOK, GoKeepsUi DEF HubInv
<1>2. CASE WizardStep \/ WizardChoice \/ WizardCreate \/ WizardImport \/ WizardShown
           \/ WizardTrust \/ WizardFinish
  BY <1>2, WizardMovesOK, WizardAsksOK, WizardShownOK
<1>3. CASE WizardProceeds
  BY <1>3, WizardAnsweredOK DEF WizardProceeds
<1>4. CASE StartAnswered \/ AccountsLoaded
  BY <1>4, FirstRunOK, LoadAccountsOK DEF StartAnswered, AccountsLoaded
<1>5. CASE Refetch("assets") \/ Refetch("staking") \/ Arrives("assets") \/ Arrives("staking") \/ DataLost
  BY <1>5, DataOK
<1>6. CASE MenuToggle \/ MenuSwitch \/ MenuDialog \/ MenuDialogClose \/ MenuSubmit
  BY <1>6, MenuMovesOK, MenuAsksOK
<1>7. CASE MenuProceeds
  BY <1>7, MenuAnsweredOK DEF MenuProceeds
<1>8. CASE OrphanGone
  <2>1. PICK r \in wire : OrphanAnswered(r)
    BY <1>8 DEF OrphanGone
  <2>2. QED BY <2>1, ForgottenOK DEF OrphanAnswered
<1>9. CASE Reload \/ ShuttingDown \/ Restart
  BY <1>9, PageGoneOK, RestartOK
<1>10. CASE UNCHANGED hubVars
  <2>1. UNCHANGED <<book, disk, keyring, created, wire, ui, turns>>
    BY <1>10 DEF hubVars, bookVars
  <2>2. QED
    BY <2>1 DEF HubInv, GoInv, UiInv, AccountsCanSign, CallOK, OneCall, PastAccount, GoodAccount
<1>11. QED
  BY <1>1, <1>2, <1>3, <1>4, <1>5, <1>6, <1>7, <1>8, <1>9, <1>10 DEF HubNext

(* The inductive invariant holds: books, keys, calls and the page agree,     *)
(* whatever is answered late, fails, is reloaded or crashes.                 *)
THEOREM HubInvariant == HubSpec => []HubInv
<1>1. HubInit => HubInv
  BY InitOK
<1>2. HubInv /\ [HubNext]_hubVars => HubInv'
  BY StepOK
<1>3. QED BY <1>1, <1>2, PTL DEF HubSpec

(* The page, the store and the file have the shape the code relies on, and   *)
(* the wizard has one call of its own under way (Wizard.tsx, accounts.go).   *)
THEOREM HubTypeCorrect == HubSpec => []HubTypeOK
<1>1. HubInv => HubTypeOK
  BY DEF HubInv, GoInv, UiInv, HubTypeOK, OneCall
<1>2. QED BY <1>1, HubInvariant, PTL

(* An account the Hub knows, now or after a restart, can sign (wallet.go).   *)
THEOREM AccountsSign == HubSpec => []AccountsCanSign
<1>1. HubInv => AccountsCanSign
  BY DEF HubInv, GoInv
<1>2. QED BY <1>1, HubInvariant, PTL

(* The wizard ends on an account that is stored, can sign, and whose         *)
(* generated phrase is the one shown last (Wizard.tsx).                      *)
THEOREM WizardEnds == HubSpec => []WizardEndsWell
<1>1. HubInv => WizardEndsWell
  BY DEF HubInv, UiInv, WizardEndsWell, InWizard, PastAccount, AccountSteps, GoodAccount
<1>2. QED BY <1>1, HubInvariant, PTL
=============================================================================
