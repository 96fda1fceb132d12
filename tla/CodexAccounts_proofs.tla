------------------------ MODULE CodexAccounts_proofs ------------------------
(* Theorems about CodexAccounts, for any accounts, fetches, session entries   *)
(* and bounds.                                                              *)
EXTENDS CodexAccounts, WellFoundedInduction, TLAPS

USE AccountsAssumption DEF Place, Fresh

(***************************************************************************)
(* The account list                                                        *)
(***************************************************************************)

\* Some name is the first of any.
LEMMA FirstOfIn ==
    ASSUME NEW homes \in SUBSET Home, homes # {}
    PROVE  FirstOf(homes) \in homes
<1> DEFINE names == {Name[h] : h \in homes}
<1>1. names \subseteq Nat OBVIOUS
<1>2. names # {} OBVIOUS
<1>3. PICK n \in names : \A m \in names : <<m, n>> \notin OpToRel(<, Nat)
  <2> HIDE DEF names
  <2> QED BY <1>1, <1>2, NatLessThanWellFounded, WFMin, Zenon
<1>4. ASSUME NEW m \in names PROVE n <= m
  <2>1. m \in Nat /\ n \in Nat BY <1>1
  <2>2. m < n => <<m, n>> \in OpToRel(<, Nat) BY <2>1 DEF OpToRel
  <2>3. <<m, n>> \notin OpToRel(<, Nat)
    <3> HIDE DEF names
    <3> QED BY <1>3, <1>4, Zenon
  <2>4. ~(m < n)
    <3> HIDE DEF names
    <3> QED BY <2>2, <2>3, Zenon
  <2> QED BY <2>1, <2>4
<1>5. PICK h \in homes : n = Name[h] OBVIOUS
<1>6. \A g \in homes : Name[h] <= Name[g] BY <1>4, <1>5
<1> QED BY <1>6 DEF FirstOf

List == [Account -> Record \cup {NoRecord}]

\* A home is a's or nobody's, and will be, but for a login outside the app.
Belongs(h, a) ==
    h \in Home => h <= made /\ (owner[h] \in {a, NoAccount} \/ h \in resigned)

\* Homes are made in turn.
HomesOK ==
    /\ ambient \in Account
    /\ owner \in [Home -> Account \cup {NoAccount}]
    /\ resigned \subseteq Home
    /\ made \in 0..MaxHome
    /\ \A h \in Home : owner[h] # NoAccount => h <= made

\* A stored account has a uuid it was given and a home of its own.
StoredOK ==
    /\ store \in List
    /\ ids \in [Account -> 0..MaxId]
    /\ \A a \in Account : /\ store[a].id <= ids[a]
                          /\ store[a] # NoRecord => store[a].id # Fresh
                          /\ Belongs(store[a].home, a)

AccountsOK == HomesOK /\ StoredOK

\* What load_codex_accounts makes of them: a's first managed home, else its stored
\* record of a home that is gone, else the ambient home.
LEMMA ListedCases ==
    ASSUME AccountsOK, NEW a \in Account
    PROVE  /\ HomesOf(a) # {} => /\ Listed[a].id = store[a].id
                                 /\ Listed[a].home \in HomesOf(a)
                                 /\ Listed[a] = [id |-> Listed[a].id, home |-> Listed[a].home]
           /\ HomesOf(a) = {} /\ StoredAtDeadHome(a) => Listed[a] = store[a]
           /\ HomesOf(a) = {} /\ ~StoredAtDeadHome(a) /\ ambient = a =>
                 Listed[a] = [id |-> store[a].id, home |-> Ambient]
           /\ HomesOf(a) = {} /\ ~StoredAtDeadHome(a) /\ ambient # a =>
                 Listed[a] = NoRecord
<1>1. HomesOf(a) # {} => FirstOf(HomesOf(a)) \in HomesOf(a) BY FirstOfIn DEF HomesOf
<1>2. CASE HomesOf(a) # {} BY <1>1, <1>2 DEF Listed
<1>3. CASE HomesOf(a) = {} BY <1>3 DEF Listed
<1> QED BY <1>2, <1>3

LEMMA ListedTyped ==
    ASSUME AccountsOK
    PROVE  /\ Listed \in List
           /\ \A a \in Account : /\ Listed[a].id \in {store[a].id, Fresh}
                                 /\ Listed[a].id <= ids[a]
                                 /\ Belongs(Listed[a].home, a)
<1>1. ASSUME NEW a \in Account
      PROVE  /\ Listed[a] \in Record \cup {NoRecord}
             /\ Listed[a].id \in {store[a].id, Fresh}
             /\ Listed[a].id <= ids[a]
             /\ Belongs(Listed[a].home, a)
  <2>1. /\ store[a] \in Record \cup {NoRecord} /\ store[a].id \in 0..MaxId
        /\ ids[a] \in 0..MaxId /\ store[a].id <= ids[a] /\ Belongs(store[a].home, a)
    BY DEF AccountsOK, HomesOK, StoredOK, List, Record, NoRecord
  <2>2. CASE HomesOf(a) # {}
    <3>1. Listed[a].id = store[a].id /\ Listed[a].home \in HomesOf(a)
          /\ Listed[a] = [id |-> Listed[a].id, home |-> Listed[a].home]
      BY <2>2, ListedCases
    <3>2. Listed[a] \in Record BY <2>1, <3>1 DEF Record, HomesOf
    <3>3. Belongs(Listed[a].home, a) BY <3>1 DEF Belongs, HomesOf, AccountsOK, HomesOK
    <3> QED BY <2>1, <3>1, <3>2, <3>3
  <2>3. CASE HomesOf(a) = {} /\ StoredAtDeadHome(a)
    BY <2>1, <2>3, ListedCases
  <2>4. CASE HomesOf(a) = {} /\ ~StoredAtDeadHome(a) /\ ambient = a
    <3>1. Listed[a] = [id |-> store[a].id, home |-> Ambient] BY <2>4, ListedCases
    <3> QED BY <2>1, <3>1, AccountsAssumption DEF Record, Belongs
  <2>5. CASE HomesOf(a) = {} /\ ~StoredAtDeadHome(a) /\ ambient # a
    <3>1. Listed[a] = NoRecord BY <2>5, ListedCases
    <3> QED BY <2>1, <3>1, AccountsAssumption DEF NoRecord, Belongs
  <2> QED BY <2>2, <2>3, <2>4, <2>5
<1>2. Listed = [a \in Account |-> Listed[a]] BY DEF Listed
<1> QED BY <1>1, <1>2 DEF List

\* What persist_codex_accounts keeps of the list it is given.
LEMMA PersistKeeps ==
    ASSUME NEW list \in List, ids \in [Account -> 0..MaxId],
           \A a \in Account : list[a].id <= ids[a],
           Persist(list)
    PROVE  /\ store' \in List /\ ids' \in [Account -> 0..MaxId]
           /\ \A a \in Account :
                 /\ ids[a] <= ids'[a]
                 /\ store'[a].home = list[a].home
                 /\ store'[a].id <= ids'[a]
                 /\ store'[a] # NoRecord => store'[a].id # Fresh
                 /\ store'[a].id = list[a].id \/ store'[a].id > ids[a]
                 /\ list[a] = NoRecord => store'[a] = NoRecord
<1>1. ASSUME NEW a \in Account
      PROVE  /\ ids'[a] \in 0..MaxId /\ ids[a] <= ids'[a]
             /\ store'[a] \in Record \cup {NoRecord}
             /\ store'[a].home = list[a].home
             /\ store'[a].id <= ids'[a]
             /\ store'[a] # NoRecord => store'[a].id # Fresh
             /\ store'[a].id = list[a].id \/ store'[a].id > ids[a]
             /\ list[a] = NoRecord => store'[a] = NoRecord
  <2>1. list[a] \in Record \cup {NoRecord} /\ ids[a] \in 0..MaxId BY DEF List
  <2>2. CASE list[a] # NoRecord /\ list[a].id = Fresh
    <3>1. ids[a] < MaxId /\ ids'[a] = ids[a] + 1 /\ store'[a] = [list[a] EXCEPT !.id = ids[a] + 1]
      BY <2>2 DEF Persist
    <3>2. list[a] \in Record BY <2>1, <2>2
    <3> QED BY <2>1, <2>2, <3>1, <3>2 DEF Record
  <2>3. CASE ~(list[a] # NoRecord /\ list[a].id = Fresh)
    <3>1. ids'[a] = ids[a] /\ store'[a] = list[a] BY <2>3 DEF Persist
    <3> QED BY <2>1, <2>3, <3>1
  <2> QED BY <2>2, <2>3
<1>2. ids' = [a \in Account |-> ids'[a]] /\ store' = [a \in Account |-> store'[a]] BY DEF Persist
<1> QED BY <1>1, <1>2 DEF List
(***************************************************************************)
(* Every variable keeps its shape                                          *)
(***************************************************************************)

FetchShape == [at : {"idle", "started", "routed", "read", "saved"}, kind : {"lane", "asked"},
               account : Account \cup {NoAccount}, record : Record \cup {NoRecord},
               route : Place \cup {NoHome}, usage : Account \cup {NoAccount},
               crossed : BOOLEAN, current : BOOLEAN, list : List]

RestartShape == [account : Account, out : Account, backup : Home, restore : Home, tried : BOOLEAN]

CommandShape == [at : {"idle", "removing", "chosen", "replaced", "remembered"},
                 account : Account \cup {NoAccount}, home : Place \cup {NoHome},
                 result : RestartShape \cup {NoPending}, list : List]

\* A restart is between two accounts and two homes, which are theirs or nobody's.
RestartOK(p) ==
    \/ p = NoPending
    \/ /\ p \in RestartShape
       /\ p.account # p.out \/ p.restore \in resigned
       /\ p.backup # p.restore
       /\ Belongs(p.backup, p.out) /\ Belongs(p.restore, p.account)

SessionsOK ==
    /\ saved \in [Home -> [Entry -> Account \cup {NoAccount}]]
    /\ live \in [Entry -> Account]
    /\ RestartOK(pending)

\* The account of a switch is chosen before the home of the outgoing one is made;
\* what a removal holds of the list was in it.
CommandOK ==
    /\ command \in CommandShape
    /\ command.at = "idle" => command = NoCommand
    /\ command.at \in {"chosen", "removing"} =>
          /\ command.account \in Account /\ command.home \in Place
          /\ Belongs(command.home, command.account)
          /\ command.result = NoPending
    /\ RestartOK(command.result)
    /\ \A a \in Account : command.list[a].id <= ids[a] /\ Belongs(command.list[a].home, a)

\* What a fetch holds of the list was in it.
FetchOK(r) ==
    /\ r.at \in {"started", "routed", "read"} =>
          /\ r.account \in Account /\ r.record \in Record
          /\ r.record.id <= ids[r.account]
          /\ Belongs(r.record.home, r.account)
    /\ r.at = "routed" => r.route \in Place
    /\ r.at = "read" => r.usage \in Account
    /\ \A a \in Account : r.list[a].id <= ids[a] /\ Belongs(r.list[a].home, a)

FetchesOK == fetch \in [Fetch -> FetchShape] /\ \A f \in Fetch : FetchOK(fetch[f])

SnapshotsOK ==
    /\ snapshots \subseteq [account : Account, id : 1..MaxId, usage : Account, crossed : BOOLEAN]
    /\ \A s, t \in snapshots : s.account = t.account /\ s.id = t.id => s = t

BoundsOK ==
    /\ logins \in 0..MaxLogin /\ failures \in 0..Failures
    /\ mishaps \subseteq {"skipped", "replayed", "partly_removed", "overwritten"}

TypeInv == AccountsOK /\ SessionsOK /\ CommandOK /\ FetchesOK /\ SnapshotsOK /\ BoundsOK

(***************************************************************************)
(* The steps of the account list                                           *)
(***************************************************************************)

\* A home passes to nobody else, but for a login outside the app; a uuid is given
\* once.
HomesForward ==
    /\ made <= made' /\ resigned \subseteq resigned'
    /\ \A h \in Home : h <= made => owner'[h] \in {owner[h], NoAccount} \/ h \in resigned'
IdsForward == \A a \in Account : ids[a] <= ids'[a]

WillBelong(h, a) ==
    h \in Home => h <= made' /\ (owner'[h] \in {a, NoAccount} \/ h \in resigned')

LEMMA BelongsStays ==
    ASSUME HomesOK, HomesOK', HomesForward
    PROVE  \A h, a : Belongs(h, a) => WillBelong(h, a)
<1> SUFFICES ASSUME NEW h, NEW a, Belongs(h, a), h \in Home
             PROVE  h <= made' /\ (owner'[h] \in {a, NoAccount} \/ h \in resigned')
  BY DEF WillBelong
<1> QED BY DEF HomesOK, HomesForward, Belongs, Home

LEMMA NewHomeKeeps ==
    ASSUME HomesOK, NEW a \in Account, NewHome(a), UNCHANGED resigned
    PROVE  /\ made' = made + 1 /\ made' \in 1..MaxHome
           /\ owner' \in [Home -> Account \cup {NoAccount}]
           /\ owner[made'] = NoAccount /\ owner'[made'] = a
           /\ \A h \in Home : h # made' => owner'[h] = owner[h]
           /\ \A h \in Home : owner'[h] # NoAccount => h <= made'
           /\ HomesForward
<1>1. made + 1 \in Home BY DEF HomesOK, NewHome, Home
<1>2. owner[made + 1] = NoAccount BY <1>1 DEF HomesOK, Home
<1>3. made' = made + 1 /\ owner' = [owner EXCEPT ![made + 1] = a] BY DEF NewHome
<1> QED BY <1>1, <1>2, <1>3 DEF HomesOK, HomesForward, Home

\* What is persisted is the list, with a new uuid for each account that has none.
LEMMA PersistStored ==
    ASSUME AccountsOK, HomesOK', HomesForward, NEW list \in List,
           \A a \in Account : \/ list[a] = Listed[a]
                              \/ list[a].id <= ids[a] /\ WillBelong(list[a].home, a),
           Persist(list)
    PROVE  StoredOK' /\ IdsForward
<1>1. \A a \in Account : Listed[a].id <= ids[a] /\ WillBelong(Listed[a].home, a)
  BY ListedTyped, BelongsStays DEF AccountsOK
<1>2. \A a \in Account : list[a].id <= ids[a] /\ WillBelong(list[a].home, a) BY <1>1
<1>3. ids \in [Account -> 0..MaxId] BY DEF AccountsOK, StoredOK
<1> QED BY <1>2, <1>3, PersistKeeps DEF StoredOK, IdsForward, Belongs, WillBelong

LEMMA StoredStays ==
    ASSUME AccountsOK, HomesOK', HomesForward, UNCHANGED <<store, ids>>
    PROVE  StoredOK' /\ IdsForward
<1>1. \A a \in Account : WillBelong(store[a].home, a) BY BelongsStays DEF AccountsOK, StoredOK
<1> QED BY <1>1 DEF AccountsOK, StoredOK, Belongs, WillBelong, IdsForward

AccountsStep == AccountsOK' /\ HomesForward /\ IdsForward

LEMMA AddStep ==
    ASSUME AccountsOK, NEW a \in Account, AddAccount(a)
    PROVE  AccountsStep
<1> DEFINE home == FirstOf(HomesOf(a) \cup {made'})
           new == [id |-> store[a].id, home |-> home]
           found == [Listed EXCEPT ![a] = new]
<1>1. HomesOK BY DEF AccountsOK
<1>2. NewHome(a) /\ Persist(found) /\ ambient' = ambient /\ UNCHANGED resigned BY DEF AddAccount
<1>3. HomesOK' /\ HomesForward BY <1>1, <1>2, NewHomeKeeps DEF HomesOK
<1>4. home \in HomesOf(a) \cup {made'}
  <2>1. HomesOf(a) \cup {made'} \subseteq Home BY <1>1, <1>2, NewHomeKeeps DEF HomesOf, Home
  <2> QED BY <2>1, FirstOfIn
<1>5. new \in Record /\ new.id <= ids[a] /\ WillBelong(new.home, a)
  <2>1. store[a].id \in 0..MaxId /\ store[a].id <= ids[a]
    BY DEF AccountsOK, StoredOK, List, Record, NoRecord
  <2>2. home \in Home BY <1>1, <1>2, <1>4, NewHomeKeeps DEF HomesOf, Home
  <2>3. home <= made' /\ owner'[home] \in {a, NoAccount}
    BY <1>1, <1>2, <1>4, NewHomeKeeps DEF HomesOK, HomesOf, Home
  <2> QED BY <2>1, <2>2, <2>3 DEF Record, WillBelong
<1>6. Listed \in List BY ListedTyped
<1> HIDE DEF new
<1>7. found \in List /\ \A b \in Account : found[b] = IF b = a THEN new ELSE Listed[b]
  BY <1>5, <1>6 DEF List
<1> HIDE DEF found
<1>8. StoredOK' /\ IdsForward BY <1>2, <1>3, <1>5, <1>7, PersistStored
<1> QED BY <1>3, <1>8 DEF AccountsStep, AccountsOK

LEMMA ReauthenticateStep ==
    ASSUME AccountsOK, NEW a \in Account, Reauthenticate(a)
    PROVE  AccountsStep
<1> DEFINE again(b) == b = a /\ Listed[b] = NoRecord
           gone(b) == b # a /\ Listed[b].home = Ambient
           list == [b \in Account |-> IF again(b) THEN [id |-> store[b].id, home |-> Ambient]
                                      ELSE IF gone(b) THEN NoRecord ELSE Listed[b]]
<1>1. HomesOK' /\ HomesForward
  BY DEF AccountsOK, HomesOK, Reauthenticate, HomesForward, Home
<1>2. Persist(list) BY DEF Reauthenticate
<1>3. \A b \in Account : /\ list[b] \in Record \cup {NoRecord}
                         /\ \/ list[b] = Listed[b]
                            \/ list[b].id <= ids[b] /\ WillBelong(list[b].home, b)
  <2> TAKE b \in Account
  <2>1. store[b].id \in 0..MaxId /\ store[b].id <= ids[b] /\ ids[b] \in 0..MaxId
    BY DEF AccountsOK, StoredOK, List, Record, NoRecord
  <2>2. CASE again(b)
    <3>1. list[b] = [id |-> store[b].id, home |-> Ambient] BY <2>2
    <3> QED BY <2>1, <3>1, AccountsAssumption DEF Record, WillBelong
  <2>3. CASE ~again(b) /\ gone(b)
    <3>1. list[b] = NoRecord BY <2>3
    <3> QED BY <2>1, <3>1, AccountsAssumption DEF NoRecord, WillBelong
  <2>4. CASE ~again(b) /\ ~gone(b)
    <3>1. list[b] = Listed[b] BY <2>4
    <3> QED BY <3>1, ListedTyped DEF List
  <2> QED BY <2>2, <2>3, <2>4
<1>4. list \in List
  <2>1. list = [b \in Account |-> list[b]] OBVIOUS
  <2> HIDE DEF list
  <2> QED BY <1>3, <2>1 DEF List
<1> HIDE DEF list
<1>5. StoredOK' /\ IdsForward BY <1>1, <1>2, <1>3, <1>4, PersistStored
<1> QED BY <1>1, <1>5 DEF AccountsStep, AccountsOK

LEMMA RemoveStep ==
    ASSUME AccountsOK, CommandOK, RemoveAccount
    PROVE  AccountsStep
<1> DEFINE a == command.account
           list == [command.list EXCEPT ![a] = NoRecord]
<1>1. HomesOK' /\ HomesForward
  BY DEF AccountsOK, HomesOK, RemoveAccount, DeleteHomes, HomesForward, Home
<1>2. Persist(list) /\ command.at = "removing" BY DEF RemoveAccount
<1>3. a \in Account /\ command.list \in List BY <1>2 DEF CommandOK, CommandShape
<1>4. \A b \in Account : command.list[b].id <= ids[b] /\ WillBelong(command.list[b].home, b)
  BY <1>1, BelongsStays DEF CommandOK, AccountsOK
<1> HIDE DEF a
<1>5. list \in List /\ \A b \in Account : list[b] = IF b = a THEN NoRecord ELSE command.list[b]
  BY <1>3 DEF List
<1>6. NoRecord.id <= ids[a] /\ WillBelong(NoRecord.home, a)
  BY <1>3, AccountsAssumption DEF AccountsOK, StoredOK, NoRecord, WillBelong
<1> HIDE DEF list
<1>7. StoredOK' /\ IdsForward BY <1>1, <1>2, <1>4, <1>5, <1>6, PersistStored
<1> QED BY <1>1, <1>7 DEF AccountsStep, AccountsOK

LEMMA FailToRemoveStep ==
    ASSUME AccountsOK, NEW h \in Home, FailToRemove(h)
    PROVE  AccountsStep
<1>1. /\ owner' = [g \in Home |-> IF g \in {h} THEN NoAccount ELSE owner[g]]
      /\ UNCHANGED <<ambient, resigned, made, store, ids>>
  BY DEF FailToRemove, DeleteHomes
<1>2. HomesOK' /\ HomesForward
  BY <1>1 DEF AccountsOK, HomesOK, HomesForward, Home
<1> QED BY <1>1, <1>2, StoredStays DEF AccountsStep, AccountsOK

LEMMA LogInStep ==
    ASSUME AccountsOK, NEW place \in Place, NEW a \in Account, CodexLogIn(place, a)
    PROVE  AccountsStep
<1>1. HomesOK' /\ HomesForward
  <2>1. CASE place = Ambient
    <3>1. ambient' = a /\ UNCHANGED <<owner, resigned, made>> BY <2>1 DEF CodexLogIn
    <3> QED BY <3>1 DEF AccountsOK, HomesOK, HomesForward, Home
  <2>2. CASE place # Ambient
    <3>1. /\ place \in Home /\ owner[place] # NoAccount
          /\ owner' = [owner EXCEPT ![place] = a] /\ resigned' = resigned \cup {place}
          /\ UNCHANGED <<ambient, made>>
      BY <2>2 DEF CodexLogIn, HeldAt
    <3>2. \A h \in Home : owner'[h] = IF h = place THEN a ELSE owner[h]
      BY <3>1 DEF AccountsOK, HomesOK
    <3>3. HomesOK' BY <3>1, <3>2 DEF AccountsOK, HomesOK
    <3>4. HomesForward BY <3>1, <3>2 DEF AccountsOK, HomesOK, HomesForward
    <3> QED BY <3>3, <3>4
  <2> QED BY <2>1, <2>2
<1> QED BY <1>1, StoredStays DEF CodexLogIn, AccountsStep, AccountsOK

LEMMA ReplaceStep ==
    ASSUME AccountsOK, Replace
    PROVE  AccountsStep
<1>1. HomesOK BY DEF AccountsOK
<1>2. NewHome(ambient) /\ ambient \in Account /\ UNCHANGED resigned BY <1>1 DEF Replace, HomesOK
<1>3. ambient' \in Account BY <1>1 DEF Replace, HomesOK
<1>4. HomesOK' /\ HomesForward BY <1>1, <1>2, <1>3, NewHomeKeeps DEF HomesOK
<1> QED BY <1>4, StoredStays DEF Replace, AccountsStep, AccountsOK

LEMMA FailSwitchStep ==
    ASSUME AccountsOK, FailSwitch
    PROVE  AccountsStep
<1>1. HomesOK BY DEF AccountsOK
<1>2. CASE UNCHANGED <<owner, made>>
  <2>1. HomesOK' /\ HomesForward BY <1>1, <1>2 DEF HomesOK, HomesForward, FailSwitch, Home
  <2> QED BY <2>1, StoredStays DEF FailSwitch, AccountsStep, AccountsOK
<1>3. CASE NewHome(ambient)
  <2>1. ambient \in Account /\ UNCHANGED <<ambient, resigned>> BY <1>1 DEF FailSwitch, HomesOK
  <2>2. HomesOK' /\ HomesForward BY <1>1, <1>3, <2>1, NewHomeKeeps DEF HomesOK
  <2> QED BY <2>2, StoredStays DEF FailSwitch, AccountsStep, AccountsOK
<1> QED BY <1>2, <1>3 DEF FailSwitch

LEMMA EndSwitchStep ==
    ASSUME AccountsOK, CommandOK, EndSwitch
    PROVE  AccountsStep
<1> DEFINE out == command.result.out
           new == [id |-> store[out].id, home |-> command.result.backup]
           list == [Listed EXCEPT ![out] = new]
<1>1. HomesOK' /\ HomesForward BY DEF AccountsOK, HomesOK, HomesForward, EndSwitch, Home
<1>2. CASE out = NoAccount
  BY <1>1, <1>2, StoredStays DEF EndSwitch, AccountsStep, AccountsOK
<1>3. CASE out # NoAccount
  <2>1. Persist(list) BY <1>3 DEF EndSwitch
  <2>2. out \in Account /\ command.result.backup \in Home /\ Belongs(command.result.backup, out)
    BY <1>3 DEF CommandOK, RestartOK, RestartShape, NoPending
  <2>3. store[out].id \in 0..MaxId /\ store[out].id <= ids[out]
    BY <2>2 DEF AccountsOK, StoredOK, List, Record, NoRecord
  <2>4. WillBelong(command.result.backup, out) BY <1>1, <2>2, BelongsStays DEF AccountsOK
  <2> HIDE DEF out
  <2>5. new \in Record /\ new.id <= ids[out] /\ WillBelong(new.home, out)
    BY <2>2, <2>3, <2>4 DEF Record
  <2>6. Listed \in List BY ListedTyped
  <2> HIDE DEF new
  <2>7. list \in List /\ \A b \in Account : list[b] = IF b = out THEN new ELSE Listed[b]
    BY <2>2, <2>5, <2>6 DEF List
  <2> HIDE DEF list
  <2>8. StoredOK' /\ IdsForward BY <1>1, <2>1, <2>5, <2>7, PersistStored
  <2> QED BY <1>1, <2>8 DEF AccountsStep, AccountsOK
<1> QED BY <1>2, <1>3

LEMMA PersistLoadedStep ==
    ASSUME AccountsOK, FetchesOK, NEW f \in Fetch, PersistLoaded(f)
    PROVE  AccountsStep
<1>1. HomesOK' /\ HomesForward BY DEF AccountsOK, HomesOK, HomesForward, PersistLoaded, Home
<1>2. fetch[f].list \in List /\ Persist(fetch[f].list)
  BY DEF FetchesOK, FetchShape, PersistLoaded
<1>3. \A a \in Account : fetch[f].list[a].id <= ids[a] /\ Belongs(fetch[f].list[a].home, a)
  BY DEF FetchesOK, FetchOK
<1>4. \A a \in Account : WillBelong(fetch[f].list[a].home, a)
  BY <1>1, <1>3, BelongsStays DEF AccountsOK
<1>5. StoredOK' /\ IdsForward BY <1>1, <1>2, <1>3, <1>4, PersistStored
<1> QED BY <1>1, <1>5 DEF AccountsStep, AccountsOK

LEMMA AccountsStay ==
    ASSUME AccountsOK, UNCHANGED accounts
    PROVE  AccountsStep
<1>1. HomesOK' /\ HomesForward BY DEF AccountsOK, HomesOK, HomesForward, accounts, Home
<1> QED BY <1>1, StoredStays DEF accounts, AccountsStep, AccountsOK

\* Every step of the accounts keeps them well formed and hands nothing on.
LEMMA AccountsKept ==
    ASSUME TypeInv, [Next]_vars
    PROVE  AccountsStep
<1> USE DEF TypeInv
<1>1. CASE UNCHANGED vars BY <1>1, AccountsStay DEF vars
<1>2. ASSUME NEW f \in Fetch, FetchStep(f) PROVE AccountsStep
  <2>1. CASE PersistLoaded(f) BY <2>1, PersistLoadedStep
  <2>2. CASE UNCHANGED accounts BY <2>2, AccountsStay
  <2> QED BY <1>2, <2>1, <2>2 DEF FetchStep, StartFetch, Route, ReadUsage, FailFetch, SaveLane, SaveAsked
<1>3. CASE SwitchStep
  <2>1. CASE Replace BY <2>1, ReplaceStep
  <2>2. CASE FailSwitch BY <2>2, FailSwitchStep
  <2>3. CASE EndSwitch BY <2>3, EndSwitchStep
  <2>4. CASE UNCHANGED accounts BY <2>4, AccountsStay
  <2> QED BY <1>3, <2>1, <2>2, <2>3, <2>4 DEF SwitchStep, KeepActive, Remember
<1>4. CASE RestartDesktop BY <1>4, AccountsStay DEF RestartDesktop
<1>5. ASSUME NEW done \in SUBSET Entry, FailRestart(done) PROVE AccountsStep
  BY <1>5, AccountsStay DEF FailRestart
<1>6. CASE RemovalStep
  <2>1. CASE RefuseRemoval BY <2>1, AccountsStay DEF RefuseRemoval
  <2> QED BY <1>6, <2>1, RemoveStep, FailToRemoveStep DEF RemovalStep
<1>7. ASSUME NEW a \in Account,
             \/ AddAccount(a) \/ Reauthenticate(a) \/ BeginRemove(a) \/ BeginSwitch(a)
             \/ \E place \in Place : CodexLogIn(place, a)
      PROVE  AccountsStep
  <2>1. CASE BeginSwitch(a) \/ BeginRemove(a) BY <2>1, AccountsStay DEF BeginSwitch, BeginRemove
  <2> QED BY <1>7, <2>1, AddStep, ReauthenticateStep, LogInStep
<1> QED BY <1>1, <1>2, <1>3, <1>4, <1>5, <1>6, <1>7 DEF Next

(***************************************************************************)
(* The steps of the other variables                                        *)
(***************************************************************************)

WillRestart(p) ==
    \/ p = NoPending
    \/ /\ p \in RestartShape
       /\ p.account # p.out \/ p.restore \in resigned'
       /\ p.backup # p.restore
       /\ WillBelong(p.backup, p.out) /\ WillBelong(p.restore, p.account)

\* A restart that is well formed stays so.
LEMMA RestartStays ==
    ASSUME HomesOK, AccountsStep, NEW p, RestartOK(p)
    PROVE  WillRestart(p)
BY BelongsStays DEF RestartOK, WillRestart, AccountsStep, AccountsOK, HomesForward

\* A restart comes from a switch, is tried again, or is over.
LEMMA PendingSteps ==
    ASSUME TypeInv, [Next]_vars
    PROVE  \/ pending' \in {pending, NoPending}
           \/ CanRestart /\ pending' = [pending EXCEPT !.tried = TRUE] /\ UNCHANGED accounts
           \/ Remember
<1> USE DEF sessions
<1>1. CASE UNCHANGED vars BY <1>1 DEF vars
<1>2. ASSUME NEW f \in Fetch, FetchStep(f) PROVE UNCHANGED pending
  BY <1>2 DEF FetchStep, StartFetch, Route, ReadUsage, FailFetch, SaveLane, SaveAsked, PersistLoaded
<1>3. CASE SwitchStep
  BY <1>3 DEF SwitchStep, KeepActive, Replace, FailSwitch, EndSwitch
<1>4. CASE RestartDesktop BY <1>4 DEF RestartDesktop
<1>5. ASSUME NEW done \in SUBSET Entry, FailRestart(done)
      PROVE  CanRestart /\ pending' = [pending EXCEPT !.tried = TRUE] /\ UNCHANGED accounts
  BY <1>5 DEF FailRestart
<1>6. ASSUME RemovalStep PROVE pending' \in {pending, NoPending}
  BY <1>6 DEF RemovalStep, RefuseRemoval, RemoveAccount, FailToRemove, Revoke
<1>7. ASSUME NEW a \in Account,
             \/ AddAccount(a) \/ Reauthenticate(a) \/ BeginRemove(a) \/ BeginSwitch(a)
             \/ \E place \in Place : CodexLogIn(place, a)
      PROVE  UNCHANGED pending
  BY <1>7 DEF AddAccount, Reauthenticate, BeginRemove, BeginSwitch, CodexLogIn
<1> QED BY <1>1, <1>2, <1>3, <1>4, <1>5, <1>6, <1>7 DEF Next

\* What a home has saved changes in a restart, and is gone with the home.
LEMMA SavedSteps ==
    ASSUME TypeInv, [Next]_vars
    PROVE  \/ UNCHANGED <<saved, live>>
           \/ /\ CanRestart /\ saved' = BackedUp
              /\ \E done \in SUBSET Entry :
                    live' = [e \in Entry |-> IF e \in done THEN Restored(e) ELSE live[e]]
              /\ pending' \in {NoPending, [pending EXCEPT !.tried = TRUE]}
              /\ mishaps' = Replayed /\ UNCHANGED accounts
           \/ UNCHANGED live /\ \E gone \in SUBSET Home : DeleteHomes(gone)
<1> USE DEF sessions
<1>1. CASE UNCHANGED vars BY <1>1 DEF vars
<1>2. ASSUME NEW f \in Fetch, FetchStep(f) PROVE UNCHANGED <<saved, live>>
  BY <1>2 DEF FetchStep, StartFetch, Route, ReadUsage, FailFetch, SaveLane, SaveAsked, PersistLoaded
<1>3. CASE SwitchStep
  BY <1>3 DEF SwitchStep, KeepActive, Replace, FailSwitch, Remember, EndSwitch
<1>4. CASE RestartDesktop
  <2>1. live' = [e \in Entry |-> IF e \in Entry THEN Restored(e) ELSE live[e]]
    BY <1>4 DEF RestartDesktop
  <2> QED BY <1>4, <2>1 DEF RestartDesktop
<1>5. CASE \E done \in SUBSET Entry : FailRestart(done) BY <1>5 DEF FailRestart
<1>6. ASSUME RemovalStep
      PROVE  \/ UNCHANGED <<saved, live>>
             \/ UNCHANGED live /\ \E gone \in SUBSET Home : DeleteHomes(gone)
  <2>1. Removable \in SUBSET Home /\ \A h \in Home : {h} \in SUBSET Home BY DEF Removable, HomesOf
  <2> QED BY <1>6, <2>1 DEF RemovalStep, RefuseRemoval, RemoveAccount, FailToRemove
<1>7. ASSUME NEW a \in Account,
             \/ AddAccount(a) \/ Reauthenticate(a) \/ BeginRemove(a) \/ BeginSwitch(a)
             \/ \E place \in Place : CodexLogIn(place, a)
      PROVE  UNCHANGED <<saved, live>>
  BY <1>7 DEF AddAccount, Reauthenticate, BeginRemove, BeginSwitch, CodexLogIn
<1> QED BY <1>1, <1>2, <1>3, <1>4, <1>5, <1>6, <1>7 DEF Next

LEMMA SessionsKept ==
    ASSUME TypeInv, [Next]_vars
    PROVE  SessionsOK'
<1>1. AccountsStep /\ HomesOK /\ SessionsOK /\ CommandOK BY AccountsKept DEF TypeInv, AccountsOK
<1>2. RestartOK(pending)'
  <2>1. WillRestart(pending) /\ WillRestart(command.result) /\ WillRestart(NoPending)
    BY <1>1, RestartStays DEF SessionsOK, CommandOK, WillRestart
  <2>2. CASE CanRestart /\ pending' = [pending EXCEPT !.tried = TRUE]
    BY <2>1, <2>2 DEF CanRestart, WillRestart, RestartOK, RestartShape, Belongs, WillBelong
  <2>3. CASE pending' \in {pending, NoPending, command.result}
    BY <2>1, <2>3 DEF WillRestart, RestartOK, Belongs, WillBelong
  <2> QED BY <2>2, <2>3, PendingSteps DEF Remember
<1>3. saved' \in [Home -> [Entry -> Account \cup {NoAccount}]] /\ live' \in [Entry -> Account]
  <2>1. CASE UNCHANGED <<saved, live>> BY <1>1, <2>1 DEF SessionsOK
  <2>2. ASSUME CanRestart, saved' = BackedUp, NEW done \in SUBSET Entry,
               live' = [e \in Entry |-> IF e \in done THEN Restored(e) ELSE live[e]]
        PROVE  saved' \in [Home -> [Entry -> Account \cup {NoAccount}]] /\ live' \in [Entry -> Account]
    <3>1. pending.backup \in Home /\ pending.restore \in Home
      BY <1>1, <2>2 DEF CanRestart, SessionsOK, RestartOK, RestartShape
    <3>2. \A e \in Entry : Restored(e) \in Account
      BY <1>1, <3>1 DEF Restored, SessionsOK, HomesOK
    <3> QED BY <1>1, <2>2, <3>1, <3>2 DEF SessionsOK, BackedUp
  <2>3. ASSUME UNCHANGED live, NEW gone \in SUBSET Home, DeleteHomes(gone)
        PROVE  saved' \in [Home -> [Entry -> Account \cup {NoAccount}]] /\ live' \in [Entry -> Account]
    BY <1>1, <2>3 DEF SessionsOK, DeleteHomes
  <2> QED BY <2>1, <2>2, <2>3, SavedSteps
<1> QED BY <1>2, <1>3 DEF SessionsOK

\* Only the steps of a switch and of a removal change the command.
LEMMA CommandSteps ==
    ASSUME TypeInv, [Next]_vars
    PROVE  \/ UNCHANGED command
           \/ \E a \in Account : BeginSwitch(a) \/ BeginRemove(a)
           \/ KeepActive \/ Remember \/ Replace \/ FailSwitch \/ EndSwitch \/ RemovalStep
<1>1. ASSUME NEW f \in Fetch, FetchStep(f) PROVE UNCHANGED command
  BY <1>1 DEF FetchStep, StartFetch, Route, ReadUsage, FailFetch, SaveLane, SaveAsked, PersistLoaded
<1>2. ASSUME NEW done \in SUBSET Entry, FailRestart(done) PROVE UNCHANGED command
  BY <1>2 DEF FailRestart
<1>3. ASSUME NEW a \in Account,
             \/ AddAccount(a) \/ Reauthenticate(a)
             \/ \E place \in Place : CodexLogIn(place, a)
      PROVE  UNCHANGED command
  BY <1>3 DEF AddAccount, Reauthenticate, CodexLogIn
<1>4. CASE RestartDesktop BY <1>4 DEF RestartDesktop
<1>5. CASE UNCHANGED vars BY <1>5 DEF vars
<1> QED BY <1>1, <1>2, <1>3, <1>4, <1>5 DEF Next, SwitchStep

LEMMA CommandKept ==
    ASSUME TypeInv, [Next]_vars
    PROVE  CommandOK'
<1>1. AccountsStep /\ AccountsOK /\ HomesOK /\ CommandOK BY AccountsKept DEF TypeInv, AccountsOK
<1> DEFINE listed(c) == \A a \in Account : c.list[a].id <= ids'[a] /\ WillBelong(c.list[a].home, a)
<1>2. listed(command)
  <2>1. \A a \in Account : Belongs(command.list[a].home, a) /\ command.list[a].id <= ids[a]
    BY <1>1 DEF CommandOK
  <2>2. \A a \in Account : WillBelong(command.list[a].home, a)
    BY <1>1, <2>1, BelongsStays DEF AccountsStep, AccountsOK
  <2>3. \A a \in Account : command.list[a].id \in Nat /\ ids[a] \in Nat /\ ids'[a] \in Nat /\ ids[a] <= ids'[a]
    BY <1>1 DEF CommandOK, CommandShape, List, Record, NoRecord, AccountsStep, AccountsOK, StoredOK, IdsForward
  <2> QED BY <2>1, <2>2, <2>3
<1>3. NoCommand \in CommandShape /\ listed(NoCommand)
  <2>1. NoList \in List BY DEF NoList, List
  <2>2. NoCommand \in CommandShape BY <2>1 DEF NoCommand, CommandShape
  <2>3. \A a \in Account : NoCommand.list[a].id = 0 /\ NoCommand.list[a].home \notin Home
    BY AccountsAssumption DEF NoCommand, NoList, NoRecord
  <2>4. \A a \in Account : ids'[a] \in Nat BY <1>1 DEF AccountsStep, AccountsOK, StoredOK
  <2> QED BY <2>2, <2>3, <2>4 DEF WillBelong
<1>4. SUFFICES /\ command' \in CommandShape
               /\ command'.at = "idle" => command' = NoCommand
               /\ command'.at \in {"chosen", "removing"} =>
                     /\ command'.account \in Account /\ command'.home \in Place
                     /\ WillBelong(command'.home, command'.account)
                     /\ command'.result = NoPending
               /\ WillRestart(command'.result)
               /\ listed(command')
  BY DEF CommandOK, WillRestart, RestartOK, Belongs, WillBelong
<1>5. WillRestart(command.result) BY <1>1, RestartStays DEF CommandOK
<1> HIDE DEF listed
<1>6. CASE UNCHANGED command
  <2>1. command.at \in {"chosen", "removing"} => WillBelong(command.home, command.account)
    BY <1>1, BelongsStays DEF CommandOK, AccountsStep, AccountsOK
  <2> QED BY <1>1, <1>2, <1>5, <1>6, <2>1 DEF CommandOK
<1>7. ASSUME NEW a \in Account, BeginSwitch(a) \/ BeginRemove(a)
      PROVE  /\ command' \in CommandShape /\ command'.at \in {"chosen", "removing"}
             /\ command'.account = a /\ command'.home = Listed[a].home
             /\ command'.home \in Place /\ WillBelong(command'.home, a)
             /\ command'.result = NoPending /\ listed(command')
  <2>1. Listed \in List /\ Listed[a] \in Record /\ Belongs(Listed[a].home, a)
    BY <1>1, <1>7, ListedTyped DEF BeginSwitch, BeginRemove, List
  <2>2. UNCHANGED accounts BY <1>7 DEF BeginSwitch, BeginRemove
  <2>3. Listed[a].home \in Place BY <2>1 DEF Record
  <2>4. WillBelong(Listed[a].home, a) BY <2>1, <2>2 DEF Belongs, WillBelong, accounts
  <2>5. CASE BeginSwitch(a)
    <3>1. command' = [NoCommand EXCEPT !.at = "chosen", !.account = a, !.home = Listed[a].home]
      BY <2>5 DEF BeginSwitch
    <3>2. /\ command' \in CommandShape /\ command'.at = "chosen" /\ command'.account = a
          /\ command'.home = Listed[a].home /\ command'.result = NoCommand.result
          /\ command'.list = NoCommand.list
      BY <1>3, <2>3, <3>1 DEF CommandShape
    <3>3. NoCommand.result = NoPending BY DEF NoCommand
    <3> QED BY <1>3, <2>3, <2>4, <3>2, <3>3 DEF listed
  <2>6. CASE BeginRemove(a)
    <3>1. command' = [NoCommand EXCEPT !.at = "removing", !.account = a,
                                       !.home = Listed[a].home, !.list = Listed]
      BY <2>6 DEF BeginRemove
    <3>2. /\ command' \in CommandShape /\ command'.at = "removing" /\ command'.account = a
          /\ command'.home = Listed[a].home /\ command'.result = NoCommand.result
          /\ command'.list = Listed
      BY <1>3, <2>1, <2>3, <3>1 DEF CommandShape
    <3>3. NoCommand.result = NoPending BY DEF NoCommand
    <3>4. \A b \in Account : Listed[b].id <= ids'[b] /\ WillBelong(Listed[b].home, b)
      BY <1>1, <2>2, ListedTyped DEF Belongs, WillBelong, accounts
    <3> QED BY <2>3, <2>4, <3>2, <3>3, <3>4 DEF listed
  <2> QED BY <1>7, <2>5, <2>6
<1>8. CASE KeepActive \/ Remember
  <2>1. \/ command' = [command EXCEPT !.at = "replaced"]
        \/ command' = [command EXCEPT !.at = "remembered"]
    BY <1>8 DEF KeepActive, Remember
  <2>2. /\ command' \in CommandShape /\ command'.result = command.result
        /\ command'.list = command.list /\ command'.at \in {"replaced", "remembered"}
    BY <1>1, <2>1 DEF CommandOK, CommandShape
  <2> QED BY <1>2, <1>5, <2>2 DEF listed
<1>9. CASE Replace
  <2>1. /\ ambient \in Account /\ command.home \in Home /\ owner[command.home] \in Account
        /\ owner[command.home] = command.account \/ command.home \in resigned
        /\ command.account # ambient /\ command.home <= made /\ made \in Nat
    BY <1>1, <1>9 DEF Replace, CommandOK, Belongs, HomesOK
  <2>2. /\ NewHome(ambient) /\ UNCHANGED resigned
        /\ command' = [command EXCEPT !.at = "replaced", !.result = SwitchResult]
    BY <1>9 DEF Replace
  <2>3. /\ made' = made + 1 /\ made' \in Home /\ owner'[made'] = ambient
        /\ owner'[command.home] = owner[command.home]
    BY <1>1, <2>1, <2>2, NewHomeKeeps DEF Home
  <2> DEFINE to == owner[command.home]
  <2>4. SwitchResult = [account |-> to, out |-> ambient, backup |-> made',
                        restore |-> command.home, tried |-> FALSE]
    BY <2>3 DEF SwitchResult
  <2>5. SwitchResult \in RestartShape BY <2>1, <2>3, <2>4 DEF RestartShape
  <2>6. /\ command' \in CommandShape /\ command'.at = "replaced" /\ command'.result = SwitchResult
        /\ command'.list = command.list
    BY <1>1, <2>2, <2>5 DEF CommandOK, CommandShape
  <2>7. made' # command.home /\ command.home <= made' BY <2>1, <2>3 DEF Home
  <2>8. WillBelong(made', ambient) /\ WillBelong(command.home, to)
    BY <2>3, <2>7 DEF WillBelong, Home
  <2>9. to # ambient \/ command.home \in resigned' BY <2>1, <2>2
  <2> HIDE DEF to
  <2>10. WillRestart(SwitchResult) BY <2>4, <2>5, <2>7, <2>8, <2>9 DEF WillRestart
  <2> QED BY <1>2, <2>6, <2>10 DEF listed
<1>10. CASE command' = NoCommand
  <2>1. NoCommand.at = "idle" /\ NoCommand.result = NoPending BY DEF NoCommand
  <2> QED BY <1>3, <1>10, <2>1 DEF WillRestart
<1>11. FailSwitch \/ EndSwitch \/ RemovalStep => command' = NoCommand
  BY DEF FailSwitch, EndSwitch, RemovalStep, RefuseRemoval, RemoveAccount, FailToRemove
<1>12. ASSUME NEW a \in Account, BeginSwitch(a) \/ BeginRemove(a)
       PROVE  command'.at # "idle" /\ WillRestart(command'.result)
  BY <1>7, <1>12 DEF WillRestart
<1> QED BY <1>6, <1>7, <1>8, <1>9, <1>10, <1>11, <1>12, CommandSteps

WillFetch(r) ==
    /\ r.at \in {"started", "routed", "read"} =>
          /\ r.account \in Account /\ r.record \in Record
          /\ r.record.id <= ids'[r.account]
          /\ WillBelong(r.record.home, r.account)
    /\ r.at = "routed" => r.route \in Place
    /\ r.at = "read" => r.usage \in Account
    /\ \A a \in Account : r.list[a].id <= ids'[a] /\ WillBelong(r.list[a].home, a)

\* What a fetch holds of the list stays well formed.
LEMMA FetchStays ==
    ASSUME AccountsOK, AccountsStep, NEW r \in FetchShape, FetchOK(r)
    PROVE  WillFetch(r)
<1>1. \A h, a : Belongs(h, a) => WillBelong(h, a) BY BelongsStays DEF AccountsStep, AccountsOK
<1>2. \A a \in Account : ids[a] \in Nat /\ ids'[a] \in Nat /\ ids[a] <= ids'[a]
  BY DEF AccountsStep, AccountsOK, StoredOK, IdsForward
<1>3. \A a \in Account, i \in 0..MaxId : i <= ids[a] => i <= ids'[a] BY <1>2
<1>4. \A a \in Account : r.list[a].id \in 0..MaxId
  BY DEF FetchShape, List, Record, NoRecord
<1>5. r.record \in Record => r.record.id \in 0..MaxId BY DEF Record
<1> QED BY <1>1, <1>3, <1>4, <1>5 DEF FetchOK, WillFetch

\* The fetches keep all they have but what a login or a new generation marks.
Marked ==
    /\ fetch' = [f \in Fetch |-> fetch'[f]]
    /\ \A f \in Fetch :
          \E c \in BOOLEAN, u \in BOOLEAN :
             (fetch[f].crossed => c) /\ fetch'[f] = [fetch[f] EXCEPT !.crossed = c, !.current = u]

LEMMA MarkedSteps ==
    ASSUME FetchesOK
    PROVE  /\ InvalidateLanes => Marked
           /\ \A place \in Place, a \in Account :
                 /\ fetch' = CrossedBy(place, a) => Marked
                 /\ fetch' = Outdated(CrossedBy(place, a)) => Marked
<1>1. \A f \in Fetch : /\ fetch[f] \in FetchShape /\ fetch[f].crossed \in BOOLEAN
                       /\ fetch[f].current \in BOOLEAN
  BY DEF FetchesOK, FetchShape
<1>2. ASSUME InvalidateLanes PROVE Marked
  <2>1. fetch' = Outdated(fetch) BY <1>2 DEF InvalidateLanes
  <2>2. fetch' = [f \in Fetch |-> fetch'[f]] BY <2>1 DEF Outdated
  <2>3. ASSUME NEW f \in Fetch
        PROVE  \E c \in BOOLEAN, u \in BOOLEAN :
                  (fetch[f].crossed => c) /\ fetch'[f] = [fetch[f] EXCEPT !.crossed = c, !.current = u]
    <3> DEFINE u == fetch[f].current /\ fetch[f].kind # "lane"
    <3>1. fetch'[f] = [fetch[f] EXCEPT !.current = u] BY <2>1 DEF Outdated
    <3>2. u \in BOOLEAN OBVIOUS
    <3> HIDE DEF u
    <3>3. fetch'[f] = [fetch[f] EXCEPT !.crossed = fetch[f].crossed, !.current = u]
      BY <1>1, <3>1 DEF FetchShape
    <3> QED BY <1>1, <3>2, <3>3
  <2> QED BY <2>2, <2>3 DEF Marked
<1>3. ASSUME NEW place \in Place, NEW a \in Account
      PROVE  /\ fetch' = CrossedBy(place, a) => Marked
             /\ fetch' = Outdated(CrossedBy(place, a)) => Marked
  <2> DEFINE c(f) == fetch[f].crossed \/ Crosses(f, place, a)
             u(f) == fetch[f].current /\ fetch[f].kind # "lane"
  <2>1. \A f \in Fetch : c(f) \in BOOLEAN /\ u(f) \in BOOLEAN /\ (fetch[f].crossed => c(f)) OBVIOUS
  <2>2. \A f \in Fetch : CrossedBy(place, a)[f] = [fetch[f] EXCEPT !.crossed = c(f)]
    BY DEF CrossedBy
  <2> HIDE DEF c
  <2>3. ASSUME fetch' = CrossedBy(place, a) PROVE Marked
    <3>1. fetch' = [f \in Fetch |-> fetch'[f]] BY <2>3 DEF CrossedBy
    <3>2. \A f \in Fetch : fetch'[f] = [fetch[f] EXCEPT !.crossed = c(f), !.current = fetch[f].current]
      <4> TAKE f \in Fetch
      <4> DEFINE d == c(f)
      <4>1. fetch'[f] = [fetch[f] EXCEPT !.crossed = d] BY <2>2, <2>3
      <4>2. fetch[f] \in FetchShape BY <1>1
      <4> HIDE DEF d
      <4>3. [fetch[f] EXCEPT !.crossed = d] = [fetch[f] EXCEPT !.crossed = d, !.current = fetch[f].current]
        BY <4>2 DEF FetchShape
      <4> QED BY <4>1, <4>3 DEF d
    <3> QED BY <1>1, <2>1, <3>1, <3>2 DEF Marked
  <2>4. ASSUME fetch' = Outdated(CrossedBy(place, a)) PROVE Marked
    <3>1. fetch' = [f \in Fetch |-> fetch'[f]] BY <2>4 DEF Outdated
    <3>2. \A f \in Fetch : fetch'[f] = [fetch[f] EXCEPT !.crossed = c(f), !.current = u(f)]
      <4> TAKE f \in Fetch
      <4> DEFINE r == [fetch[f] EXCEPT !.crossed = c(f)]
      <4>1. fetch'[f] = [r EXCEPT !.current = r.current /\ r.kind # "lane"]
        BY <2>2, <2>4 DEF Outdated
      <4>2. r.current = fetch[f].current /\ r.kind = fetch[f].kind BY <1>1 DEF FetchShape
      <4> QED BY <4>1, <4>2
    <3> HIDE DEF u
    <3> QED BY <2>1, <3>1, <3>2 DEF Marked
  <2> QED BY <2>3, <2>4
<1> QED BY <1>2, <1>3

LEMMA MarkedKeeps ==
    ASSUME FetchesOK, Marked, NEW f \in Fetch
    PROVE  /\ fetch'[f] \in FetchShape
           /\ fetch'[f].at = fetch[f].at /\ fetch'[f].account = fetch[f].account
           /\ fetch'[f].record = fetch[f].record /\ fetch'[f].route = fetch[f].route
           /\ fetch'[f].usage = fetch[f].usage /\ fetch'[f].list = fetch[f].list
           /\ fetch[f].crossed => fetch'[f].crossed
<1>1. PICK c \in BOOLEAN, u \in BOOLEAN :
         (fetch[f].crossed => c) /\ fetch'[f] = [fetch[f] EXCEPT !.crossed = c, !.current = u]
  BY DEF Marked
<1>2. fetch[f] \in FetchShape BY DEF FetchesOK
<1> QED BY <1>1, <1>2 DEF FetchShape

LEMMA CrossedMarks ==
    ASSUME FetchesOK, NEW place \in Place, NEW a \in Account, NEW f \in Fetch,
           fetch' \in {CrossedBy(place, a), Outdated(CrossedBy(place, a))}
    PROVE  fetch'[f].crossed <=> fetch[f].crossed \/ Crosses(f, place, a)
<1> DEFINE c == fetch[f].crossed \/ Crosses(f, place, a)
           r == [fetch[f] EXCEPT !.crossed = c]
<1>1. fetch[f] \in FetchShape BY DEF FetchesOK
<1>2. CrossedBy(place, a)[f] = r BY DEF CrossedBy
<1>3. Outdated(CrossedBy(place, a))[f] = [r EXCEPT !.current = r.current /\ r.kind # "lane"]
  BY <1>2 DEF Outdated
<1> HIDE DEF c
<1>4. r.crossed = c BY <1>1 DEF FetchShape
<1>5. \A u : [r EXCEPT !.current = u].crossed = r.crossed BY <1>1 DEF FetchShape
<1>6. fetch'[f].crossed = c BY <1>2, <1>3, <1>4, <1>5
<1> QED BY <1>6 DEF c

\* A step starts one fetch, moves it on or ends it, or marks some.
LEMMA FetchSteps ==
    ASSUME TypeInv, [Next]_vars
    PROVE  \/ UNCHANGED fetch \/ Marked
           \/ \E f \in Fetch :
                 \/ fetch' = [fetch EXCEPT ![f] = NoFetch]
                 \/ \E a \in Account, kind \in {"lane", "asked"} : StartFetch(f, a, kind)
                 \/ Route(f) \/ ReadUsage(f) \/ SaveAsked(f)
<1>1. CASE UNCHANGED vars BY <1>1 DEF vars
<1>2. ASSUME NEW f \in Fetch, FetchStep(f)
      PROVE  \/ fetch' = [fetch EXCEPT ![f] = NoFetch]
             \/ \E a \in Account, kind \in {"lane", "asked"} : StartFetch(f, a, kind)
             \/ Route(f) \/ ReadUsage(f) \/ SaveAsked(f)
  BY <1>2 DEF FetchStep, FailFetch, SaveLane, PersistLoaded
<1>3. FetchesOK /\ Ambient \in Place BY DEF TypeInv
<1>4. CASE SwitchStep
  BY <1>3, <1>4, MarkedSteps DEF SwitchStep, KeepActive, Replace, FailSwitch, Remember, EndSwitch
<1>5. CASE RestartDesktop BY <1>5 DEF RestartDesktop
<1>6. ASSUME NEW done \in SUBSET Entry, FailRestart(done) PROVE UNCHANGED fetch
  BY <1>6 DEF FailRestart
<1>7. CASE RemovalStep BY <1>7 DEF RemovalStep, RefuseRemoval, RemoveAccount, FailToRemove
<1>8. ASSUME NEW a \in Account, AddAccount(a) \/ BeginRemove(a) \/ BeginSwitch(a)
      PROVE  UNCHANGED fetch
  BY <1>8 DEF AddAccount, BeginRemove, BeginSwitch
<1>9. ASSUME NEW a \in Account, Reauthenticate(a) PROVE Marked
  <2>1. fetch' = Outdated(CrossedBy(Ambient, a)) BY <1>9 DEF Reauthenticate
  <2> QED BY <1>3, <2>1, MarkedSteps
<1>10. ASSUME NEW a \in Account, NEW place \in Place, CodexLogIn(place, a) PROVE Marked
  <2>1. fetch' = CrossedBy(place, a) BY <1>10 DEF CodexLogIn
  <2> QED BY <1>3, <2>1, MarkedSteps
<1> QED BY <1>1, <1>2, <1>4, <1>5, <1>6, <1>7, <1>8, <1>9, <1>10 DEF Next

LEMMA NoFetchOK == ASSUME AccountsOK PROVE NoFetch \in FetchShape /\ FetchOK(NoFetch)
<1>1. NoList \in List BY DEF NoList, List
<1>2. NoFetch \in FetchShape BY <1>1 DEF NoFetch, FetchShape
<1>3. \A a \in Account : NoRecord.id <= ids[a] /\ Belongs(NoRecord.home, a)
  <2>1. ids \in [Account -> 0..MaxId] BY DEF AccountsOK, StoredOK
  <2>2. NoRecord.id = 0 /\ NoRecord.home \notin Home BY AccountsAssumption DEF NoRecord
  <2> QED BY <2>1, <2>2 DEF Belongs
<1>4. NoFetch.at = "idle" /\ \A a \in Account : NoFetch.list[a] = NoRecord BY DEF NoFetch, NoList
<1> QED BY <1>2, <1>3, <1>4 DEF FetchOK

LEMMA FetchesKept ==
    ASSUME TypeInv, [Next]_vars
    PROVE  FetchesOK'
<1>1. AccountsStep /\ AccountsOK /\ HomesOK /\ FetchesOK BY AccountsKept DEF TypeInv, AccountsOK
<1>2. \A g \in Fetch : fetch[g] \in FetchShape /\ FetchOK(fetch[g]) /\ WillFetch(fetch[g])
  BY <1>1, FetchStays DEF FetchesOK
<1>3. SUFFICES fetch' \in [Fetch -> FetchShape] /\ \A g \in Fetch : WillFetch(fetch'[g])
  BY DEF FetchesOK, FetchOK, WillFetch, Belongs, WillBelong
<1>4. CASE UNCHANGED fetch BY <1>1, <1>2, <1>4 DEF FetchesOK
<1>5. CASE Marked
  <2>1. \A g \in Fetch : fetch'[g] \in FetchShape /\ WillFetch(fetch'[g])
    <3> TAKE g \in Fetch
    <3>1. /\ fetch'[g] \in FetchShape
          /\ fetch'[g].at = fetch[g].at /\ fetch'[g].account = fetch[g].account
          /\ fetch'[g].record = fetch[g].record /\ fetch'[g].route = fetch[g].route
          /\ fetch'[g].usage = fetch[g].usage /\ fetch'[g].list = fetch[g].list
      BY <1>1, <1>5, MarkedKeeps
    <3>2. WillFetch(fetch[g]) BY <1>2
    <3> QED BY <3>1, <3>2 DEF WillFetch
  <2>2. fetch' = [g \in Fetch |-> fetch'[g]] BY <1>5 DEF Marked
  <2> QED BY <2>1, <2>2
<1>6. ASSUME NEW f \in Fetch, NEW r \in FetchShape, WillFetch(r), fetch' = [fetch EXCEPT ![f] = r]
      PROVE  fetch' \in [Fetch -> FetchShape] /\ \A g \in Fetch : WillFetch(fetch'[g])
  <2>1. fetch' \in [Fetch -> FetchShape] BY <1>1, <1>6 DEF FetchesOK
  <2>2. \A g \in Fetch : fetch'[g] = IF g = f THEN r ELSE fetch[g] BY <1>1, <1>6 DEF FetchesOK
  <2> QED BY <1>2, <1>6, <2>1, <2>2
<1>7. ASSUME NEW f \in Fetch, fetch' = [fetch EXCEPT ![f] = NoFetch]
      PROVE  fetch' \in [Fetch -> FetchShape] /\ \A g \in Fetch : WillFetch(fetch'[g])
  BY <1>1, <1>6, <1>7, NoFetchOK, FetchStays
<1>8. ASSUME NEW f \in Fetch, NEW a \in Account, NEW kind \in {"lane", "asked"}, StartFetch(f, a, kind)
      PROVE  fetch' \in [Fetch -> FetchShape] /\ \A g \in Fetch : WillFetch(fetch'[g])
  <2> DEFINE r == [NoFetch EXCEPT !.at = "started", !.kind = kind, !.account = a, !.record = Listed[a]]
  <2>1. fetch' = [fetch EXCEPT ![f] = r] BY <1>8 DEF StartFetch
  <2>2. Listed[a] \in Record /\ Listed[a].id <= ids[a] /\ Belongs(Listed[a].home, a)
    BY <1>1, <1>8, ListedTyped DEF StartFetch, List
  <2>3. NoFetch \in FetchShape /\ FetchOK(NoFetch) BY <1>1, NoFetchOK
  <2>4. /\ r \in FetchShape /\ r.at = "started" /\ r.account = a /\ r.record = Listed[a]
        /\ r.list = NoFetch.list
    BY <2>2, <2>3 DEF FetchShape
  <2>5. FetchOK(r) BY <2>2, <2>3, <2>4 DEF FetchOK
  <2> QED BY <1>1, <1>6, <2>1, <2>4, <2>5, FetchStays
<1>9. ASSUME NEW f \in Fetch, ReadUsage(f)
      PROVE  fetch' \in [Fetch -> FetchShape] /\ \A g \in Fetch : WillFetch(fetch'[g])
  <2> DEFINE used == HeldAt(fetch[f].route)
             c == fetch[f].crossed /\ used # fetch[f].account
             r == [fetch[f] EXCEPT !.at = "read", !.route = NoHome, !.usage = used, !.crossed = c]
  <2>1. fetch[f].at = "routed" /\ used # NoAccount BY <1>9 DEF ReadUsage
  <2>2. used \in Account
    <3>1. fetch[f].route \in Place BY <1>2, <2>1 DEF FetchOK
    <3> QED BY <1>1, <2>1, <3>1 DEF HeldAt, HomesOK
  <2>3. fetch' = [fetch EXCEPT ![f] = r] BY <1>9 DEF ReadUsage
  <2>4. c \in BOOLEAN OBVIOUS
  <2> HIDE DEF used, c
  <2>5. /\ r \in FetchShape /\ r.at = "read" /\ r.account = fetch[f].account
        /\ r.record = fetch[f].record /\ r.usage = used /\ r.list = fetch[f].list
    BY <1>2, <2>2, <2>4 DEF FetchShape
  <2>6. WillFetch(r) BY <1>2, <2>1, <2>2, <2>5 DEF WillFetch
  <2> QED BY <1>6, <2>3, <2>5, <2>6
<1>11. ASSUME NEW f \in Fetch, Route(f)
       PROVE  fetch' \in [Fetch -> FetchShape] /\ \A g \in Fetch : WillFetch(fetch'[g])
  <2> DEFINE h == fetch[f].record.home
             to == IF HeldAt(h) = ambient THEN Ambient ELSE h
             r == [fetch[f] EXCEPT !.at = "routed", !.route = to]
  <2>1. fetch[f].at = "started" /\ fetch' = [fetch EXCEPT ![f] = r] BY <1>11 DEF Route
  <2>2. to \in Place BY <1>2, <2>1 DEF FetchOK, Record
  <2> HIDE DEF to
  <2>3. /\ r \in FetchShape /\ r.at = "routed" /\ r.account = fetch[f].account
        /\ r.record = fetch[f].record /\ r.route = to /\ r.list = fetch[f].list
    BY <1>2, <2>2 DEF FetchShape
  <2>4. WillFetch(r) BY <1>2, <2>1, <2>2, <2>3 DEF WillFetch
  <2> QED BY <1>6, <2>1, <2>3, <2>4
<1>10. ASSUME NEW f \in Fetch, SaveAsked(f)
      PROVE  fetch' \in [Fetch -> FetchShape] /\ \A g \in Fetch : WillFetch(fetch'[g])
  <2> DEFINE r == [NoFetch EXCEPT !.at = "saved", !.list = Listed]
  <2>1. fetch' = [fetch EXCEPT ![f] = r] BY <1>10 DEF SaveAsked
  <2>2. Listed \in List /\ \A a \in Account : Listed[a].id <= ids[a] /\ Belongs(Listed[a].home, a)
    BY <1>1, ListedTyped
  <2>3. NoFetch \in FetchShape /\ FetchOK(NoFetch) BY <1>1, NoFetchOK
  <2>4. r \in FetchShape /\ r.at = "saved" /\ r.list = Listed BY <2>2, <2>3 DEF FetchShape
  <2>5. FetchOK(r) BY <2>2, <2>4 DEF FetchOK
  <2> QED BY <1>1, <1>6, <2>1, <2>4, <2>5, FetchStays
<1> QED BY <1>4, <1>5, <1>7, <1>8, <1>9, <1>10, <1>11, FetchSteps

\* Snapshots are saved at the end of a fetch.
LEMMA SnapshotSteps ==
    ASSUME TypeInv, [Next]_vars
    PROVE  UNCHANGED snapshots \/ \E f \in Fetch : SaveLane(f) \/ SaveAsked(f)
<1>1. ASSUME NEW f \in Fetch, FetchStep(f)
      PROVE  UNCHANGED snapshots \/ SaveLane(f) \/ SaveAsked(f)
  BY <1>1 DEF FetchStep, StartFetch, Route, ReadUsage, FailFetch, PersistLoaded
<1>2. CASE SwitchStep
  BY <1>2 DEF SwitchStep, KeepActive, Replace, FailSwitch, Remember, EndSwitch
<1>3. CASE RestartDesktop BY <1>3 DEF RestartDesktop
<1>4. ASSUME NEW done \in SUBSET Entry, FailRestart(done) PROVE UNCHANGED snapshots
  BY <1>4 DEF FailRestart
<1>5. ASSUME NEW a \in Account,
             \/ AddAccount(a) \/ Reauthenticate(a) \/ BeginRemove(a) \/ BeginSwitch(a)
             \/ \E place \in Place : CodexLogIn(place, a)
      PROVE  UNCHANGED snapshots
  BY <1>5 DEF AddAccount, Reauthenticate, BeginRemove, BeginSwitch, CodexLogIn
<1>6. CASE RemovalStep BY <1>6 DEF RemovalStep, RefuseRemoval, RemoveAccount, FailToRemove
<1>7. CASE UNCHANGED vars BY <1>7 DEF vars
<1> QED BY <1>1, <1>2, <1>3, <1>4, <1>5, <1>6, <1>7 DEF Next

LEMMA SnapshotsKept ==
    ASSUME TypeInv, [Next]_vars
    PROVE  SnapshotsOK'
<1>1. SnapshotsOK /\ FetchesOK BY DEF TypeInv
<1>2. CASE UNCHANGED snapshots BY <1>1, <1>2 DEF SnapshotsOK
<1>3. ASSUME NEW f \in Fetch, fetch[f].at = "read", NEW into \in SUBSET snapshots,
             snapshots' = Inserted(f, into)
      PROVE  SnapshotsOK'
  <2>1. CASE ~IsCurrent(f) BY <1>1, <1>3, <2>1 DEF Inserted, SnapshotsOK
  <2>2. CASE IsCurrent(f)
    <3>1. /\ fetch[f].account \in Account /\ fetch[f].record \in Record
          /\ fetch[f].usage \in Account /\ fetch[f].crossed \in BOOLEAN
      BY <1>1, <1>3 DEF FetchesOK, FetchOK, FetchShape
    <3>2. fetch[f].record.id \in 1..MaxId
      <4>1. fetch[f].record.id # 0 BY <2>2 DEF IsCurrent
      <4>2. fetch[f].record.id \in 0..MaxId BY <3>1 DEF Record
      <4> QED BY <4>1, <4>2, AccountsAssumption
    <3> DEFINE s == Snapshot(f)
               rest == {t \in into : <<t.account, t.id>> # <<fetch[f].account, fetch[f].record.id>>}
    <3>3. s \in [account : Account, id : 1..MaxId, usage : Account, crossed : BOOLEAN]
          /\ s.account = fetch[f].account /\ s.id = fetch[f].record.id
      BY <3>1, <3>2 DEF Snapshot
    <3>4. snapshots' = rest \cup {s} BY <1>3, <2>2 DEF Inserted
    <3>5. \A t \in rest : t \in snapshots /\ (t.account # s.account \/ t.id # s.id)
      BY <1>3, <3>3
    <3> HIDE DEF rest, s
    <3> QED BY <1>1, <3>3, <3>4, <3>5 DEF SnapshotsOK
  <2> QED BY <2>1, <2>2
<1>4. ASSUME NEW f \in Fetch, SaveLane(f) PROVE SnapshotsOK'
  <2>1. {s \in snapshots : Listed[s.account].id = s.id} \in SUBSET snapshots OBVIOUS
  <2> QED BY <1>2, <1>3, <1>4, <2>1 DEF SaveLane
<1>5. ASSUME NEW f \in Fetch, SaveAsked(f) PROVE SnapshotsOK'
  BY <1>3, <1>5 DEF SaveAsked
<1> QED BY <1>2, <1>4, <1>5, SnapshotSteps

Exceptions == {"skipped", "replayed", "partly_removed", "overwritten"}

Remembered == mishaps \subseteq mishaps' /\ mishaps' \subseteq mishaps \cup Exceptions

\* A mishap is never forgotten.
LEMMA MishapsGrow ==
    ASSUME TypeInv, [Next]_vars
    PROVE  Remembered
<1>1. CASE UNCHANGED mishaps BY <1>1 DEF Remembered
<1>2. ASSUME NEW x \in Exceptions, mishaps' \in {mishaps, mishaps \cup {x}} PROVE Remembered
  BY <1>2 DEF Remembered
<1>3. /\ "skipped" \in Exceptions /\ "replayed" \in Exceptions /\ "partly_removed" \in Exceptions
      /\ "overwritten" \in Exceptions
  BY DEF Exceptions
<1>4. ASSUME NEW f \in Fetch, FetchStep(f) PROVE Remembered
  <2>1. CASE PersistLoaded(f) BY <1>2, <1>3, <2>1 DEF PersistLoaded
  <2> QED BY <1>1, <1>4, <2>1 DEF FetchStep, StartFetch, Route, ReadUsage, FailFetch, SaveLane, SaveAsked
<1>5. CASE SwitchStep
  <2>1. CASE Remember BY <1>2, <1>3, <2>1 DEF Remember
  <2> QED BY <1>1, <1>5, <2>1 DEF SwitchStep, KeepActive, Replace, FailSwitch, EndSwitch
<1>6. CASE mishaps' = Replayed BY <1>2, <1>3, <1>6 DEF Replayed
<1>7. CASE RemovalStep
  <2>1. ASSUME NEW h \in Home, FailToRemove(h) PROVE Remembered
    <3>1. mishaps' = mishaps \cup {"partly_removed"} BY <2>1 DEF FailToRemove
    <3> QED BY <1>2, <1>3, <3>1
  <2>2. CASE RemoveAccount BY <1>2, <1>3, <2>2 DEF RemoveAccount
  <2>3. CASE RefuseRemoval BY <1>1, <2>3 DEF RefuseRemoval
  <2> QED BY <1>7, <2>1, <2>2, <2>3 DEF RemovalStep
<1>8. ASSUME NEW a \in Account,
             \/ AddAccount(a) \/ Reauthenticate(a) \/ BeginRemove(a) \/ BeginSwitch(a)
             \/ \E place \in Place : CodexLogIn(place, a)
      PROVE  UNCHANGED mishaps
  BY <1>8 DEF AddAccount, Reauthenticate, BeginRemove, BeginSwitch, CodexLogIn
<1>9. CASE UNCHANGED vars BY <1>1, <1>9 DEF vars
<1> QED BY <1>1, <1>4, <1>5, <1>6, <1>7, <1>8, <1>9 DEF Next, RestartDesktop, FailRestart

LEMMA BoundsKept ==
    ASSUME TypeInv, [Next]_vars
    PROVE  BoundsOK'
<1>1. BoundsOK BY DEF TypeInv
<1>2. failures' = failures \/ (failures < Failures /\ failures' = failures + 1)
  <2>1. CASE UNCHANGED vars BY <2>1 DEF vars, sessions
  <2>2. ASSUME NEW f \in Fetch, FetchStep(f) PROVE UNCHANGED failures
    BY <2>2 DEF FetchStep, StartFetch, Route, ReadUsage, FailFetch, SaveLane, SaveAsked, PersistLoaded, sessions
  <2>3. CASE SwitchStep
    BY <2>3 DEF SwitchStep, KeepActive, Replace, FailSwitch, Remember, EndSwitch, sessions
  <2>4. CASE RestartDesktop BY <2>4 DEF RestartDesktop
  <2>5. ASSUME NEW done \in SUBSET Entry, FailRestart(done)
        PROVE  failures < Failures /\ failures' = failures + 1
    BY <2>5 DEF FailRestart
  <2>6. ASSUME NEW a \in Account,
               \/ AddAccount(a) \/ Reauthenticate(a) \/ BeginRemove(a) \/ BeginSwitch(a)
               \/ \E place \in Place : CodexLogIn(place, a)
        PROVE  UNCHANGED failures
    BY <2>6 DEF AddAccount, Reauthenticate, BeginRemove, BeginSwitch, CodexLogIn, sessions
  <2>7. CASE RemovalStep BY <2>7 DEF RemovalStep, RefuseRemoval, RemoveAccount, FailToRemove, sessions
  <2> QED BY <2>1, <2>2, <2>3, <2>4, <2>5, <2>6, <2>7 DEF Next
<1>3. logins' = logins \/ (logins < MaxLogin /\ logins' = logins + 1)
  <2>1. CASE UNCHANGED vars BY <2>1 DEF vars
  <2>2. ASSUME NEW f \in Fetch, FetchStep(f) PROVE UNCHANGED logins
    BY <2>2 DEF FetchStep, StartFetch, Route, ReadUsage, FailFetch, SaveLane, SaveAsked, PersistLoaded
  <2>3. CASE SwitchStep
    BY <2>3 DEF SwitchStep, KeepActive, Replace, FailSwitch, Remember, EndSwitch
  <2>4. CASE RestartDesktop BY <2>4 DEF RestartDesktop
  <2>5. ASSUME NEW done \in SUBSET Entry, FailRestart(done) PROVE UNCHANGED logins
    BY <2>5 DEF FailRestart
  <2>6. CASE RemovalStep BY <2>6 DEF RemovalStep, RefuseRemoval, RemoveAccount, FailToRemove
  <2>7. ASSUME NEW a \in Account, NEW place \in Place, CountLogin(place, a)
        PROVE  logins' = logins \/ (logins < MaxLogin /\ logins' = logins + 1)
    BY <2>7 DEF CountLogin
  <2>8. ASSUME NEW a \in Account, AddAccount(a) \/ BeginRemove(a) \/ BeginSwitch(a)
        PROVE  UNCHANGED logins
    BY <2>8 DEF AddAccount, BeginRemove, BeginSwitch
  <2>9. Ambient \in Place OBVIOUS
  <2> QED BY <2>1, <2>2, <2>3, <2>4, <2>5, <2>6, <2>7, <2>8, <2>9 DEF Next, Reauthenticate, CodexLogIn
<1>4. failures' \in 0..Failures /\ logins' \in 0..MaxLogin
  BY <1>1, <1>2, <1>3, AccountsAssumption DEF BoundsOK
<1>5. mishaps' \subseteq Exceptions BY <1>1, MishapsGrow DEF BoundsOK, Remembered, Exceptions
<1> QED BY <1>4, <1>5 DEF BoundsOK, Exceptions

LEMMA TypeInvStep == TypeInv /\ [Next]_vars => TypeInv'
BY AccountsKept, SessionsKept, CommandKept, FetchesKept, SnapshotsKept, BoundsKept
   DEF TypeInv, AccountsStep

LEMMA TypeInvInit == Init => TypeInv
<1> SUFFICES ASSUME Init PROVE TypeInv OBVIOUS
<1>1. HomesOK BY AccountsAssumption DEF Init, HomesOK
<1>2. StoredOK
  <2>1. store \in List BY DEF Init, NoList, List
  <2>2. ids \in [Account -> 0..MaxId] BY AccountsAssumption DEF Init
  <2>3. \A a \in Account : store[a] = NoRecord /\ ids[a] = 0 BY DEF Init, NoList
  <2>4. NoRecord.id = 0 /\ NoRecord.home \notin Home BY AccountsAssumption DEF NoRecord
  <2> QED BY <2>1, <2>2, <2>3, <2>4 DEF StoredOK, Belongs
<1>3. AccountsOK BY <1>1, <1>2 DEF AccountsOK
<1>4. SessionsOK BY DEF Init, SessionsOK, RestartOK
<1>5. CommandOK
  <2>1. NoList \in List BY DEF NoList, List
  <2>2. NoCommand \in CommandShape /\ NoCommand.at = "idle" /\ NoCommand.result = NoPending
    BY <2>1 DEF NoCommand, CommandShape
  <2>3. \A a \in Account : NoCommand.list[a].id = 0 /\ NoCommand.list[a].home \notin Home /\ ids[a] = 0
    BY AccountsAssumption DEF NoCommand, NoList, NoRecord, Init
  <2> QED BY <2>2, <2>3 DEF Init, CommandOK, RestartOK, Belongs
<1>6. FetchesOK BY <1>3, NoFetchOK DEF Init, FetchesOK
<1>7. SnapshotsOK BY DEF Init, SnapshotsOK
<1>8. BoundsOK BY AccountsAssumption DEF Init, BoundsOK
<1> QED BY <1>3, <1>4, <1>5, <1>6, <1>7, <1>8 DEF TypeInv

LEMMA AlwaysTypeInv == Spec => []TypeInv
<1>1. TypeInv /\ [Next]_vars => TypeInv' BY TypeInvStep
<1> QED BY <1>1, TypeInvInit, PTL DEF Spec

\* Every variable keeps the shape the code gives it; stored accounts have a uuid,
\* and a restart saves the session in one home and takes it from another, between
\* two accounts but for a login at the home of the incoming one.
THEOREM AccountsTypeCorrect == Spec => []TypeOK
<1>1. TypeInv => TypeOK
  <2> SUFFICES ASSUME TypeInv PROVE TypeOK OBVIOUS
  <2>1. AccountsOK /\ SessionsOK /\ CommandOK /\ FetchesOK /\ SnapshotsOK /\ BoundsOK
    BY DEF TypeInv
  <2>2. \A a \in Account : store[a] \in Record \cup {NoRecord} /\ store[a].id \in 0..ids[a]
    <3> TAKE a \in Account
    <3>1. store[a] \in Record \cup {NoRecord} /\ store[a].id <= ids[a] /\ ids[a] \in 0..MaxId
      BY <2>1 DEF AccountsOK, StoredOK, List
    <3>2. store[a].id \in Nat BY <3>1 DEF Record, NoRecord
    <3> QED BY <3>1, <3>2
  <2>3. \/ pending = NoPending
        \/ /\ pending.account # pending.out \/ pending.restore \in resigned
           /\ pending.backup # pending.restore
    BY <2>1 DEF SessionsOK, RestartOK
  <2>4. command.at \in {"idle", "removing", "chosen", "replaced", "remembered"}
    BY <2>1 DEF CommandOK, CommandShape
  <2>5. \A f \in Fetch : fetch[f].at \in {"idle", "started", "routed", "read", "saved"}
    BY <2>1 DEF FetchesOK, FetchShape
  <2> QED BY <2>1, <2>2, <2>3, <2>4, <2>5
          DEF TypeOK, AccountsOK, HomesOK, StoredOK, SessionsOK, SnapshotsOK, BoundsOK
<1> QED BY <1>1, AlwaysTypeInv, PTL

(***************************************************************************)
(* A pending restart has its two homes                                     *)
(***************************************************************************)

\* p has its homes, but for one that changed hands outside the app.
HasHomes(p) ==
    /\ p.backup \in resigned \/ owner[p.backup] = p.out
    /\ p.restore \in resigned \/ owner[p.restore] = p.account

WillHaveHomes(p) ==
    /\ p.backup \in resigned' \/ owner'[p.backup] = p.out
    /\ p.restore \in resigned' \/ owner'[p.restore] = p.account

\* From the moment they are known, while the command is held, they have
\* credentials of somebody.
ResultKept ==
    command.at \in {"replaced", "remembered"} /\ command.result # NoPending =>
        /\ HasHomes(command.result)
        /\ owner[command.result.backup] # NoAccount
        /\ owner[command.result.restore] # NoAccount

\* Somebody signs in at a managed home outside the app.
HandsOver(h, a) ==
    /\ owner[h] \notin {a, NoAccount}
    /\ owner' = [owner EXCEPT ![h] = a] /\ resigned' = resigned \cup {h}
    /\ fetch' = CrossedBy(h, a)
    /\ UNCHANGED <<ambient, made, store, ids, pending, command>>

\* No home is deleted while a switch is in progress.
LEMMA OwnerSteps ==
    ASSUME TypeInv, [Next]_vars
    PROVE  \/ UNCHANGED <<owner, resigned>>
           \/ /\ \E a \in Account : NewHome(a)
              /\ UNCHANGED resigned /\ (CommandFree \/ command.at = "chosen")
           \/ RemoveAccount
           \/ \E h \in Home : FailToRemove(h)
           \/ \E h \in Home, a \in Account : HandsOver(h, a)
<1> USE DEF accounts
<1>1. CASE UNCHANGED vars BY <1>1 DEF vars
<1>2. ASSUME NEW f \in Fetch, FetchStep(f) PROVE UNCHANGED <<owner, resigned>>
  BY <1>2 DEF FetchStep, StartFetch, Route, ReadUsage, FailFetch, SaveLane, SaveAsked, PersistLoaded
<1>3. ambient \in Account BY DEF TypeInv, AccountsOK, HomesOK
<1>4. CASE SwitchStep
  BY <1>3, <1>4 DEF SwitchStep, KeepActive, Replace, FailSwitch, Remember, EndSwitch
<1>5. CASE RestartDesktop BY <1>5 DEF RestartDesktop
<1>6. ASSUME NEW done \in SUBSET Entry, FailRestart(done) PROVE UNCHANGED <<owner, resigned>>
  BY <1>6 DEF FailRestart
<1>7. ASSUME NEW a \in Account, AddAccount(a) PROVE NewHome(a) /\ CommandFree /\ UNCHANGED resigned
  BY <1>7 DEF AddAccount
<1>8. ASSUME NEW a \in Account, Reauthenticate(a) \/ BeginSwitch(a) \/ BeginRemove(a)
      PROVE  UNCHANGED <<owner, resigned>>
  BY <1>8 DEF Reauthenticate, BeginSwitch, BeginRemove
<1>9. ASSUME NEW a \in Account, NEW place \in Place, CodexLogIn(place, a)
      PROVE  UNCHANGED <<owner, resigned>> \/ (place \in Home /\ HandsOver(place, a))
  BY <1>9 DEF CodexLogIn, HandsOver, HeldAt, sessions
<1>10. CASE RemovalStep BY <1>10 DEF RemovalStep, RefuseRemoval
<1> QED BY <1>1, <1>2, <1>4, <1>5, <1>6, <1>7, <1>8, <1>9, <1>10 DEF Next

LEMMA OwnerHeld ==
    ASSUME TypeInv, [Next]_vars, command.at \in {"replaced", "remembered"}
    PROVE  UNCHANGED <<owner, resigned>> \/ \E h \in Home, a \in Account : HandsOver(h, a)
<1>1. ~CommandFree /\ command.at \notin {"chosen", "removing"} BY DEF CommandFree, NoCommand
<1>2. ~RemoveAccount /\ \A h \in Home : ~FailToRemove(h)
  BY <1>1 DEF RemoveAccount, FailToRemove
<1> QED BY <1>1, <1>2, OwnerSteps

LEMMA NewHomeIsOwned ==
    ASSUME HomesOK, NEW a \in Account, NewHome(a), UNCHANGED resigned
    PROVE  \A h \in Home : owner[h] # NoAccount => owner'[h] = owner[h]
BY NewHomeKeeps

\* What has its homes keeps them while no home is deleted.
LEMMA HomesStay ==
    ASSUME HomesOK, NEW p \in RestartShape, HasHomes(p), NEW h \in Home, NEW a \in Account, HandsOver(h, a)
    PROVE  /\ WillHaveHomes(p)
           /\ \A g \in Home : owner[g] # NoAccount => owner'[g] # NoAccount
<1>1. \A g \in Home : owner'[g] = IF g = h THEN a ELSE owner[g] BY DEF HandsOver, HomesOK
<1>2. resigned' = resigned \cup {h} BY DEF HandsOver
<1>3. p.backup \in Home /\ p.restore \in Home BY DEF RestartShape
<1> QED BY <1>1, <1>2, <1>3, AccountsAssumption DEF HasHomes, WillHaveHomes

LEMMA ResultKeptStep ==
    ASSUME TypeInv, [Next]_vars, ResultKept
    PROVE  ResultKept'
<1>1. AccountsOK /\ HomesOK /\ CommandOK BY DEF TypeInv, AccountsOK
<1>2. SUFFICES ASSUME command'.at \in {"replaced", "remembered"}, command'.result # NoPending
               PROVE  /\ WillHaveHomes(command'.result)
                      /\ owner'[command'.result.backup] # NoAccount
                      /\ owner'[command'.result.restore] # NoAccount
  BY DEF ResultKept, HasHomes, WillHaveHomes
<1>3. CASE Replace
  <2>1. /\ NewHome(ambient) /\ ambient \in Account /\ UNCHANGED resigned /\ command.home \in Home
        /\ owner[command.home] # NoAccount
        /\ command' = [command EXCEPT !.at = "replaced", !.result = SwitchResult]
    BY <1>1, <1>3 DEF Replace, HomesOK
  <2>2. command'.result = SwitchResult BY <1>1, <2>1 DEF CommandOK, CommandShape
  <2>3. /\ SwitchResult.backup = made' /\ SwitchResult.out = ambient
        /\ SwitchResult.restore = command.home /\ SwitchResult.account = owner[command.home]
    BY <1>1, <2>1, NewHomeKeeps DEF SwitchResult
  <2>4. owner'[made'] = ambient /\ owner'[command.home] = owner[command.home]
    BY <1>1, <2>1, NewHomeKeeps, NewHomeIsOwned
  <2> QED BY <2>1, <2>2, <2>3, <2>4, AccountsAssumption DEF WillHaveHomes
<1>4. CASE KeepActive
  <2>1. command' = [command EXCEPT !.at = "replaced"] /\ command.result = NoPending
    BY <1>1, <1>4 DEF KeepActive, CommandOK
  <2>2. command'.result = NoPending BY <1>1, <2>1 DEF CommandOK, CommandShape
  <2> QED BY <1>2, <2>2
<1>5. CASE Remember
  <2>1. command.at = "replaced" /\ command' = [command EXCEPT !.at = "remembered"]
        /\ UNCHANGED <<owner, resigned>>
    BY <1>5 DEF Remember, accounts
  <2>2. command'.result = command.result BY <1>1, <2>1 DEF CommandOK, CommandShape
  <2> QED BY <1>2, <2>1, <2>2 DEF ResultKept, HasHomes, WillHaveHomes
<1>6. CASE UNCHANGED command
  <2>1. /\ command.result \in RestartShape /\ HasHomes(command.result)
        /\ owner[command.result.backup] # NoAccount /\ owner[command.result.restore] # NoAccount
    BY <1>1, <1>2, <1>6 DEF ResultKept, CommandOK, RestartOK
  <2>2. command.result.backup \in Home /\ command.result.restore \in Home BY <2>1 DEF RestartShape
  <2>3. CASE UNCHANGED <<owner, resigned>> BY <1>6, <2>1, <2>3 DEF HasHomes, WillHaveHomes
  <2>4. ASSUME NEW h \in Home, NEW a \in Account, HandsOver(h, a)
        PROVE  /\ WillHaveHomes(command.result)
               /\ owner'[command.result.backup] # NoAccount
               /\ owner'[command.result.restore] # NoAccount
    BY <1>1, <2>1, <2>2, <2>4, HomesStay
  <2> QED BY <1>2, <1>6, <2>3, <2>4, OwnerHeld
<1>7. \A a \in Account : ~BeginSwitch(a) /\ ~BeginRemove(a)
  BY <1>2 DEF BeginSwitch, BeginRemove, NoCommand
<1>8. ~FailSwitch /\ ~EndSwitch /\ ~RemovalStep
  <2>1. FailSwitch \/ EndSwitch \/ RemovalStep => command' = NoCommand
    BY DEF FailSwitch, EndSwitch, RemovalStep, RefuseRemoval, RemoveAccount, FailToRemove
  <2> QED BY <1>2, <2>1 DEF NoCommand
<1> QED BY <1>3, <1>4, <1>5, <1>6, <1>7, <1>8, CommandSteps

LEMMA PendingHomesStep ==
    ASSUME TypeInv, [Next]_vars, ResultKept, PendingHomesKept
    PROVE  PendingHomesKept'
<1>1. AccountsOK /\ HomesOK /\ SessionsOK BY DEF TypeInv, AccountsOK
<1>2. SUFFICES ASSUME pending' # NoPending, "partly_removed" \notin mishaps'
               PROVE  WillHaveHomes(pending')
  BY DEF PendingHomesKept, WillHaveHomes
<1>3. "partly_removed" \notin mishaps BY <1>2, MishapsGrow DEF Remembered
<1>4. CASE UNCHANGED pending
  <2>1. HasHomes(pending) BY <1>2, <1>3, <1>4 DEF PendingHomesKept, HasHomes
  <2>2. /\ pending \in RestartShape /\ pending.out \in Account /\ pending.account \in Account
        /\ pending.backup \in Home /\ pending.restore \in Home
    BY <1>1, <1>2, <1>4 DEF SessionsOK, RestartOK, RestartShape
  <2>3. CASE UNCHANGED <<owner, resigned>> BY <1>4, <2>1, <2>3 DEF HasHomes, WillHaveHomes
  <2>4. ASSUME NEW a \in Account, NewHome(a), UNCHANGED resigned PROVE WillHaveHomes(pending')
    BY <1>1, <1>4, <2>1, <2>2, <2>4, NewHomeIsOwned, AccountsAssumption DEF HasHomes, WillHaveHomes
  <2>5. CASE RemoveAccount
    <3>1. /\ command.account \notin {pending.account, pending.out} /\ UNCHANGED resigned
          /\ DeleteHomes(Removable)
      BY <1>2, <1>4, <2>5 DEF RemoveAccount, Revoke
    <3>2. \A h \in Home : owner[h] # command.account => owner'[h] = owner[h]
      BY <3>1 DEF DeleteHomes, Removable, HomesOf
    <3> QED BY <1>4, <2>1, <2>2, <3>1, <3>2 DEF HasHomes, WillHaveHomes
  <2>6. ASSUME NEW h \in Home, FailToRemove(h) PROVE FALSE
    BY <1>2, <2>6 DEF FailToRemove
  <2>7. ASSUME NEW h \in Home, NEW a \in Account, HandsOver(h, a) PROVE WillHaveHomes(pending')
    BY <1>1, <1>4, <2>1, <2>2, <2>7, HomesStay
  <2> QED BY <2>3, <2>4, <2>5, <2>6, <2>7, OwnerSteps
<1>5. CASE CanRestart /\ pending' = [pending EXCEPT !.tried = TRUE] /\ UNCHANGED accounts
  <2>1. pending # NoPending /\ pending \in RestartShape
    BY <1>1, <1>5 DEF CanRestart, SessionsOK, RestartOK
  <2>2. /\ pending'.backup = pending.backup /\ pending'.restore = pending.restore
        /\ pending'.out = pending.out /\ pending'.account = pending.account
    BY <1>5, <2>1 DEF RestartShape
  <2>3. UNCHANGED <<owner, resigned>> BY <1>5 DEF accounts
  <2> QED BY <1>3, <2>1, <2>2, <2>3 DEF PendingHomesKept, WillHaveHomes
<1>6. CASE Remember
  <2>1. pending' = command.result /\ command.at = "replaced" /\ UNCHANGED <<owner, resigned>>
    BY <1>6 DEF Remember, accounts
  <2> QED BY <1>2, <2>1 DEF ResultKept, HasHomes, WillHaveHomes
<1> QED BY <1>2, <1>4, <1>5, <1>6, PendingSteps

\* A restart that would be accepted backs up to and restores from homes that are
\* still there and belong to the two accounts of the switch, but for a home that
\* changed hands outside the app.
THEOREM PendingRestartHasItsHomes == Spec => []PendingHomesKept
<1>1. Init => ResultKept /\ PendingHomesKept BY DEF Init, ResultKept, PendingHomesKept, NoCommand
<1>2. TypeInv /\ ResultKept /\ PendingHomesKept /\ [Next]_vars => (ResultKept /\ PendingHomesKept)'
  BY ResultKeptStep, PendingHomesStep
<1> QED BY <1>1, <1>2, AlwaysTypeInv, PTL DEF Spec

(***************************************************************************)
(* A saved session is its account's                                        *)
(***************************************************************************)

\* What is saved was saved in a home that was no one else's; Desktop runs with the
\* session of the outgoing account until the restart.
SessionInv ==
    \/ {"skipped", "replayed"} \cap mishaps # {}
    \/ /\ \A h \in Home, e \in Entry : saved[h][e] # NoAccount => Belongs(h, saved[h][e])
       /\ pending # NoPending /\ ~pending.tried => \A e \in Entry : live[e] = pending.out

LEMMA SavedStep ==
    ASSUME TypeInv, [Next]_vars, SessionInv, {"skipped", "replayed"} \cap mishaps' = {},
           NEW h \in Home, NEW e \in Entry, saved'[h][e] # NoAccount
    PROVE  WillBelong(h, saved'[h][e])
<1>1. AccountsStep /\ HomesOK /\ SessionsOK BY AccountsKept DEF TypeInv, AccountsOK
<1>2. {"skipped", "replayed"} \cap mishaps = {} BY MishapsGrow DEF Remembered
<1>3. saved[h][e] # NoAccount => Belongs(h, saved[h][e]) BY <1>2 DEF SessionInv
<1>4. \A a : Belongs(h, a) => WillBelong(h, a) BY <1>1, BelongsStays DEF AccountsStep, AccountsOK
<1>5. CASE saved'[h][e] = saved[h][e] BY <1>3, <1>4, <1>5
<1>6. CASE CanRestart /\ saved' = BackedUp /\ mishaps' = Replayed
  <2>1. /\ pending # NoPending /\ pending.backup \in Home /\ Belongs(pending.backup, pending.out)
    BY <1>1, <1>6 DEF CanRestart, SessionsOK, RestartOK, RestartShape
  <2>2. ~pending.tried BY <1>6 DEF Replayed
  <2>3. live[e] = pending.out BY <1>2, <2>1, <2>2 DEF SessionInv
  <2>4. CASE h = pending.backup
    <3>1. saved'[h] = live BY <1>1, <1>6, <2>4 DEF BackedUp, SessionsOK
    <3> QED BY <1>4, <2>1, <2>3, <2>4, <3>1
  <2>5. CASE h # pending.backup
    <3>1. saved'[h] = saved[h] BY <1>1, <1>6, <2>5 DEF BackedUp, SessionsOK
    <3> QED BY <1>5, <3>1
  <2> QED BY <2>4, <2>5
<1>7. ASSUME NEW gone \in SUBSET Home, DeleteHomes(gone) PROVE saved'[h][e] = saved[h][e]
  BY <1>7 DEF DeleteHomes
<1> QED BY <1>5, <1>6, <1>7, SavedSteps

LEMMA LiveStep ==
    ASSUME TypeInv, [Next]_vars, SessionInv, {"skipped", "replayed"} \cap mishaps' = {},
           pending' # NoPending, ~pending'.tried, NEW e \in Entry
    PROVE  live'[e] = pending'.out
<1>1. SessionsOK BY DEF TypeInv
<1>2. {"skipped", "replayed"} \cap mishaps = {} BY MishapsGrow DEF Remembered
<1>3. CASE pending' = [pending EXCEPT !.tried = TRUE] /\ pending # NoPending
  BY <1>1, <1>3 DEF SessionsOK, RestartOK, RestartShape
<1>4. CASE Remember
  <2>1. /\ pending' = command.result /\ UNCHANGED live
        /\ mishaps' = IF command.result # NoPending /\ \E x \in Entry : live[x] # command.result.out
                      THEN mishaps \cup {"skipped"} ELSE mishaps
    BY <1>4 DEF Remember
  <2>2. \A x \in Entry : live[x] = command.result.out BY <2>1
  <2> QED BY <2>1, <2>2
<1>5. CASE UNCHANGED <<pending, live>>
  <2>1. live[e] = pending.out BY <1>2, <1>5 DEF SessionInv
  <2> QED BY <1>5, <2>1
<1>6. \/ UNCHANGED live
      \/ pending' = [pending EXCEPT !.tried = TRUE] /\ pending # NoPending
  <2>1. CanRestart => pending # NoPending BY DEF CanRestart
  <2> QED BY <2>1, SavedSteps
<1> QED BY <1>3, <1>4, <1>5, <1>6, PendingSteps DEF CanRestart

\* A saved desktop session is that of the account in whose home it is kept, if no
\* switch was made while Desktop still ran with another account's session and no
\* restart had to be repeated; a home somebody else signed in at outside the app
\* keeps the session of the account that was there.
THEOREM SavedSessionIsItsAccounts == Spec => []SessionOwned
<1>1. Init => SessionInv BY DEF Init, SessionInv
<1>2. TypeInv /\ SessionInv /\ [Next]_vars => SessionInv'
  BY SavedStep, LiveStep DEF SessionInv, Belongs, WillBelong
<1>3. TypeInv /\ SessionInv => SessionOwned
  <2> SUFFICES ASSUME TypeInv, SessionInv, {"skipped", "replayed"} \cap mishaps = {},
                      NEW h \in Home \ resigned, NEW e \in Entry, owner[h] # NoAccount
               PROVE  saved[h][e] \in {owner[h], NoAccount}
    BY DEF SessionOwned
  <2> QED BY DEF SessionInv, Belongs
<1> QED BY <1>1, <1>2, <1>3, AlwaysTypeInv, PTL DEF Spec

(***************************************************************************)
(* Every account is listed at its home                                     *)
(***************************************************************************)

KeepsHomes(a) == \A h \in Home : owner[h] = a => owner'[h] = a

\* An entry of a list that a command persists: nothing, or that of an account that
\* keeps its homes, as it was listed or at a home that will have credentials.
Edited(r, a) ==
    /\ r.id <= ids[a]
    /\ r # NoRecord =>
          /\ KeepsHomes(a)
          /\ r.id \in {Listed[a].id, store[a].id}
          /\ r.home \in Home => r = Listed[a] \/ owner'[r.home] # NoAccount

EditStep == \E list \in List : Persist(list) /\ \A a \in Account : Edited(list[a], a)

LEMMA ListedIsEdited ==
    ASSUME AccountsOK, NEW a \in Account, KeepsHomes(a)
    PROVE  Edited(Listed[a], a)
BY ListedTyped DEF Edited

LEMMA StoredIds ==
    ASSUME AccountsOK
    PROVE  \A a \in Account : store[a].id \in 0..MaxId /\ ids[a] \in 0..MaxId /\ store[a].id <= ids[a]
<1>1. ASSUME NEW a \in Account PROVE store[a].id \in 0..MaxId
  <2>1. store[a] \in Record \cup {NoRecord} BY DEF AccountsOK, StoredOK, List
  <2> QED BY <2>1, AccountsAssumption DEF Record, NoRecord
<1> QED BY <1>1 DEF AccountsOK, StoredOK

LEMMA AddEdits ==
    ASSUME AccountsOK, NEW a \in Account, AddAccount(a)
    PROVE  EditStep
<1> DEFINE home == FirstOf(HomesOf(a) \cup {made'})
           new == [id |-> store[a].id, home |-> home]
           list == [Listed EXCEPT ![a] = new]
<1>1. HomesOK BY DEF AccountsOK
<1>2. NewHome(a) /\ Persist(list) /\ UNCHANGED resigned BY DEF AddAccount
<1>3. home \in Home /\ owner'[home] = a
  <2>1. HomesOf(a) \cup {made'} \subseteq Home BY <1>1, <1>2, NewHomeKeeps DEF HomesOf, Home
  <2>2. home \in HomesOf(a) \cup {made'} BY <2>1, FirstOfIn
  <2> HIDE DEF home
  <2> QED BY <1>1, <1>2, <2>1, <2>2, NewHomeKeeps, NewHomeIsOwned, AccountsAssumption DEF HomesOf
<1>4. new \in Record /\ new.id = store[a].id /\ new.home \in Home /\ new.id <= ids[a]
  BY <1>3, StoredIds DEF Record
<1>5. owner'[new.home] # NoAccount BY <1>3, AccountsAssumption
<1> HIDE DEF new
<1>6. \A b \in Account : KeepsHomes(b)
  BY <1>1, <1>2, NewHomeIsOwned, AccountsAssumption DEF KeepsHomes
<1>7. Edited(new, a) /\ \A b \in Account : Edited(Listed[b], b)
  <2>1. \A b \in Account : Edited(Listed[b], b) BY <1>6, ListedIsEdited
  <2> QED BY <1>4, <1>5, <1>6, <2>1 DEF Edited
<1>8. Listed \in List BY ListedTyped
<1>9. list \in List /\ \A b \in Account : list[b] = IF b = a THEN new ELSE Listed[b]
  BY <1>4, <1>8 DEF List
<1> HIDE DEF list
<1> QED BY <1>2, <1>7, <1>9 DEF EditStep

LEMMA ReauthenticateEdits ==
    ASSUME AccountsOK, NEW a \in Account, Reauthenticate(a)
    PROVE  EditStep
<1> DEFINE again(b) == b = a /\ Listed[b] = NoRecord
           gone(b) == b # a /\ Listed[b].home = Ambient
           list == [b \in Account |-> IF again(b) THEN [id |-> store[b].id, home |-> Ambient]
                                      ELSE IF gone(b) THEN NoRecord ELSE Listed[b]]
<1>1. Persist(list) BY DEF Reauthenticate
<1>2. \A b \in Account : KeepsHomes(b) BY DEF Reauthenticate, KeepsHomes
<1>3. \A b \in Account : list[b] \in Record \cup {NoRecord} /\ Edited(list[b], b)
  <2> TAKE b \in Account
  <2>1. store[b].id \in 0..MaxId /\ store[b].id <= ids[b] /\ ids[b] \in 0..MaxId BY StoredIds
  <2>2. NoRecord.id = 0 /\ NoRecord.home \notin Home BY AccountsAssumption DEF NoRecord
  <2>3. CASE again(b)
    <3>1. list[b] = [id |-> store[b].id, home |-> Ambient] BY <2>3
    <3>2. list[b].home \notin Home BY <3>1, AccountsAssumption
    <3> QED BY <1>2, <2>1, <3>1, <3>2 DEF Record, Edited
  <2>4. CASE ~again(b) /\ gone(b)
    <3>1. list[b] = NoRecord BY <2>4
    <3> QED BY <2>1, <2>2, <3>1 DEF Edited
  <2>5. CASE ~again(b) /\ ~gone(b)
    <3>1. list[b] = Listed[b] BY <2>5
    <3> QED BY <1>2, <3>1, ListedTyped, ListedIsEdited DEF List
  <2> QED BY <2>3, <2>4, <2>5
<1>4. list \in List
  <2>1. list = [b \in Account |-> list[b]] OBVIOUS
  <2> HIDE DEF list
  <2> QED BY <1>3, <2>1 DEF List
<1> HIDE DEF list
<1> QED BY <1>1, <1>3, <1>4 DEF EditStep

\* A managed home that is deleted with an account is nobody else's.
LEMMA RemoveEdits ==
    ASSUME AccountsOK, CommandOK, RemoveAccount
    PROVE  EditStep \/ "overwritten" \in mishaps'
<1> DEFINE a == command.account
           list == [Listed EXCEPT ![a] = NoRecord]
<1>1. CASE command.list # Listed
  <2>1. mishaps' = mishaps \cup {"overwritten"} BY <1>1 DEF RemoveAccount
  <2> QED BY <2>1
<1>2. CASE command.list = Listed
  <2>1. Persist(list) /\ DeleteHomes(Removable) /\ a \in Account
    BY <1>2 DEF RemoveAccount, CommandOK
  <2>2. \A b \in Account : b # a => KeepsHomes(b)
    BY <2>1 DEF DeleteHomes, Removable, HomesOf, KeepsHomes
  <2> HIDE DEF a
  <2>3. Listed \in List BY ListedTyped
  <2>4. list \in List /\ \A b \in Account : list[b] = IF b = a THEN NoRecord ELSE Listed[b]
    BY <2>1, <2>3 DEF List
  <2>5. Edited(NoRecord, a)
    <3>1. NoRecord.id = 0 /\ NoRecord.home \notin Home BY AccountsAssumption DEF NoRecord
    <3> QED BY <2>1, <3>1, StoredIds DEF Edited
  <2> HIDE DEF list
  <2> QED BY <2>1, <2>2, <2>4, <2>5, ListedIsEdited DEF EditStep
<1> QED BY <1>1, <1>2

LEMMA EndSwitchEdits ==
    ASSUME AccountsOK, CommandOK, ResultKept, EndSwitch
    PROVE  EditStep \/ (command.result = NoPending /\ UNCHANGED <<store, ids>>)
<1> DEFINE out == command.result.out
           new == [id |-> store[out].id, home |-> command.result.backup]
           list == [Listed EXCEPT ![out] = new]
<1>1. CASE out = NoAccount
  <2>1. command.result = NoPending
    BY <1>1, AccountsAssumption DEF CommandOK, RestartOK, RestartShape
  <2> QED BY <1>1, <2>1 DEF EndSwitch
<1>2. CASE out # NoAccount
  <2>1. Persist(list) BY <1>2 DEF EndSwitch
  <2>2. out \in Account /\ command.result.backup \in Home /\ command.result # NoPending
    BY <1>2 DEF CommandOK, RestartOK, RestartShape, NoPending
  <2>3. UNCHANGED owner /\ owner[command.result.backup] # NoAccount
    BY <2>2 DEF EndSwitch, ResultKept
  <2> HIDE DEF out
  <2>4. new \in Record /\ new.id = store[out].id /\ new.home \in Home /\ new.id <= ids[out]
    BY <2>2, StoredIds DEF Record
  <2>5. owner'[new.home] # NoAccount BY <2>3
  <2>6. \A b \in Account : KeepsHomes(b) BY <2>3 DEF KeepsHomes
  <2>7. Listed \in List BY ListedTyped
  <2> HIDE DEF new
  <2>8. Edited(new, out) BY <2>2, <2>4, <2>5, <2>6 DEF Edited
  <2>9. list \in List /\ \A b \in Account : list[b] = IF b = out THEN new ELSE Listed[b]
    BY <2>2, <2>4, <2>7 DEF List
  <2> HIDE DEF list
  <2> QED BY <2>1, <2>6, <2>8, <2>9, ListedIsEdited DEF EditStep
<1> QED BY <1>1, <1>2

LEMMA PersistLoadedEdits ==
    ASSUME AccountsOK, FetchesOK, NEW f \in Fetch, PersistLoaded(f)
    PROVE  EditStep \/ "overwritten" \in mishaps'
<1>1. CASE fetch[f].list # Listed BY <1>1 DEF PersistLoaded
<1>2. CASE fetch[f].list = Listed
  <2>1. Persist(Listed) /\ \A a \in Account : KeepsHomes(a)
    BY <1>2 DEF PersistLoaded, KeepsHomes
  <2> QED BY <2>1, ListedTyped, ListedIsEdited DEF EditStep
<1> QED BY <1>1, <1>2

\* A step persists an edited list or a stale one, or leaves the list.
LEMMA ListSteps ==
    ASSUME TypeInv, ResultKept, [Next]_vars
    PROVE  \/ EditStep \/ "overwritten" \in mishaps'
           \/ /\ UNCHANGED <<store, ids>>
              /\ \/ "partly_removed" \in mishaps'
                 \/ \A a \in Account : KeepsHomes(a)
                 \/ \E h \in Home, a \in Account : HandsOver(h, a)
<1>1. AccountsOK /\ HomesOK /\ CommandOK /\ FetchesOK BY DEF TypeInv, AccountsOK
<1> DEFINE kept == UNCHANGED <<store, ids>> /\ \A a \in Account : KeepsHomes(a)
<1>2. CASE UNCHANGED <<store, ids, owner>> BY <1>2 DEF KeepsHomes
<1>3. ASSUME NEW a \in Account, NewHome(a), UNCHANGED <<store, ids, resigned>> PROVE kept
  BY <1>1, <1>3, NewHomeIsOwned, AccountsAssumption DEF KeepsHomes
<1>4. ASSUME NEW f \in Fetch, FetchStep(f)
      PROVE  EditStep \/ "overwritten" \in mishaps' \/ UNCHANGED <<store, ids, owner>>
  <2>1. CASE PersistLoaded(f) BY <1>1, <2>1, PersistLoadedEdits
  <2> QED BY <1>4, <2>1 DEF FetchStep, StartFetch, Route, ReadUsage, FailFetch, SaveLane, SaveAsked, accounts
<1>5. CASE SwitchStep
  <2>1. CASE EndSwitch
    <3>1. UNCHANGED owner BY <2>1 DEF EndSwitch
    <3> QED BY <1>1, <1>2, <2>1, <3>1, EndSwitchEdits
  <2>2. CASE Replace \/ FailSwitch
    <3>1. ambient \in Account BY <1>1 DEF HomesOK
    <3>2. UNCHANGED <<store, ids, resigned>> /\ (UNCHANGED owner \/ NewHome(ambient))
      BY <2>2 DEF Replace, FailSwitch
    <3> QED BY <1>2, <1>3, <3>1, <3>2
  <2>3. CASE KeepActive \/ Remember BY <1>2, <2>3 DEF KeepActive, Remember, accounts
  <2> QED BY <1>5, <2>1, <2>2, <2>3 DEF SwitchStep
<1>6. CASE RemovalStep
  <2>1. ASSUME NEW h \in Home, FailToRemove(h)
        PROVE  UNCHANGED <<store, ids>> /\ "partly_removed" \in mishaps'
    <3>1. mishaps' = mishaps \cup {"partly_removed"} /\ UNCHANGED <<store, ids>>
      BY <2>1 DEF FailToRemove
    <3> QED BY <3>1
  <2>2. CASE RefuseRemoval BY <1>2, <2>2 DEF RefuseRemoval, accounts
  <2> QED BY <1>1, <1>2, <1>6, <2>1, <2>2, RemoveEdits DEF RemovalStep
<1>7. ASSUME NEW a \in Account, BeginSwitch(a) \/ BeginRemove(a)
      PROVE  UNCHANGED <<store, ids, owner>>
  BY <1>7 DEF BeginSwitch, BeginRemove, accounts
<1>8. CASE UNCHANGED vars BY <1>2, <1>8 DEF vars, accounts
<1>9. CASE RestartDesktop BY <1>2, <1>9 DEF RestartDesktop, accounts
<1>10. ASSUME NEW done \in SUBSET Entry, FailRestart(done) PROVE UNCHANGED <<store, ids, owner>>
  BY <1>10 DEF FailRestart, accounts
<1>11. ASSUME NEW a \in Account, NEW place \in Place, CodexLogIn(place, a)
       PROVE  /\ UNCHANGED <<store, ids>>
              /\ UNCHANGED owner \/ \E h \in Home : HandsOver(h, a)
  BY <1>11 DEF CodexLogIn, HandsOver, HeldAt, sessions
<1> HIDE DEF kept
<1> QED BY <1>1, <1>2, <1>4, <1>5, <1>6, <1>7, <1>8, <1>9, <1>10, <1>11,
           AddEdits, ReauthenticateEdits DEF Next

\* An account is not stored at a home that is gone.
ListInv ==
    \/ {"partly_removed", "overwritten"} \cap mishaps # {}
    \/ \A a \in Account : ~StoredAtDeadHome(a)

LEMMA ListStep ==
    ASSUME TypeInv, ResultKept, [Next]_vars, ListInv
    PROVE  ListInv'
<1>1. AccountsOK /\ HomesOK BY DEF TypeInv, AccountsOK
<1>2. SUFFICES ASSUME {"partly_removed", "overwritten"} \cap mishaps' = {},
                      NEW a \in Account, store'[a].home \in Home
               PROVE  owner'[store'[a].home] # NoAccount
  BY DEF ListInv, StoredAtDeadHome
<1>3. {"partly_removed", "overwritten"} \cap mishaps = {} BY <1>2, MishapsGrow DEF Remembered
<1>4. ~StoredAtDeadHome(a) BY <1>3 DEF ListInv
<1>5. CASE /\ UNCHANGED store
           /\ \/ \A b \in Account : KeepsHomes(b)
              \/ \E h \in Home, b \in Account : HandsOver(h, b)
  <2>1. owner[store[a].home] # NoAccount BY <1>2, <1>4, <1>5 DEF StoredAtDeadHome
  <2>2. owner[store[a].home] \in Account BY <1>1, <1>2, <1>5, <2>1 DEF HomesOK
  <2>3. CASE \A b \in Account : KeepsHomes(b)
    BY <1>2, <1>5, <2>2, <2>3, AccountsAssumption DEF KeepsHomes
  <2>4. ASSUME NEW h \in Home, NEW b \in Account, HandsOver(h, b)
        PROVE  owner'[store[a].home] # NoAccount
    <3>1. \A g \in Home : owner'[g] = IF g = h THEN b ELSE owner[g]
      BY <1>1, <2>4 DEF HandsOver, HomesOK
    <3> QED BY <1>2, <1>5, <2>1, <3>1, AccountsAssumption
  <2> QED BY <1>5, <2>3, <2>4
<1>6. ASSUME NEW list \in List, Persist(list), \A b \in Account : Edited(list[b], b)
      PROVE  owner'[store'[a].home] # NoAccount
  <2>1. ids \in [Account -> 0..MaxId] BY <1>1 DEF AccountsOK, StoredOK
  <2>2. store'[a].home = list[a].home /\ list[a].home \in Home
    BY <1>2, <1>6, <2>1, PersistKeeps DEF Edited
  <2>3. CASE list[a] = Listed[a] /\ KeepsHomes(a)
    <3>1. Listed[a].home \in HomesOf(a)
      <4>1. CASE HomesOf(a) # {} BY <1>1, <4>1, ListedCases
      <4>2. CASE HomesOf(a) = {}
        <5>1. Listed[a] = [id |-> store[a].id, home |-> Ambient] \/ Listed[a] = NoRecord
          BY <1>1, <1>4, <4>2, ListedCases
        <5> QED BY <2>2, <2>3, <5>1, AccountsAssumption DEF NoRecord
      <4> QED BY <4>1, <4>2
    <3> QED BY <2>2, <2>3, <3>1, AccountsAssumption DEF KeepsHomes, HomesOf
  <2>4. list[a] # NoRecord BY <2>2, AccountsAssumption DEF NoRecord
  <2> QED BY <1>6, <2>2, <2>3, <2>4 DEF Edited
<1> QED BY <1>2, <1>5, <1>6, ListSteps DEF EditStep

\* Every account that has credentials is listed at a home that holds them, so
\* that it can be fetched and switched to, whatever homes changed hands outside the
\* app, unless a removal failed or a command or fetch wrote back the account list
\* it had loaded before another change.
THEOREM AccountIsListedAtItsHome == Spec => []ListedAtItsHome
<1>1. Init => ResultKept /\ ListInv
  BY AccountsAssumption DEF Init, ResultKept, NoCommand, ListInv, StoredAtDeadHome, NoList, NoRecord
<1>2. TypeInv /\ ResultKept /\ ListInv /\ [Next]_vars => (ResultKept /\ ListInv)'
  BY ResultKeptStep, ListStep
<1>3. TypeInv /\ ListInv => ListedAtItsHome
  <2> SUFFICES ASSUME TypeInv, ListInv, {"partly_removed", "overwritten"} \cap mishaps = {},
                      NEW a \in Account
               PROVE  IF HomesOf(a) # {} \/ ambient = a
                      THEN Listed[a].home # NoHome /\ HeldAt(Listed[a].home) = a
                      ELSE Listed[a] = NoRecord
    BY DEF ListedAtItsHome
  <2>1. AccountsOK /\ ~StoredAtDeadHome(a) BY DEF TypeInv, ListInv
  <2>2. CASE HomesOf(a) # {}
    <3>1. Listed[a].home \in HomesOf(a) BY <2>1, <2>2, ListedCases
    <3> QED BY <2>2, <3>1, AccountsAssumption DEF HomesOf, HeldAt
  <2>3. CASE HomesOf(a) = {} /\ ambient = a
    <3>1. Listed[a] = [id |-> store[a].id, home |-> Ambient] BY <2>1, <2>3, ListedCases
    <3> QED BY <2>3, <3>1, AccountsAssumption DEF HeldAt
  <2>4. CASE HomesOf(a) = {} /\ ambient # a BY <2>1, <2>4, ListedCases
  <2> QED BY <2>2, <2>3, <2>4
<1> QED BY <1>1, <1>2, <1>3, AlwaysTypeInv, PTL DEF Spec


(***************************************************************************)
(* A kept quota is its account's                                           *)
(***************************************************************************)

\* The ambient home is not where the account is listed under that uuid.
Moved(a, id) == store[a].id # id \/ HomesOf(a) # {}

\* What a fetch will read for an account, or has read, is its usage or will not be
\* kept, unless a login crosses the fetch.
Filed(r) ==
    \/ r.crossed
    \/ /\ r.at = "routed" =>
             \/ r.route = r.record.home
             \/ /\ r.record.home \in Home /\ r.route = Ambient
                /\ ambient = r.account \/ owner[r.record.home] # r.account
       /\ r.at = "read" =>
             \/ r.usage = r.account
             \/ /\ r.record.home = Ambient
                /\ r.record.id = Fresh \/ ambient # r.account \/ Moved(r.account, r.record.id)
             \/ r.record.home \in Home /\ owner[r.record.home] # r.account

ReadInv ==
    \/ {"partly_removed", "overwritten"} \cap mishaps # {}
    \/ \A f \in Fetch : Filed(fetch[f])

\* The ambient home changes hands by a switch or a login.
SignsIn(a) ==
    /\ a # ambient /\ ambient' = a
    /\ fetch' \in {CrossedBy(Ambient, a), Outdated(CrossedBy(Ambient, a))}

LEMMA AmbientSteps ==
    ASSUME TypeInv, [Next]_vars
    PROVE  UNCHANGED ambient \/ Replace \/ \E a \in Account : SignsIn(a)
<1> USE DEF accounts
<1>1. CASE UNCHANGED vars BY <1>1 DEF vars
<1>2. ASSUME NEW f \in Fetch, FetchStep(f) PROVE UNCHANGED ambient
  BY <1>2 DEF FetchStep, StartFetch, Route, ReadUsage, FailFetch, SaveLane, SaveAsked, PersistLoaded
<1>3. CASE SwitchStep
  BY <1>3 DEF SwitchStep, KeepActive, FailSwitch, Remember, EndSwitch
<1>4. CASE RestartDesktop BY <1>4 DEF RestartDesktop
<1>5. ASSUME NEW done \in SUBSET Entry, FailRestart(done) PROVE UNCHANGED ambient
  BY <1>5 DEF FailRestart
<1>6. CASE RemovalStep BY <1>6 DEF RemovalStep, RefuseRemoval, RemoveAccount, FailToRemove
<1>7. ASSUME NEW a \in Account, AddAccount(a) \/ BeginRemove(a) \/ BeginSwitch(a)
      PROVE  UNCHANGED ambient
  BY <1>7 DEF AddAccount, BeginRemove, BeginSwitch
<1>8. ASSUME NEW a \in Account, Reauthenticate(a) PROVE UNCHANGED ambient \/ SignsIn(a)
  <2>1. ambient' = a /\ fetch' = Outdated(CrossedBy(Ambient, a)) BY <1>8 DEF Reauthenticate
  <2> QED BY <2>1 DEF SignsIn
<1>9. ASSUME NEW a \in Account, NEW place \in Place, CodexLogIn(place, a)
      PROVE  UNCHANGED ambient \/ SignsIn(a)
  <2>1. CASE place = Ambient
    <3>1. ambient' = a /\ fetch' = CrossedBy(Ambient, a) BY <1>9, <2>1 DEF CodexLogIn
    <3> QED BY <3>1 DEF SignsIn
  <2>2. CASE place # Ambient BY <1>9, <2>2 DEF CodexLogIn
  <2> QED BY <2>1, <2>2
<1> QED BY <1>1, <1>2, <1>3, <1>4, <1>5, <1>6, <1>7, <1>8, <1>9 DEF Next

\* A home that was made comes back to an account by a login only.
LEMMA HomeReturns ==
    ASSUME TypeInv, [Next]_vars, NEW h \in Home, NEW a \in Account,
           h <= made, owner[h] # a, owner'[h] = a
    PROVE  HandsOver(h, a)
<1>1. HomesOK BY DEF TypeInv, AccountsOK
<1>2. ASSUME NEW b \in Account, NewHome(b), UNCHANGED resigned PROVE FALSE
  <2>1. h # made' BY <1>1, <1>2, NewHomeKeeps DEF HomesOK, Home
  <2> QED BY <1>1, <1>2, <2>1, NewHomeKeeps
<1>3. ~RemoveAccount /\ \A g \in Home : ~FailToRemove(g)
  BY AccountsAssumption DEF RemoveAccount, FailToRemove, DeleteHomes
<1>4. ASSUME NEW g \in Home, NEW b \in Account, HandsOver(g, b) PROVE g = h /\ b = a
  BY <1>1, <1>4 DEF HandsOver, HomesOK
<1> QED BY <1>2, <1>3, <1>4, OwnerSteps

LEMMA MovedStep ==
    ASSUME TypeInv, ResultKept, [Next]_vars, {"partly_removed", "overwritten"} \cap mishaps' = {},
           NEW a \in Account, NEW id \in 1..MaxId, id <= ids[a], Moved(a, id)
    PROVE  Moved(a, id)' \/ \E h \in Home, b \in Account : HandsOver(h, b) /\ owner[h] = a
<1>1. AccountsOK /\ HomesOK BY DEF TypeInv, AccountsOK
<1>2. SUFFICES ASSUME \A h \in Home, b \in Account : HandsOver(h, b) => owner[h] # a
               PROVE  store'[a].id # id \/ \E h \in Home : owner'[h] = a
  BY DEF Moved, HomesOf
<1>3. CASE UNCHANGED store /\ KeepsHomes(a) BY <1>3 DEF Moved, HomesOf, KeepsHomes
<1>4. ASSUME UNCHANGED store, NEW h \in Home, NEW b \in Account, HandsOver(h, b)
      PROVE  KeepsHomes(a)
  <2>1. \A g \in Home : owner'[g] = IF g = h THEN b ELSE owner[g] BY <1>1, <1>4 DEF HandsOver, HomesOK
  <2> QED BY <1>2, <1>4, <2>1 DEF KeepsHomes
<1>5. ASSUME NEW list \in List, Persist(list), \A b \in Account : Edited(list[b], b)
      PROVE  store'[a].id # id \/ \E h \in Home : owner'[h] = a
  <2>1. ids \in [Account -> 0..MaxId] BY <1>1 DEF AccountsOK, StoredOK
  <2>2. /\ store'[a].id = list[a].id \/ store'[a].id > ids[a]
        /\ list[a] = NoRecord => store'[a] = NoRecord
    BY <1>5, <2>1, PersistKeeps DEF Edited
  <2>3. CASE list[a] = NoRecord
    <3>1. store'[a].id = 0 BY <2>2, <2>3 DEF NoRecord
    <3> QED BY <3>1
  <2>4. CASE list[a] # NoRecord
    <3>1. KeepsHomes(a) /\ list[a].id \in {store[a].id, 0} BY <1>1, <1>5, <2>4, ListedTyped DEF Edited
    <3>2. CASE HomesOf(a) # {} BY <3>1, <3>2 DEF HomesOf, KeepsHomes
    <3>3. CASE store[a].id # id
      <4>1. list[a].id # id /\ ids[a] \in Nat BY <2>1, <3>1, <3>3
      <4> QED BY <2>2, <4>1
    <3> QED BY <3>2, <3>3 DEF Moved
  <2> QED BY <2>3, <2>4
<1> QED BY <1>3, <1>4, <1>5, ListSteps DEF EditStep

\* What a fetch holds, but for the mark of a login.
Holds(f) ==
    /\ fetch'[f].at = fetch[f].at /\ fetch'[f].account = fetch[f].account
    /\ fetch'[f].record = fetch[f].record /\ fetch'[f].route = fetch[f].route
    /\ fetch'[f].usage = fetch[f].usage
    /\ fetch[f].crossed => fetch'[f].crossed

\* A fetch that is routed or has read has just come there, or holds what it held.
LEMMA ReadSteps ==
    ASSUME TypeInv, [Next]_vars, NEW f \in Fetch, fetch'[f].at \in {"routed", "read"}
    PROVE  Route(f) \/ ReadUsage(f) \/ Holds(f)
<1>1. FetchesOK /\ fetch \in [Fetch -> FetchShape] BY DEF TypeInv, FetchesOK
<1>2. CASE UNCHANGED fetch BY <1>2 DEF Holds
<1>3. CASE Marked BY <1>1, <1>3, MarkedKeeps DEF Holds
<1>4. NoFetch.at = "idle" BY DEF NoFetch
<1>5. ASSUME NEW g \in Fetch, NEW r, fetch' = [fetch EXCEPT ![g] = r], r.at \notin {"routed", "read"}
      PROVE  fetch'[f] = fetch[f]
  BY <1>1, <1>5
<1>6. ASSUME NEW g \in Fetch, NEW a \in Account, NEW kind \in {"lane", "asked"}, StartFetch(g, a, kind)
      PROVE  fetch'[f] = fetch[f]
  <2> DEFINE r == [NoFetch EXCEPT !.at = "started", !.kind = kind, !.account = a, !.record = Listed[a]]
  <2>1. fetch' = [fetch EXCEPT ![g] = r] BY <1>6 DEF StartFetch
  <2>2. r.at = "started" BY DEF NoFetch
  <2> HIDE DEF r
  <2> QED BY <1>5, <2>1, <2>2
<1>7. ASSUME NEW g \in Fetch, SaveAsked(g) PROVE fetch'[f] = fetch[f]
  <2> DEFINE r == [NoFetch EXCEPT !.at = "saved", !.list = Listed]
  <2>1. fetch' = [fetch EXCEPT ![g] = r] BY <1>7 DEF SaveAsked
  <2>2. r.at = "saved" BY DEF NoFetch
  <2> HIDE DEF r
  <2> QED BY <1>5, <2>1, <2>2
<1>8. ASSUME NEW g \in Fetch, g # f, ReadUsage(g) \/ Route(g) PROVE fetch'[f] = fetch[f]
  BY <1>1, <1>8 DEF ReadUsage, Route
<1>9. ASSUME NEW g \in Fetch, fetch' = [fetch EXCEPT ![g] = NoFetch] PROVE fetch'[f] = fetch[f]
  BY <1>4, <1>5, <1>9
<1>10. fetch'[f] = fetch[f] => Holds(f) BY DEF Holds
<1> QED BY <1>2, <1>3, <1>6, <1>7, <1>8, <1>9, <1>10, FetchSteps

LEMMA RouteFiled ==
    ASSUME TypeInv, NEW f \in Fetch, Route(f)
    PROVE  Filed(fetch[f])'
<1> DEFINE h == fetch[f].record.home
           to == IF HeldAt(h) = ambient THEN Ambient ELSE h
<1>1. /\ fetch[f] \in FetchShape /\ fetch[f].at = "started" /\ h \in Place
  BY DEF Route, TypeInv, FetchesOK, FetchOK, Record
<1>2. fetch' = [fetch EXCEPT ![f].at = "routed", ![f].route = to] /\ UNCHANGED <<ambient, owner>>
  BY DEF Route, accounts
<1>3. to = h \/ (h \in Home /\ to = Ambient /\ owner[h] = ambient) BY <1>1 DEF HeldAt
<1> HIDE DEF to
<1>4. fetch'[f] = [fetch[f] EXCEPT !.at = "routed", !.route = to]
  BY <1>2 DEF TypeInv, FetchesOK
<1>5. /\ fetch'[f].at = "routed" /\ fetch'[f].route = to /\ fetch'[f].record.home = h
      /\ fetch'[f].account = fetch[f].account
  BY <1>1, <1>4 DEF FetchShape
<1> HIDE DEF h
<1> QED BY <1>2, <1>3, <1>5 DEF Filed

LEMMA ReadFiled ==
    ASSUME TypeInv, NEW f \in Fetch, ReadUsage(f), Filed(fetch[f])
    PROVE  Filed(fetch[f])'
<1> DEFINE r == fetch[f]
           used == HeldAt(r.route)
           c == r.crossed /\ used # r.account
<1>1. r \in FetchShape /\ r.at = "routed" /\ r.record.home \in Place /\ r.route \in Place
  BY DEF ReadUsage, TypeInv, FetchesOK, FetchOK, Record
<1>2. /\ fetch' = [fetch EXCEPT ![f].at = "read", ![f].route = NoHome, ![f].usage = used,
                                ![f].crossed = @ /\ used # r.account]
      /\ UNCHANGED <<ambient, owner>>
  BY DEF ReadUsage, accounts
<1>3. fetch'[f] = [r EXCEPT !.at = "read", !.route = NoHome, !.usage = used, !.crossed = c]
  BY <1>2 DEF TypeInv, FetchesOK
<1>4. CASE used = r.account
  <2> HIDE DEF used, c
  <2>1. fetch'[f].usage = used /\ fetch'[f].account = r.account /\ fetch'[f].at = "read"
    BY <1>1, <1>3 DEF FetchShape
  <2> HIDE DEF r
  <2> QED BY <1>4, <2>1 DEF Filed
<1>5. CASE used # r.account /\ r.crossed
  <2>1. c = TRUE BY <1>5
  <2> HIDE DEF used, c
  <2>2. fetch'[f].crossed BY <1>1, <1>3, <2>1 DEF FetchShape
  <2> QED BY <2>2 DEF Filed
<1>6. CASE used # r.account /\ ~r.crossed
  <2>1. \/ r.record.home = Ambient /\ ambient # r.account
        \/ r.record.home \in Home /\ owner[r.record.home] # r.account
    <3>1. \/ r.route = r.record.home
          \/ /\ r.record.home \in Home /\ r.route = Ambient
             /\ ambient = r.account \/ owner[r.record.home] # r.account
      BY <1>1, <1>6 DEF Filed
    <3> QED BY <1>1, <1>6, <3>1, AccountsAssumption DEF HeldAt
  <2> HIDE DEF used, c
  <2>2. /\ fetch'[f].at = "read" /\ fetch'[f].account = r.account /\ fetch'[f].record = r.record
    BY <1>1, <1>3 DEF FetchShape
  <2> HIDE DEF r
  <2> QED BY <1>2, <2>1, <2>2 DEF Filed
<1> QED BY <1>4, <1>5, <1>6

\* A login that would turn what a fetch holds into a mistake marks it.
LEMMA HeldFiled ==
    ASSUME TypeInv, ResultKept, [Next]_vars, NEW f \in Fetch, Filed(fetch[f]), Holds(f),
           {"partly_removed", "overwritten"} \cap mishaps' = {}
    PROVE  Filed(fetch[f])'
<1> DEFINE a == fetch[f].account
           h == fetch[f].record.home
           id == fetch[f].record.id
<1>1. HomesOK /\ FetchesOK /\ fetch[f] \in FetchShape BY DEF TypeInv, AccountsOK, FetchesOK
<1>2. CASE fetch'[f].crossed BY <1>2 DEF Filed
<1>3. CASE fetch[f].at \notin {"routed", "read"} BY <1>3 DEF Holds, Filed
<1>4. CASE ~fetch'[f].crossed /\ fetch[f].at \in {"routed", "read"}
  <2>1. /\ a \in Account /\ h \in Place /\ id \in 0..MaxId /\ id <= ids[a]
        /\ h \in Home => h <= made /\ (owner[h] \in {a, NoAccount} \/ h \in resigned)
    BY <1>1, <1>4 DEF FetchesOK, FetchOK, Record, Belongs
  <2>2. ~fetch[f].crossed BY <1>4 DEF Holds
  <2>3. \A place \in Place, b \in Account :
           fetch' \in {CrossedBy(place, b), Outdated(CrossedBy(place, b))} => ~Crosses(f, place, b)
    BY <1>1, <1>4, CrossedMarks
  <2>4. ASSUME NEW b \in Account, SignsIn(b) PROVE ~Crosses(f, Ambient, b)
    BY <2>3, <2>4 DEF SignsIn
  <2>5. ASSUME NEW g \in Home, NEW b \in Account, HandsOver(g, b)
        PROVE  ~Crosses(f, g, b) /\ owner[g] # b
    BY <2>3, <2>5 DEF HandsOver
  <2>6. CASE fetch[f].at = "routed"
    <3>1. CASE fetch[f].route = h BY <2>6, <3>1 DEF Holds, Filed
    <3>2. CASE h \in Home /\ fetch[f].route = Ambient /\ ambient = a
      <4>1. ~Replace BY <2>6 DEF Replace, CredentialsFree
      <4>2. ASSUME NEW b \in Account, SignsIn(b) PROVE FALSE
        <5>1. Crosses(f, Ambient, b)
          BY <2>6, <3>2, <4>2, AccountsAssumption DEF Crosses, HeldAt, SignsIn
        <5> QED BY <2>4, <4>2, <5>1
      <4>3. ambient' = ambient BY <4>1, <4>2, AmbientSteps
      <4> QED BY <2>6, <3>2, <4>3 DEF Holds, Filed
    <3>3. CASE h \in Home /\ fetch[f].route = Ambient /\ owner[h] # a
      <4>1. ASSUME owner'[h] = a PROVE FALSE
        <5>1. HandsOver(h, a) BY <2>1, <3>3, <4>1, HomeReturns
        <5>2. Crosses(f, h, a)
          BY <2>6, <3>3, AccountsAssumption DEF Crosses, HeldAt
        <5> QED BY <2>1, <2>5, <3>3, <5>1, <5>2
      <4> QED BY <2>6, <3>3, <4>1 DEF Holds, Filed
    <3> QED BY <2>2, <2>6, <3>1, <3>2, <3>3 DEF Filed
  <2>7. CASE fetch[f].at = "read"
    <3>1. CASE fetch[f].usage = a BY <2>7, <3>1 DEF Holds, Filed
    <3>2. CASE fetch[f].usage # a /\ h \in Home /\ owner[h] # a
      <4>1. ASSUME owner'[h] = a PROVE FALSE
        <5>1. HandsOver(h, a) BY <2>1, <3>2, <4>1, HomeReturns
        <5>2. Crosses(f, h, a)
          BY <2>7, <3>2, AccountsAssumption DEF Crosses, HeldAt
        <5> QED BY <2>1, <2>5, <3>2, <5>1, <5>2
      <4> QED BY <2>7, <3>2, <4>1 DEF Holds, Filed
    <3>3. CASE h = Ambient /\ id = 0 BY <2>7, <3>3 DEF Holds, Filed
    <3>4. CASE fetch[f].usage # a /\ h = Ambient /\ ambient # a
      <4>1. CASE ambient' # a BY <2>7, <3>4, <4>1 DEF Holds, Filed
      <4>2. CASE ambient' = a
        <5>1. ASSUME NEW b \in Account, SignsIn(b) PROVE FALSE
          <6>1. b = a BY <4>2, <5>1 DEF SignsIn
          <6>2. Crosses(f, Ambient, b)
            BY <2>7, <3>4, <6>1 DEF Crosses, HeldAt
          <6> QED BY <2>4, <5>1, <6>2
        <5>2. Replace BY <3>4, <4>2, <5>1, AmbientSteps
        <5>3. /\ ambient' = owner[command.home] /\ command.home \in Home
              /\ owner[command.home] # NoAccount /\ UNCHANGED resigned
              /\ NewHome(ambient) /\ ambient \in Account
          BY <1>1, <5>2 DEF Replace, HomesOK
        <5>4. owner'[command.home] = a BY <1>1, <4>2, <5>3, NewHomeIsOwned
        <5>5. Moved(a, id)' BY <2>7, <5>3, <5>4 DEF Moved, HomesOf, Holds
        <5> QED BY <2>7, <3>4, <5>5 DEF Holds, Filed
      <4> QED BY <4>1, <4>2
    <3>5. CASE fetch[f].usage # a /\ h = Ambient /\ id # 0 /\ Moved(a, id)
      <4>1. id \in 1..MaxId BY <2>1, <3>5, AccountsAssumption
      <4>2. ASSUME NEW g \in Home, NEW b \in Account, HandsOver(g, b), owner[g] = a PROVE FALSE
        <5>1. Crosses(f, g, b)
          BY <2>5, <2>7, <3>5, <4>2, AccountsAssumption DEF Crosses, HeldAt
        <5> QED BY <2>5, <4>2, <5>1
      <4> DEFINE x == a
                 i == id
      <4>3. x \in Account /\ i \in 1..MaxId /\ i <= ids[x] /\ Moved(x, i) BY <2>1, <3>5, <4>1
      <4> HIDE DEF a, id
      <4>4. \E y \in Account, j \in 1..MaxId : y = a /\ j = id /\ Moved(y, j)'
        BY <4>2, <4>3, MovedStep
      <4> QED BY <2>7, <3>5, <4>4 DEF Holds, Filed, a, id
    <3> QED BY <2>2, <2>7, <3>1, <3>2, <3>3, <3>4, <3>5 DEF Filed
  <2> QED BY <1>4, <2>6, <2>7
<1> QED BY <1>2, <1>3, <1>4

LEMMA ReadInvStep ==
    ASSUME TypeInv, ResultKept, ReadInv, [Next]_vars
    PROVE  ReadInv'
<1> SUFFICES ASSUME {"partly_removed", "overwritten"} \cap mishaps' = {}, NEW f \in Fetch
             PROVE  Filed(fetch[f])'
  BY DEF ReadInv
<1>1. Filed(fetch[f]) BY MishapsGrow DEF Remembered, ReadInv
<1>2. CASE fetch'[f].at \notin {"routed", "read"} BY <1>2 DEF Filed
<1>3. CASE fetch'[f].at \in {"routed", "read"}
  BY <1>1, <1>3, ReadSteps, RouteFiled, ReadFiled, HeldFiled
<1> QED BY <1>2, <1>3

LEMMA CurrentIsOwned ==
    ASSUME TypeInv, NEW f \in Fetch, fetch[f].at = "read", ~fetch[f].crossed,
           Filed(fetch[f]), \A a \in Account : ~StoredAtDeadHome(a), IsCurrent(f)
    PROVE  fetch[f].usage = fetch[f].account
<1> DEFINE a == fetch[f].account
           r == fetch[f].record
<1>1. AccountsOK /\ a \in Account BY DEF TypeInv, FetchesOK, FetchOK
<1>2. Listed[a] = r /\ r.id # 0 BY DEF IsCurrent
<1>3. SUFFICES ASSUME fetch[f].usage # a PROVE FALSE OBVIOUS
<1>4. \/ r.home = Ambient /\ (ambient # a \/ Moved(a, r.id))
      \/ r.home \in Home /\ owner[r.home] # a
  BY <1>2, <1>3 DEF Filed
<1> HIDE DEF a, r
<1>5. CASE HomesOf(a) # {}
  <2>1. r.home \in Home /\ owner[r.home] = a BY <1>1, <1>2, <1>5, ListedCases DEF HomesOf
  <2> QED BY <1>4, <2>1, AccountsAssumption
<1>6. CASE HomesOf(a) = {} /\ ambient = a
  <2>1. r = [id |-> store[a].id, home |-> Ambient] BY <1>1, <1>2, <1>6, ListedCases
  <2>2. r.home = Ambient /\ r.id = store[a].id BY <2>1
  <2> QED BY <1>4, <1>6, <2>2, AccountsAssumption DEF Moved
<1>7. CASE HomesOf(a) = {} /\ ambient # a
  <2>1. Listed[a] = NoRecord BY <1>1, <1>7, ListedCases
  <2> QED BY <1>2, <2>1 DEF NoRecord
<1> QED BY <1>5, <1>6, <1>7

LEMMA SnapshotStep ==
    ASSUME TypeInv, [Next]_vars, ReadInv, ListInv, SnapshotOwned,
           {"partly_removed", "overwritten"} \cap mishaps' = {}, NEW s \in snapshots'
    PROVE  s.usage = s.account \/ s.crossed
<1>1. {"partly_removed", "overwritten"} \cap mishaps = {} BY MishapsGrow DEF Remembered
<1>2. CASE s \in snapshots BY <1>1, <1>2 DEF SnapshotOwned
<1>3. ASSUME NEW f \in Fetch, fetch[f].at = "read", NEW into \in SUBSET snapshots,
             snapshots' = Inserted(f, into), s \notin snapshots
      PROVE  s.usage = s.account \/ s.crossed
  <2>1. IsCurrent(f) /\ s = Snapshot(f) BY <1>3 DEF Inserted
  <2>2. fetch[f].crossed \/ fetch[f].usage = fetch[f].account
    BY <1>1, <1>3, <2>1, CurrentIsOwned DEF ReadInv, ListInv
  <2> QED BY <2>1, <2>2 DEF Snapshot
<1>4. ASSUME NEW f \in Fetch, SaveLane(f), s \notin snapshots PROVE s.usage = s.account \/ s.crossed
  <2>1. {t \in snapshots : Listed[t.account].id = t.id} \in SUBSET snapshots OBVIOUS
  <2> QED BY <1>3, <1>4, <2>1 DEF SaveLane
<1>5. ASSUME NEW f \in Fetch, SaveAsked(f), s \notin snapshots PROVE s.usage = s.account \/ s.crossed
  BY <1>3, <1>5 DEF SaveAsked
<1> QED BY <1>2, <1>4, <1>5, SnapshotSteps

\* The quota kept for an account is its own, whatever switches, removals and logins
\* overtake its fetch, but for a fetch that a login crosses: that falls between the
\* choice of the home and the reading and decides whose usage is read, or brings
\* the account to a home or takes it from one after the reading.  And but for
\* records that are listed again after a removal failed or a stale list was
\* written back.
THEOREM KeptQuotaIsItsAccounts == Spec => []SnapshotOwned
<1>1. Init => ResultKept /\ ListInv /\ ReadInv /\ SnapshotOwned
  BY AccountsAssumption
  DEF Init, ResultKept, NoCommand, ListInv, StoredAtDeadHome, NoList, NoRecord,
      ReadInv, Filed, NoFetch, SnapshotOwned
<1>2. TypeInv /\ ResultKept /\ ListInv /\ ReadInv /\ SnapshotOwned /\ [Next]_vars
        => (ResultKept /\ ListInv /\ ReadInv /\ SnapshotOwned)'
  <2> SUFFICES ASSUME TypeInv, ResultKept, ListInv, ReadInv, SnapshotOwned, [Next]_vars
               PROVE  (ResultKept /\ ListInv /\ ReadInv /\ SnapshotOwned)'
    OBVIOUS
  <2>1. SnapshotOwned' BY SnapshotStep DEF SnapshotOwned
  <2> QED BY <2>1, ResultKeptStep, ListStep, ReadInvStep
<1> QED BY <1>1, <1>2, AlwaysTypeInv, PTL DEF Spec
=============================================================================
