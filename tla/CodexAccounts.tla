---------------------------- MODULE CodexAccounts ----------------------------
(***************************************************************************)
(* The Codex accounts of the settings panel: adding, signing in, switching,  *)
(* removing and refreshing them.  commands/codex_accounts.rs of the shell,   *)
(* with the account manager, the switch runtime, the two stores and the      *)
(* restart script of rust/src/codex_accounts.                                *)
(*                                                                         *)
(* ACCOUNT_MUTATION admits one changing command at a time.  The quota lanes  *)
(* of a refresh and codex_account_fetch run beside it, and the latter saves   *)
(* the account list it has loaded.  Credentials are reduced to whose they     *)
(* are (CredentialLanes has their tokens); a uuid is the account it was made  *)
(* for and a number.                                                         *)
(***************************************************************************)
EXTENDS Integers

CONSTANTS
    Account,    \* identities, as CodexAccount::matches tells them apart
    NoAccount,
    Ambient,    \* ~/.codex
    NoHome,
    Fetch,      \* fetches in flight
    Entry,      \* DESKTOP_SESSION_STATE_ENTRIES
    MaxHome,    \* bound: homes made under managed-homes/
    Name,       \* the uuid that names each of them
    MaxId,      \* bound: uuids of an account that were persisted
    MaxLogin,   \* bound: times a home changes hands by a login
    Failures    \* bound: restart scripts that fail half-way

Home == 1..MaxHome     \* in the order in which they are made
Place == Home \cup {Ambient}

ASSUME AccountsAssumption ==
    /\ NoAccount \notin Account
    /\ Ambient \notin Home /\ NoHome \notin Place
    /\ Name \in [Home -> Nat] /\ \A g, h \in Home : Name[g] = Name[h] => g = h
    /\ MaxHome \in Nat \ {0} /\ MaxId \in Nat \ {0}
    /\ MaxLogin \in Nat /\ Failures \in Nat

VARIABLES
    ambient,    \* whose auth.json is in the ambient home
    owner,      \* whose is in each managed home
    resigned,   \* history: the managed homes somebody else signed in at, outside the app
    made,       \* number of managed homes made so far
    saved,      \* desktop-session directory of each managed home, by entry
    live,       \* the session directory of Codex Desktop, by entry
    store,      \* accounts.json
    ids,        \* uuids persisted so far, by account
    snapshots,  \* the snapshot store
    pending,    \* PENDING_RESTART
    command,    \* the holder of ACCOUNT_MUTATION: a switch in progress
    fetch,      \* the fetches
    logins, failures,
    mishaps     \* history: what the properties make an exception for

accounts == <<ambient, owner, resigned, made, store, ids>>
sessions == <<saved, live, pending, failures>>
vars == <<accounts, sessions, snapshots, command, fetch, logins, mishaps>>

Fresh == 0   \* a uuid that no one else has
NoRecord == [id |-> Fresh, home |-> NoHome]
Record == [id : 0..MaxId, home : Place]
NoPending == [account |-> NoAccount, out |-> NoAccount, backup |-> NoHome,
              restore |-> NoHome, tried |-> FALSE]
NoList == [a \in Account |-> NoRecord]
NoCommand == [at |-> "idle", account |-> NoAccount, home |-> NoHome,
              result |-> NoPending, list |-> NoList]

\* crossed is history: a login between the steps of the fetch decides whose usage
\* it reads, or whether it passes for current (Crosses).
NoFetch == [at |-> "idle", kind |-> "asked", account |-> NoAccount, record |-> NoRecord,
            route |-> NoHome, usage |-> NoAccount, crossed |-> FALSE, current |-> TRUE,
            list |-> NoList]

\* A first start: Codex is signed in, the app has no account yet.
Init ==
    /\ ambient \in Account
    /\ owner = [h \in Home |-> NoAccount]
    /\ resigned = {}
    /\ made = 0
    /\ saved = [h \in Home |-> [e \in Entry |-> NoAccount]]
    /\ live = [e \in Entry |-> ambient]
    /\ store = NoList
    /\ ids = [a \in Account |-> 0]
    /\ snapshots = {}
    /\ pending = NoPending
    /\ command = NoCommand
    /\ fetch = [f \in Fetch |-> NoFetch]
    /\ logins = 0 /\ failures = 0
    /\ mishaps = {}
-----------------------------------------------------------------------------
(* The account list *)

HomesOf(a) == {h \in Home : owner[h] = a}

\* The directories are read in the order of their names.
FirstOf(homes) == CHOOSE h \in homes : \A g \in homes : Name[h] <= Name[g]

\* Mutant: a record of the ambient home outlives the login it was made for.
ListedKeepsAmbient ==
    [a \in Account |->
        CASE HomesOf(a) # {} -> [id |-> store[a].id, home |-> FirstOf(HomesOf(a))]
          [] HomesOf(a) = {} /\ store[a] # NoRecord -> store[a]
          [] HomesOf(a) = {} /\ store[a] = NoRecord /\ ambient = a -> [id |-> Fresh, home |-> Ambient]
          [] OTHER -> NoRecord]

\* The managed home a is stored at has no credentials, of a or of anybody.
StoredAtDeadHome(a) == store[a].home \in Home /\ owner[store[a].home] = NoAccount

\* load_codex_accounts: the first managed home of an account represents it; a
\* stored managed record is kept when its home is gone, but not when somebody else
\* has signed in there; the ambient account is listed as such only when it is not
\* managed.  What is not stored gets a uuid of its own every time.
Listed ==
    [a \in Account |->
        CASE HomesOf(a) # {} -> [id |-> store[a].id, home |-> FirstOf(HomesOf(a))]
          [] HomesOf(a) = {} /\ StoredAtDeadHome(a) -> store[a]
          [] HomesOf(a) = {} /\ ~StoredAtDeadHome(a) /\ ambient = a ->
                [id |-> store[a].id, home |-> Ambient]
          [] OTHER -> NoRecord]

\* persist_codex_accounts.
Persist(list) ==
    LET new == {a \in Account : list[a] # NoRecord /\ list[a].id = Fresh}
    IN /\ \A a \in new : ids[a] < MaxId
       /\ ids' = [a \in Account |-> IF a \in new THEN ids[a] + 1 ELSE ids[a]]
       /\ store' = [a \in Account |-> IF a \in new THEN [list[a] EXCEPT !.id = ids[a] + 1] ELSE list[a]]

\* A new directory under managed-homes/, named by a uuid, with a's auth.json.
NewHome(a) ==
    /\ made < MaxHome
    /\ made' = made + 1
    /\ owner' = [owner EXCEPT ![made + 1] = a]

\* invalidate_account_usage: the generation the lanes were started in is over.
Outdated(fetches) == [f \in Fetch |-> [fetches[f] EXCEPT !.current = @ /\ fetches[f].kind # "lane"]]
InvalidateLanes == fetch' = Outdated(fetch)

CommandFree == command = NoCommand

\* Whose auth.json a home has.
HeldAt(place) == IF place = Ambient THEN ambient ELSE owner[place]
-----------------------------------------------------------------------------
(* add, reauthenticate, remove *)

\* codex_account_add: the user signs in, as anybody, in a home of its own.
AddAccount(a) ==
    /\ CommandFree
    /\ NewHome(a)
    /\ LET found == [Listed EXCEPT ![a] = [id |-> store[a].id, home |-> FirstOf(HomesOf(a) \cup {made'})]]
       IN Persist(found)
    /\ UNCHANGED <<ambient, resigned, sessions, snapshots, command, fetch, logins, mishaps>>

\* a signs in at a place of another account while a fetch is out: it waits to read
\* another home than that of its record, at that place or with its account coming
\* to its record's home, or it has read the usage of another account and its own
\* comes or goes.
Crosses(f, place, a) ==
    LET r == fetch[f]
    IN /\ a # HeldAt(place)
       /\ \/ /\ r.at = "routed" /\ r.route # r.record.home
             /\ place = r.route \/ a = r.account
          \/ /\ r.at = "read" /\ r.usage # r.account
             /\ r.account \in {a, HeldAt(place)}

CrossedBy(place, a) ==
    [f \in Fetch |-> [fetch[f] EXCEPT !.crossed = @ \/ Crosses(f, place, a)]]

\* CREDENTIAL_OPERATIONS is free for writing: every fetch reads under it, from the
\* choice of the home to the answer.
CredentialsFree == \A f \in Fetch : fetch[f].at # "routed"

CountLogin(place, a) ==
    IF a = HeldAt(place) THEN UNCHANGED logins
    ELSE logins < MaxLogin /\ logins' = logins + 1

\* codex_account_reauthenticate: only an account listed at the ambient home can
\* sign in again; the user may sign in as another one.
Reauthenticate(a) ==
    /\ CommandFree /\ CredentialsFree
    /\ Listed[ambient].home = Ambient
    /\ ambient' = a /\ CountLogin(Ambient, a)
    /\ LET list == [b \in Account |->
                IF b = a /\ Listed[b] = NoRecord THEN [id |-> store[b].id, home |-> Ambient]
                ELSE IF b # a /\ Listed[b].home = Ambient THEN NoRecord ELSE Listed[b]]
       IN Persist(list)
    /\ fetch' = Outdated(CrossedBy(Ambient, a))
    /\ UNCHANGED <<owner, resigned, made, sessions, snapshots, command, mishaps>>

\* Mutant: the removal leaves the pending restart alone.
RevokeNothing(a) == UNCHANGED pending

\* invalidate_restart_for_removed_account
Revoke(a) ==
    pending' = IF \/ a \in {pending.account, pending.out}
                  \/ command.home \in {pending.backup, pending.restore} \ {NoHome}
               THEN NoPending ELSE pending

\* codex_account_remove: the list is loaded, and the account found in it.
BeginRemove(a) ==
    /\ CommandFree
    /\ Listed[a] # NoRecord /\ Listed[a].id # Fresh
    /\ command' = [NoCommand EXCEPT !.at = "removing", !.account = a,
                                    !.home = Listed[a].home, !.list = Listed]
    /\ UNCHANGED <<accounts, sessions, snapshots, fetch, logins, mishaps>>

\* managed_home_paths_matching: somebody else has signed in at its home by now.
Replaced == command.home \in Home /\ owner[command.home] \notin {NoAccount, command.account}

RefuseRemoval ==
    /\ command.at = "removing" /\ Replaced
    /\ command' = NoCommand
    /\ UNCHANGED <<accounts, sessions, snapshots, fetch, logins, mishaps>>

\* What remove_managed_files_if_owned deletes, with the session saved in it.
Removable == IF command.home = Ambient THEN {} ELSE HomesOf(command.account)
DeleteHomes(gone) ==
    /\ owner' = [h \in Home |-> IF h \in gone THEN NoAccount ELSE owner[h]]
    /\ saved' = [h \in Home |-> IF h \in gone THEN [e \in Entry |-> NoAccount] ELSE saved[h]]

\* The managed homes are deleted, then the record: what is persisted is the list
\* loaded at the beginning.
RemoveAccount ==
    LET a == command.account
    IN /\ command.at = "removing" /\ ~Replaced
       /\ DeleteHomes(Removable)
       /\ Revoke(a)
       /\ Persist([command.list EXCEPT ![a] = NoRecord])
       /\ mishaps' = IF command.list # Listed THEN mishaps \cup {"overwritten"} ELSE mishaps
       /\ command' = NoCommand
       /\ UNCHANGED <<ambient, resigned, made, live, failures, snapshots, fetch, logins>>

\* A directory cannot be deleted: what was deleted before it is gone, and the
\* command returns (bound: once).
FailToRemove(h) ==
    /\ command.at = "removing" /\ ~Replaced
    /\ "partly_removed" \notin mishaps /\ h \in Removable
    /\ DeleteHomes({h})
    /\ mishaps' = mishaps \cup {"partly_removed"}
    /\ command' = NoCommand
    /\ UNCHANGED <<ambient, resigned, made, store, ids, live, pending, failures, snapshots,
                   fetch, logins>>
-----------------------------------------------------------------------------
(* switch *)

\* codex_account_switch: the target is looked up by the uuid the user saw.
BeginSwitch(a) ==
    /\ CommandFree
    /\ Listed[a] # NoRecord /\ Listed[a].id # Fresh
    /\ command' = [NoCommand EXCEPT !.at = "chosen", !.account = a, !.home = Listed[a].home]
    /\ UNCHANGED <<accounts, sessions, snapshots, fetch, logins, mishaps>>

\* Mutant: the outgoing session is saved where the incoming one is.
SwitchResultOneHome ==
    [account |-> owner[command.home], out |-> ambient, backup |-> command.home,
     restore |-> command.home, tried |-> FALSE]

\* CodexSwitchResult: what a restart of Codex Desktop will need.
SwitchResult ==
    [account |-> owner[command.home], out |-> ambient, backup |-> made + 1,
     restore |-> command.home, tried |-> FALSE]

\* switch_active_account, under the credential lock: the outgoing account gets a
\* managed home of its own, the target's auth.json becomes the ambient one.
Replace ==
    /\ command.at = "chosen" /\ CredentialsFree
    /\ ambient # command.account
    /\ command.home \in Home /\ owner[command.home] # NoAccount
    /\ NewHome(ambient)
    /\ ambient' = owner[command.home]
    /\ command' = [command EXCEPT !.at = "replaced", !.result = SwitchResult]
    /\ UNCHANGED <<resigned, store, ids, sessions, snapshots, fetch, logins, mishaps>>

\* The target is the active account: nothing to replace, nothing to restore.
KeepActive ==
    /\ command.at = "chosen" /\ ambient = command.account
    /\ HeldAt(command.home) # NoAccount
    /\ command' = [command EXCEPT !.at = "replaced"]
    /\ UNCHANGED <<accounts, sessions, snapshots, fetch, logins, mishaps>>

\* There is no auth.json in the target's home, or a file operation failed (as the
\* copy of the ambient file onto itself does, after a login elsewhere); the
\* outgoing account may have got its managed home by then.
FailSwitch ==
    /\ command.at = "chosen"
    /\ command' = NoCommand
    /\ \/ UNCHANGED <<owner, made>>
       \/ ambient # command.account /\ NewHome(ambient)
    /\ UNCHANGED <<ambient, resigned, store, ids, sessions, snapshots, fetch, logins, mishaps>>

\* remember_restart, then invalidate_account_usage.  A restart that was still
\* pending is forgotten, and with it that the desktop session is not that of the
\* outgoing account.
Remember ==
    /\ command.at = "replaced"
    /\ pending' = command.result
    /\ mishaps' = IF command.result # NoPending /\ \E e \in Entry : live[e] # command.result.out
                  THEN mishaps \cup {"skipped"} ELSE mishaps
    /\ InvalidateLanes
    /\ command' = [command EXCEPT !.at = "remembered"]
    /\ UNCHANGED <<accounts, saved, live, failures, snapshots, logins>>

\* persist_materialized_account: the record moves to the new home.
EndSwitch ==
    /\ command.at = "remembered"
    /\ LET out == command.result.out
       IN IF out = NoAccount THEN UNCHANGED <<store, ids>>
          ELSE Persist([Listed EXCEPT ![out] = [id |-> store[out].id, home |-> command.result.backup]])
    /\ command' = NoCommand
    /\ UNCHANGED <<ambient, owner, resigned, made, sessions, snapshots, fetch, logins, mishaps>>
-----------------------------------------------------------------------------
(* restart Codex Desktop; Sync-DesktopSessionState of the script *)

CanRestart == CommandFree /\ pending # NoPending /\ pending.account = ambient

BackedUp == [saved EXCEPT ![pending.backup] = live]

\* An entry with no saved counterpart is cleared: Desktop starts it for the
\* account it is signed in to.
Restored(e) ==
    IF saved[pending.restore][e] = NoAccount THEN ambient ELSE saved[pending.restore][e]

Replayed == IF pending.tried THEN mishaps \cup {"replayed"} ELSE mishaps

\* Mutant: the pending restart stays.
RestartDesktopAgain ==
    /\ CanRestart
    /\ saved' = BackedUp
    /\ live' = [e \in Entry |-> Restored(e)]
    /\ mishaps' = Replayed
    /\ UNCHANGED <<accounts, pending, failures, snapshots, command, fetch, logins>>

\* codex_account_restart_desktop: both directories are synchronized and the
\* pending restart is cleared.
RestartDesktop ==
    /\ CanRestart
    /\ saved' = BackedUp
    /\ live' = [e \in Entry |-> Restored(e)]
    /\ pending' = NoPending
    /\ mishaps' = Replayed
    /\ UNCHANGED <<accounts, failures, snapshots, command, fetch, logins>>

\* An entry cannot be restored: the command fails and the restart stays pending.
FailRestart(done) ==
    /\ CanRestart /\ failures < Failures
    /\ saved' = BackedUp
    /\ live' = [e \in Entry |-> IF e \in done THEN Restored(e) ELSE live[e]]
    /\ pending' = [pending EXCEPT !.tried = TRUE]
    /\ failures' = failures + 1
    /\ mishaps' = Replayed
    /\ UNCHANGED <<accounts, snapshots, command, fetch, logins>>
-----------------------------------------------------------------------------
(* The fetches *)

\* A lane of a refresh batch (one per listed account), or codex_account_fetch.
StartFetch(f, a, kind) ==
    /\ fetch[f].at = "idle"
    /\ Listed[a] # NoRecord
    /\ kind = "asked" => Listed[a].id # Fresh
    /\ fetch' = [fetch EXCEPT ![f] = [NoFetch EXCEPT
          !.at = "started", !.kind = kind, !.account = a, !.record = Listed[a]]]
    /\ UNCHANGED <<accounts, sessions, snapshots, command, logins, mishaps>>

\* resolve_fetch_route: the account whose credentials are in that home by now is
\* read from the ambient home if it is the active one.
Route(f) ==
    LET h == fetch[f].record.home
    IN /\ fetch[f].at = "started" /\ HeldAt(h) # NoAccount
       /\ fetch' = [fetch EXCEPT ![f].at = "routed",
                       ![f].route = IF HeldAt(h) = ambient THEN Ambient ELSE h]
       /\ UNCHANGED <<accounts, sessions, snapshots, command, logins, mishaps>>

\* fetch_home_snapshot, once the lane of the chosen home is free: it reads
\* whatever credentials are there by then.
ReadUsage(f) ==
    LET h == fetch[f].route
    IN /\ fetch[f].at = "routed" /\ HeldAt(h) # NoAccount
       /\ fetch' = [fetch EXCEPT ![f].at = "read", ![f].route = NoHome, ![f].usage = HeldAt(h),
                       ![f].crossed = @ /\ HeldAt(h) # fetch[f].account]
       /\ UNCHANGED <<accounts, sessions, snapshots, command, logins, mishaps>>

\* An error of the API or the timeout.
FailFetch(f) ==
    /\ fetch[f].at \in {"started", "routed", "read"}
    /\ fetch' = [fetch EXCEPT ![f] = NoFetch]
    /\ UNCHANGED <<accounts, sessions, snapshots, command, logins, mishaps>>

\* Mutant: the home the fetch was started for is not compared.
IsSameUuid(f) ==
    LET now == Listed[fetch[f].account]
    IN now # NoRecord /\ now.id = fetch[f].record.id /\ now.id # Fresh

\* account_lane_is_current; the snapshot carries the workspace that was asked
\* for, so account_snapshot_belongs_to is true.
IsCurrent(f) ==
    LET now == Listed[fetch[f].account]
    IN now # NoRecord /\ now = fetch[f].record /\ now.id # Fresh

Snapshot(f) == [account |-> fetch[f].account, id |-> fetch[f].record.id,
                usage |-> fetch[f].usage, crossed |-> fetch[f].crossed]

Inserted(f, into) ==
    IF IsCurrent(f)
    THEN {s \in into : <<s.account, s.id>> # <<fetch[f].account, fetch[f].record.id>>} \cup {Snapshot(f)}
    ELSE into

\* save_codex_lane_results: nothing of an earlier generation, and snapshots of
\* listed accounts only.
SaveLane(f) ==
    /\ fetch[f].at = "read" /\ fetch[f].kind = "lane"
    /\ snapshots' = IF fetch[f].current
                    THEN Inserted(f, {s \in snapshots : Listed[s.account].id = s.id})
                    ELSE snapshots
    /\ fetch' = [fetch EXCEPT ![f] = NoFetch]
    /\ UNCHANGED <<accounts, sessions, command, logins, mishaps>>

\* codex_account_fetch saves its snapshot, then loads the list it will persist.
SaveAsked(f) ==
    /\ fetch[f].at = "read" /\ fetch[f].kind = "asked"
    /\ snapshots' = Inserted(f, snapshots)
    /\ fetch' = [fetch EXCEPT ![f] = [NoFetch EXCEPT !.at = "saved", !.list = Listed]]
    /\ UNCHANGED <<accounts, sessions, command, logins, mishaps>>

\* refresh_persisted_accounts: a command may have changed the accounts since the
\* list was loaded.
PersistLoaded(f) ==
    /\ fetch[f].at = "saved"
    /\ Persist(fetch[f].list)
    /\ mishaps' = IF fetch[f].list # Listed THEN mishaps \cup {"overwritten"} ELSE mishaps
    /\ fetch' = [fetch EXCEPT ![f] = NoFetch]
    /\ UNCHANGED <<ambient, owner, resigned, made, sessions, snapshots, command, logins>>

\* codex login in a terminal, for the ambient home or, with CODEX_HOME, a managed
\* one.
CodexLogIn(place, a) ==
    /\ HeldAt(place) \notin {a, NoAccount}
    /\ CountLogin(place, a)
    /\ IF place = Ambient
       THEN ambient' = a /\ UNCHANGED <<owner, resigned>>
       ELSE /\ owner' = [owner EXCEPT ![place] = a] /\ resigned' = resigned \cup {place}
            /\ UNCHANGED ambient
    /\ fetch' = CrossedBy(place, a)
    /\ UNCHANGED <<made, store, ids, sessions, snapshots, command, mishaps>>
-----------------------------------------------------------------------------
FetchStep(f) ==
    \/ \E a \in Account, kind \in {"lane", "asked"} : StartFetch(f, a, kind)
    \/ Route(f) \/ ReadUsage(f) \/ FailFetch(f) \/ SaveLane(f) \/ SaveAsked(f) \/ PersistLoaded(f)

SwitchStep ==
    \/ KeepActive \/ Replace \/ FailSwitch \/ Remember \/ EndSwitch

RemovalStep ==
    \/ RefuseRemoval \/ RemoveAccount
    \/ \E h \in Home : FailToRemove(h)

Next ==
    \/ \E f \in Fetch : FetchStep(f)
    \/ SwitchStep \/ RemovalStep
    \/ RestartDesktop
    \/ \E done \in SUBSET Entry : FailRestart(done)
    \/ \E a \in Account :
          \/ AddAccount(a) \/ Reauthenticate(a) \/ BeginRemove(a) \/ BeginSwitch(a)
          \/ \E place \in Place : CodexLogIn(place, a)

Spec == Init /\ [][Next]_vars
-----------------------------------------------------------------------------
(* Properties *)

\* Every variable keeps the shape the code gives it; stored accounts have a uuid,
\* and a restart saves the session in one home and takes it from another, between
\* two accounts but for a login at the home of the incoming one.
TypeOK ==
    /\ ambient \in Account
    /\ owner \in [Home -> Account \cup {NoAccount}] /\ resigned \subseteq Home
    /\ made \in 0..MaxHome /\ \A h \in Home : owner[h] # NoAccount => h <= made
    /\ saved \in [Home -> [Entry -> Account \cup {NoAccount}]]
    /\ live \in [Entry -> Account]
    /\ \A a \in Account : store[a] \in Record \cup {NoRecord} /\ store[a].id \in 0..ids[a]
    /\ \A a \in Account : store[a] # NoRecord => store[a].id # Fresh
    /\ ids \in [Account -> 0..MaxId]
    /\ snapshots \subseteq [account : Account, id : 1..MaxId, usage : Account, crossed : BOOLEAN]
    /\ \A s, t \in snapshots : s.account = t.account /\ s.id = t.id => s = t
    /\ pending # NoPending =>
          /\ pending.backup # pending.restore
          /\ pending.account # pending.out \/ pending.restore \in resigned
    /\ command.at \in {"idle", "removing", "chosen", "replaced", "remembered"}
    /\ \A f \in Fetch : fetch[f].at \in {"idle", "started", "routed", "read", "saved"}
    /\ logins \in 0..MaxLogin /\ failures \in 0..Failures
    /\ mishaps \subseteq {"skipped", "replayed", "partly_removed", "overwritten"}

\* The quota kept for an account is its own: neither a lane of an earlier
\* generation nor a fetch that a switch, a removal or a login overtook files the
\* usage of one account under another.  The code compares the record at the two
\* ends of a fetch, so two things in between go unnoticed: a login that crosses the
\* fetch, which would have to look at the credentials it has read (the home is
\* chosen before its lane is free; an account comes back to a home, or its home is
\* taken from it), and a record that is listed again after a removal failed or a
\* stale list was written back.
SnapshotOwned ==
    {"partly_removed", "overwritten"} \cap mishaps # {} \/
        \A s \in snapshots : s.usage = s.account \/ s.crossed

\* A saved desktop session is that of the account in whose home it is kept, if no
\* switch was made while Desktop still ran with another account's session and no
\* restart had to be repeated: a script that failed half-way through the restore
\* leaves the restart pending, and its repetition saves the half-restored session
\* over the backup.  A home somebody else signed in at outside the app keeps the
\* session of the account that was there.
SessionOwned ==
    \/ {"skipped", "replayed"} \cap mishaps # {}
    \/ \A h \in Home \ resigned, e \in Entry :
          owner[h] # NoAccount => saved[h][e] \in {owner[h], NoAccount}

\* A restart that would be accepted backs up to and restores from homes that are
\* still there and belong to the two accounts of the switch, but for a home that
\* changed hands outside the app.
PendingHomesKept ==
    (pending # NoPending /\ "partly_removed" \notin mishaps) =>
        /\ pending.backup \in resigned \/ owner[pending.backup] = pending.out
        /\ pending.restore \in resigned \/ owner[pending.restore] = pending.account

\* Every account that has credentials is listed at a home that holds them, so
\* that it can be fetched and switched to, whatever homes changed hands outside the
\* app, unless a removal failed or a command or fetch wrote back the account list
\* it had loaded before another change.
ListedAtItsHome ==
    {"partly_removed", "overwritten"} \cap mishaps # {} \/
        \A a \in Account :
            LET h == Listed[a].home
            IN IF HomesOf(a) # {} \/ ambient = a
               THEN h # NoHome /\ HeldAt(h) = a
               ELSE Listed[a] = NoRecord
=============================================================================
