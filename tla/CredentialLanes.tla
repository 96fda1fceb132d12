--------------------------- MODULE CredentialLanes ---------------------------
(***************************************************************************)
(* The credential files of the Codex accounts and who may write them:      *)
(* rust/src/codex_accounts/fetch_coordination.rs, the fetch of api.rs that  *)
(* refreshes OAuth tokens, and the operations of account_manager.rs that    *)
(* replace credentials.                                                    *)
(*                                                                         *)
(* Each account has an auth.json in an app-managed home; the account that   *)
(* is active in Codex has one in the ambient home as well.  A refresh token *)
(* is good for one use: the OAuth server answers it with a new one.  Quota  *)
(* fetches hold CREDENTIAL_OPERATIONS for reading and, for the file they    *)
(* refresh, a lane; a switch or a login holds it for writing.  An action is *)
(* what runs between two awaits of a fetch, or between two file operations  *)
(* of a mutation.                                                          *)
(***************************************************************************)
EXTENDS Integers

CONSTANTS
    Account,     \* account identities
    First,       \* the one that is active at first
    NoAccount,
    MaxHome,     \* bound: directories made under managed-homes/
    Ambient,     \* ~/.codex
    NoHome,
    Fetch,       \* concurrent fetch_snapshot_for_workspace calls
    MaxToken     \* bound: tokens the OAuth server hands out

Home == 1..MaxHome  \* each named by a fresh uuid, numbered as they are made
Place == Home \cup {Ambient}
NoAuth == [account |-> NoAccount, token |-> 0]
Auth == [account : Account, token : 1..MaxToken] \cup {NoAuth}

ASSUME LanesAssumption ==
    /\ NoAccount \notin Account /\ First \in Account
    /\ Ambient \notin Home
    /\ NoHome \notin Place
    /\ MaxHome \in Nat \ {0} /\ MaxToken \in Nat \ {0, 1}

VARIABLES
    auth,      \* auth.json by home; the token's number stands for last_refresh too
    homes,     \* managed homes made so far
    issued,    \* tokens handed out so far, by the external OAuth server
    valid,     \* those it still accepts
    fetch,     \* [at, home, copy, cred, fresh, tries] of each fetch
    mutation,  \* [at, kind, target] of the command holding ACCOUNT_MUTATION
    \* history, read by the properties only
    gone,      \* accounts whose login was given up, or whose last answer was lost
    relogged,  \* codex login was run outside the app
    crossed    \* fetches that held the lane of the home it was run at

vars == <<auth, homes, issued, valid, fetch, mutation, gone, relogged, crossed>>

Idle == [at |-> "idle", home |-> NoHome, copy |-> NoHome, cred |-> NoAuth,
         fresh |-> 0, tries |-> 0]
NoMutation == [at |-> "idle", kind |-> "none", target |-> NoHome]

AccountsIn(files) == {files[h].account : h \in Place} \ {NoAccount}

\* One account is active and has no managed home yet, others have one.
Init ==
    /\ \E other \in Account \ {First} :
          auth = [p \in Place |-> CASE p = Ambient -> [account |-> First, token |-> 1]
                                    [] p = 1 -> [account |-> other, token |-> 2]
                                    [] OTHER -> NoAuth]
    /\ homes = 1
    /\ issued = 2
    /\ valid = {1, 2}
    /\ fetch = [f \in Fetch |-> Idle]
    /\ mutation = NoMutation
    /\ gone = Account \ AccountsIn(auth)
    /\ relogged = FALSE /\ crossed = {}
-----------------------------------------------------------------------------
(* CREDENTIAL_OPERATIONS, a fair RwLock: a mutation waits for the fetches that
   read, and a fetch that comes later waits for the mutation *)

HoldsLane(f) == fetch[f].at \in {"fetching", "refreshed"}
Reading(f) == fetch[f].at # "idle"
Writing == mutation.at \in {"locked", "materialized"}

GrantsRead == mutation.at = "idle"

\* Mutant: the switch does not wait for the fetches.
GrantsWriteUnlocked == TRUE

GrantsWrite == \A f \in Fetch : ~Reading(f)
-----------------------------------------------------------------------------
(* fetch_snapshot *)

\* resolve_fetch_route: the active account is fetched through the ambient home.
Route(h) ==
    IF auth[Ambient].account = auth[h].account
    THEN [home |-> Ambient, copy |-> h]
    ELSE [home |-> h, copy |-> NoHome]

\* A lane of a refresh or codex_account_fetch asks for the account at home h and
\* is granted the read lock; without an auth file there is no identity to route.
EnterFetch(f, h) ==
    /\ fetch[f].at = "idle" /\ GrantsRead
    /\ auth[h] # NoAuth
    /\ fetch' = [fetch EXCEPT ![f] =
          [Idle EXCEPT !.at = "lane", !.home = Route(h).home, !.copy = Route(h).copy]]
    /\ UNCHANGED <<homes, auth, issued, valid, mutation, gone, relogged, crossed>>

\* Mutant: every call makes a lane of its own.
LaneAlwaysFree(h) == TRUE

\* credential_lane: one lane per resolved auth.json.
LaneFree(h) == \A f \in Fetch : HoldsLane(f) => fetch[f].home # h

\* Mutant: the two files are not compared.
SyncedUnmatched(home, copy) ==
    IF copy \in {NoHome, home} \/ auth[home] = NoAuth \/ auth[copy] = NoAuth
    THEN auth
    ELSE IF auth[copy].token > auth[home].token
    THEN [auth EXCEPT ![home] = auth[copy]]
    ELSE [auth EXCEPT ![copy] = auth[home]]

\* synchronize_active_copy: of two files of one account the later refresh wins.
Synced(home, copy) ==
    IF \/ copy \in {NoHome, home} \/ auth[home] = NoAuth \/ auth[copy] = NoAuth
       \/ auth[home].account # auth[copy].account
    THEN auth
    ELSE IF auth[copy].token > auth[home].token
    THEN [auth EXCEPT ![home] = auth[copy]]
    ELSE [auth EXCEPT ![copy] = auth[home]]

\* A copy that fails is a warning in the log.
Synchronize(f) == auth' \in {auth, Synced(fetch[f].home, fetch[f].copy)}

\* The lane is taken, the files are synchronized, the credentials are loaded.
TakeLane(f) ==
    /\ fetch[f].at = "lane" /\ LaneFree(fetch[f].home)
    /\ Synchronize(f)
    /\ fetch' = [fetch EXCEPT ![f] =
          IF auth'[@.home] = NoAuth THEN Idle
          ELSE [@ EXCEPT !.at = "fetching", !.cred = auth'[fetch[f].home]]]
    /\ UNCHANGED <<homes, issued, valid, mutation, gone, relogged, crossed>>

Rotate(token) ==
    /\ issued < MaxToken
    /\ issued' = issued + 1
    /\ valid' = (valid \ {token}) \cup {issued + 1}

\* The token is due for a refresh, or the usage request was refused: refresh()
\* is called, at most once for each reason, and the server answers with a new
\* token.  A token it does not accept leaves everything as it is.
SendRefresh(f) ==
    /\ fetch[f].at = "fetching" /\ fetch[f].tries < 2
    /\ fetch[f].cred.token \in valid
    /\ Rotate(fetch[f].cred.token)
    /\ fetch' = [fetch EXCEPT ![f].at = "refreshed", ![f].fresh = issued + 1,
                              ![f].tries = @ + 1]
    /\ UNCHANGED <<homes, auth, mutation, gone, relogged, crossed>>

\* The answer arrives and save_credentials writes it to the file, if there still
\* is a directory and the write succeeds; the fetch goes on with it anyhow.
ReceiveRefresh(f) ==
    LET new == [account |-> fetch[f].cred.account, token |-> fetch[f].fresh]
    IN /\ fetch[f].at = "refreshed"
       /\ fetch' = [fetch EXCEPT ![f].at = "fetching", ![f].cred = new, ![f].fresh = 0]
       /\ \/ /\ auth[fetch[f].home] # NoAuth
             /\ auth' = [auth EXCEPT ![fetch[f].home] = new]
             /\ UNCHANGED gone
          \/ gone' = gone \cup {new.account} /\ UNCHANGED auth
       /\ UNCHANGED <<homes, issued, valid, mutation, relogged, crossed>>

\* The answer is lost on its way: the fetch goes on with the old credentials.
LoseRefresh(f) ==
    /\ fetch[f].at = "refreshed"
    /\ fetch' = [fetch EXCEPT ![f].at = "fetching", ![f].fresh = 0]
    /\ gone' = gone \cup {fetch[f].cred.account}
    /\ UNCHANGED <<homes, auth, issued, valid, mutation, relogged, crossed>>

\* Usage or an error has come back: the files are synchronized again and the
\* guards dropped.
FinishFetch(f) ==
    /\ fetch[f].at = "fetching"
    /\ Synchronize(f)
    /\ fetch' = [fetch EXCEPT ![f] = Idle]
    /\ crossed' = crossed \ {f}
    /\ UNCHANGED <<homes, issued, valid, mutation, gone, relogged>>

\* DEFAULT_FETCH_TIMEOUT_SECONDS: the future is dropped wherever it awaits,
\* with its guards and whatever was on its way.
TimeOut(f) ==
    /\ fetch[f].at # "idle"
    /\ fetch' = [fetch EXCEPT ![f] = Idle]
    /\ gone' = IF fetch[f].at = "refreshed" THEN gone \cup {fetch[f].cred.account} ELSE gone
    /\ crossed' = crossed \ {f}
    /\ UNCHANGED <<homes, auth, issued, valid, mutation, relogged>>
-----------------------------------------------------------------------------
(* The operations that replace credentials; ACCOUNT_MUTATION admits one *)

\* A home of its own for the credentials c.
NewHome(c) ==
    /\ homes < MaxHome
    /\ homes' = homes + 1
    /\ auth' = [auth EXCEPT ![homes + 1] = c]

Begin(kind, target) ==
    /\ mutation.at = "idle"
    /\ mutation' = [at |-> "waiting", kind |-> kind, target |-> target]
    /\ UNCHANGED <<homes, auth, issued, valid, fetch, gone, relogged, crossed>>

BeginSwitch(h) == auth[h] # NoAuth /\ Begin("switch", h)
BeginReauthenticate == auth[Ambient] # NoAuth /\ Begin("login", Ambient)

\* blocking_write returns.
LockMutation ==
    /\ mutation.at = "waiting" /\ GrantsWrite
    /\ mutation' = [mutation EXCEPT !.at = "locked"]
    /\ UNCHANGED <<homes, auth, issued, valid, fetch, gone, relogged, crossed>>

EndMutation == mutation' = NoMutation

\* switch_active_account ends early: the target's file is gone, the target is
\* active already, or a file operation failed before the copy.
LeaveSwitch ==
    /\ Writing /\ mutation.kind = "switch"
    /\ EndMutation
    /\ UNCHANGED <<homes, auth, issued, valid, fetch, gone, relogged, crossed>>

IsActive(h) == auth[Ambient].account = auth[h].account

\* materialize_as_managed: the outgoing account gets a new managed home, even
\* when it has one.
Materialize ==
    /\ mutation.at = "locked" /\ mutation.kind = "switch"
    /\ auth[mutation.target] # NoAuth /\ ~IsActive(mutation.target)
    /\ auth[Ambient] # NoAuth /\ NewHome(auth[Ambient])
    /\ mutation' = [mutation EXCEPT !.at = "materialized"]
    /\ UNCHANGED <<issued, valid, fetch, gone, relogged, crossed>>

\* Mutant: the outgoing account is not materialized first.
ReplaceAtOnce ==
    /\ Writing /\ mutation.kind = "switch" /\ auth[mutation.target] # NoAuth
    /\ auth' = [auth EXCEPT ![Ambient] = auth[mutation.target]]
    /\ EndMutation
    /\ UNCHANGED <<homes, issued, valid, fetch, gone, relogged, crossed>>

\* The target's auth.json is copied over the ambient one, and the lock dropped.
Replace ==
    /\ mutation.kind = "switch" /\ auth[mutation.target] # NoAuth
    /\ \/ mutation.at = "materialized"
       \/ mutation.at = "locked" /\ auth[Ambient] = NoAuth
    /\ auth' = [auth EXCEPT ![Ambient] = auth[mutation.target]]
    /\ EndMutation
    /\ UNCHANGED <<homes, issued, valid, fetch, gone, relogged, crossed>>

\* The server answers a login with a token of its own for the account a.
NewLogin(a) == [account |-> a, token |-> issued + 1]
LogIn ==
    /\ issued < MaxToken
    /\ issued' = issued + 1
    /\ valid' = valid \cup {issued + 1}

\* codex login in the home p, as any account: what it replaces is given up, another
\* copy or not.
LogInAt(p, a) ==
    /\ LogIn
    /\ auth' = [auth EXCEPT ![p] = NewLogin(a)]
    /\ gone' = (gone \cup {auth[p].account}) \ {a, NoAccount}

\* reauthenticate, which the app offers for the ambient home.
Reauthenticate(a) ==
    /\ mutation.at = "locked" /\ mutation.kind = "login"
    /\ LogInAt(Ambient, a)
    /\ EndMutation
    /\ UNCHANGED <<homes, fetch, relogged, crossed>>

\* The login failed, was cancelled or took more than 180 s.
FailLogin ==
    /\ mutation.at = "locked" /\ mutation.kind = "login"
    /\ EndMutation
    /\ UNCHANGED <<homes, auth, issued, valid, fetch, gone, relogged, crossed>>

\* add_managed_account logs in to a home of its own, without the credential lock.
AddAccount(a) ==
    /\ mutation.at = "idle"
    /\ LogIn /\ NewHome(NewLogin(a))
    /\ gone' = gone \ {a}
    /\ UNCHANGED <<fetch, mutation, relogged, crossed>>

\* remove_managed_files_if_owned deletes every managed home that is the account's
\* now, without the credential lock; it changes nothing when the home recorded for
\* the account has changed hands.
RemoveAccount(a) ==
    /\ mutation.at = "idle" /\ \E h \in Home : auth[h].account = a
    /\ auth' = [p \in Place |-> IF p \in Home /\ auth[p].account = a THEN NoAuth ELSE auth[p]]
    /\ gone' = gone \cup {a}
    /\ UNCHANGED <<homes, issued, valid, fetch, mutation, relogged, crossed>>
-----------------------------------------------------------------------------
(* Codex itself, which knows none of these locks *)

\* Codex refreshes the token of the active account.  It is assumed not to do so
\* in the instant between the two file copies of a switch.
CodexRotates ==
    /\ mutation.at # "materialized"
    /\ auth[Ambient].token \in valid
    /\ Rotate(auth[Ambient].token)
    /\ auth' = [auth EXCEPT ![Ambient].token = issued + 1]
    /\ UNCHANGED <<homes, fetch, mutation, gone, relogged, crossed>>

\* The user runs codex login in a terminal, in the ambient home or with CODEX_HOME
\* set to a managed one: "A managed home can also be reauthenticated outside the app"
\* (reconcile_accounts_from_disk).  Bound: once.
CodexLogIn(p, a) ==
    /\ ~relogged /\ mutation.at # "materialized"
    /\ auth[p] # NoAuth /\ LogInAt(p, a)
    /\ relogged' = TRUE
    /\ crossed' = {f \in Fetch : HoldsLane(f) /\ fetch[f].home = p}
    /\ UNCHANGED <<homes, fetch, mutation>>
-----------------------------------------------------------------------------
FetchStep(f) ==
    \/ TakeLane(f) \/ SendRefresh(f) \/ ReceiveRefresh(f)
    \/ LoseRefresh(f) \/ FinishFetch(f) \/ TimeOut(f)

MutationStep ==
    \/ LockMutation \/ LeaveSwitch \/ Materialize \/ Replace \/ FailLogin
    \/ \E a \in Account : Reauthenticate(a)

Next ==
    \/ \E f \in Fetch : (\E h \in Place : EnterFetch(f, h)) \/ FetchStep(f)
    \/ \E h \in Place : BeginSwitch(h)
    \/ BeginReauthenticate
    \/ MutationStep
    \/ \E a \in Account : \/ AddAccount(a) \/ RemoveAccount(a)
                          \/ \E p \in Place : CodexLogIn(p, a)
    \/ CodexRotates

Spec == Init /\ [][Next]_vars
-----------------------------------------------------------------------------
(* Properties *)

\* Every variable keeps the shape the code gives it: only the ambient home has a
\* managed copy to synchronize, an answer is on its way to a waiting fetch only.
TypeOK ==
    /\ auth \in [Place -> Auth]
    /\ homes \in Home
    /\ issued \in 0..MaxToken
    /\ valid \subseteq 1..issued
    /\ fetch \in [Fetch -> [at : {"idle", "lane", "fetching", "refreshed"},
                            home : Place \cup {NoHome}, copy : Place \cup {NoHome},
                            cred : Auth, fresh : 0..MaxToken, tries : 0..2]]
    /\ \A f \in Fetch : /\ fetch[f].copy # NoHome => fetch[f].home = Ambient
                        /\ fetch[f].fresh # 0 <=> fetch[f].at = "refreshed"
    /\ mutation \in [at : {"idle", "waiting", "locked", "materialized"},
                     kind : {"none", "switch", "login"}, target : Place \cup {NoHome}]
    /\ gone \subseteq Account
    /\ relogged \in BOOLEAN /\ crossed \subseteq Fetch

\* A token the server accepts for a is in a file, or on its way to a fetch.
Reachable(a) ==
    \/ \E p \in Place : auth[p].account = a /\ auth[p].token \in valid
    \/ \E f \in Fetch : fetch[f].at = "refreshed" /\ fetch[f].cred.account = a

\* No interleaving of fetches, switches, logins and removals loses the last good
\* refresh token of an account, which would sign the user out of it: that takes
\* a login given up by the user or an answer of the server that never arrived.
\* (Codex signing in to another account outside the app knows none of the locks.)
\* "Refreshes may rotate auth.json. Keep account replacement exclusive with those
\* reads/writes" (CREDENTIAL_OPERATIONS).
CredentialKept == relogged \/ \A a \in Account \ gone : Reachable(a)

\* While a fetch holds the lane of a managed home, nobody else writes credentials
\* into that home, so the refresh token it loaded is spent by it alone: not by a
\* second fetch of the home, nor by one that synchronizes it as the active
\* account's copy.  (A login outside the app knows no lane, and changes the route
\* under a fetch.)
LaneProtectsFile ==
    [][\A f \in Fetch :
          LET h == fetch[f].home
          IN (HoldsLane(f) /\ h \in Home /\ auth'[h] \notin {auth[h], NoAuth})
             => fetch'[f] # fetch[f] \/ relogged']_vars

\* The answer arrives to a refresh of the home h whose fetch a login there crossed.
CrossedAnswer(h) ==
    \E f \in crossed : ReceiveRefresh(f) /\ fetch[f].home = h

\* The app writes no account's credentials over another's in a managed home, even
\* when somebody signed in there, or to another active account, in the meantime: not
\* by a synchronization, not by a fetch that waited for the lane.  A managed home
\* changes hands by a login outside the app alone, or, save_credentials not reading
\* again whose file it replaces, by the answer to a fetch that held the lane of that
\* home when the login was run: it writes the old account back over the new login.
HomesKeepOwner ==
    [][\A h \in Home : auth[h] # NoAuth /\ auth'[h] # NoAuth
            /\ auth'[h].account # auth[h].account
            => relogged' # relogged \/ CrossedAnswer(h)]_vars
=============================================================================
