---------------------------- MODULE ClaudeAccounts ----------------------------
(***************************************************************************)
(* Saved Claude Code logins: rust/src/providers/claude/accounts.rs with the *)
(* commands of claude_accounts.rs, the OAuth fetch that refreshes the token *)
(* of the active login (oauth/mod.rs, credentials_store.rs) and the probe   *)
(* that runs the CLI (claude/mod.rs).                                       *)
(*                                                                         *)
(* The active login is spread over two files, the credentials and the       *)
(* identity; a saved login has both.  A refresh token is good for one use.  *)
(* CREDENTIAL_OPERATION excludes fetches, probes and account changes from    *)
(* each other, but Claude Code itself knows nothing of it.  An action is     *)
(* what runs between two awaits, or between two file operations of a switch. *)
(***************************************************************************)
EXTENDS Integers, FiniteSets

CONSTANTS
    Account,    \* identities: account and organization
    NoAccount,
    MaxToken,   \* bound: refresh tokens the OAuth server hands out
    MaxCrash,   \* bound: crashes of the app
    MaxMishap   \* bound: kinds of mishap in one behaviour

NoLogin == [account |-> NoAccount, token |-> 0]
Login == [account : Account, token : 1..MaxToken]
MaybeLogin == Login \cup {NoLogin}

ASSUME ClaudeAssumption ==
    /\ NoAccount \notin Account
    /\ MaxToken \in Nat \ {0, 1} /\ MaxCrash \in Nat /\ MaxMishap \in Nat

VARIABLES
    oauth,      \* claudeAiOauth of .credentials.json
    identity,   \* oauthAccount of .claude.json
    saved,      \* accounts.json: the oauth part by identity
    cache,      \* REFRESHED_CREDENTIALS of the credentials file
    command,    \* the holder of MUTATION
    fetch,      \* an OAuth fetch
    cli,        \* what Claude Code sessions have in memory, the probe's and the user's
    slot,       \* the login claude-swap keeps besides the active one
    issued,     \* tokens handed out so far; a later one expires later
    valid,      \* those the server still accepts
    \* history, read by the properties only
    gone,       \* accounts whose login was given up, or whose last answer was lost,
                \* and not imported anew since
    mishaps,    \* what the properties make an exception for
    crashes

files == <<oauth, identity, saved, slot>>
server == <<issued, valid>>
vars == <<files, cache, command, fetch, cli, server, gone, mishaps, crashes>>

Session == {"probe", "user"}
NoCommand == [at |-> "idle", account |-> NoAccount, login |-> NoLogin, old |-> NoLogin]
NoFetch == [at |-> "idle", cred |-> NoLogin, fresh |-> 0, file |-> NoAccount]

\* Claude Code is signed in, nothing is saved; claude-swap knows another login.
Init ==
    /\ \E a, b \in Account :
          /\ a # b
          /\ oauth = [account |-> a, token |-> 2] /\ identity = a
          /\ slot = [account |-> b, token |-> 1]
          /\ gone = Account \ {a, b}
    /\ saved = [a \in Account |-> NoLogin]
    /\ cache = NoLogin
    /\ command = NoCommand
    /\ fetch = NoFetch
    /\ cli = [s \in Session |-> NoLogin]
    /\ issued = 2 /\ valid = {1, 2}
    /\ mishaps = {} /\ crashes = 0
-----------------------------------------------------------------------------
(* CREDENTIAL_OPERATION and the OAuth server *)

Switching == command.at \in {"locked", "preserved", "renamed"}
Fetching == fetch.at # "idle"
Probing == cli["probe"] # NoLogin

LockFree == ~Switching /\ ~Fetching /\ ~Probing
CommandFree == command = NoCommand

\* A refresh: the token is spent, its successor is handed out.
Rotate(token) ==
    /\ token \in valid /\ issued < MaxToken
    /\ issued' = issued + 1
    /\ valid' = (valid \ {token}) \cup {issued + 1}

\* A login: the server answers with a token of its own.
Issue ==
    /\ issued < MaxToken
    /\ issued' = issued + 1
    /\ valid' = valid \cup {issued + 1}

Mishap(kinds) ==
    /\ mishaps' = mishaps \cup kinds
    /\ Cardinality(mishaps') <= MaxMishap

\* The tokens of the credentials file are overwritten, whoever it belongs to by now.
WriteBack(login) ==
    /\ oauth # NoLogin
    /\ oauth' = login
    /\ Mishap(IF oauth.account # login.account THEN {"overtaken"} ELSE {})
-----------------------------------------------------------------------------
(* ClaudeOAuthFetcher::fetch, under the lock *)

\* cached_refreshed_if_fresher
Fresher == IF cache # NoLogin /\ cache.token > oauth.token THEN cache ELSE oauth

\* load_credentials, and the cached login if it expires later.  Its access token
\* may have expired by now.
BeginFetch ==
    /\ LockFree /\ oauth # NoLogin
    /\ \E at \in {"stale", "ready"} :
          fetch' = [at |-> at, cred |-> Fresher, fresh |-> 0, file |-> oauth.account]
    /\ UNCHANGED <<files, cache, command, cli, server, gone, mishaps, crashes>>

\* The file is read again before the network is asked: Claude Code may have
\* refreshed it.
AdoptFromDisk ==
    /\ fetch.at = "stale" /\ oauth.token > fetch.cred.token
    /\ cache' = oauth
    /\ fetch' = [fetch EXCEPT !.at = "ready", !.cred = oauth, !.file = oauth.account]
    /\ UNCHANGED <<files, command, cli, server, gone, mishaps, crashes>>

\* refresh_access_token, with the refresh token of the file, and with the loaded
\* one when the file cannot be read any more.
SendRefresh ==
    /\ fetch.at = "stale"
    /\ LET now == IF oauth = NoLogin THEN fetch.cred ELSE oauth
       IN /\ Rotate(now.token)
          /\ fetch' = [at |-> "refreshing", cred |-> now, fresh |-> issued + 1, file |-> now.account]
    /\ UNCHANGED <<files, cache, command, cli, gone, mishaps, crashes>>

Refreshed == [account |-> fetch.cred.account, token |-> fetch.fresh]

\* store_refreshed, then persist_refreshed_credentials.
Persist ==
    /\ fetch.at = "refreshing"
    /\ WriteBack(Refreshed)
    /\ cache' = Refreshed
    /\ fetch' = [fetch EXCEPT !.at = "ready", !.cred = Refreshed, !.fresh = 0]
    /\ UNCHANGED <<identity, saved, slot, command, cli, server, gone, crashes>>

\* The file cannot be written, or has no login any more: only the cache has the
\* token, and no later refresh takes it from there.
FailToPersist ==
    /\ fetch.at = "refreshing"
    /\ cache' = Refreshed
    /\ fetch' = [fetch EXCEPT !.at = "ready", !.cred = Refreshed, !.fresh = 0]
    /\ gone' = gone \cup {fetch.cred.account}
    /\ UNCHANGED <<files, command, cli, server, mishaps, crashes>>

\* Usage or an error has come back; the refresh was refused, is cooling down or
\* its answer was lost; the provider's timeout dropped the fetch.
EndFetch ==
    /\ Fetching
    /\ fetch' = NoFetch
    /\ gone' = IF fetch.at = "refreshing" THEN gone \cup {fetch.cred.account} ELSE gone
    /\ UNCHANGED <<files, cache, command, cli, server, mishaps, crashes>>

\* run_claude_pty_probe: a CLI session of the app's own, under the lock until its
\* process has ended even if nobody waits for the result any more.
BeginProbe ==
    /\ LockFree /\ oauth # NoLogin
    /\ cli' = [cli EXCEPT !["probe"] = oauth]
    /\ UNCHANGED <<files, cache, command, fetch, server, gone, mishaps, crashes>>

EndProbe ==
    /\ Probing
    /\ cli' = [cli EXCEPT !["probe"] = NoLogin]
    /\ UNCHANGED <<files, cache, command, fetch, server, gone, mishaps, crashes>>
-----------------------------------------------------------------------------
(* Adding, saving and removing logins; MUTATION admits one command *)

\* claude_account_add: the user signs in in a directory of its own, unlocked.
BeginAdd ==
    /\ CommandFree
    /\ command' = [NoCommand EXCEPT !.at = "login"]
    /\ UNCHANGED <<files, cache, fetch, cli, server, gone, mishaps, crashes>>

SignIn(a) ==
    /\ command.at = "login"
    /\ Issue
    /\ command' = [command EXCEPT !.at = "signedIn", !.login = [account |-> a, token |-> issued + 1]]
    /\ UNCHANGED <<files, cache, fetch, cli, gone, mishaps, crashes>>

\* Cancelled, timed out, or the CLI failed.
FailLogin ==
    /\ command.at = "login"
    /\ command' = NoCommand
    /\ UNCHANGED <<files, cache, fetch, cli, server, gone, mishaps, crashes>>

\* import, under the lock.  Its record is one that the next switch away from the
\* active account replaces: an exception of LoginKept.
ImportLogin ==
    LET login == command.login
    IN /\ command.at = "signedIn" /\ LockFree
       /\ saved' = [saved EXCEPT ![login.account] = login]
       /\ Mishap(IF login.account = identity THEN {"readded"} ELSE {})
       /\ gone' = gone \ {login.account}
       /\ command' = NoCommand
       /\ UNCHANGED <<oauth, identity, slot, cache, fetch, cli, server, crashes>>

\* The new login cannot be read, or the store not be loaded or saved.  login() has
\* deleted the directory by then, and the login is lost.
FailToImport ==
    /\ command.at = "signedIn"
    /\ command' = NoCommand
    /\ UNCHANGED <<files, cache, fetch, cli, server, gone, mishaps, crashes>>

CanPair == oauth # NoLogin /\ identity # NoAccount

\* claude_account_save_current: read_login pairs the two files.
SaveCurrent ==
    /\ CommandFree /\ LockFree /\ CanPair
    /\ saved' = [saved EXCEPT ![identity] = oauth]
    /\ UNCHANGED <<oauth, identity, slot, cache, command, fetch, cli, server, gone, mishaps, crashes>>

\* claude_account_remove drops the record; it does not log out.
Remove(a) ==
    /\ CommandFree /\ LockFree /\ saved[a] # NoLogin
    /\ saved' = [saved EXCEPT ![a] = NoLogin]
    /\ gone' = IF a = identity /\ oauth # NoLogin THEN gone ELSE gone \cup {a}
    /\ UNCHANGED <<oauth, identity, slot, cache, command, fetch, cli, server, mishaps, crashes>>
-----------------------------------------------------------------------------
(* claude_account_switch *)

Keeps == command' = NoCommand

\* require_cli_closed, then the target is looked up.  The account that is active
\* is not switched to.
BeginSwitch(a) ==
    /\ CommandFree /\ LockFree
    /\ cli["user"] = NoLogin
    /\ saved[a] # NoLogin
    /\ oauth # NoLogin => identity \notin {a, NoAccount}
    /\ command' = [at |-> "locked", account |-> a, login |-> saved[a], old |-> oauth]
    /\ UNCHANGED <<files, cache, fetch, cli, server, gone, mishaps, crashes>>

\* Mutant: the outgoing login is not saved.
PreserveNothing ==
    /\ command.at = "locked"
    /\ command' = [command EXCEPT !.at = "preserved"]
    /\ UNCHANGED <<files, cache, fetch, cli, server, gone, mishaps, crashes>>

\* The active login is upserted under its identity and the store saved; then both
\* files are staged.
Preserve ==
    /\ command.at = "locked"
    /\ saved' = IF oauth = NoLogin THEN saved ELSE [saved EXCEPT ![identity] = oauth]
    /\ command' = [command EXCEPT !.at = "preserved"]
    /\ UNCHANGED <<oauth, identity, slot, cache, fetch, cli, server, gone, mishaps, crashes>>

RenameCredentials ==
    /\ command.at = "preserved"
    /\ oauth' = command.login
    /\ command' = [command EXCEPT !.at = "renamed"]
    /\ UNCHANGED <<identity, saved, slot, cache, fetch, cli, server, gone, mishaps, crashes>>

\* Mutant: the cached token of the outgoing login stays.
RenameConfigKeepCache ==
    /\ command.at = "renamed"
    /\ identity' = command.account
    /\ Keeps
    /\ UNCHANGED <<oauth, saved, slot, cache, fetch, cli, server, gone, mishaps, crashes>>

\* The identity follows, and clear_account_caches.
RenameConfig ==
    /\ command.at = "renamed"
    /\ identity' = command.account
    /\ cache' = NoLogin
    /\ Keeps
    /\ UNCHANGED <<oauth, saved, slot, fetch, cli, server, gone, mishaps, crashes>>

\* The store, the staging or the first rename fails.
FailSwitch ==
    /\ command.at \in {"locked", "preserved"}
    /\ Keeps
    /\ UNCHANGED <<files, cache, fetch, cli, server, gone, mishaps, crashes>>

\* Mutant: the credentials are left as they are.
RestoreNothing ==
    /\ command.at = "renamed"
    /\ Keeps
    /\ UNCHANGED <<files, cache, fetch, cli, server, gone, mishaps, crashes>>

\* The second rename fails: the old credentials are put back.
RestoreCredentials ==
    /\ command.at = "renamed"
    /\ oauth' = command.old
    /\ Keeps
    /\ UNCHANGED <<identity, saved, slot, cache, fetch, cli, server, gone, mishaps, crashes>>

\* "Claude identity update failed": they cannot be put back either.
FailToRestore ==
    /\ command.at = "renamed"
    /\ Keeps
    /\ Mishap({"torn"})
    /\ UNCHANGED <<files, cache, fetch, cli, server, gone, crashes>>
-----------------------------------------------------------------------------
(* Crash of the app; Claude Code; claude-swap *)

InFlight == IF fetch.at = "refreshing" THEN {fetch.cred.account} ELSE {}

\* The files stay as they are; cleanup_abandoned_logins deletes a login that was
\* not imported.
Crash ==
    /\ crashes < MaxCrash
    /\ crashes' = crashes + 1
    /\ cache' = NoLogin
    /\ command' = NoCommand
    /\ fetch' = NoFetch
    /\ cli' = [cli EXCEPT !["probe"] = NoLogin]
    /\ gone' = gone \cup InFlight
    /\ Mishap(IF command.at = "renamed" THEN {"torn"} ELSE {})
    /\ UNCHANGED <<files, server>>

\* "Existing CLI processes retain credentials in memory and may rotate them."  No
\* session is opened, signs in or out in the instant between the steps of a switch.
OpenCli ==
    /\ ~Switching /\ cli["user"] = NoLogin /\ oauth # NoLogin
    /\ cli' = [cli EXCEPT !["user"] = oauth]
    /\ UNCHANGED <<files, cache, command, fetch, server, gone, mishaps, crashes>>

CloseCli ==
    /\ cli["user"] # NoLogin
    /\ cli' = [cli EXCEPT !["user"] = NoLogin]
    /\ UNCHANGED <<files, cache, command, fetch, server, gone, mishaps, crashes>>

CliRotates(s) ==
    LET new == [account |-> cli[s].account, token |-> issued + 1]
    IN /\ Rotate(cli[s].token)
       /\ WriteBack(new)
       /\ cli' = [cli EXCEPT ![s] = new]
       /\ UNCHANGED <<identity, saved, slot, cache, command, fetch, gone, crashes>>

\* claude auth login in a terminal: what it replaces is given up, saved or not.
CliLogIn(a) ==
    /\ ~Switching
    /\ Issue
    /\ oauth' = [account |-> a, token |-> issued + 1]
    /\ identity' = a
    /\ gone' = (gone \cup {oauth.account}) \ {a, NoAccount}
    /\ cli' = [cli EXCEPT !["user"] = IF @ = NoLogin THEN @ ELSE oauth']
    /\ UNCHANGED <<saved, slot, cache, command, fetch, mishaps, crashes>>

\* claude auth logout: the token is revoked, the identity stays.
CliLogOut ==
    /\ ~Switching /\ oauth # NoLogin
    /\ oauth' = NoLogin
    /\ valid' = valid \ {oauth.token}
    /\ gone' = gone \cup {oauth.account}
    /\ cli' = [cli EXCEPT !["user"] = NoLogin]
    /\ UNCHANGED <<identity, saved, slot, cache, command, fetch, issued, mishaps, crashes>>

\* run_claude_swap_operation, under both locks: claude-swap puts its own login of
\* the account in place and keeps the outgoing one.  The caches are not cleared.
SwapSwitch ==
    /\ CommandFree /\ LockFree /\ CanPair
    /\ identity # slot.account
    /\ oauth' = slot /\ identity' = slot.account
    /\ slot' = oauth
    /\ Mishap({"swapped"})
    /\ UNCHANGED <<saved, cache, command, fetch, cli, server, gone, crashes>>
-----------------------------------------------------------------------------
FetchStep == BeginFetch \/ AdoptFromDisk \/ SendRefresh \/ Persist \/ FailToPersist \/ EndFetch

SwitchStep ==
    \/ Preserve \/ RenameCredentials \/ RenameConfig
    \/ FailSwitch \/ RestoreCredentials \/ FailToRestore

CliStep == OpenCli \/ CloseCli \/ CliLogOut \/ \E s \in Session : CliRotates(s)

Next ==
    \/ FetchStep \/ BeginProbe \/ EndProbe
    \/ BeginAdd \/ FailLogin \/ ImportLogin \/ FailToImport \/ SaveCurrent
    \/ SwitchStep
    \/ CliStep
    \/ SwapSwitch \/ Crash
    \/ \E a \in Account :
          SignIn(a) \/ Remove(a) \/ BeginSwitch(a) \/ CliLogIn(a)

Spec == Init /\ [][Next]_vars
-----------------------------------------------------------------------------
(* Properties *)

\* Every variable keeps the shape the code gives it, and whoever holds
\* CREDENTIAL_OPERATION holds it alone.
TypeOK ==
    /\ {oauth, cache, slot} \subseteq MaybeLogin
    /\ identity \in Account \cup {NoAccount}
    /\ saved \in [Account -> MaybeLogin]
    /\ cli \in [Session -> MaybeLogin]
    /\ command \in [at : {"idle", "login", "signedIn", "locked", "preserved", "renamed"},
                    account : Account \cup {NoAccount}, login : MaybeLogin, old : MaybeLogin]
    /\ fetch \in [at : {"idle", "stale", "refreshing", "ready"}, cred : MaybeLogin,
                  fresh : 0..MaxToken, file : Account \cup {NoAccount}]
    /\ fetch.fresh # 0 <=> fetch.at = "refreshing"
    /\ ~(Switching /\ Fetching) /\ ~(Switching /\ Probing) /\ ~(Fetching /\ Probing)
    /\ issued \in 0..MaxToken /\ valid \subseteq 1..issued
    /\ gone \subseteq Account
    /\ mishaps \subseteq {"torn", "overtaken", "readded", "swapped"}
    /\ crashes \in 0..MaxCrash

\* Credentials and identity stay those of one account, in the files Claude Code
\* uses and in every saved login, through switches that fail half-way, refreshes
\* and account changes.  Two exceptions: a switch that stopped between its two
\* renames and could not go back, and a login outside the app that a refresh
\* overtakes.
LoginsPaired ==
    \/ {"torn", "overtaken"} \cap mishaps # {}
    \/ /\ \A a \in Account : saved[a].account \in {a, NoAccount}
       /\ command.at # "renamed" => oauth.account \in {identity, NoAccount}

Held == {oauth, slot} \cup {saved[a] : a \in Account}

\* A token the server accepts for a is in a file that stays, or on its way to a fetch.
Reachable(a) ==
    \/ \E login \in Held : login.account = a /\ login.token \in valid
    \/ fetch.at = "refreshing" /\ fetch.cred.account = a

\* "Preserve the latest refresh token before replacing the active login": no
\* interleaving of switches, refreshes, sign-ins, saves and removals, with steps that
\* fail and crashes, loses the last good token of an account nobody gave up.  It is
\* given up by who removes it, or logs out of it or signs in over it in a terminal; and
\* it is lost with the answer to its refresh, when that reaches no file.  A sign-in
\* counts when it is imported: one that cannot be, or that a crash overtakes, is lost,
\* since its directory is gone (login.rs:93).  Nothing is said after a mishap: a switch
\* that stopped between its two renames, a write over the login of another account, an
\* account added again while active, a switch by claude-swap.
LoginKept ==
    mishaps = {} => \A a \in Account \ gone : Reachable(a)

\* The usage of a fetch is that of the login it found in the credentials file,
\* never that of the account a switch has just replaced.  (claude-swap's switch
\* leaves the cached token of the outgoing account, and so does a torn one.)
UsageOfActive ==
    \/ {"swapped", "torn"} \cap mishaps # {}
    \/ fetch.at = "ready" => fetch.cred.account = fetch.file
=============================================================================
