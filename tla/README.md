# A verification of Win-CodexBar

Win-CodexBar shows, in the Windows tray, how much of their quota a user's AI
coding providers have left. A Rust library and command line (`rust/`), a Tauri
shell (`apps/desktop-tauri/src-tauri/`) and a React frontend
(`apps/desktop-tauri/src/`) make up the program. Most of its code fetches and
parses. What is hard about it is the small part in between: concurrent
refreshes, account and settings changes that overtake them, caches that outlive
what they were filled from, and background operations that end after the user
has changed his mind. This project models that part in TLA+, checks it with TLC
and proves the properties that matter most with TLAPS.

Paths below are relative to `src/`; `shell/` abbreviates
`apps/desktop-tauri/src-tauri/src/`.

## 1. The system

### Components

| Component | Code | State | Operations | What is hard | What makes it correct |
|---|---|---|---|---|---|
| provider refresh pipeline | `shell/commands/providers.rs`, `shell/state.rs` | `AppState`: generation, `is_refreshing`, cache, failure counts, update times | refresh (forced, if stale, watched only), fetch, publish, invalidate, prune | one fetch per provider and batch, superseded while it runs | no usage of a replaced account or a disabled provider; one owner of the refresh; a refresh ends |
| auto refresh loop | `shell/auto_refresh.rs`, `rust/src/core/adaptive_refresh.rs` | last menu opening, last coding activity, delay | tick, adaptive delay, wake | sleeps racing changes of the interval | a watched provider is polled, a closed timer stays closed |
| Codex accounts | `shell/commands/codex_accounts.rs`, `rust/src/codex_accounts/*` | auth files, account list, quota snapshots, saved desktop sessions, pending restart | add, sign in, switch, remove, restart Desktop, fetch | a fetch runs beside the command that changes its account; several files changed in turn, each step may fail | what is kept for an account is its own; every account with credentials is listed |
| Claude accounts | `shell/commands/claude_accounts.rs`, `rust/src/providers/claude/accounts*`, `claude/oauth/*`, the probe of `claude/mod.rs` | credentials and identity in two files, saved logins, a cached refreshed token, the login command | add, save, switch, remove, claude-swap, fetch, probe | single-use tokens, half-done switches, Claude Code as a writer that knows no lock | tokens stay with their identity, none is lost, usage is the active login's |
| credential lanes | `rust/src/codex_accounts/fetch_coordination.rs`, the fetch of `api.rs` | a read-write lock, map of weakly held locks by auth file | route, lane lookup, fetch, refresh of a token, synchronisation of the active copy | one account in two files, a token that is good once, routes that change before the lane is free | a token is spent by one fetch, the last good one is never lost |
| settings | `rust/src/settings.rs`, `shell/commands/settings.rs`, `provider_settings.rs` | `settings.json` and its sibling stores | load, patch, save, many callers | whole-file load and save without a lock | no update is lost, a failed save changes nothing |
| auto resume | `shell/auto_resume.rs` | an arm, a capture and a resume per provider, a generation | observe, capture, resume, clear | session scans that end after the account or the switch has changed | never reopens for another account, once per armed quota |
| update commands | `shell/commands/updater.rs`, `rust/src/updater.rs` | update state, update info, installer path | check, download, progress, dismiss, apply | progress events against the end of a download, two downloads | the state names what is on disk, no download is stuck |
| notifications and hooks | `rust/src/notifications.rs`, `core/hooks.rs`, `core/hook_transition.rs` | toasts sent, last session level, hook baselines, all in memory | observe a snapshot, fire | batches that end out of order, two windows and several accounts under one provider, switches turned off in between | each crossing reported once, each depletion resolved |
| dashboard coordinator | `rust/src/cli/serve/dashboard/coordinator.rs` | the slot and its flight | get, build, guard | late wake-ups, lost builds, errors | single flight, shared outcome, errors not cached |
| usage and spend | `shell/commands/usage_spend.rs`, `rust/src/spend_contract.rs` | the running scan, its cancel flag, the last report | request, cancel, finish | a scan superseded while it runs | a report belongs to the request it answers |
| cost scanner and prices | `rust/src/cost_scanner*`, `core/jsonl_scanner*`, `core/models_dev_pricing.rs` | one cache on disk for all scans: counts and offsets by file, queue, last report, pause; price list | scan a week or a month, refresh prices | several scanners on one cache, files that grow, tear, fork and vanish, a bounded read per refresh | an incremental scan counts what a full one would, a window called complete is |
| surfaces | `shell/surface*.rs`, `shell/shell/*`, `shell/floatbar/*` | current surface, blur guards, top-most flags | show, hide, roll back | window callbacks between the steps | exactly the current surface is visible |
| tray | `shell/tray_*.rs` | none that outlives a rebuild of the menu | toggle, open, rebuild | events outside the lock | shows the cache |
| frontend hooks | `apps/desktop-tauri/src/hooks/*` | providers, queued updates, `isRefreshing`, the reload's epoch | listen, bootstrap, queue, flush, reload | events before the first answer, replies out of order, missing events | once all has arrived, shows the cache and no refresh |
| processes and login | `rust/src/managed_process.rs`, `login.rs`, `host/*` | child, pipes, deadline | run, read, kill | output, exit and deadline in any order | no child left behind |
| provider adapters | `rust/src/providers/*` | token and back-off caches | fetch | network failures | parse what the vendor sent |
| agent sessions, Codex workspaces | `rust/src/agent_sessions*`, `codex_workspaces*` | none that outlives a scan | scan, focus | processes that end during a scan | an ambiguous match is no match |
| command line | `rust/src/cli/*` | none | usage, cost, guard, serve, config ... | one-shot | prints what the backend returns |
| utilities | locale, logging, sound, shortcuts, status, proof harness, secure and atomic files | | | | |

`PROJECT.json` lists each of them with its files, its status and the reason when
it is not modelled.

### How they interact

All shell components share `AppState` behind one `std::sync::Mutex`. Commands of
the frontend, tray callbacks, the loop of `auto_refresh.rs` and spawned tasks
take it for a few lines at a time and never across an await. Whatever is read
before an await, a file access or an unlock may be out of date afterwards. Three
devices protect the program, and most of the properties here ask whether they
suffice: a *generation* that invalidations bump and late results compare, a
*lock flag* (`is_refreshing`, the slot's `Building`) that keeps two operations
apart, and *ownership tokens* that keep a late operation from ending a newer one.
Settings, accounts, snapshots and the scan cache live in files that every writer
loads, edits and saves whole. Results reach the surfaces as events emitted outside
the lock; the end of a batch also feeds the toasts and hooks with a clone of the
cache taken under a lock of its own. Credential files have readers and writers
outside the program (Codex, Claude Code, the vendor's server that spends a refresh
token on use); the program's locks (`CREDENTIAL_OPERATIONS` and the lanes,
`CREDENTIAL_OPERATION`, `ACCOUNT_MUTATION`) bind only itself.

## 2. The modules

| Module | Models | Kind |
|---|---|---|
| `ProviderRefresh` | `commands/providers.rs` with the `AppState` it locks | component |
| `MCProviderRefresh` | the failure policies its runs use | instance |
| `ProviderRefresh_proofs` | | proofs |
| `SingleFlight` | the promise in the header of `coordinator.rs` | abstract specification |
| `SnapshotCoordinator` | `coordinator.rs` | component, implements `SingleFlight` |
| `AutoResume` | `auto_resume.rs` for one provider, with the commands that clear it | component |
| `AutoResume_proofs` | | proofs |
| `Updater` | `commands/updater.rs` and the transfer of `rust/src/updater.rs` | component |
| `SharedJobs_proofs` | | proofs of these two components, which run one job for many callers |
| `CredentialLanes` | `fetch_coordination.rs`, the token refresh of `api.rs`, the credential writes of `account_manager.rs` | component |
| `MCCredentialLanes`, `CredentialLanes_proofs` | | instance, proofs |
| `CodexAccounts` | `commands/codex_accounts.rs` with the stores, the switch runtime and the restart script | component |
| `MCCodexAccounts`, `CodexAccounts_proofs` | | instance, proofs |
| `ClaudeAccounts` | `claude/accounts.rs`, `commands/claude_accounts.rs`, the OAuth fetch and its token cache | component |
| `MCClaudeAccounts`, `ClaudeAccounts_proofs` | | instance, proofs |
| `UsageAlerts` | `notifications.rs`, the quota hooks of `core/hooks.rs`, the end of a batch that feeds them | component |
| `MCUsageAlerts` | | instance |
| `RefreshSurface` | `useProviders.ts` behind the events of `commands/providers.rs` | component |
| `MCRefreshSurface`, `RefreshSurface_proofs` | | instance, proofs |
| `CodexScan` | `cost_scanner/codex*`, the cache and reader of `core/jsonl_scanner*` | component |
| `MCCodexScan` | | instance |
| `Usage_proofs` | | proofs of `UsageAlerts` and `CodexScan`, what the user is told of the usage |

### ProviderRefresh

A *task* is a call of `do_refresh_providers_with_policy`; `LoopTask` is the one
sequential loop of `auto_refresh.rs`, the others are commands, tray actions and
spawned follow-ups. An action is what runs under one acquisition of the
`AppState` mutex, or one read of a store outside it, so that every await and
every unlock in the code is a place where any other actor may step in.

| Actions | Code |
|---|---|
| `StartFromUser`, `StartFromLoop`, `StartFollowUp`, `LoadSettings`, `LoadInputs` | the call up to `reserve_provider_refresh`: the expected generation is read first, the stores later |
| `Begin`, `RejectBegin` | `reserve_provider_refresh`, which re-checks the flag, the generation and the freshness |
| `Prune`, `Spawn` | pruning under a generation check, `spawn_provider_refreshes` |
| `Acquire`, `PublishUsage`, `PublishFailure`, `DropSuperseded`, `Settle` | `refresh_provider`: permit, fetch, and the publication with reset backfill and last-good policy in one critical section |
| `SettleLanes` | `refresh_codex_account_lanes`, whose snapshots are saved under the lock |
| `Finish`, `FinishSuperseded`, `Complete` | `finish_provider_refresh` and what follows it |
| `CommitAccount`, `InvalidateAccount`, `EndAccountChange` | the account commands: files, `invalidate_account_usage`, follow-up |
| `SaveSettings`, `InvalidateAndPrune`, `EndSettingsChange` | `update_settings` |
| `ToggleFromTray`, `ToggleWatch`, `Age` | the tray's check items, the auto-resume switch, 30 s passing |

Usage is abstracted to whose it is: an account *epoch* that every account change
increases, carried by the entry and, separately, by the reset time in it, which
may have been backfilled from an older entry. A fetch uses the credentials
loaded with the batch or, for providers that read their own credential file, the
ones in place when it runs. The history variables `floor` (the epoch at the last
invalidation), `hidden` (failures hidden since the last success) and `toggled` (a
provider was toggled from the tray) exist for the properties only.

Left out: the events, which `RefreshSurface` takes up, the alerts at the end of a
batch, which `UsageAlerts` takes up, the tray update after each step, the proof
harness's seeded snapshots, and the wrapping of the u64
generation, which no run of the program reaches. Account lanes take permits of the
same semaphore; they are not counted against `MaxPermits`, which only makes more
interleavings possible.

### SnapshotCoordinator and SingleFlight

`SnapshotCoordinator` has one action per critical section of
`SnapshotCoordinator::get`: the decision under the slot lock (`Serve`, `Join`,
`Lead`, and enabling the waiter before the slot is unlocked), the three steps in
which a build that ended stores its outcome, updates the slot and wakes its
waiters, and the two of a guard dropped by a panic or a cancelled request. A
waiter keeps the flight it joined. Only the time to live is abstracted, to
`Expire` at any moment.

`SingleFlight` is what a caller may rely on, from the comment that heads the
file: one build at a time, every call answered with the outcome of a build that
was running when it asked or of a cached success, errors never cached. It knows
neither locks nor wake-ups. `KeepsPromise` is the refinement.

### AutoResume

An *observer* is a call of `observe_fresh_snapshot`. One batch makes one such
call per provider; calls overlap when a batch is superseded while its call still
scans, which is why the code gives every operation a token. The model's token is
the call itself. The maps of `AutoResumeState` hold one independent entry per
provider, so one provider is modelled; `Rechecks` says whether it is Claude, whose
identity is compared once more before the session is opened, or Codex.

| Actions | Code |
|---|---|
| `Observe` | the call in `refresh_provider`, after the snapshot was published and the lock released |
| `ReadSettings`, `ReadLane`, `Ignore`, `Clear` | `observe_fresh_snapshot` up to its decision, one action per store read |
| `SkipCapture`, `BeginCapture`, `Scan`, `FinishCapture` | `begin_capture`, `capture_session` and the second read of the switch, `finish_capture_state` |
| `ClearMismatched`, `SkipResume`, `BeginResume` | `begin_resume_attempt` |
| `GiveUp`, `Found`, `RecheckSettings`, `RecheckLane`, `RecheckIdentity`, `Confirm`, `Act`, `Abandon`, `FinishResume` | `resume_captured_session` and `resume_attempt_is_still_valid` |
| `SwitchAccount`, `InvalidateSwitch`, `TurnOn`, `TurnOff`, `ChangeTokenAccount`, `ClearOwed` | the commands: the change is saved first, the clear follows |

A *lane* is what an arm is bound to, quota source and account identity. A
snapshot is reduced to what decides: whether it is live, whose lane it shows, which
windows are blocked and which available (an informational or missing window is
neither). What a scan finds is a choice, so is whether opening the session
succeeds; focusing a running session and launching a new one are one action.
A login made outside the program, which no code of it observes, is left out.
`armings`, `begunOn` and `spent` number the arms and remember which were resumed.

### Updater

A *call* is a command (`Invoke` picks one the surfaces offer; a check also runs
when a window opens, and quitting applies what is ready). A download lives on
after its command as a task, with a second task that turns what the watch channel
holds into state; both share the call's name. The module's names start with `Upd` where
`SnapshotCoordinator` has the same, so that one module can extend both for their proofs.

| Actions | Code |
|---|---|
| `BeginCheck`, `RefuseCheck`, `Announce`, `EmitChecking`, `Answer`, `EmitLast` | `check_for_updates`: its three locked sections and two events |
| `ReadInfo`, `RefuseDownload`, `BeginDownload`, `EmitStart` | `download_update`: release and state are under two locks |
| `Chunk`, `Complete`, `Fail`, `FinishDownload`, `EmitFinal`, `Abort` | the download task |
| `Hear`, `Report`, `EmitProgress` | the progress task: the channel keeps the latest value only, an abort takes effect where the task awaits |
| `Dismiss`, `Launch`, `ApplyFails` | `dismiss_update`, `apply_ready_update`, which run to their end on the main thread |

`shown` is what the surfaces received last; a command's return value repeats the
event it emitted and is left out. Progress is a value without a number, the
installer's file is known by its release: a digest of another release never
matches it.

### CredentialLanes

The files are those of the Codex homes: `Ambient` is `~/.codex`, the numbered ones
are the directories under `managed-homes/`. A file holds an account and its
refresh token; the token's number stands for `last_refresh` too. The OAuth server
(external) accepts a token once and answers it with the next.

| Actions | Code |
|---|---|
| `EnterFetch`, `TakeLane` | the read side of `CREDENTIAL_OPERATIONS` and the route, then the lane of the routed file and the synchronisation of the active copy |
| `SendRefresh`, `ReceiveRefresh`, `LoseRefresh`, `FinishFetch`, `TimeOut` | the fetch of `api.rs`: one or two refreshes, saved to the file the lane protects, a last synchronisation; the 30 s timeout drops it at any await |
| `BeginSwitch`, `BeginReauthenticate`, `LockMutation`, `LeaveSwitch`, `Materialize`, `Replace` | `switch_active_account` under the write side, one action per file operation |
| `LogIn`, `LogInAt`, `Reauthenticate`, `FailLogin`, `AddAccount`, `RemoveAccount` | the outcomes of a login in a temporary home, and the removal |
| `CodexRotates`, `CodexLogIn` | Codex itself, which takes none of the locks: it refreshes the active account's token, and the user signs in with it as anybody at the ambient home or, with `CODEX_HOME`, at a managed one |

`gone` remembers the accounts whose login the user gave up, or whose token was spent
by a request whose answer never arrived; `relogged`, that Codex was signed in
outside the program. Both are what `CredentialKept` cannot
promise anything about. `crossed` holds the fetches that held the lane of a home
when somebody signed in there. A managed home changes hands by such a login
(`codex_accounts.rs:54` expects it) or by the answer to a refresh of one of these
fetches, which saves the old account over the new login, and by nothing else
(`HomesKeepOwner`). A removal that is refused because its home has changed hands
changes nothing here and is left to `CodexAccounts`. Codex is assumed not to write
between the two copies of a switch: nothing in the program could prevent it, and the
window is two file operations long.

### CodexAccounts

The same homes from the side of the settings panel. Credentials are reduced to whose
they are, since `CredentialLanes` has their tokens; a uuid is the account it was
made for and a number, `Fresh` while it was never saved. `ACCOUNT_MUTATION` admits one
command at a time; `codex_account_fetch` and the lanes of a refresh run beside it.

| Actions | Code |
|---|---|
| `AddAccount`, `Reauthenticate` | `codex_account_add`, `_reauthenticate` |
| `BeginRemove`, `RefuseRemoval`, `RemoveAccount`, `FailToRemove` | `codex_account_remove` in its two steps, the list it loads and what it then deletes and persists, with `invalidate_restart_for_removed_account`; it is refused when its home belongs to somebody else by now, and may stop between the directories it deletes |
| `BeginSwitch`, `Replace`, `KeepActive`, `FailSwitch`, `Remember`, `EndSwitch` | `codex_account_switch`: files, pending restart, invalidation, account list |
| `RestartDesktop`, `FailRestart` | `codex_account_restart_desktop` with the script's `Sync-DesktopSessionState`, one entry failing |
| `StartFetch`, `Route`, `ReadUsage`, `FailFetch`, `SaveLane`, `SaveAsked`, `PersistLoaded` | a lane or `codex_account_fetch`: the choice of the home (the active account's managed home is read at the ambient one) before its lane is free, the read of whoever is signed in there by then, its check that the account is still the one it asked for, its snapshot, and its save of the list it had loaded |
| `CodexLogIn` | a login in a terminal, at the ambient or a managed home |

`Listed` is `list_accounts`, the merge of the saved list with the homes on disk,
which every command computes anew; a stored managed record whose home now
belongs to another account is dropped from it. `mishaps` is the history of what the
properties except: a switch made while a restart was still owed (`skipped`), a
restart repeated after it failed half-way (`replayed`), a removal that deleted
some homes (`partly_removed`), a list saved by a fetch or a removal over a newer one
(`overwritten`). `resigned` names the managed homes at which somebody else signed in
outside the program, and a fetch is `crossed` when a login between its steps decides
whose usage it reads or whether it passes for current (`Crosses`).

### ClaudeAccounts

The active login is two files, `oauth` (credentials) and `identity`; a saved login
is one record of both. Tokens are numbered in the order in which they were handed out,
which is also the order of their expiry; whether an access token has run out when
a fetch looks is a choice.

| Actions | Code |
|---|---|
| `BeginFetch`, `AdoptFromDisk`, `SendRefresh`, `Persist`, `FailToPersist`, `EndFetch` | the OAuth fetch: the file or the cached token, whichever expires later; the login written meanwhile by Claude Code; refresh; write-back |
| `BeginProbe`, `EndProbe` | the probe that runs the CLI under the same lock, and may be cancelled with the CLI still running |
| `BeginAdd`, `SignIn`, `FailLogin`, `ImportLogin`, `FailToImport` | `claude_account_add`, in a directory of its own; cancelling is one of its failures. The directory is deleted before the import (`login.rs:93`): a login that cannot be imported is lost |
| `SaveCurrent`, `Remove` | `save_current`, `remove` |
| `BeginSwitch`, `Preserve`, `RenameCredentials`, `RenameConfig`, `FailSwitch`, `RestoreCredentials`, `FailToRestore` | `switch`: the outgoing login is saved, both files are staged and renamed in turn, the first one put back when the second fails |
| `Crash` | the program ends between any two of these |
| `OpenCli`, `CloseCli`, `CliRotates`, `CliLogIn`, `CliLogOut`, `SwapSwitch` | Claude Code in a terminal and `claude-swap`, which take no lock |

Waiting for the lock is merged with taking it. `claude-swap` keeps one login besides
the active one, and its switch does not clear the token cache. Left out are the
keyring and environment sources, the cache of CLI results and the rate-limit
back-off (a refused fetch ends). A sign-in counts as the account's own when it is
imported. No Claude Code session is opened, closed, signed in or out between the renames of a switch: an assumption, as above.
`auto_resume::clear` on a switch belongs to `AutoResume`. `mishaps` again names the
exceptions: a switch that stopped between its renames and could not go back
(`torn`), a login in a terminal that a refresh on its way overwrote (`overtaken`), an
account added again while active (`readded`), a switch by claude-swap (`swapped`).

### UsageAlerts

A batch (`Start`, `Publish`, `FailFetch`, `Finish`, `CloneCache`, `Notify`) loads
settings and token accounts once, when it starts, clones the cache after it has
released the refresh lock, and feeds the alerts under a third lock, so that
another batch may come in between and alerts may see an older clone after a newer
one. `ChangeSettings` and `SwitchAccount` are the user. `AfterThresholds` and
`AfterTransition` are `check_and_notify` and `check_session_transition`; `HooksFrom`
is the crossing test of `emit_quota_threshold_hooks`. Percentages are in hundredths:
the boundary of "depleted" is 99.99. `Identity` is what the toasts and hooks are
keyed by, the token account or the account in the snapshot.

History is kept by whose usage an entry shows, not by what the code keys it by.
`reached` and `shown` are the kinds each account's lane has called for since it was
below every threshold, and the toasts it got; both are followed while toasts are
off, too (`unarmed`). `observed` is an account's last reading fed to the hooks, and
`misfired` compares the hooks that ran with `Called`, a rule written without the
code's baselines and branches. A batch whose token account is not the owner
of the entry in the cache, as after a change of account with the old entry still there,
feeds one account's reading to the other's alerts. The lanes of both are then `astray`
for the toasts, until a batch of their own account finds them below every threshold,
and `muddled` for the hooks, until their own next reading. `everHidden` is history as
well. Left out:
predictive warnings, status toasts, the DeepSeek pricing toast, sounds, the threads
that run a hook's command, and `HookTransitionDetector` of the sequential
`hooks watch`. One provider is modelled, since toasts and baselines are keyed by it.

### RefreshSurface

The shell's side is a projection of `ProviderRefresh` on what a surface can tell: a
cached snapshot is its version, and a batch or command owes the surface what it has
written and not emitted.

| Actions | Code |
|---|---|
| `StartAll`, `StartElsewhere`, `Reserve`, `Reject`, `Announce`, `Publish`, `Tell`, `Finish`, `Complete` | a batch: who starts it, the refresh lock, and each event apart from the write it tells of |
| `UpdateSettings`, `ChangePresentation`, `ChangeAccount`, `TellPlaceholder`, `TellSettings`, `FollowUp` | the commands that invalidate, emit and start the follow-up refresh |
| `Restart`, `Listen` | the hook's effect: the reload it asks for and the listeners it registers |
| `Answer`, `Receive` | `get_cached_providers`, answered in any order; a reply of an older epoch is dropped |
| `Deliver` (`OnUpdated`, `OnSettings`, `OnStarted`, `OnComplete`), `FlushTimer`, `Refresh` | the listeners, the 80 ms batching of updates, the refresh button |

Events from one window's queue arrive in the order they were emitted, but are
emitted in any order with respect to the writes. Left out: the final unmount;
pruning is merged with the event that a refresh started, a save with its
invalidation. On a restart the old settings-changed listener is taken to be
unregistered at once (it alone has no `cancelled` check). What a settings change
does to the presentation of a value in an event is left out. One surface is
modelled: surfaces do not talk to each other.

`stale` and `unended` are history, the exceptions of the two settled-state
properties. A provider whose last event was overtaken by an older value, or
missed, stays behind until its next event, which `events.rs:5` accepts. A surface
that heard of a refresh whose end nobody announces keeps its spinner, and a dead
refresh button, until the next batch: all providers were disabled while they were
refreshed, a batch announced itself after it was superseded, or
`refresh-complete` came while nobody listened.

### CodexScan

A session file is a number of two-byte records, perhaps a torn byte after them, and
perhaps a parent session it continues from some record on. A cache entry counts
what was read of it up to an offset; the size stands for the modification time
and the file's identity too. The module's names start with `Scan` where those of
`UsageAlerts`, with which it shares a module of proofs, would be the same.

| Actions | Code |
|---|---|
| `Create`, `Append`, `Lose`, `Unmount`, `Mount`, `LoseCache` | Codex and the user's disk |
| `StartWalk` | `load`, the range of the scan, the debounce (`ShownFromCache`), discovery, the pending range, the established report |
| `Inspect`, `ReadFile` | `parse_codex_file_bounded` around the open of the file: `Parse`, resumption from an offset (`Resumable`, `Target`), a fork's baseline, the entry kept (`EntryOf`, `Keep`) |
| `Cancel` | the cancel flag, seen between files |
| `FinishScan` | reconciliation of missing files, queue, pause (`Result`), and `save` with its checks that the cache on disk has not changed |

`good` remembers, of the last complete cache saved, the report, what its scan
had found of each file, and whether the sessions root was away at the save.
Abstractions: one root, one time zone and one day, so that
the records of a file all belong to its directory's window; midnight is left out;
any order among equal candidates; the limit per file is that of the refresh, the limit on
the number of candidates is left out; discovery is one step; the checks of `save`
and its copy are one step (a copy that overtakes another between its last check and
the rename is left out); session files do not shrink; a day's directory is lost only with the whole root.
The record with a file's metadata is never torn, and a torn record is never valid as it
stands, so that `AtBoundary` only tells whole records from torn ones. Forks of
forks are left out. Pricing, the byte budget
with its pruning and trimming, Pi sessions, ambiguous forks and legacy
identities are left out.

## 3. What is checked

| Run | Instance | Question |
|---|---|---|
| `RefreshSafety` | 2 providers (one with accounts, one with reset backfill and lanes), 2 tasks, a writer, the tray, 2 changes | can anything of the replaced account come back, can a disabled provider's usage stay, can the flag have no owner or two, can a second failure hide behind good data |
| `RefreshLiveness` | 1 provider, fair | does a refresh end, can old account snapshots overwrite new ones, is the placeholder replaced, is a newly enabled provider fetched |
| `Coordinator` | 3 calls, 3 builds, fair | is every step one of `SingleFlight`, does every call return |
| `Resume` | Claude, 2 calls at a time, 3 snapshots, 2 changes, fair | can a late completion touch a newer operation, can a switched-off watcher be armed, can one arm open its session twice or for another account, is every marker released |
| `UpdaterCommands` | 2 calls at a time, 6 commands, an installable and a manual release, fair | can a state be offered without its release or file, can what was dismissed be installed, does a check end |
| `CredentialLanes` | 2 accounts, 2 fetches, 3 managed homes, 4 tokens | can an account lose its last good token, can two writers meet in a file whose lane is held, by what can a managed home change hands |
| `CodexAccounts` | 2 accounts, 1 fetch, 3 managed homes, 1 session entry, 1 login at any home, 1 failed restart; sessions or fetches | can quota, a session, a restart or a listed home belong to another account than it says |
| `ClaudeAccounts` | 2 accounts, 4 tokens, 1 crash, 1 kind of mishap | can token and identity be of two accounts, can a login be lost, can a fetch show the replaced account |
| `UsageAlerts` | 2 token accounts, 2 tasks, 4 readings and absence, 3 polls, 1 change | is each climb of an account told once, each depletion told and resolved, are the hooks that run those its readings call for |
| `RefreshSurface` | 1 provider, 2 batches, 1 command at a time, 2 versions, 2 changes | once everything has arrived, does the surface show the cache and claim no refresh, can something queued be left behind |
| `CodexScan` | an old and a new session that may be a fork, 2 scanners, 2 scans, 2 and 1 records, 1 fault or cancellation | is a count what was read, is a window called complete whole, is the last report kept, does a pause hold |
| `UpdaterStuck` | 1 call, 2 commands, fair | the finding below |

Type invariants are run for `CodexAccounts` and `CodexScan` only and proved for every
module, as are the coordinator's `SlotHasBuilder`, `NoStaleError` and
`SharedOutcome`.

### Bounds and why they are enough

Each hazard of the refresh pipeline takes two batches and one change to show up,
or two changes and a batch loaded between them. A provider's fate depends on the
others only through the generation, the flag and the permits; one provider is
enough where the property speaks of one, two where it needs an enabled and a
disabled one. `FailureCap` stands for 255: what matters is whether the count stops
at the cap, so a cap of 1 or 2 is reached in a few steps. `MaxStarts` and
`MaxChanges` bound what users do. What more tasks and changes could add is covered
by the theorems, which hold for any number of them. The coordinator's run has
as many builds as calls, so that every call can lead one. `MaxBuilds` is the only
reason why it can stop with a call unanswered, hence no deadlock check there;
in the other runs the users may simply have nothing left to do.

A wrong resume needs a call that captures and one that resumes, and a stale
completion a newer operation to harm, begun after a clear; a call that has returned
can be made again, so two at a time and three snapshots reach them all. Two lanes
are the old and the new account. One slot is enough because `blocked_slots` is only
compared as a whole.

A download that ends late needs a check before it and a dismissal, a check or a
second download across it: two calls at a time, and six commands so that they can be
made again.

A token is lost between two fetches of one account, or a fetch and a switch: two
accounts, the active one with its copy, two fetches, and two tokens to hand out after the
two of the first state. Three homes are one that exists, the one a switch makes for the
outgoing account and one for a second switch or a login. In `CodexAccounts` the
names of the homes are permuted so that the order in which they are listed
differs from the order in which they were made. Its constraint (`OneSubject`) lets no behaviour have both fetches
and saved sessions, which share only the accounts and no property, and none with a login
and a failed removal together with fetches. One login suffices for a home that changes
hands under a fetch; a second, back within the same fetch, makes it `crossed` (the same
instance with two logins has 17.7 million states and passes). The theorems hold without
the constraint and for any number of logins and fetches. In `ClaudeAccounts` the four tokens are the two of the first state, a
refresh or login, and one after it; a second kind of mishap in one behaviour would
only add exceptions.

The readings of `UsageAlerts` are below every threshold, above the first, just depleted and
full, so every crossing between two of three polls occurs; three polls are a climb, a
fall and a climb. In `RefreshSurface` two batches are what overtakes and is
overtaken, two changes are a reload and one that overtakes it, and two versions are
the value there was and the one that replaced it; its three invariants are proved for
any number of them. In `CodexScan` a scan reads one record at most, so that the old session needs two scans or a
queue; a torn record, a fork and the loss of a file, the root or the cache each occur
with another scanner in between. `MaxFaults` counts these losses and the cancellations
together. The inductive invariant was run on the same instance, and all five properties
are proved for any number of files, records, scans and losses.

### Fairness

`ProviderRefresh!Fairness` asks that what has been started runs on: fetches are
bounded by `provider_fetch_timeout`, the semaphore hands out permits in order, a
command runs to its end and a spawned task is scheduled. Nothing is asked of
users, of the loop's ticks or of time. `SnapshotCoordinator!Fairness` asks the
same of a call and a build; a build may fail or be dropped, but it ends.
`AutoResume!FairSpec` asks that a call that was made runs on: session scans are
bounded by timeouts of their own, and the rest of the call does not wait.
`Updater!FairUpdSpec` asks the same of commands and of the download task; the check's
request has a timeout of 15 s. Nothing is asked of the progress task.
The other modules state no fairness: what a surface must eventually show is
said of the states in which everything has arrived (`SettledViewCurrent`,
`SettledIdle`), the rest of their properties is safety.

### Findings

* **A failed download can stay "downloading"** (`UpdaterStuck`). The progress task
  sets `Downloading` whatever the state is, and is aborted only after the download
  has set and announced its outcome. A progress value still in the channel then
  overwrites `Error`; checks and downloads are refused and no surface offers a
  dismissal until the program restarts. The error may even be announced after that,
  so that the surfaces show a Retry button the backend answers with nothing.

### Exceptions a property names

The following are in the models; a property that would otherwise hold excepts them,
by a history variable or a constant.

* **A follow-up refresh can be swallowed.** `invalidate_provider_refresh_and_prune_disabled`
  clears the flag "so a follow-up force refresh can start immediately (otherwise ...
  newly enabled providers never get a replacement run)" (`providers.rs:273`). The
  follow-up is spawned later. A batch of the watcher for *another* provider, which
  covers only the watched ones, may take the flag in between; the follow-up then
  returns at once, and with the timer off nobody fetches the provider. The liveness
  run has no such batches (`Watchable` is empty).
* **The tray toggle leaves the protocol.** `MenuAction::ToggleProvider` saves the
  enabled set without invalidating, so a running batch keeps and publishes the usage
  of a provider just disabled (`toggled`).
* **A late observation arms for the replaced account.** A call of
  `observe_fresh_snapshot` made just before a switch takes the generation it finds in
  `begin_capture`, not its batch's, and captures under the new account. A second
  such call that saw the quota restored can resume that arm: for Codex the identity in
  place is not compared again, for Claude it is (`Rechecks`).
* **A dismissed download becomes ready without its release.** Nothing dismissed is
  installed (`DismissedStays`), but the state left is one in which neither install nor
  the release page works, until the next check.
* **A restart that failed half-way is replayed** (`replayed`), although "replaying it after
  relaunch would overwrite that backup" (`codex_accounts.rs:443`): the restored half is
  saved over the outgoing account's session. A second switch before Desktop has
  restarted (`skipped`) files the session of the first account under the second.
* **An account list is written back** (`overwritten`): `codex_account_fetch` holds
  no `ACCOUNT_MUTATION`, so an account removed meanwhile is listed again, perhaps at the
  ambient home, where a fetch that is still out then passes for current.
  `codex_account_remove` does the same to what a login changed after it had loaded the list.
* **A fetch compares the account record, not the credentials it has read** (`crossed`). The
  home is chosen before its lane is free: the active account's fetch from its managed home
  waits for the ambient home's lane, and a login in a terminal meanwhile makes it read the
  new account's usage, while the old account is still listed at its managed home. The check
  (`codex_accounts.rs:529`) passes and the usage is filed under the old account. So it is when
  an account leaves a home and is back before the fetch is saved.
* **A refresh writes over a login at its home** (`crossed` in `CredentialLanes`):
  `save_credentials` does not look whose file it replaces.
* **A torn switch is not repaired by the retry its message asks for.** "Both accounts
  remain saved; close Claude Code and retry switching" (`accounts.rs:237`): the retry
  first saves the pair in the files, the new account's token under the old
  account's identity, over the outgoing account's record (`torn`).
* **A Claude account added again while it is active is not used** (`readded`). The fresh login
  is saved but not made active, the panel shows no switch or save button for it
  (`ClaudeAccountsSection.tsx:93`, `:102`), and the next save or switch overwrites it with
  the one in the file, which may be dead.
* **A Claude login that cannot be imported is lost.** `login()` deletes its directory when it
  returns, `import` may fail after that, and the account has to sign in again.
* **A login in a terminal can be overwritten** by the answer of a refresh that was
  on its way (`overtaken`), and **a cached token outlives claude-swap's switch**
  (`swapped`): the usage of the old account is shown until that token expires.
* **Hidden accounts share one hook baseline** (`everHidden`): with two accounts in use,
  hooks run without a crossing. Toasts are keyed by the account even then. For a
  provider without token accounts the identity is the snapshot's own.
* **One account's usage is told as another's** (`astray`, `muddled`): toasts and hooks go by the token
  account of the batch (`providers.rs:951`), the entry in the cache may be the one of
  the account in use before.
* **A climb goes untold** (`unarmed`): a lane below its threshold while toasts are off is not
  re-armed (`notifications.rs:281`), so that the next climb with toasts on shows nothing.
* **A window is called complete without its files** (`good.away`): when the sessions root vanishes
  under a scan that the user asked for, the scan takes the files it had found for deleted
  (`codex.rs:391`) and saves the rest as complete (`codex.rs:436`); after the root is back,
  the figures are too low until the next scan that is not answered from the cache.
* **Nobody announces the end of some refreshes** (`unended`, see `RefreshSurface`).
* **A machine without Codex has its history paused.** The scan that finds no sessions
  root takes it for one that was lost, although "missing optional roots are normal"
  (`reconciliation.rs:71`). No figure is wrong, and a scan the user asks for
  lifts the pause. So does it after a torn record was seen by two scans in a row, or a
  cached session was archived: `NoProgress` in both. A fork whose parent went on
  after it stays unresolved, and a large fork is read from its start each time. When
  a scan of a week completes, the range of the cache is narrowed, and the next
  scan of a month reads all of it again.

## 4. What is proved

The theorems hold for every set of providers, tasks, writers, callers, accounts,
fetches and batches and for every bound. They assume only what the `ASSUME` of each
module states: that constants have the right type, that markers such as `NoAccount` are
none of the things they are not, that thresholds are ordered, that the loop is one
of the tasks. They hold for `Spec`, without fairness.

| Theorem | Property | Argument |
|---|---|---|
| `ProviderRefresh_proofs!TypeCorrect` | `TypeOK` | `Basics`: types, no token above the generation, fetches only in a running batch |
| `LockIsOwned` | `LockHasOwner` | inductive with `Basics`: an owner's token is the generation, and only `Begin` hands that out, with the flag clear |
| `SupersededNeverShown` | `NoSupersededUsage` | `SupersededInv`: a batch that is still current loaded its inputs after the last invalidation, since it read the generation before it read the stores. This is the fact that fails if the two reads are swapped |
| `LanesKeepTheNewest` | `LanesNeverRegress` | tokens are at most the generation, and a lane write needs equality |
| `OneFailureHidden` | `FailureHiddenOnce` | `FailureInv`: good data with a zero count hides nothing |
| `DisabledNeverCached` | `NoDisabledUsage` | `DisabledInv`, as long as the tray's check items are not used: unless the writer that saved last has yet to prune, cache and current batches keep to the enabled set |
| `SharedJobs_proofs!SingleBuilder`, `ErrorsNeverCached`, `OutcomeIsShared`, `TypeCorrect` | `SlotHasBuilder`, `NoStaleError`, `SharedOutcome`, `TypeOK` | the inductive `Inv` of the module |
| `CoordinatorKeepsPromise` | `KeepsPromise` | initial states map to initial states, and each action to one of `SingleFlight` or a stutter, given `Inv` |
| `AutoResume_proofs!MarkersAreOwned`, `TypeCorrect` | `MarkersOwned`, `TypeOK` | `Basics`: no operation is ahead of the generation, and a clear leaves all of them behind it |
| `OffDisarms` | `DisarmedWhenOff` | `EnabledInv`: an arm, or a capture about to make one, means that the switch is on or a clear is owed |
| `OwnAccountOnly` | `ResumesOwnAccount` | `IdentityInv`: a current resume about to take its last check compared the identity in place; assumes `Rechecks`, without it the property is false |
| `OneResumePerArm` | `OncePerArm` | `ArmingInv`: operations begun on the same arming are one (`ResumesApart`), the marker's holder works on the arm that is there (`ResumesTheArm`), a spent arm is about to be removed by the call that spent it (`SpentOnce`) |
| `StatesAreBacked`, `UpdTypeCorrect` | `StatusBacked`, `UpdTypeOK` | inductive with the types: a task holds the installable release it was started for |
| `DismissalHolds` | `DismissedStays` | `DismissalInv`: until a check answers there is no release, hence no digest, and after the exit nothing runs |
| `CredentialLanes_proofs!TypeCorrect` | `TypeOK` | `TypeInv` adds `FetchOK`: a fetch that holds a lane has loaded credentials; and that a switch has a target |
| `HomesKeepTheirOwner` | `HomesKeepOwner` | `HomesOwned`: the credentials a fetch has loaded are of the account in its home, if there is one, unless a login crossed it. With it each step that writes to a home keeps the account (`SameOwner`), the synchronisation because it compares the two |
| `LanesProtectFiles` | `LaneProtectsFile` | `LaneInv`: fetches read while no mutation writes (`Outside`), no two hold one lane (`Apart`), and a route into a managed home stays right while its fetch reads (`Routed`), because then only a login outside the program can change the active account |
| `ClaudeAccounts_proofs!TypeCorrect` | `TypeOK` | `TypeInv`: a fetch, a signed-in login and a renamed switch hold logins, not their absence; a fetch, a probe and a switch exclude each other |
| `LoginsStayPaired` | `LoginsPaired` | `Paired`: between the two renames of a switch the credentials are the target's, and the ones it would put back are of the identity still in place; elsewhere the credentials are of the identity. A token is written back for another account than the file's only as an `overtaken` |
| `CredentialIsKept` | `CredentialKept` | `KeptInv`: the latest token of an account is in one of its files or with a fetch that has yet to save it (`InFile`, `InFlight`). For that a token must be one account's (`TokensOwned`) and what a fetch has asked for known to no other (`Private`); what a fetch has loaded is the token of its home, and the active copy is not behind it, or the synchronisation is still owed |
| `UsageIsActive` | `UsageOfActive` | `CurrentInv`, with `Owned` (no token is ahead of the counter): a cached token that is later than the file's is of the file's account, and so it will be of what a failed switch would put back and of what a refresh will bring |
| `LoginIsKept` | `LoginKept` | `KeptInv`, as long as no mishap was: a token belongs to one account (`Owned`), the ones in the slot, in an answer awaited and in a sign-in not yet imported are used nowhere else (`Private`); a switch in progress holds the login it replaces (`SwitchKeeps`), so that the latest token of each account is active, saved, or held by the refresh that is about to write it (`ActiveGood`, `StoredGood`) |
| `CodexAccounts_proofs!AccountsTypeCorrect` | `TypeOK` | `TypeInv`: whatever names a home, the list, a command, a fetch or a pending restart, names one of its account or of nobody, or one at which somebody else signed in (`Belongs`). That stays, because a home passes to another account by such a login only and a uuid is given once (`HomesForward`, `IdsForward`) |
| `KeptQuotaIsItsAccounts` | `SnapshotOwned` | `ReadInv` says it of each fetch that no login crossed (`Filed`): the home chosen for it is its record's, or the ambient one while its account is there or has left the record's home; and what it has read is its account's, or its account has left the home it is recorded at and is not listed there again under that uuid (`Moved`), not even before the switch that moved it has stored its new home |
| `SavedSessionIsItsAccounts` | `SessionOwned` | `SessionInv`: Desktop runs with the outgoing account's session until the restart, and nothing is saved in a home of somebody else's |
| `PendingRestartHasItsHomes` | `PendingHomesKept` | `ResultKept`: the homes are the two accounts' (`HasHomes`, but for a login there) from the moment the switch knows them, since no home is deleted while it holds the command; then `Revoke` goes before each deletion |
| `AccountIsListedAtItsHome` | `ListedAtItsHome` | `ListInv`: no account is stored at a managed home that is gone. Each command persists what is listed, edited for one account (`EditStep`), unless a fetch or a removal writes back an older list |
| `Usage_proofs!TypeCorrect` | `TypeOK` | one lemma for the steps of a batch, one for `Notify` |
| `OneToastPerClimb` | `ToldOncePerClimb` | `Remembered`: but for the lanes gone astray, the kinds a lane reached are among the toasts remembered for it, none was shown twice, and each was shown unless the lane is `unarmed`. Its lanes are told apart by account and window in every branch of `AfterThresholds` |
| `DepletionIsTold` | `DepletedIsTold` | inductive with `TypeOK`: a level and its toast change together, also while toasts are off |
| `HooksOnTheirCrossings` | `HooksOnCrossings` | a lemma that the code's crossing test runs what the rule `Called` asks for; with it `BaselinesOwned`: until personal information is hidden, the baseline of a lane that is not muddled is the account's reading the hooks last saw |
| `Usage_proofs!ScanTypesCorrect` | `ScanTypeOK` | the inductive `ScanInv`, which all theorems about `CodexScan` use: what each scan under way holds (`ScanHolds`) and what the disk holds (`DiskHolds`) |
| `RecordsAreCountedOnce` | `EntriesExact` | `Exact`: the count is half the cursor and not above the records of the log, so a parent read to its end (`SettledWhole`) that is not later than the fork counts just what the fork continues (`LogHolds`, `BaselineIsFork`) |
| `CompleteWindowsAreWhole` | `CoverageIsReal` | `Found`: what a scan found in a file is counted, or the file is still in its list or its queue, so an empty queue leaves nothing uncounted but what the scan takes for deleted; `Whole` is the same of the cache on disk, unless the root was away when it was saved, as logs only grow |
| `LastReportIsKept` | `KeepsLastReport` | the report the cache would establish is always the last complete one (`DiskHolds`), and a scan that may still save carries it (`UpToDate`), since any save in between makes it outdated |
| `PausedCatchUpWaits` | `PauseHolds` | `UpToDate`: an ordinary scan that may still save loaded a cache that had not paused |
| `RefreshSurface_proofs!TypeCorrect` | `TypeOK` | `Parts`: the conjuncts by the part of the state they are about |
| `QueueAlwaysDrained` | `QueueIsDrained` | `Drained`: the epoch of a running reload is asked or answered, and every epoch on its way was handed out; a queue without a timer waits for a reload |
| `WaitingEnds` | `SettledIdle` | `HasOwner`: the flag is that of a batch which was not superseded; `EndKnown`: while a surface waits, the end of a refresh is under way, from a batch, a command's follow-up or the queue of events, or nobody announces it (`unended`) |
| `ViewSettles` | `SettledViewCurrent` | `ViewInv`: until everything has arrived, the cached value of a provider is owed, the last one in the queue of events, kept for a flush, still to be read by a request of the current epoch, or shown. It rests on there being at most one request and one reply per epoch (`Once`) and on versions that only grow (`Newest`) |

Every invariant and action property that a run checks is the property of one of these
theorems, except the one that the run `UpdaterStuck` refutes. Only model-checked:
liveness (`RefreshEnds`, `PendingReplaced`, `NewlyEnabledFetched`, `CallReturns`,
`MarkersReleased`, `CheckEnds`), which needs fairness.

## 5. What is not modelled, and the plan

Next, in this order:

1. `CodexAccounts` over `CredentialLanes`: the two views of the homes in one behaviour.
2. `UsageSpend`, `PricingRefresh`: shared scans and refreshes with cancellation;
   `PricingRefresh` against `SingleFlight`'s promise.
3. `SurfaceTransitions`, `TopmostGuard`: window transitions and the flag-guarded loop.
4. `SettingsStore`: lost updates between the writers, and a crash between write
   and rename.
5. `AutoRefreshSchedule`, `ManagedProcess`, `Keepalive`, `HookTransitions`.

Provider adapters, cookie decryption, rendering, locale tables, window
geometry, the command line and the build scripts stay outside: I/O, data or
sequential code with unit tests, where a model would repeat the code. They are most
of the program: some 70 adapters, each a request and a parser, make up the larger part
of the Rust library, and the shared state they touch is in `ProviderRefresh` (the
outcome of a fetch), `CredentialLanes` and `ClaudeAccounts` (their tokens).
