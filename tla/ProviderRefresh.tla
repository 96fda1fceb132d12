-------------------------- MODULE ProviderRefresh --------------------------
(***************************************************************************)
(* The provider refresh pipeline of the desktop shell:                     *)
(* apps/desktop-tauri/src-tauri/src/commands/providers.rs with the AppState *)
(* it locks (state.rs) and the actors that start, supersede and invalidate *)
(* it: the tray/user commands, the sequential loop of auto_refresh.rs, the *)
(* account-change commands and update_settings.                            *)
(*                                                                         *)
(* Every batch is one call of do_refresh_providers_with_policy, run by a   *)
(* task.  AppState sits behind one mutex; an action is what runs under one  *)
(* acquisition of it, or one read of a store outside it.  Everything       *)
(* between two actions (loading settings, network fetches, events) can be  *)
(* interleaved with any other actor.                                       *)
(***************************************************************************)
EXTENDS Integers, FiniteSets

CONSTANTS
    Provider,         \* provider ids
    AccountProvider,  \* those whose account can be changed in place (Codex, Claude)
    Codex,            \* the provider with per-account lanes
    ResetBackfill,    \* providers whose missing reset times are backfilled (codex, zai)
    ErrorPolicy,      \* [Provider -> SUBSET Policy]: last_good_failure_policy over its errors
    Task,             \* concurrent callers of do_refresh_providers_with_policy
    LoopTask,         \* the one sequential loop of auto_refresh.rs
    Writer,           \* concurrent update_settings commands
    Watchable,        \* providers for which auto resume can be switched on
    MaxPermits,       \* MAX_CONCURRENT_PROVIDER_FETCHES, 8 in the code
    FailureCap,       \* u8::MAX in the code: the failure count saturates
    TimerOn,          \* refresh_interval_secs > 0
    TrayToggles,      \* the tray menu's provider check items are used
    MaxStarts,        \* bound: refreshes started by users and by the loop
    MaxChanges        \* bound: account, settings and watch changes

Policy == {"Replace", "Preserve", "PreserveOnce", "PreserveOnceThenSurface"}

ASSUME RefreshAssumption ==
    /\ AccountProvider \subseteq Provider
    /\ Watchable \subseteq AccountProvider
    /\ ErrorPolicy \in [Provider -> SUBSET Policy]
    /\ LoopTask \in Task
    /\ MaxPermits \in Nat \ {0}
    /\ FailureCap \in Nat \ {0}
    /\ TimerOn \in BOOLEAN
    /\ TrayToggles \in BOOLEAN
    /\ MaxStarts \in Nat
    /\ MaxChanges \in Nat

VARIABLES
    \* AppState
    generation,   \* provider_refresh_generation
    isRefreshing, \* is_refreshing
    cache,        \* provider_cache, by provider
    failures,     \* transient_provider_failure_counts
    updatedAt,    \* provider_cache_updated_at_by_provider, against the 30 s of freshness
    \* stores on disk
    enabled,      \* enabled_providers of settings.json
    watch,        \* providers with auto resume after quota reset switched on
    account,      \* epoch of the credentials in place, by provider
    laneOwner,    \* generation that last wrote the Codex account snapshot store
    \* batches
    pc,           \* where the task is in do_refresh_providers_with_policy
    kind,         \* the policy and scope it was called with
    token,        \* expected_generation until it begins, then its generation
    ids,          \* refresh_ids
    cred,         \* epoch of the credentials each fetch uses
    job,          \* state of each spawned fetch
    lanes,        \* the batch's Codex account lanes are still running
    followUps,    \* spawned forced refreshes no task has taken up yet
    \* changes under way
    accountStep, \* account-change command, by provider
    writerStep,   \* update_settings command: [at, ids]
    \* history, read by the properties only
    floor,        \* account epoch at the last invalidation, by provider
    hidden,       \* PreserveOnce failures hidden behind good data since the last success
    toggled,      \* a provider was toggled from the tray menu
    starts, changes \* what is spent of the bounds

appState == <<generation, isRefreshing, cache, failures, updatedAt>>
stores   == <<enabled, watch, account, laneOwner>>
batch    == <<pc, kind, token, ids, cred, job, lanes>>
pending  == <<followUps, accountStep, writerStep>>
history  == <<floor, hidden, toggled>>
spent    == <<starts, changes>>
vars     == <<appState, stores, batch, pending, history, spent>>

Kind == {"forced", "ifStale", "autoResume"}

\* One ProviderUsageSnapshot: what it shows, whose usage it is (an account
\* epoch) and whose reset time its windows carry (0: none).  error.is_none()
\* holds of "good" alone; "surfaced" is last-good data with an error on it.
Entry == [shows : {"none", "pending", "good", "surfaced", "error"},
          account : Nat, reset : Nat]
NoEntry == [shows |-> "none", account |-> 0, reset |-> 0]

IsGood(p) == cache[p].shows = "good"

Init ==
    /\ generation = 0
    /\ isRefreshing = FALSE
    /\ cache = [p \in Provider |-> NoEntry]
    /\ failures = [p \in Provider |-> 0]
    /\ updatedAt = [p \in Provider |-> "never"]
    /\ enabled \in SUBSET Provider
    /\ watch \in SUBSET Watchable
    /\ account = [p \in Provider |-> 1]
    /\ laneOwner = 0
    /\ pc = [t \in Task |-> "idle"]
    /\ kind = [t \in Task |-> "forced"]
    /\ token = [t \in Task |-> 0]
    /\ ids = [t \in Task |-> {}]
    /\ cred = [t \in Task |-> [p \in Provider |-> 0]]
    /\ job = [t \in Task |-> [p \in Provider |-> "none"]]
    /\ lanes = [t \in Task |-> FALSE]
    /\ followUps = 0
    /\ accountStep = [p \in AccountProvider |-> "idle"]
    /\ writerStep = [w \in Writer |-> [at |-> "idle", ids |-> {}]]
    /\ floor = [p \in Provider |-> 0]
    /\ hidden = [p \in Provider |-> 0]
    /\ toggled = FALSE
    /\ starts = 0
    /\ changes = 0
-----------------------------------------------------------------------------
(* One batch: do_refresh_providers_with_policy, run by task t *)

IsCurrent(t) == token[t] = generation   \* is_current_provider_refresh_generation

\* The call returns; the task can be used for another one.
Return(t) ==
    /\ pc' = [pc EXCEPT ![t] = "idle"]
    /\ kind' = [kind EXCEPT ![t] = "forced"]
    /\ token' = [token EXCEPT ![t] = 0]
    /\ ids' = [ids EXCEPT ![t] = {}]
    /\ cred' = [cred EXCEPT ![t] = [p \in Provider |-> 0]]
    /\ job' = [job EXCEPT ![t] = [p \in Provider |-> "none"]]
    /\ UNCHANGED lanes   \* they have ended, or were never spawned

\* The caller enters and reads expected_generation under the lock.
Enter(t, k) ==
    /\ pc[t] = "idle"
    /\ pc' = [pc EXCEPT ![t] = "settings"]
    /\ kind' = [kind EXCEPT ![t] = k]
    /\ token' = [token EXCEPT ![t] = generation]
    /\ UNCHANGED <<appState, stores, ids, cred, job, lanes, accountStep,
                   writerStep, history, changes>>

\* A tray action or a surface asks for a refresh (forced), or mounts (if stale).
StartFromUser(t, k) ==
    /\ t # LoopTask /\ k \in {"forced", "ifStale"}
    /\ starts < MaxStarts
    /\ starts' = starts + 1
    /\ Enter(t, k)
    /\ UNCHANGED followUps

\* The loop of auto_refresh.rs awaits each of its two refreshes in turn.
StartFromLoop(k) ==
    /\ \/ k = "ifStale" /\ TimerOn
       \/ k = "autoResume" /\ watch \cap enabled # {}
    /\ starts < MaxStarts
    /\ starts' = starts + 1
    /\ Enter(LoopTask, k)
    /\ UNCHANGED followUps

\* A refresh spawned after an account or a settings change begins to run.
StartFollowUp(t) ==
    /\ t # LoopTask
    /\ followUps > 0
    /\ followUps' = followUps - 1
    /\ Enter(t, "forced")
    /\ UNCHANGED starts

\* Settings::load and RefreshScope::provider_ids.  With nothing to refresh the
\* call returns at once, and emits nothing.
LoadSettings(t) ==
    /\ pc[t] = "settings"
    /\ LET refreshIds == IF kind[t] = "autoResume" THEN enabled \cap watch ELSE enabled
       IN IF refreshIds = {}
          THEN Return(t)
          ELSE /\ pc' = [pc EXCEPT ![t] = "inputs"]
               /\ ids' = [ids EXCEPT ![t] = refreshIds]
               /\ UNCHANGED <<kind, token, cred, job, lanes>>
    /\ UNCHANGED <<appState, stores, pending, history, spent>>

\* ProviderRefreshInputs::load reads cookies, API keys and token accounts.
LoadInputs(t) ==
    /\ pc[t] = "inputs"
    /\ pc' = [pc EXCEPT ![t] = "begin"]
    /\ cred' = [cred EXCEPT ![t] = account]
    /\ UNCHANGED <<appState, stores, kind, token, ids, job, lanes, pending, history, spent>>

\* Mutant: the policy is not asked, a forced refresh is skipped like the others.
CanSkipForced(t) ==
    \A p \in ids[t] : cache[p].shows # "none" /\ updatedAt[p] = "fresh"

\* provider_cache_can_skip_refresh
CanSkip(t) ==
    /\ kind[t] # "forced"
    /\ \A p \in ids[t] : cache[p].shows # "none" /\ updatedAt[p] = "fresh"

Rejected(t) == isRefreshing \/ ~IsCurrent(t) \/ CanSkip(t)

\* reserve_provider_refresh: the batch takes the refresh and a new generation.
Begin(t) ==
    /\ pc[t] = "begin" /\ ~Rejected(t)
    /\ generation' = generation + 1
    /\ isRefreshing' = TRUE
    /\ token' = [token EXCEPT ![t] = generation + 1]
    /\ pc' = [pc EXCEPT ![t] = IF kind[t] = "autoResume" THEN "spawn" ELSE "prune"]
    /\ UNCHANGED <<cache, failures, updatedAt, stores, kind, ids, cred, job,
                   lanes, pending, history, spent>>

\* reserve_provider_refresh returns None: the loaded inputs are discarded.
RejectBegin(t) ==
    /\ pc[t] = "begin" /\ Rejected(t)
    /\ Return(t)
    /\ UNCHANGED <<appState, stores, pending, history, spent>>

PrunedTo(ps) == [p \in Provider |-> IF p \in ps THEN cache[p] ELSE NoEntry]

\* An AllEnabled batch that still owns the generation prunes the cache.
Prune(t) ==
    /\ pc[t] = "prune"
    /\ pc' = [pc EXCEPT ![t] = "spawn"]
    /\ cache' = IF IsCurrent(t) THEN PrunedTo(ids[t]) ELSE cache
    /\ UNCHANGED <<generation, isRefreshing, failures, updatedAt, stores, kind,
                   token, ids, cred, job, lanes, pending, history, spent>>

\* refresh-started goes out and spawn_provider_refreshes spawns the fetches and,
\* for an AllEnabled batch with Codex in it, the account lanes.
Spawn(t) ==
    /\ pc[t] = "spawn"
    /\ pc' = [pc EXCEPT ![t] = "running"]
    /\ job' = [job EXCEPT ![t] = [p \in Provider |-> IF p \in ids[t] THEN "queued" ELSE "none"]]
    /\ lanes' = [lanes EXCEPT ![t] = kind[t] # "autoResume" /\ Codex \in ids[t]]
    /\ UNCHANGED <<appState, stores, kind, token, ids, cred, pending, history, spent>>

SetJob(t, p, state) == job' = [job EXCEPT ![t][p] = state]

\* A fetch takes a permit, which it holds until it is done, and goes to the
\* network with the credentials loaded for the batch or, for a provider that
\* reads its own credential file, with those in place by now.
HoldsPermit(t, p) == job[t][p] \in {"fetching", "published"}

Acquire(t, p) ==
    /\ job[t][p] = "queued"
    /\ Cardinality({q \in Provider : HoldsPermit(t, q)}) < MaxPermits
    /\ SetJob(t, p, "fetching")
    /\ \E used \in {cred[t][p], account[p]} : cred' = [cred EXCEPT ![t][p] = used]
    /\ UNCHANGED <<appState, stores, pc, kind, token, ids, lanes, pending, history, spent>>
-----------------------------------------------------------------------------
(* refresh_provider: the fetch has returned (or timed out) and takes the lock *)

DropSuperseded(t, p) ==
    /\ job[t][p] = "fetching" /\ ~IsCurrent(t)
    /\ SetJob(t, p, "done")
    /\ UNCHANGED <<appState, stores, pc, kind, token, ids, cred, lanes, pending,
                   history, spent>>

\* codex_reset_backfill: a window that came without a reset time takes it from
\* the cached good snapshot, while that one lies in the future.
BackfilledReset(p, fetched) ==
    IF fetched = 0 /\ p \in ResetBackfill /\ IsGood(p)
    THEN {0, cache[p].reset} ELSE {fetched}

PublishUsage(t, p) ==
    /\ job[t][p] = "fetching" /\ IsCurrent(t)
    /\ SetJob(t, p, "published")
    /\ \E fetched \in {0, cred[t][p]} : \E reset \in BackfilledReset(p, fetched) :
          cache' = [cache EXCEPT ![p] =
                       [shows |-> "good", account |-> cred[t][p], reset |-> reset]]
    /\ failures' = [failures EXCEPT ![p] = 0]
    /\ updatedAt' = [updatedAt EXCEPT ![p] = "fresh"]
    /\ hidden' = [hidden EXCEPT ![p] = 0]
    /\ UNCHANGED <<generation, isRefreshing, stores, pc, kind, token, ids, cred,
                   lanes, pending, floor, toggled, spent>>

\* Mutant: the count is not consulted.
PreservesAlways(p, policy) == IsGood(p) /\ policy # "Replace"

\* preserve_last_good_transient_failure: the entry an error leaves in the cache.
\* Without good data to preserve every policy shows the error; a bare error has
\* no reset time either, so the one of good data it replaces is backfilled.
Preserves(p, policy) ==
    /\ IsGood(p)
    /\ \/ policy = "Preserve"
       \/ policy \in {"PreserveOnce", "PreserveOnceThenSurface"} /\ failures[p] = 0

FailedEntry(p, policy, acct, reset) ==
    IF Preserves(p, policy) THEN cache[p]
    ELSE IF IsGood(p) /\ policy = "PreserveOnceThenSurface"
    THEN [cache[p] EXCEPT !.shows = "surfaced"]
    ELSE [shows |-> "error", account |-> acct, reset |-> reset]

\* The count goes with "Replace", stays with "Preserve" and without good data,
\* and saturates otherwise.
FailureCount(p, policy) ==
    IF policy = "Replace" THEN 0
    ELSE IF IsGood(p) /\ policy # "Preserve" /\ failures[p] < FailureCap
    THEN failures[p] + 1
    ELSE failures[p]

PublishFailure(t, p) ==
    /\ job[t][p] = "fetching" /\ IsCurrent(t)
    /\ SetJob(t, p, "published")
    /\ \E policy \in ErrorPolicy[p], reset \in BackfilledReset(p, 0) :
          /\ cache' = [cache EXCEPT ![p] = FailedEntry(p, policy, cred[t][p], reset)]
          /\ failures' = [failures EXCEPT ![p] = FailureCount(p, policy)]
          /\ hidden' = [hidden EXCEPT ![p] =
                           IF policy # "Preserve" /\ Preserves(p, policy) THEN @ + 1 ELSE @]
    /\ UNCHANGED <<generation, isRefreshing, updatedAt, stores, pc, kind, token,
                   ids, cred, lanes, pending, floor, toggled, spent>>

\* provider-updated is emitted outside the lock, auto_resume observes a fresh
\* snapshot, and the permit is dropped.
Settle(t, p) ==
    /\ job[t][p] = "published"
    /\ SetJob(t, p, "done")
    /\ UNCHANGED <<appState, stores, pc, kind, token, ids, cred, lanes, pending,
                   history, spent>>

\* Mutant: the generation is not checked before the lanes are saved.
SettleLanesUnchecked(t) ==
    /\ lanes[t]
    /\ lanes' = [lanes EXCEPT ![t] = FALSE]
    /\ laneOwner' = token[t]
    /\ UNCHANGED <<appState, enabled, watch, account, pc, kind, token, ids, cred,
                   job, pending, history, spent>>

\* refresh_codex_account_lanes ends: save_codex_lane_results writes the account
\* snapshots under the AppState lock, if the batch still owns the generation and
\* the accounts and the store could be read and written.
SettleLanes(t) ==
    /\ lanes[t]
    /\ lanes' = [lanes EXCEPT ![t] = FALSE]
    /\ laneOwner' \in IF IsCurrent(t) THEN {laneOwner, token[t]} ELSE {laneOwner}
    /\ UNCHANGED <<appState, enabled, watch, account, pc, kind, token, ids, cred,
                   job, pending, history, spent>>

AllAwaited(t) == ~lanes[t] /\ \A p \in ids[t] : job[t][p] = "done"

\* finish_provider_refresh, by the owner of the generation.
Finish(t) ==
    /\ pc[t] = "running" /\ AllAwaited(t) /\ IsCurrent(t)
    /\ isRefreshing' = FALSE
    /\ pc' = [pc EXCEPT ![t] = "complete"]
    /\ UNCHANGED <<generation, cache, failures, updatedAt, stores, kind, token,
                   ids, cred, job, lanes, pending, history, spent>>

\* Mutant: a superseded batch clears is_refreshing too.
FinishSupersededClears(t) ==
    /\ pc[t] = "running" /\ AllAwaited(t) /\ ~IsCurrent(t)
    /\ isRefreshing' = FALSE
    /\ Return(t)
    /\ UNCHANGED <<generation, cache, failures, updatedAt, stores, pending, history, spent>>

\* finish_provider_refresh returns None: no tray update, no refresh-complete.
FinishSuperseded(t) ==
    /\ pc[t] = "running" /\ AllAwaited(t) /\ ~IsCurrent(t)
    /\ Return(t)
    /\ UNCHANGED <<appState, stores, pending, history, spent>>

\* The tray and the notifications are updated from the cache, refresh-complete
\* goes out, the call returns.
Complete(t) ==
    /\ pc[t] = "complete"
    /\ Return(t)
    /\ UNCHANGED <<appState, stores, pending, history, spent>>
-----------------------------------------------------------------------------
(* Account changes: codex_account_switch, codex_account_reauthenticate and
   refresh_after_claude_change *)

CommitAccount(p) ==
    /\ accountStep[p] = "idle"   \* ACCOUNT_MUTATION.try_lock
    /\ changes < MaxChanges
    /\ changes' = changes + 1
    /\ account' = [account EXCEPT ![p] = @ + 1]
    /\ accountStep' = [accountStep EXCEPT ![p] = "committed"]
    /\ UNCHANGED <<appState, enabled, watch, laneOwner, batch, followUps,
                   writerStep, history, starts>>

\* Mutants: the generation is left alone, or is_refreshing is.
InvalidateAccountOnly(p) ==
    /\ accountStep[p] = "committed"
    /\ accountStep' = [accountStep EXCEPT ![p] = "invalidated"]
    /\ isRefreshing' = FALSE
    /\ failures' = [failures EXCEPT ![p] = 0]
    /\ cache' = [cache EXCEPT ![p] =
                    [shows |-> "pending", account |-> account[p], reset |-> 0]]
    /\ floor' = [floor EXCEPT ![p] = account[p]]
    /\ hidden' = [hidden EXCEPT ![p] = 0]
    /\ UNCHANGED <<generation, updatedAt, stores, batch, followUps, writerStep, toggled, spent>>

InvalidateAccountLocked(p) ==
    /\ accountStep[p] = "committed"
    /\ accountStep' = [accountStep EXCEPT ![p] = "invalidated"]
    /\ generation' = generation + 1
    /\ failures' = [failures EXCEPT ![p] = 0]
    /\ cache' = [cache EXCEPT ![p] =
                    [shows |-> "pending", account |-> account[p], reset |-> 0]]
    /\ floor' = [floor EXCEPT ![p] = account[p]]
    /\ hidden' = [hidden EXCEPT ![p] = 0]
    /\ UNCHANGED <<isRefreshing, updatedAt, stores, batch, followUps, writerStep, toggled, spent>>

\* invalidate_account_usage.  updatedAt is left alone.
InvalidateAccount(p) ==
    /\ accountStep[p] = "committed"
    /\ accountStep' = [accountStep EXCEPT ![p] = "invalidated"]
    /\ generation' = generation + 1
    /\ isRefreshing' = FALSE
    /\ failures' = [failures EXCEPT ![p] = 0]
    /\ cache' = [cache EXCEPT ![p] =
                    [shows |-> "pending", account |-> account[p], reset |-> 0]]
    /\ floor' = [floor EXCEPT ![p] = account[p]]
    /\ hidden' = [hidden EXCEPT ![p] = 0]
    /\ UNCHANGED <<updatedAt, stores, batch, followUps, writerStep, toggled, spent>>

\* The pending entry is emitted, the command spawns the forced refresh and ends.
EndAccountChange(p) ==
    /\ accountStep[p] = "invalidated"
    /\ accountStep' = [accountStep EXCEPT ![p] = "idle"]
    /\ followUps' = followUps + 1
    /\ UNCHANGED <<appState, stores, batch, writerStep, history, spent>>
-----------------------------------------------------------------------------
(* update_settings with a patch that refreshes provider data, and the other
   writers of settings.json *)

SaveSettings(w) ==
    /\ writerStep[w].at = "idle"
    /\ changes < MaxChanges
    /\ changes' = changes + 1
    /\ \E es \in SUBSET Provider :
          /\ enabled' = es
          /\ writerStep' = [writerStep EXCEPT ![w] = [at |-> "saved", ids |-> es]]
    /\ UNCHANGED <<appState, watch, account, laneOwner, batch, followUps,
                   accountStep, history, starts>>

\* Mutants: the generation is left alone, or is_refreshing is.
PruneOnly(w) ==
    /\ writerStep[w].at = "saved"
    /\ writerStep' = [writerStep EXCEPT ![w] = [at |-> "invalidated", ids |-> @.ids]]
    /\ isRefreshing' = FALSE
    /\ cache' = PrunedTo(writerStep[w].ids)
    /\ failures' = [p \in Provider |-> IF p \in writerStep[w].ids THEN failures[p] ELSE 0]
    /\ updatedAt' = [p \in Provider |-> IF p \in writerStep[w].ids THEN updatedAt[p] ELSE "never"]
    /\ UNCHANGED <<generation, stores, batch, followUps, accountStep, history, spent>>

InvalidateAndPruneLocked(w) ==
    /\ writerStep[w].at = "saved"
    /\ writerStep' = [writerStep EXCEPT ![w] = [at |-> "invalidated", ids |-> @.ids]]
    /\ generation' = generation + 1
    /\ cache' = PrunedTo(writerStep[w].ids)
    /\ failures' = [p \in Provider |-> IF p \in writerStep[w].ids THEN failures[p] ELSE 0]
    /\ updatedAt' = [p \in Provider |-> IF p \in writerStep[w].ids THEN updatedAt[p] ELSE "never"]
    /\ UNCHANGED <<isRefreshing, stores, batch, followUps, accountStep, history, spent>>

\* invalidate_provider_refresh_and_prune_disabled, with the ids it saved.
InvalidateAndPrune(w) ==
    /\ writerStep[w].at = "saved"
    /\ writerStep' = [writerStep EXCEPT ![w] = [at |-> "invalidated", ids |-> @.ids]]
    /\ generation' = generation + 1
    /\ isRefreshing' = FALSE
    /\ cache' = PrunedTo(writerStep[w].ids)
    /\ failures' = [p \in Provider |-> IF p \in writerStep[w].ids THEN failures[p] ELSE 0]
    /\ updatedAt' = [p \in Provider |-> IF p \in writerStep[w].ids THEN updatedAt[p] ELSE "never"]
    /\ UNCHANGED <<stores, batch, followUps, accountStep, history, spent>>

\* settings-changed is emitted, the command spawns the forced refresh and ends.
EndSettingsChange(w) ==
    /\ writerStep[w].at = "invalidated"
    /\ writerStep' = [writerStep EXCEPT ![w] = [at |-> "idle", ids |-> {}]]
    /\ followUps' = followUps + 1
    /\ UNCHANGED <<appState, stores, batch, accountStep, history, spent>>

\* MenuAction::ToggleProvider saves the settings and touches nothing else.
ToggleFromTray(p) ==
    /\ TrayToggles
    /\ changes < MaxChanges
    /\ changes' = changes + 1
    /\ enabled' = IF p \in enabled THEN enabled \ {p} ELSE enabled \cup {p}
    /\ toggled' = TRUE
    /\ UNCHANGED <<appState, watch, account, laneOwner, batch, pending, floor, hidden, starts>>

\* set_provider_auto_resume_after_quota_reset
ToggleWatch(p) ==
    /\ changes < MaxChanges
    /\ changes' = changes + 1
    /\ watch' = IF p \in watch THEN watch \ {p} ELSE watch \cup {p}
    /\ UNCHANGED <<appState, enabled, account, laneOwner, batch, pending, history, starts>>

\* PROVIDER_CACHE_STALE_AFTER passes since p was last fetched.
Age(p) ==
    /\ updatedAt[p] = "fresh"
    /\ updatedAt' = [updatedAt EXCEPT ![p] = "stale"]
    /\ UNCHANGED <<generation, isRefreshing, cache, failures, stores, batch,
                   pending, history, spent>>
-----------------------------------------------------------------------------
JobStep(t) == \E p \in Provider :
    \/ Acquire(t, p) \/ DropSuperseded(t, p) \/ PublishUsage(t, p)
    \/ PublishFailure(t, p) \/ Settle(t, p)

BatchStep(t) ==
    \/ LoadSettings(t) \/ LoadInputs(t) \/ Begin(t) \/ RejectBegin(t)
    \/ Prune(t) \/ Spawn(t) \/ JobStep(t) \/ SettleLanes(t)
    \/ Finish(t) \/ FinishSuperseded(t) \/ Complete(t)

AccountCommandStep(p) == InvalidateAccount(p) \/ EndAccountChange(p)
SettingsCommandStep(w) == InvalidateAndPrune(w) \/ EndSettingsChange(w)

Next ==
    \/ \E t \in Task : \/ \E k \in Kind : StartFromUser(t, k)
                       \/ StartFollowUp(t)
                       \/ BatchStep(t)
    \/ \E k \in Kind : StartFromLoop(k)
    \/ \E p \in AccountProvider : CommitAccount(p) \/ AccountCommandStep(p)
    \/ \E w \in Writer : SaveSettings(w) \/ SettingsCommandStep(w)
    \/ \E p \in Provider : ToggleFromTray(p) \/ Age(p)
    \/ \E p \in Watchable : ToggleWatch(p)

\* What the program does on its own: a batch that was entered runs on (each
\* fetch is bounded by provider_fetch_timeout and permits are handed out in
\* order), a command that was called runs to its end, a spawned refresh starts.
\* Users, the loop's ticks and the passing of 30 s are not obliged to happen.
Fairness ==
    /\ \A t \in Task : WF_vars(BatchStep(t))
    /\ WF_vars(\E t \in Task : StartFollowUp(t))
    /\ \A p \in AccountProvider : WF_vars(AccountCommandStep(p))
    /\ \A w \in Writer : WF_vars(SettingsCommandStep(w))

Spec == Init /\ [][Next]_vars
FairSpec == Spec /\ Fairness
-----------------------------------------------------------------------------
(* Properties *)

\* Every variable keeps the shape the code gives it.
TypeOK ==
    /\ generation \in Nat
    /\ isRefreshing \in BOOLEAN
    /\ cache \in [Provider -> Entry]
    /\ failures \in [Provider -> 0..FailureCap]
    /\ updatedAt \in [Provider -> {"never", "fresh", "stale"}]
    /\ enabled \subseteq Provider
    /\ watch \subseteq Watchable
    /\ account \in [Provider -> Nat]
    /\ laneOwner \in Nat
    /\ pc \in [Task -> {"idle", "settings", "inputs", "begin", "prune", "spawn",
                        "running", "complete"}]
    /\ kind \in [Task -> Kind]
    /\ token \in [Task -> Nat]
    /\ ids \in [Task -> SUBSET Provider]
    /\ cred \in [Task -> [Provider -> Nat]]
    /\ job \in [Task -> [Provider -> {"none", "queued", "fetching", "published", "done"}]]
    /\ lanes \in [Task -> BOOLEAN]
    /\ followUps \in Nat
    /\ accountStep \in [AccountProvider -> {"idle", "committed", "invalidated"}]
    /\ writerStep \in [Writer -> [at : {"idle", "saved", "invalidated"}, ids : SUBSET Provider]]
    /\ floor \in [Provider -> Nat]
    /\ hidden \in [Provider -> Nat]
    /\ toggled \in BOOLEAN
    /\ starts \in Nat
    /\ changes \in Nat

\* Once an account change has invalidated a provider's usage, nothing that was
\* fetched, preserved or backfilled for an earlier account is in its entry:
\* "Account changes supersede the old identity's cache and any in-flight batch"
\* (invalidate_account_usage), however late the old batch's fetches return.
NoSupersededUsage ==
    \A p \in Provider : cache[p].shows # "none" =>
        /\ cache[p].account >= floor[p]
        /\ cache[p].reset # 0 => cache[p].reset >= floor[p]

\* The batch that owns the generation and has the refresh to finish.
Owns(t) == pc[t] \in {"prune", "spawn", "running"} /\ IsCurrent(t)

\* is_refreshing is set exactly while one batch owns the generation: a
\* superseded batch neither clears the successor's flag nor leaves one set that
\* nobody will clear, which would turn every later refresh into a no-op
\* (reserve_provider_refresh, finish_provider_refresh).
LockHasOwner ==
    /\ isRefreshing <=> \E t \in Task : Owns(t)
    /\ \A t, u \in Task : Owns(t) /\ Owns(u) => t = u

\* Once every saved settings change has pruned the cache, usage is shown for
\* enabled providers only: no batch that loaded the older settings publishes
\* any more (invalidate_provider_refresh_and_prune_disabled).  The tray's check
\* items are the exception: they write the settings and prune nothing.
NoDisabledUsage ==
    (~toggled /\ \A w \in Writer : writerStep[w].at # "saved") =>
        \A p \in Provider \ enabled : cache[p].shows \in {"none", "pending"}

\* At most one failure under a PreserveOnce policy hides behind good data
\* before the provider is fetched successfully again, whatever invalidations,
\* prunes and superseded fetches come in between
\* (preserve_last_good_transient_failure).
FailureHiddenOnce == \A p \in Provider : hidden[p] <= 1

\* "An invalidated batch cannot overwrite a replacement batch's account
\* snapshots" (refresh_codex_account_lanes).
LanesNeverRegress == [][laneOwner' >= laneOwner]_vars

\* Every refresh that takes the lock gives it back, or is superseded.
RefreshEnds == isRefreshing ~> ~isRefreshing

\* The "Account changed. Refreshing..." placeholder of an enabled provider is
\* replaced by an answer for the new account.
PendingReplaced ==
    \A p \in AccountProvider :
        (cache[p].shows = "pending" /\ p \in enabled)
            ~> (cache[p].shows # "pending" \/ p \notin enabled)

\* After a settings change every enabled provider gets an entry: the follow-up
\* refresh, or a batch that began before it, fetches the newly enabled ones.
NewlyEnabledFetched ==
    \A w \in Writer, p \in Provider :
        (writerStep[w].at = "invalidated" /\ p \in enabled)
            ~> (cache[p].shows # "none" \/ p \notin enabled)
-----------------------------------------------------------------------------
(* What the proofs of the properties above rest on *)

\* No task holds a generation that has not been given out.
TokensBounded == \A t \in Task : token[t] <= generation

\* Only a running batch fetches, and only what it was asked to refresh.
JobsInBatch == \A t \in Task, p \in Provider :
    /\ job[t][p] # "none" => p \in ids[t] /\ pc[t] \in {"running", "complete"}
    /\ job[t][p] \in {"queued", "fetching", "published"} => pc[t] = "running"

Basics == TypeOK /\ TokensBounded /\ JobsInBatch

\* A batch that can still publish uses no credentials older than the last
\* invalidation: it read expected_generation before it loaded its inputs.
Loaded(t) == pc[t] \in {"begin", "prune", "spawn", "running"}
CredsCurrent == \A t \in Task :
    Loaded(t) /\ IsCurrent(t) => \A p \in Provider : cred[t][p] >= floor[p]
FloorBelowAccount == \A p \in Provider : floor[p] <= account[p]

SupersededInv == CredsCurrent /\ FloorBelowAccount /\ NoSupersededUsage

\* Good data that hides a failure carries the count that stops the next one.
FailureInv == FailureHiddenOnce /\
    \A p \in Provider : IsGood(p) /\ failures[p] = 0 => hidden[p] = 0

\* Unless the command that wrote the enabled set last has yet to prune, the
\* cache and every batch that can still publish keep to that set.
Settled == \A w \in Writer : writerStep[w].at = "saved" => writerStep[w].ids # enabled
KnowsIds(t) == pc[t] \notin {"idle", "settings"}
DisabledInv == Settled =>
    /\ \A p \in Provider \ enabled : cache[p].shows \in {"none", "pending"}
    /\ \A t \in Task : KnowsIds(t) /\ IsCurrent(t) => ids[t] \subseteq enabled
=============================================================================
