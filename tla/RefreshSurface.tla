---------------------------- MODULE RefreshSurface ----------------------------
(***************************************************************************)
(* One surface that shows usage: the state machine of useProviders.ts,     *)
(* behind the events the shell emits (events.rs) and the answers of         *)
(* get_cached_providers.  The shell's side is a projection of               *)
(* ProviderRefresh on what a surface can tell: the version of each cached   *)
(* snapshot, who owns the refresh, and what a batch or a command has        *)
(* written to the cache and not yet emitted, since events are emitted       *)
(* after the AppState mutex is released.                                    *)
(***************************************************************************)
EXTENDS Integers, Sequences, FiniteSets

CONSTANTS
    Provider,
    Batch,       \* calls of do_refresh_providers_with_policy at one time
    Command,     \* commands that change settings or accounts
    MaxVersion,  \* bound: values written to the cache
    MaxBatch,    \* bound: calls of do_refresh_providers_with_policy
    MaxChange    \* bound: commands and restarts of the hook's effect

ASSUME SurfaceAssumption ==
    /\ MaxVersion \in Nat \ {0} /\ MaxBatch \in Nat \ {0}
    /\ MaxChange \in Nat

VARIABLES
    cache,       \* AppState.provider_cache: version by provider, 0 where there is none
    generation,  \* provider_refresh_generation
    refreshing,  \* is_refreshing
    enabled,     \* settings.json: the enabled providers
    batch, command,
    events,      \* emitted and not yet delivered to the surface
    asked,       \* calls of get_cached_providers on their way, by epoch
    answers,     \* their replies on the way back
    hook,        \* the state of useProviders
    written, started, changes,  \* the bounded counters
    \* history, read by the properties only
    stale,       \* providers the surface got an older value of after the current one
    unended      \* the surface heard of work whose end nobody announces

shell == <<cache, generation, refreshing, enabled>>
link == <<events, asked, answers>>
counters == <<written, started, changes>>
history == <<stale, unended>>
vars == <<shell, batch, command, link, hook, counters, history>>

Nothing == [p \in Provider |-> 0]
IdleBatch == [at |-> "idle", force |-> FALSE, expected |-> 0, token |-> 0,
              ids |-> {}, todo |-> {}, owed |-> Nothing]
IdleCommand == [at |-> "idle", provider |-> {}, version |-> 0, owed |-> {}]

\* useProviders as its effect starts.
Fresh ==
    [listening |-> FALSE, view |-> Nothing, pending |-> Nothing,
     timer |-> FALSE, reloading |-> FALSE, epoch |-> 0, initial |-> 0,
     refreshing |-> FALSE, ids |-> {}]

\* A surface opens.  What the shell has done so far is in the cache; a batch that runs
\* as it opens is one that begins before it has read the cache.
Init ==
    /\ written = 1 /\ cache = [p \in Provider |-> 1]
    /\ generation = 0 /\ refreshing = FALSE
    /\ enabled = Provider
    /\ batch = [b \in Batch |-> IdleBatch]
    /\ command = [c \in Command |-> IdleCommand]
    /\ events = <<>> /\ asked = {0} /\ answers = {}
    /\ hook = Fresh
    /\ started = 0 /\ changes = 0
    /\ stale = {} /\ unended = FALSE
-----------------------------------------------------------------------------
(* Events *)

\* An event reaches the listeners that are registered.
Emit(event) ==
    events' = IF hook.listening THEN Append(events, event) ELSE events

\* The surface has read the cache and does not listen yet.
Misses == ~hook.listening /\ hook.epoch \notin asked

\* A value that is no longer the cached one, or is missed, leaves the surface
\* behind until the next value of p.
EmitUpdated(p, version) ==
    /\ Emit([kind |-> "updated", provider |-> p, version |-> version])
    /\ stale' = IF version # cache[p] \/ Misses THEN stale \cup {p} ELSE stale \ {p}

\* The surface waits, or is about to, for a refresh-complete.
Waits ==
    \/ hook.refreshing \/ hook.ids # {}
    \/ \E i \in DOMAIN events : events[i].kind = "started"

Write(p) ==
    /\ written < MaxVersion
    /\ written' = written + 1
    /\ cache' = [cache EXCEPT ![p] = written + 1]

Prune(ids) == [p \in Provider |-> IF p \in ids THEN cache[p] ELSE 0]
-----------------------------------------------------------------------------
(* do_refresh_providers_with_policy *)

\* A call looks at the generation and loads the settings: RefreshScope::provider_ids
\* are all of the enabled providers, or the watched ones (never forced).  A change
\* between the two reads leads to the same rejection as one after them.
Start(b, force, ids) ==
    /\ batch[b].at = "idle" /\ started < MaxBatch
    /\ started' = started + 1
    /\ ids # {}
    /\ batch' = [batch EXCEPT ![b] =
           [IdleBatch EXCEPT !.at = "reserve", !.force = force, !.expected = generation,
                             !.ids = ids, !.todo = ids]]

\* With nothing enabled a call is over at once, without an event: a surface that
\* waits for the end of a refresh is not told.
StartAll(b) ==
    IF enabled = {}
    THEN /\ unended' = (unended \/ Waits)
         /\ UNCHANGED <<batch, started>>
    ELSE /\ Start(b, TRUE, enabled)
         /\ UNCHANGED unended

\* The timers of auto_refresh.rs, a surface that mounts; the tray's Refresh is one of
\* these that is not skipped.
StartElsewhere(b) ==
    /\ \E ids \in SUBSET enabled : Start(b, FALSE, ids)
    /\ UNCHANGED <<shell, command, link, hook, written, changes, history>>

CanSkip(b) == ~batch[b].force /\ \A p \in batch[b].ids : cache[p] # 0

\* reserve_provider_refresh
Reserve(b) ==
    /\ batch[b].at = "reserve"
    /\ ~refreshing /\ generation = batch[b].expected
    /\ generation' = generation + 1
    /\ refreshing' = TRUE
    /\ batch' = [batch EXCEPT ![b].at = "announce", ![b].token = generation + 1,
                              ![b].expected = 0]
    /\ UNCHANGED <<cache, enabled, command, link, hook, counters, history>>

\* A cached value may be fresh enough.
Reject(b) ==
    /\ batch[b].at = "reserve"
    /\ refreshing \/ generation # batch[b].expected \/ CanSkip(b)
    /\ batch' = [batch EXCEPT ![b] = IdleBatch]
    /\ UNCHANGED <<shell, command, link, hook, counters, history>>

IsCurrent(b) == batch[b].token = generation

\* The pruning of a batch for all enabled providers, and refresh-started.  An
\* announcement that comes after the batch was superseded has no end.
Announce(b) ==
    /\ batch[b].at = "announce"
    /\ \E pruned \in {cache, Prune(batch[b].ids)} :
          /\ batch[b].force => pruned = Prune(batch[b].ids)
          /\ cache' = IF IsCurrent(b) THEN pruned ELSE cache
    /\ Emit([kind |-> "started", ids |-> batch[b].ids])
    /\ unended' = (unended \/ (~IsCurrent(b) /\ hook.listening))
    /\ batch' = [batch EXCEPT ![b].at = "fetch", ![b].force = FALSE, ![b].ids = {}]
    /\ UNCHANGED <<generation, refreshing, enabled, command, asked, answers, hook,
                   counters, stale>>

\* refresh_provider up to the end of its critical section.
Publish(b, p) ==
    /\ batch[b].at = "fetch" /\ p \in batch[b].todo /\ IsCurrent(b)
    /\ Write(p)
    /\ batch' = [batch EXCEPT ![b].todo = @ \ {p}, ![b].owed[p] = written + 1]
    /\ UNCHANGED <<generation, refreshing, enabled, command, link, hook,
                   started, changes, history>>

\* ... and its event, after the lock is released.
Tell(b, p) ==
    /\ batch[b].owed[p] # 0
    /\ EmitUpdated(p, batch[b].owed[p])
    /\ batch' = [batch EXCEPT ![b].owed[p] = 0]
    /\ UNCHANGED <<shell, command, asked, answers, hook, counters, unended>>

\* finish_provider_refresh.  A superseded batch has dropped what it still fetched.
Finish(b) ==
    /\ batch[b].at = "fetch" /\ batch[b].owed = Nothing
    /\ IsCurrent(b) => batch[b].todo = {}
    /\ refreshing' = (refreshing /\ ~IsCurrent(b))
    /\ batch' = [batch EXCEPT ![b] =
           IF IsCurrent(b) THEN [@ EXCEPT !.at = "complete"] ELSE IdleBatch]
    /\ UNCHANGED <<cache, generation, enabled, command, link, hook, counters, history>>

\* refresh-complete
Complete(b) ==
    /\ batch[b].at = "complete"
    /\ Emit([kind |-> "complete"])
    /\ unended' = (~hook.listening /\ (unended \/ Waits))
    /\ batch' = [batch EXCEPT ![b] = IdleBatch]
    /\ UNCHANGED <<shell, command, asked, answers, hook, counters, stale>>
-----------------------------------------------------------------------------
(* Commands *)

BeginCommand(c) ==
    /\ command[c] = IdleCommand /\ changes < MaxChange
    /\ changes' = changes + 1

\* Mutant: no refresh follows.
UpdateSettingsOnly(c) ==
    /\ BeginCommand(c)
    /\ \E ids \in SUBSET Provider : enabled' = ids
    /\ generation' = generation + 1
    /\ refreshing' = FALSE
    /\ cache' = [p \in Provider |-> IF p \in enabled' THEN cache[p] ELSE 0]
    /\ command' = [command EXCEPT ![c].at = "settings", ![c].owed = {"settings"}]
    /\ UNCHANGED <<batch, link, hook, written, started, history>>

\* update_settings: the save, and invalidate_provider_refresh_and_prune_disabled.  A
\* batch that begins between the two is superseded like one that begins before.
UpdateSettings(c) ==
    /\ BeginCommand(c)
    /\ \E ids \in SUBSET Provider : enabled' = ids
    /\ generation' = generation + 1
    /\ refreshing' = FALSE
    /\ cache' = [p \in Provider |-> IF p \in enabled' THEN cache[p] ELSE 0]
    /\ command' = [command EXCEPT ![c].at = "settings", ![c].owed = {"settings", "refresh"}]
    /\ UNCHANGED <<batch, link, hook, written, started, history>>

\* Commands that emit settings-changed only, such as reorder_providers.
ChangePresentation(c) ==
    /\ BeginCommand(c)
    /\ command' = [command EXCEPT ![c].at = "settings", ![c].owed = {"settings"}]
    /\ UNCHANGED <<shell, batch, link, hook, written, started, history>>

\* invalidate_account_usage: a switch of a Codex account also announces a change
\* of settings, once the refresh is spawned.
ChangeAccount(c, p) ==
    /\ BeginCommand(c)
    /\ Write(p)
    /\ generation' = generation + 1
    /\ refreshing' = FALSE
    /\ \E owed \in {{"refresh"}, {"refresh", "settings"}} :
          command' = [command EXCEPT ![c] =
              [at |-> "placeholder", provider |-> {p}, version |-> written + 1,
               owed |-> owed]]
    /\ UNCHANGED <<enabled, batch, link, hook, started, history>>

TellPlaceholder(c) ==
    /\ command[c].at = "placeholder"
    /\ \E p \in command[c].provider : EmitUpdated(p, command[c].version)
    /\ command' = [command EXCEPT ![c].at = "account", ![c].provider = {}, ![c].version = 0]
    /\ UNCHANGED <<shell, batch, asked, answers, hook, counters, unended>>

Paid(c, kind) ==
    LET left == command[c].owed \ {kind} IN
    command' = [command EXCEPT ![c] =
        IF left = {} THEN IdleCommand ELSE [command[c] EXCEPT !.owed = left]]

TellSettings(c) ==
    /\ command[c].at \in {"settings", "account"} /\ "settings" \in command[c].owed
    /\ Emit([kind |-> "settings"])
    /\ Paid(c, "settings")
    /\ UNCHANGED <<shell, batch, asked, answers, hook, counters, history>>

\* The refresh a command spawns; update_settings does so after its event.
FollowUp(c, b) ==
    /\ \/ command[c].at = "settings" /\ command[c].owed = {"refresh"}
       \/ command[c].at = "account" /\ "refresh" \in command[c].owed
    /\ StartAll(b)
    /\ Paid(c, "refresh")
    /\ UNCHANGED <<shell, link, hook, written, changes, stale>>
-----------------------------------------------------------------------------
(* useProviders *)

\* mergeSnapshots: what is not in the argument stays.
Merge(view, values) == [p \in Provider |-> IF values[p] # 0 THEN values[p] ELSE view[p]]

Flush(h) == [h EXCEPT !.view = Merge(@, h.pending), !.pending = Nothing, !.timer = FALSE]

\* An option changes: cleanup and effect in one go.  The replies of the old effect
\* find it cancelled; events for its listeners are lost, those for the new ones
\* begin once they are registered.  View and button survive.
Restart ==
    /\ changes < MaxChange
    /\ changes' = changes + 1
    /\ hook' = [hook EXCEPT !.epoch = @ + 1, !.initial = hook.epoch + 1,
                            !.reloading = FALSE, !.timer = FALSE,
                            !.pending = Nothing, !.listening = FALSE]
    /\ asked' = {hook.epoch + 1} /\ answers' = {} /\ events' = <<>>
    /\ stale' = {}
    /\ unended' = (unended \/ \E i \in DOMAIN events : events[i].kind = "complete")
    /\ UNCHANGED <<shell, batch, command, written, started>>

\* The four listeners, requested in one go.
Listen ==
    /\ ~hook.listening
    /\ hook' = [hook EXCEPT !.listening = TRUE]
    /\ UNCHANGED <<shell, batch, command, link, counters, history>>

\* get_cached_providers
Answer(epoch) ==
    /\ epoch \in asked
    /\ asked' = asked \ {epoch}
    /\ answers' = answers \cup {[epoch |-> epoch, values |-> cache]}
    /\ UNCHANGED <<shell, batch, command, events, hook, counters, history>>

\* Mutant: replies are not told apart by their epoch.
LoadedFromAny(h, reply) ==
    LET loaded == [h EXCEPT !.view = Merge(@, reply.values)] IN
    IF reply.epoch = h.initial THEN loaded
    ELSE Flush([loaded EXCEPT !.reloading = FALSE])

\* Mutant: the end of a reload leaves its queue to the next event.
LoadedUnflushed(h, reply) ==
    LET loaded == [h EXCEPT !.view = Merge(@, reply.values)] IN
    IF reply.epoch # h.epoch THEN h
    ELSE IF reply.epoch = h.initial THEN loaded
    ELSE [loaded EXCEPT !.reloading = FALSE]

\* What a surface makes of a reply: one to the effect's first request, or to a reload
\* after settings-changed.
Loaded(h, reply) ==
    LET loaded == [h EXCEPT !.view = Merge(@, reply.values)] IN
    IF reply.epoch # h.epoch THEN h
    ELSE IF reply.epoch = h.initial THEN loaded
    ELSE Flush([loaded EXCEPT !.reloading = FALSE])

\* The first reply may overwrite what events have brought in the meantime.
Receive(reply) ==
    /\ reply \in answers
    /\ answers' = answers \ {reply}
    /\ hook' = Loaded(hook, reply)
    /\ stale' = IF reply.epoch # hook.initial THEN stale
                ELSE stale \cup {p \in Provider : hook'.view[p] < hook.view[p]}
    /\ UNCHANGED <<shell, batch, command, events, asked, counters, unended>>

\* queueSnapshot: during a reload its end flushes, otherwise a timer does.
OnUpdated(p, version) ==
    /\ hook' = [hook EXCEPT !.pending[p] = version,
                            !.timer = @ \/ ~hook.reloading,
                            !.ids = @ \ {p}]
    /\ UNCHANGED asked

OnSettings ==
    /\ hook' = [hook EXCEPT !.epoch = @ + 1, !.reloading = TRUE, !.timer = FALSE,
                            !.pending = Nothing]
    /\ asked' = asked \cup {hook.epoch + 1}

OnStarted(ids) ==
    /\ hook' = [hook EXCEPT !.refreshing = TRUE, !.ids = ids]
    /\ UNCHANGED asked

OnComplete ==
    /\ hook' = [(IF hook.reloading THEN hook ELSE Flush(hook)) EXCEPT
                    !.refreshing = FALSE, !.ids = {}]
    /\ UNCHANGED asked

Deliver ==
    /\ events # <<>>
    /\ LET event == Head(events) IN
          CASE event.kind = "updated"  -> OnUpdated(event.provider, event.version)
            [] event.kind = "settings" -> OnSettings
            [] event.kind = "started"  -> OnStarted(event.ids)
            [] OTHER                   -> OnComplete
    /\ events' = Tail(events)
    /\ UNCHANGED <<shell, batch, command, answers, counters, history>>

\* The 80 ms timer.
FlushTimer ==
    /\ hook.timer
    /\ hook' = Flush(hook)
    /\ UNCHANGED <<shell, batch, command, link, counters, history>>

\* refresh(): the button, or the timer of the next quota reset.
Refresh(b) ==
    /\ ~hook.refreshing
    /\ hook' = [hook EXCEPT !.refreshing = TRUE]
    /\ IF enabled = {}
       THEN /\ unended' = TRUE
            /\ UNCHANGED <<batch, started>>
       ELSE /\ Start(b, TRUE, enabled)
            /\ UNCHANGED unended
    /\ UNCHANGED <<shell, command, link, written, changes, stale>>
-----------------------------------------------------------------------------
BatchStep(b) ==
    \/ StartElsewhere(b) \/ Reserve(b) \/ Reject(b) \/ Announce(b)
    \/ \E p \in Provider : Publish(b, p) \/ Tell(b, p)
    \/ Finish(b) \/ Complete(b)

CommandStep(c) ==
    \/ UpdateSettings(c) \/ ChangePresentation(c)
    \/ \E p \in Provider : ChangeAccount(c, p)
    \/ TellPlaceholder(c) \/ TellSettings(c)
    \/ \E b \in Batch : FollowUp(c, b)

HookStep ==
    \/ Restart \/ Listen
    \/ \E epoch \in asked : Answer(epoch)
    \/ \E reply \in answers : Receive(reply)
    \/ Deliver \/ FlushTimer
    \/ \E b \in Batch : Refresh(b)

Next ==
    \/ \E b \in Batch : BatchStep(b)
    \/ \E c \in Command : CommandStep(c)
    \/ HookStep

Spec == Init /\ [][Next]_vars
-----------------------------------------------------------------------------
Version == 0..MaxVersion
Event ==
    [kind : {"updated"}, provider : Provider, version : 1..MaxVersion]
        \cup [kind : {"started"}, ids : SUBSET Provider]
        \cup [kind : {"settings", "complete"}]

(* The variables hold what the code can put there. *)
TypeOK ==
    /\ cache \in [Provider -> Version]
    /\ generation \in Nat /\ refreshing \in BOOLEAN /\ enabled \in SUBSET Provider
    /\ batch \in [Batch ->
          [at : {"idle", "reserve", "announce", "fetch", "complete"},
           force : BOOLEAN, expected : Nat, token : Nat, ids : SUBSET Provider,
           todo : SUBSET Provider, owed : [Provider -> Version]]]
    /\ command \in [Command ->
          [at : {"idle", "settings", "placeholder", "account"},
           provider : SUBSET Provider, version : Version,
           owed : SUBSET {"settings", "refresh"}]]
    /\ events \in Seq(Event)
    /\ asked \in SUBSET Nat
    /\ answers \in SUBSET [epoch : Nat, values : [Provider -> Version]]
    /\ hook \in
          [listening : BOOLEAN, view : [Provider -> Version],
           pending : [Provider -> Version], timer : BOOLEAN, reloading : BOOLEAN,
           epoch : Nat, initial : Nat, refreshing : BOOLEAN, ids : SUBSET Provider]
    /\ written \in Version /\ started \in 0..MaxBatch
    /\ changes \in 0..MaxChange
    /\ stale \in SUBSET Provider /\ unended \in BOOLEAN

\* Nothing is on its way, in the shell or to the surface; what the surface keeps
\* to itself (snapshots queued for a flush, a reload) is no excuse.
Quiet ==
    /\ \A b \in Batch : batch[b].at = "idle"
    /\ \A c \in Command : command[c] = IdleCommand
    /\ events = <<>> /\ asked = {} /\ answers = {} /\ ~hook.timer
    /\ hook.listening

(* Once everything has arrived the surface shows the cache, whatever reloads,
   restarts and batches have crossed on the way: no snapshot is left in the
   queue, overwritten by the reply of an older reload, or dropped with the queue
   without being read again.  Excepted is a provider whose last event was
   overtaken or missed, until its next one (events.rs:5). *)
SettledViewCurrent ==
    Quiet => \A p \in Provider \ stale : cache[p] # 0 => hook.view[p] = cache[p]

(* Once everything has arrived the surface does not claim that a refresh runs,
   and its refresh button works: a superseded batch does not announce its end,
   so another one has to.  Excepted is work that nobody announces the end of:
   every provider was disabled while it was refreshed, a batch announced itself
   after it was superseded, or the announcement came while no one listened. *)
SettledIdle ==
    Quiet => unended \/ (~hook.refreshing /\ hook.ids = {})

(* A reload of the settings ends: it is waiting for the answer to its own request,
   or an event that will be flushed has someone to flush it. *)
QueueIsDrained ==
    /\ hook.reloading =>
          hook.epoch \in asked \/ \E reply \in answers : reply.epoch = hook.epoch
    /\ hook.pending # Nothing => hook.timer \/ hook.reloading
=============================================================================
