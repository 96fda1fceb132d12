---------------------------- MODULE UsageAlerts ----------------------------
(***************************************************************************)
(* The threshold and session toasts and the quota hooks of one provider    *)
(* that has several accounts: NotificationManager (rust/src/               *)
(* notifications.rs), emit_quota_threshold_hooks (rust/src/core/hooks.rs)  *)
(* and notify_usage_thresholds, the end of a refresh batch that feeds both *)
(* (commands/providers.rs).                                                *)
(*                                                                         *)
(* A batch reads the settings and the token accounts once, when it starts. *)
(* Its end takes the state lock three times: to release the refresh lock   *)
(* (Finish), to clone the cache (CloneCache), and to feed the alerts with  *)
(* that clone (Notify); another batch may run in between.  How batches     *)
(* supersede each other is the subject of ProviderRefresh.                 *)
(*                                                                         *)
(* Percentages are in hundredths, 10000 being a full quota.                *)
(***************************************************************************)
EXTENDS Integers, FiniteSets

CONSTANTS
    Account,        \* accounts of the provider
    Task,           \* callers of refresh
    Used,           \* percentages a fetch may read
    High,           \* settings.usage_thresholds(..).high
    Critical,       \* settings.usage_thresholds(..).critical
    Absent,         \* a lane that is missing or informational
    Hidden,         \* the account of a hook baseline when it is not named
    TokenAccounts,  \* whether the provider's accounts are token accounts
    MaxPolls,       \* bound on the batches that fetch
    MaxChanges      \* bound on the changes of settings and account

Full == 10000
Depleted == 9999

ASSUME UsedAssumption == Used \subseteq 0..Full
ASSUME ThresholdAssumption ==
    /\ High \in 1..Full
    /\ Critical \in High..Full
ASSUME BoundAssumption == MaxPolls \in Nat /\ MaxChanges \in Nat
ASSUME AbsentAssumption == Absent \notin 0..Full /\ Hidden \notin Account

Window == {"session", "weekly"}

Threshold == {"high", "critical", "exhausted"}

NoEntry == [owner |-> Absent]
Reading == Used \cup {Absent}
Entry == [owner : Account, session : Reading, weekly : Reading]

Switches == [show_notifications : BOOLEAN,
             hooks_enabled : BOOLEAN,
             hide_personal_info : BOOLEAN]

VARIABLES
    settings,       \* the settings on disk
    active,         \* the account in use, on disk
    is_refreshing,
    cache,          \* the provider's entry, NoEntry while it holds no usage
    batch,          \* Task -> the batch it runs
    sent,           \* NotificationManager.sent_notifications
    previous,       \* NotificationManager.previous_session_percent
    baselines,      \* QUOTA_HOOK_BASELINES
    polls, changes, \* bounds
    reached,        \* history: kinds a lane reached since it was last cool
    shown,          \* history: toasts shown for a lane since it was last cool
    astray,         \* history: lanes a batch of another account mixed up
    unarmed,        \* history: lanes that were cool while toasts were off
    observed,       \* history: an account's reading last fed to the hooks
    muddled,        \* history: as astray, for the hooks
    misfired,       \* history: hooks that ran are not those called for
    everHidden      \* history: personal information was hidden at some time

alertVars == <<sent, previous, baselines>>
toastHistory == <<reached, shown, astray, unarmed>>
hookHistory == <<observed, muddled, misfired>>
history == <<toastHistory, hookHistory, everHidden>>
vars == <<settings, active, is_refreshing, cache, batch, alertVars, polls,
          changes, history>>

Lane == Account \X Window

Idle == [phase |-> "idle"]
Batch == {Idle}
    \cup [phase : {"fetching", "fetched", "finished"}, covers : BOOLEAN,
          settings : Switches, token : Account]
    \cup [phase : {"cloned"}, covers : BOOLEAN, settings : Switches,
          token : Account, seen : Entry \cup {NoEntry}]

Toast == [account : Account, window : Window,
          kind : Threshold \cup {"depleted"}]

(***************************************************************************)
(* Every variable keeps its type.                                          *)
(***************************************************************************)
TypeOK ==
    /\ settings \in Switches
    /\ active \in Account
    /\ is_refreshing \in BOOLEAN
    /\ cache \in Entry \cup {NoEntry}
    /\ batch \in [Task -> Batch]
    /\ sent \subseteq Toast
    /\ previous \in [Account -> Used \cup {0}]
    /\ baselines \in [(Account \cup {Hidden}) \X Window -> Reading]
    /\ polls \in 0..MaxPolls
    /\ changes \in 0..MaxChanges
    /\ reached \in [Lane -> SUBSET Threshold]
    /\ shown \in [Lane -> [Threshold -> 0..2]]
    /\ astray \subseteq Lane
    /\ unarmed \subseteq Lane
    /\ observed \in [Lane -> Reading]
    /\ muddled \subseteq Lane
    /\ misfired \in BOOLEAN
    /\ everHidden \in BOOLEAN

Init ==
    /\ settings \in {s \in Switches :
                        s.show_notifications /\ s.hooks_enabled}
    /\ active \in Account
    /\ is_refreshing = FALSE
    /\ cache = NoEntry
    /\ batch = [t \in Task |-> Idle]
    /\ sent = {}
    /\ previous = [a \in Account |-> 0]
    /\ baselines = [k \in (Account \cup {Hidden}) \X Window |-> Absent]
    /\ polls = 0
    /\ changes = 0
    /\ reached = [l \in Lane |-> {}]
    /\ shown = [l \in Lane |-> [k \in Threshold |-> 0]]
    /\ astray = {}
    /\ unarmed = {}
    /\ observed = [l \in Lane |-> Absent]
    /\ muddled = {}
    /\ misfired = FALSE
    /\ everHidden = settings.hide_personal_info

-----------------------------------------------------------------------------
(* The user. *)

Change == /\ changes < MaxChanges
          /\ changes' = changes + 1

ChangeSettings ==
    /\ Change
    /\ \E switch \in DOMAIN settings :
          settings' = [settings EXCEPT ![switch] = ~@]
    /\ everHidden' = (everHidden \/ settings'.hide_personal_info)
    /\ UNCHANGED <<active, is_refreshing, cache, batch, alertVars, polls,
                   toastHistory, hookHistory>>

\* set_active_token_account: neither the cache nor the generation is touched.
SwitchAccount ==
    /\ Change
    /\ active' \in Account \ {active}
    /\ UNCHANGED <<settings, is_refreshing, cache, batch, alertVars, polls,
                   history>>

-----------------------------------------------------------------------------
(* A refresh batch.  covers says whether its scope includes the provider:  *)
(* an AutoResume batch leaves most providers alone.                        *)

Start(t) ==
    /\ batch[t] = Idle
    /\ ~is_refreshing
    /\ polls < MaxPolls
    /\ polls' = polls + 1
    /\ is_refreshing' = TRUE
    /\ \E covers \in BOOLEAN :
          batch' = [batch EXCEPT ![t] =
                      [phase |-> IF covers THEN "fetching" ELSE "fetched",
                       covers |-> covers, settings |-> settings,
                       token |-> active]]
    /\ UNCHANGED <<settings, active, cache, alertVars, changes, history>>

Fetched(t) == /\ batch[t].phase = "fetching"
              /\ batch' = [batch EXCEPT ![t].phase = "fetched"]
              /\ UNCHANGED <<settings, active, is_refreshing, alertVars, polls,
                             changes, history>>

Publish(t) ==
    /\ Fetched(t)
    /\ \E session, weekly \in Reading :
          /\ cache' = [owner |-> batch[t].token,
                       session |-> session, weekly |-> weekly]

\* The error takes the place of the usage, unless the policy for this error
\* preserves the last good entry.
FailFetch(t) ==
    /\ Fetched(t)
    /\ cache' \in {cache, NoEntry}

Finish(t) ==
    /\ batch[t].phase = "fetched"
    /\ batch' = [batch EXCEPT ![t].phase = "finished"]
    /\ is_refreshing' = FALSE
    /\ UNCHANGED <<settings, active, cache, alertVars, polls, changes, history>>

CloneCache(t) ==
    /\ batch[t].phase = "finished"
    /\ batch' = [batch EXCEPT ![t] =
                   [phase |-> "cloned", covers |-> batch[t].covers,
                    settings |-> batch[t].settings, token |-> batch[t].token,
                    seen |-> cache]]
    /\ UNCHANGED <<settings, active, is_refreshing, cache, alertVars, polls,
                   changes, history>>

-----------------------------------------------------------------------------
(* What the alerts do with one observation. *)

Kind(used) ==
    IF used >= Full THEN "exhausted"
    ELSE IF used >= Critical THEN "critical"
    ELSE IF used >= High THEN "high"
    ELSE "none"

\* The rule as a single shared threshold state would have it.
ForgottenByProvider(toasts, account, window) ==
    {toast \in toasts : toast.kind \notin Threshold}

Forgotten(toasts, account, window) ==
    {toast \in toasts : ~ /\ toast.account = account
                          /\ toast.window = window
                          /\ toast.kind \in Threshold}

\* sent_notifications after check_and_notify.
AfterThresholds(toasts, account, window, used) ==
    IF used = Absent THEN toasts
    ELSE IF Kind(used) = "none" THEN Forgotten(toasts, account, window)
    ELSE toasts \cup
           {[account |-> account, window |-> window, kind |-> Kind(used)]}

DepletedToast(account) ==
    [account |-> account, window |-> "session", kind |-> "depleted"]

\* previous_session_percent as it would be were it kept while toasts are off.
ObservedSession(on, account, used) ==
    IF used = Absent THEN previous ELSE [previous EXCEPT ![account] = used]

\* previous_session_percent after check_session_transition.
SessionAfter(on, account, used) ==
    IF ~on \/ used = Absent THEN previous
    ELSE [previous EXCEPT ![account] = used]

\* sent_notifications after check_session_transition.
AfterTransition(toasts, account, used) ==
    IF used = Absent THEN toasts
    ELSE IF previous[account] < Depleted /\ used >= Depleted
         THEN toasts \cup {DepletedToast(account)}
    ELSE IF previous[account] >= Depleted /\ used < Depleted
         THEN toasts \ {DepletedToast(account)}
    ELSE toasts

\* The reset edge as it would be if only a full quota could recover.
RecoversFromFull(before, used) == before >= Full /\ used < Depleted

Recovers(before, used) == before >= Depleted /\ used < Depleted

\* The hooks that run when a lane goes from before to used.
HooksFrom(before, used) ==
    IF before = Absent \/ used = Absent THEN {}
    ELSE {event \in {"reached", "low", "reset"} :
            \/ /\ event = "reached"
               /\ before < Full /\ used >= Full
            \/ /\ event = "low"
               /\ used < Full
               /\ \/ before < Critical /\ used >= Critical
                  \/ before < High /\ used >= High
            \/ event = "reset" /\ Recovers(before, used)}

\* One baseline for all the accounts of the provider.
SharedBaseline(hide, account) == Hidden

BaselineOwner(hide, account) == IF hide THEN Hidden ELSE account

-----------------------------------------------------------------------------
(* quota_notification_account_identity: the token account of the batch,    *)
(* else the account the entry names.                                       *)
Identity(t) == IF TokenAccounts THEN batch[t].token ELSE batch[t].seen.owner

ReadingOf(t, window) == IF batch[t].seen = NoEntry THEN Absent
                        ELSE batch[t].seen[window]

AtMost(n, m) == IF m > n THEN n ELSE m

\* The alerts of another account get the readings: the account in use was
\* changed after the entry was fetched.
Misread(t) == Identity(t) # batch[t].seen.owner

\* The lanes the readings belong to, and those of them below high.
OwnLanes(t) ==
    {l \in Lane : l[1] = batch[t].seen.owner /\ ReadingOf(t, l[2]) # Absent}
CoolLanes(t) == {l \in OwnLanes(t) : Kind(ReadingOf(t, l[2])) = "none"}

\* The lanes of either account.
MixedLanes(t) ==
    {l \in Lane : /\ l[1] \in {batch[t].seen.owner, Identity(t)}
                  /\ ReadingOf(t, l[2]) # Absent}

\* What the readings say of their owner's lanes, whichever account's alerts
\* they are fed to, and the toasts the user sees of each lane.
RecordToasts(t, new) ==
    LET on == batch[t].settings.show_notifications
        cool == CoolLanes(t)
        told(l, k) == [account |-> l[1], window |-> l[2], kind |-> k] \in new
        before(l, k) == IF l \in cool THEN 0 ELSE shown[l][k]
    IN  /\ reached' = [l \in Lane |->
              IF l \in cool THEN {}
              ELSE IF on /\ l \in OwnLanes(t)
              THEN reached[l] \cup {Kind(ReadingOf(t, l[2]))} ELSE reached[l]]
        /\ shown' = [l \in Lane |-> [k \in Threshold |->
              AtMost(2, before(l, k) + IF told(l, k) THEN 1 ELSE 0)]]
        /\ astray' = IF ~on THEN astray
                     ELSE IF Misread(t) THEN astray \cup MixedLanes(t)
                     ELSE astray \ cool
        /\ unarmed' = IF ~on THEN unarmed \cup cool
                      ELSE IF Misread(t) THEN unarmed ELSE unarmed \ cool

\* check_and_notify shows the toast of a lane unless it was sent before.
Showing(toasts, account, window, used) ==
    IF used = Absent \/ Kind(used) = "none" THEN {}
    ELSE {[account |-> account, window |-> window, kind |-> Kind(used)]}
            \ toasts

NotifyToasts(t) ==
    LET account == Identity(t)
        session == ReadingOf(t, "session")
        weekly == ReadingOf(t, "weekly")
        atSession == AfterThresholds(sent, account, "session", session)
        atTransition == AfterTransition(atSession, account, session)
        new == Showing(sent, account, "session", session)
                 \cup Showing(atTransition, account, "weekly", weekly)
    IN  IF batch[t].settings.show_notifications
        THEN /\ sent' = AfterThresholds(atTransition, account, "weekly", weekly)
             /\ RecordToasts(t, new)
        ELSE /\ UNCHANGED sent
             /\ RecordToasts(t, {})

\* The hooks an account calls for when it goes from before to used: it reached
\* the full quota, it passed another threshold, it is no longer depleted.
Called(before, used) ==
    LET passed == {level \in {High, Critical, Full} :
                     before < level /\ level <= used}
    IN  IF before = Absent \/ used = Absent THEN {}
        ELSE (IF Full \in passed THEN {"reached"} ELSE {})
               \cup (IF passed # {} /\ Full \notin passed
                     THEN {"low"} ELSE {})
               \cup (IF used < Depleted /\ Depleted <= before
                     THEN {"reset"} ELSE {})

\* What the readings call for on their owner's lanes, whichever account's
\* baselines they are fed to, beside the hooks that run.
RecordHooks(t, ran) ==
    LET lanes == OwnLanes(t)
    IN  /\ observed' = [l \in Lane |-> IF l \in lanes THEN ReadingOf(t, l[2])
                                      ELSE observed[l]]
        /\ muddled' = IF Misread(t) THEN muddled \cup MixedLanes(t)
                      ELSE muddled \ lanes
        /\ misfired' = \/ misfired
                       \/ /\ ~Misread(t)
                          /\ \E l \in lanes \ muddled :
                                ran[l[2]] # Called(observed[l], ReadingOf(t, l[2]))

NotifyHooks(t) ==
    LET owner == BaselineOwner(batch[t].settings.hide_personal_info, Identity(t))
    IN  IF ~batch[t].settings.hooks_enabled
        THEN UNCHANGED <<baselines, hookHistory>>
        ELSE /\ baselines' = [k \in DOMAIN baselines |->
                    IF k[1] = owner /\ ReadingOf(t, k[2]) # Absent
                    THEN ReadingOf(t, k[2]) ELSE baselines[k]]
             /\ RecordHooks(t, [window \in Window |->
                    HooksFrom(baselines[<<owner, window>>],
                              ReadingOf(t, window))])

\* notify_usage_thresholds, in one hold of the state lock.
Notify(t) ==
    /\ batch[t].phase = "cloned"
    /\ batch' = [batch EXCEPT ![t] = Idle]
    /\ IF batch[t].seen = NoEntry
       THEN UNCHANGED <<alertVars, toastHistory, hookHistory>>
       ELSE /\ previous' = SessionAfter(batch[t].settings.show_notifications,
                                        Identity(t), ReadingOf(t, "session"))
            /\ NotifyToasts(t)
            /\ NotifyHooks(t)
    /\ UNCHANGED <<settings, active, is_refreshing, cache, polls, changes,
                   everHidden>>

Next ==
    \/ ChangeSettings
    \/ SwitchAccount
    \/ \E t \in Task : \/ Start(t)
                       \/ Publish(t)
                       \/ FailFetch(t)
                       \/ Finish(t)
                       \/ CloneCache(t)
                       \/ Notify(t)

Spec == Init /\ [][Next]_vars

-----------------------------------------------------------------------------
(* Properties. *)

(***************************************************************************)
(* A lane of an account is told of each threshold once for every climb of  *)
(* that account: since it was last below high, one toast of each kind it   *)
(* reached while toasts are on and no other, whatever the other window and *)
(* the other accounts did, with placeholders in between and batches out of *)
(* order (notifications.rs:294, the rule issue 198 was about).  At most    *)
(* one if it was below high only while toasts were off, which re-arms      *)
(* nothing (notifications.rs:281).  Left out, until a batch of the lane's  *)
(* own account finds it below high with toasts on, are the lanes of two    *)
(* accounts of which one was taken for the other: the toasts go by the     *)
(* token account of the batch (providers.rs:951), not by the entry's.      *)
(***************************************************************************)
ToldOncePerClimb ==
    \A l \in Lane \ astray, k \in Threshold :
        /\ shown[l][k] <= IF k \in reached[l] THEN 1 ELSE 0
        /\ l \notin unarmed => (k \in reached[l] => shown[l][k] = 1)

(***************************************************************************)
(* The session of an account counts as depleted exactly while its depleted *)
(* toast is outstanding: the user who was told "Will notify when available *)
(* again" is told, and nobody else (notifications.rs:396 and 414), even    *)
(* when toasts were off in between or another account was used.            *)
(***************************************************************************)
DepletedIsTold ==
    \A a \in Account : previous[a] >= Depleted <=> DepletedToast(a) \in sent

(***************************************************************************)
(* The hooks that run for an account are those its own readings call for,  *)
(* from the one the hooks last saw of it (hooks.rs:539): none for another  *)
(* account's, none on the first, none twice, and none is left out.  That   *)
(* is so as long as personal information is not hidden, hidden accounts    *)
(* sharing one baseline (providers.rs:922), and for the accounts that were *)
(* not taken for one another by a batch with another token account since   *)
(* their last reading (providers.rs:951).                                  *)
(***************************************************************************)
HooksOnCrossings == misfired => everHidden
=============================================================================
