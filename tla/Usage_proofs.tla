---------------------------- MODULE Usage_proofs ----------------------------
(* Theorems about UsageAlerts, for any accounts, tasks, readings and bounds,   *)
(* and about CodexScan, for any session files, scans and bounds.               *)
EXTENDS UsageAlerts, CodexScan, TLAPS

(***************************************************************************)
(* UsageAlerts                                                             *)
(***************************************************************************)

(***************************************************************************)
(* Types                                                                   *)
(***************************************************************************)

LEMMA TypeInit == Init => TypeOK
<1> SUFFICES ASSUME Init PROVE TypeOK OBVIOUS
<1>1. settings \in Switches /\ everHidden \in BOOLEAN BY DEF Init, Switches
<1>2. batch \in [Task -> Batch] BY DEF Init, Batch
<1>3. shown \in [Lane -> [Threshold -> 0..2]] BY DEF Init
<1>4. /\ observed \in [Lane -> Reading]
      /\ astray \subseteq Lane /\ unarmed \subseteq Lane /\ muddled \subseteq Lane
  BY DEF Init, Reading
<1>5. baselines \in [(Account \cup {Hidden}) \X Window -> Reading] BY DEF Init, Reading
<1>6. polls \in 0..MaxPolls /\ changes \in 0..MaxChanges BY BoundAssumption DEF Init
<1>7. /\ cache \in Entry \cup {NoEntry} /\ sent \subseteq Toast
      /\ previous \in [Account -> Used \cup {0}] /\ reached \in [Lane -> SUBSET Threshold]
  BY DEF Init
<1> QED BY <1>1, <1>2, <1>3, <1>4, <1>5, <1>6, <1>7 DEF Init, TypeOK

\* The steps of a batch that feed no alert.
Quiet(t) == Start(t) \/ Publish(t) \/ FailFetch(t) \/ Finish(t) \/ CloneCache(t)

LEMMA NextCases ==
    ASSUME [Next]_vars
    PROVE  \/ UNCHANGED vars
           \/ ChangeSettings
           \/ SwitchAccount
           \/ \E t \in Task : Quiet(t) \/ Notify(t)
BY DEF Next, Quiet

LEMMA PhaseOf ==
    ASSUME NEW b \in Batch
    PROVE  /\ b.phase \in {"fetching", "fetched", "finished"} =>
                 /\ b = [phase |-> b.phase, covers |-> b.covers, settings |-> b.settings,
                         token |-> b.token]
                 /\ b.covers \in BOOLEAN /\ b.settings \in Switches /\ b.token \in Account
           /\ b.phase = "cloned" =>
                 /\ b.settings \in Switches /\ b.token \in Account
                 /\ b.seen \in Entry \cup {NoEntry}
BY DEF Batch, Idle

LEMMA TypeFetched ==
    ASSUME TypeOK, NEW t \in Task, Fetched(t), cache' \in Entry \cup {NoEntry} PROVE TypeOK'
<1>1. batch[t] \in Batch BY DEF TypeOK
<1>2. [batch[t] EXCEPT !.phase = "fetched"] \in Batch
  BY <1>1, PhaseOf DEF Fetched, Batch
<1>3. batch' \in [Task -> Batch] BY <1>2 DEF TypeOK, Fetched
<1> QED BY <1>3 DEF TypeOK, Fetched, alertVars, history, toastHistory, hookHistory

LEMMA TypeQuiet == ASSUME TypeOK, NEW t \in Task, Quiet(t) PROVE TypeOK'
<1>0. batch[t] \in Batch BY DEF TypeOK
<1>1. CASE Start(t)
  <2>1. PICK covers \in BOOLEAN :
          batch' = [batch EXCEPT ![t] =
                      [phase |-> IF covers THEN "fetching" ELSE "fetched",
                       covers |-> covers, settings |-> settings, token |-> active]]
    BY <1>1, Zenon DEF Start
  <2>2. batch' \in [Task -> Batch] BY <2>1 DEF TypeOK, Batch
  <2>3. polls' \in 0..MaxPolls BY <1>1, BoundAssumption DEF Start, TypeOK
  <2> QED BY <1>1, <2>2, <2>3 DEF Start, TypeOK, alertVars, history, toastHistory, hookHistory
<1>2. CASE Publish(t)
  <2>1. cache' \in Entry BY <1>0, <1>2, PhaseOf DEF Publish, Fetched, Entry
  <2> QED BY <1>2, <2>1, TypeFetched DEF Publish
<1>3. CASE FailFetch(t) BY <1>3, TypeFetched DEF FailFetch, TypeOK
<1>4. CASE Finish(t)
  <2>1. [batch[t] EXCEPT !.phase = "finished"] \in Batch
    BY <1>0, <1>4, PhaseOf DEF Finish, Batch
  <2>2. batch' \in [Task -> Batch] BY <1>4, <2>1 DEF Finish, TypeOK
  <2>3. is_refreshing' \in BOOLEAN BY <1>4 DEF Finish
  <2> QED BY <1>4, <2>2, <2>3 DEF Finish, TypeOK, alertVars, history, toastHistory, hookHistory
<1>5. CASE CloneCache(t)
  <2>1. [phase |-> "cloned", covers |-> batch[t].covers, settings |-> batch[t].settings,
         token |-> batch[t].token, seen |-> cache] \in Batch
    BY <1>0, <1>5, PhaseOf DEF CloneCache, Batch, TypeOK
  <2> QED BY <1>5, <2>1 DEF CloneCache, TypeOK, alertVars, history, toastHistory, hookHistory
<1> QED BY <1>1, <1>2, <1>3, <1>4, <1>5 DEF Quiet

\* What a batch that has cloned the cache observes.
LEMMA Observed ==
    ASSUME TypeOK, NEW t \in Task, batch[t].phase = "cloned", batch[t].seen # NoEntry
    PROVE  /\ Identity(t) \in Account
           /\ \A w \in Window : ReadingOf(t, w) \in Reading
           /\ batch[t].settings \in Switches
BY PhaseOf DEF TypeOK, Entry, Identity, ReadingOf, Window

LEMMA ToastsTyped ==
    ASSUME NEW toasts, toasts \subseteq Toast, NEW account \in Account,
           NEW window \in Window, NEW used
    PROVE  AfterThresholds(toasts, account, window, used) \subseteq Toast
BY DEF AfterThresholds, Forgotten, Toast, Kind, Threshold, Window

LEMMA TransitionTyped ==
    ASSUME NEW toasts, toasts \subseteq Toast, NEW account \in Account, NEW used
    PROVE  AfterTransition(toasts, account, used) \subseteq Toast
BY DEF AfterTransition, DepletedToast, Toast, Window

LEMMA RecordTyped ==
    ASSUME TypeOK, NEW t \in Task, NEW new, RecordToasts(t, new)
    PROVE  /\ reached' \in [Lane -> SUBSET Threshold]
           /\ shown' \in [Lane -> [Threshold -> 0..2]]
           /\ astray' \subseteq Lane /\ unarmed' \subseteq Lane
<1>1. \A u : Kind(u) \in Threshold \cup {"none"} BY DEF Kind, Threshold
<1>2. ASSUME NEW l \in OwnLanes(t), l \notin CoolLanes(t)
      PROVE  Kind(ReadingOf(t, l[2])) \in Threshold
  BY <1>1, <1>2 DEF CoolLanes
<1>3. \A l \in Lane : reached[l] \in SUBSET Threshold BY DEF TypeOK
<1>4. reached' \in [Lane -> SUBSET Threshold] BY <1>2, <1>3 DEF RecordToasts
<1>5. \A l \in Lane, k \in Threshold : shown[l][k] \in 0..2 BY DEF TypeOK
<1>6. \A n \in 0..2, m \in {0, 1} : AtMost(2, n + m) \in 0..2 BY DEF AtMost
<1>7. shown' \in [Lane -> [Threshold -> 0..2]] BY <1>5, <1>6 DEF RecordToasts
<1>8. astray' \subseteq Lane /\ unarmed' \subseteq Lane
  BY DEF RecordToasts, MixedLanes, CoolLanes, OwnLanes, TypeOK
<1> QED BY <1>4, <1>7, <1>8

LEMMA TypeToasts ==
    ASSUME TypeOK, NEW t \in Task, batch[t].phase = "cloned", batch[t].seen # NoEntry,
           NotifyToasts(t)
    PROVE  /\ sent' \subseteq Toast
           /\ reached' \in [Lane -> SUBSET Threshold]
           /\ shown' \in [Lane -> [Threshold -> 0..2]]
           /\ astray' \subseteq Lane /\ unarmed' \subseteq Lane
<1> DEFINE account == Identity(t)
           session == ReadingOf(t, "session")
           weekly == ReadingOf(t, "weekly")
           atSession == AfterThresholds(sent, account, "session", session)
           atTransition == AfterTransition(atSession, account, session)
<1>0. "session" \in Window /\ "weekly" \in Window BY DEF Window
<1>1. account \in Account /\ session \in Reading /\ weekly \in Reading
  BY Observed DEF Window
<1>2. sent \subseteq Toast BY DEF TypeOK
<1>3. atSession \subseteq Toast BY <1>0, <1>1, <1>2, ToastsTyped
<1>4. atTransition \subseteq Toast BY <1>1, <1>3, TransitionTyped
<1>5. AfterThresholds(atTransition, account, "weekly", weekly) \subseteq Toast
  BY <1>0, <1>1, <1>4, ToastsTyped
<1>6. sent' \subseteq Toast BY <1>2, <1>5 DEF NotifyToasts
<1>7. PICK new : RecordToasts(t, new) BY DEF NotifyToasts
<1> QED BY <1>6, <1>7, RecordTyped

LEMMA TypeHooks ==
    ASSUME TypeOK, NEW t \in Task, batch[t].phase = "cloned", batch[t].seen # NoEntry,
           NotifyHooks(t)
    PROVE  /\ baselines' \in [(Account \cup {Hidden}) \X Window -> Reading]
           /\ observed' \in [Lane -> Reading]
           /\ muddled' \subseteq Lane
           /\ misfired' \in BOOLEAN
<1>1. \A w \in Window : ReadingOf(t, w) \in Reading BY Observed
<1>2. CASE ~batch[t].settings.hooks_enabled BY <1>2 DEF NotifyHooks, TypeOK, hookHistory
<1>3. CASE batch[t].settings.hooks_enabled
  <2>1. baselines' \in [(Account \cup {Hidden}) \X Window -> Reading]
    BY <1>1, <1>3 DEF NotifyHooks, TypeOK
  <2>2. PICK ran : RecordHooks(t, ran) BY <1>3 DEF NotifyHooks
  <2>3. \A l \in Lane : l[2] \in Window BY DEF Lane
  <2>4. observed' \in [Lane -> Reading] BY <1>1, <2>2, <2>3 DEF RecordHooks, TypeOK
  <2>5. muddled' \subseteq Lane BY <2>2 DEF RecordHooks, MixedLanes, TypeOK
  <2>6. misfired' \in BOOLEAN BY <2>2 DEF RecordHooks, TypeOK
  <2> QED BY <2>1, <2>4, <2>5, <2>6
<1> QED BY <1>2, <1>3

LEMMA TypeNotify == ASSUME TypeOK, NEW t \in Task, Notify(t) PROVE TypeOK'
<1>1. batch' \in [Task -> Batch] BY DEF Notify, TypeOK, Batch
<1>2. CASE batch[t].seen = NoEntry
  BY <1>1, <1>2 DEF Notify, TypeOK, alertVars, toastHistory, hookHistory
<1>3. CASE batch[t].seen # NoEntry
  <2>1. previous' \in [Account -> Used \cup {0}]
    <3>1. ReadingOf(t, "session") \in Reading /\ Identity(t) \in Account
      BY <1>3, Observed DEF Notify, Window
    <3> QED BY <1>3, <3>1 DEF Notify, SessionAfter, Reading, TypeOK
  <2>2. /\ sent' \subseteq Toast
        /\ reached' \in [Lane -> SUBSET Threshold]
        /\ shown' \in [Lane -> [Threshold -> 0..2]]
        /\ astray' \subseteq Lane /\ unarmed' \subseteq Lane
    <3>1. NotifyToasts(t) /\ batch[t].phase = "cloned" BY <1>3, Zenon DEF Notify
    <3> QED BY <1>3, <3>1, TypeToasts
  <2>3. /\ baselines' \in [(Account \cup {Hidden}) \X Window -> Reading]
        /\ observed' \in [Lane -> Reading]
        /\ muddled' \subseteq Lane
        /\ misfired' \in BOOLEAN
    <3>1. NotifyHooks(t) /\ batch[t].phase = "cloned" BY <1>3, Zenon DEF Notify
    <3> QED BY <1>3, <3>1, TypeHooks
  <2> QED BY <1>1, <2>1, <2>2, <2>3 DEF Notify, TypeOK
<1> QED BY <1>2, <1>3

LEMMA TypeStep == ASSUME TypeOK, [Next]_vars PROVE TypeOK'
<1>1. CASE UNCHANGED vars BY <1>1 DEF TypeOK, vars, alertVars, history, toastHistory, hookHistory
<1>2. CASE ChangeSettings
  <2>1. settings' \in Switches BY <1>2 DEF ChangeSettings, TypeOK, Switches
  <2>2. everHidden' \in BOOLEAN BY <1>2, <2>1 DEF ChangeSettings, TypeOK, Switches
  <2>3. changes' \in 0..MaxChanges BY <1>2, BoundAssumption DEF ChangeSettings, Change, TypeOK
  <2> QED BY <1>2, <2>1, <2>2, <2>3
      DEF ChangeSettings, TypeOK, alertVars, toastHistory, hookHistory
<1>3. CASE SwitchAccount BY <1>3, BoundAssumption DEF SwitchAccount, Change, TypeOK, alertVars, history, toastHistory, hookHistory
<1>4. CASE \E t \in Task : Quiet(t) BY <1>4, TypeQuiet
<1>5. CASE \E t \in Task : Notify(t) BY <1>5, TypeNotify
<1> QED BY <1>1, <1>2, <1>3, <1>4, <1>5, NextCases

\* Every reachable state keeps the shape of TypeOK.
THEOREM TypeCorrect == Spec => []TypeOK
BY TypeInit, TypeStep, PTL DEF Spec

(***************************************************************************)
(* Toasts                                                                  *)
(***************************************************************************)

ToastOf(l, k) == [account |-> l[1], window |-> l[2], kind |-> k]

\* But for the lanes that went astray, the toasts of the kinds a lane reached are
\* remembered and none of them was shown twice; they are all that is remembered, and
\* each was shown, unless the lane was cool while toasts were off.
Remembered ==
    \A l \in Lane \ astray, k \in Threshold :
        /\ k \in reached[l] => ToastOf(l, k) \in sent
        /\ shown[l][k] \in {0, 1}
        /\ shown[l][k] = 1 => k \in reached[l]
        /\ l \notin unarmed => /\ ToastOf(l, k) \in sent => k \in reached[l]
                               /\ k \in reached[l] => shown[l][k] = 1

\* What one observation makes of the remembered toasts of a lane, and of others.
LEMMA ThresholdToasts ==
    ASSUME NEW toasts, NEW account \in Account, NEW window \in Window, NEW used,
           NEW l \in Lane, NEW k \in Threshold
    PROVE  ToastOf(l, k) \in AfterThresholds(toasts, account, window, used) <=>
               IF l = <<account, window>> /\ used # Absent
               THEN Kind(used) # "none" /\ (ToastOf(l, k) \in toasts \/ k = Kind(used))
               ELSE ToastOf(l, k) \in toasts
<1>1. l = <<l[1], l[2]>> BY DEF Lane
<1>2. k # "none" BY DEF Threshold
<1>3. CASE used = Absent BY <1>3 DEF AfterThresholds
<1>4. CASE used # Absent /\ Kind(used) = "none"
  BY <1>1, <1>4 DEF AfterThresholds, Forgotten, ToastOf
<1>5. CASE used # Absent /\ Kind(used) # "none"
  BY <1>1, <1>5 DEF AfterThresholds, ToastOf
<1> QED BY <1>3, <1>4, <1>5

LEMMA TransitionToasts ==
    ASSUME NEW toasts, NEW account \in Account, NEW used, NEW l \in Lane, NEW k \in Threshold
    PROVE  ToastOf(l, k) \in AfterTransition(toasts, account, used) <=> ToastOf(l, k) \in toasts
<1>1. ToastOf(l, k) # DepletedToast(account) BY DEF ToastOf, DepletedToast, Threshold
<1> QED BY <1>1 DEF AfterTransition

\* A toast is shown for the kind a lane calls for, unless it is remembered.
LEMMA ShowingToasts ==
    ASSUME NEW toasts, NEW account \in Account, NEW window \in Window, NEW used,
           NEW l \in Lane, NEW k \in Threshold
    PROVE  ToastOf(l, k) \in Showing(toasts, account, window, used) <=>
               /\ l = <<account, window>> /\ used # Absent
               /\ k = Kind(used) /\ ToastOf(l, k) \notin toasts
<1>1. l = <<l[1], l[2]>> BY DEF Lane
<1>2. k # "none" BY DEF Threshold
<1> QED BY <1>1, <1>2 DEF Showing, ToastOf

LEMMA RememberedNotify ==
    ASSUME TypeOK, Remembered, NEW t \in Task, batch[t].phase = "cloned",
           batch[t].seen # NoEntry, batch[t].settings.show_notifications, NotifyToasts(t)
    PROVE  Remembered'
<1> DEFINE account == Identity(t)
           session == ReadingOf(t, "session")
           weekly == ReadingOf(t, "weekly")
           atSession == AfterThresholds(sent, account, "session", session)
           atTransition == AfterTransition(atSession, account, session)
           new == Showing(sent, account, "session", session)
                    \cup Showing(atTransition, account, "weekly", weekly)
<1>0. "session" \in Window /\ "weekly" \in Window BY DEF Window
<1>1. account \in Account BY Observed
<1>2. /\ sent' = AfterThresholds(atTransition, account, "weekly", weekly)
      /\ RecordToasts(t, new)
  BY DEF NotifyToasts
<1> SUFFICES ASSUME NEW l \in Lane, l \notin astray', NEW k \in Threshold
             PROVE  /\ k \in reached'[l] => ToastOf(l, k) \in sent'
                    /\ shown'[l][k] \in {0, 1}
                    /\ shown'[l][k] = 1 => k \in reached'[l]
                    /\ l \notin unarmed' =>
                          /\ ToastOf(l, k) \in sent' => k \in reached'[l]
                          /\ k \in reached'[l] => shown'[l][k] = 1
  BY DEF Remembered
<1> DEFINE used == ReadingOf(t, l[2])
           mine == l[1] = account /\ used # Absent
<1>3. l = <<l[1], l[2]>> /\ l[2] \in {"session", "weekly"} BY DEF Lane, Window
<1>4. k # "none" BY DEF Threshold
<1>5. l \notin astray =>
        /\ k \in reached[l] => ToastOf(l, k) \in sent
        /\ shown[l][k] \in {0, 1}
        /\ shown[l][k] = 1 => k \in reached[l]
        /\ l \notin unarmed => /\ ToastOf(l, k) \in sent => k \in reached[l]
                               /\ k \in reached[l] => shown[l][k] = 1
  BY DEF Remembered
\* The toasts that are remembered afterwards...
<1>6. ToastOf(l, k) \in atTransition <=>
          IF l = <<account, "session">> /\ session # Absent
          THEN Kind(session) # "none" /\ (ToastOf(l, k) \in sent \/ k = Kind(session))
          ELSE ToastOf(l, k) \in sent
  BY <1>0, <1>1, ThresholdToasts, TransitionToasts
<1>7. ToastOf(l, k) \in sent' <=>
          IF l = <<account, "weekly">> /\ weekly # Absent
          THEN Kind(weekly) # "none" /\ (ToastOf(l, k) \in atTransition \/ k = Kind(weekly))
          ELSE ToastOf(l, k) \in atTransition
  BY <1>0, <1>1, <1>2, ThresholdToasts
<1>8. ToastOf(l, k) \in sent' <=>
          IF mine THEN Kind(used) # "none" /\ (ToastOf(l, k) \in sent \/ k = Kind(used))
          ELSE ToastOf(l, k) \in sent
  <2>1. CASE l[2] = "session" BY <1>3, <1>6, <1>7, <2>1
  <2>2. CASE l[2] = "weekly" BY <1>3, <1>6, <1>7, <2>2
  <2> QED BY <1>3, <2>1, <2>2
\* ... those that are shown...
<1>9. ToastOf(l, k) \in new <=> mine /\ k = Kind(used) /\ ToastOf(l, k) \notin sent
  <2>1. ToastOf(l, k) \in new <=>
            \/ /\ l = <<account, "session">> /\ session # Absent
               /\ k = Kind(session) /\ ToastOf(l, k) \notin sent
            \/ /\ l = <<account, "weekly">> /\ weekly # Absent
               /\ k = Kind(weekly) /\ ToastOf(l, k) \notin atTransition
    BY <1>0, <1>1, ShowingToasts
  <2>2. CASE l[2] = "session" BY <1>3, <1>6, <2>1, <2>2
  <2>3. CASE l[2] = "weekly" BY <1>3, <1>6, <2>1, <2>3
  <2> QED BY <1>3, <2>2, <2>3
\* ... and what is recorded of them.
<1> DEFINE own == l \in OwnLanes(t)
           cool == l \in CoolLanes(t)
<1>10. reached'[l] = IF cool THEN {} ELSE IF own THEN reached[l] \cup {Kind(used)}
                     ELSE reached[l]
  BY <1>2 DEF RecordToasts
<1>11. shown'[l][k] = AtMost(2, (IF cool THEN 0 ELSE shown[l][k])
                                  + IF ToastOf(l, k) \in new THEN 1 ELSE 0)
  BY <1>2 DEF RecordToasts, ToastOf
<1>12. AtMost(2, 0 + 1) = 1 /\ AtMost(2, 0 + 0) = 0 /\ AtMost(2, 1 + 0) = 1
  BY DEF AtMost
<1>13. (own <=> l[1] = batch[t].seen.owner /\ used # Absent)
       /\ (cool <=> own /\ Kind(used) = "none")
  BY DEF CoolLanes, OwnLanes
<1>14. CASE Misread(t)
  <2>1. l \notin astray /\ l \notin MixedLanes(t) /\ unarmed' = unarmed
    BY <1>2, <1>14 DEF RecordToasts
  <2>2. ~mine /\ ~own /\ ~cool BY <1>13, <2>1 DEF MixedLanes
  <2> HIDE DEF account, session, weekly, atSession, atTransition, new, used, mine, own, cool
  <2> QED BY <1>5, <1>8, <1>9, <1>10, <1>11, <1>12, <2>1, <2>2
<1>15. CASE ~Misread(t)
  <2>1. (l \in astray => cool) /\ (l \in unarmed /\ ~cool => l \in unarmed')
    BY <1>2, <1>15 DEF RecordToasts
  <2>2. mine <=> own BY <1>13, <1>15 DEF Misread
  <2> HIDE DEF account, session, weekly, atSession, atTransition, new, used, mine, own, cool
  <2>3. CASE cool
    <3>1. reached'[l] = {} /\ ToastOf(l, k) \notin new /\ ToastOf(l, k) \notin sent'
      BY <1>4, <1>8, <1>9, <1>10, <1>13, <2>2, <2>3
    <3> QED BY <1>11, <1>12, <2>3, <3>1
  <2>4. CASE ~cool
    <3>1. CASE k \in reached'[l] /\ k \notin reached[l]
      <4>1. mine /\ k = Kind(used) BY <1>10, <2>2, <2>4, <3>1
      <4> QED BY <1>4, <1>5, <1>8, <1>9, <1>11, <1>12, <2>1, <2>4, <3>1, <4>1
    <3>2. CASE ~(k \in reached'[l] /\ k \notin reached[l])
      BY <1>4, <1>5, <1>8, <1>9, <1>10, <1>11, <1>12, <1>13, <2>1, <2>2, <2>4, <3>2
    <3> QED BY <3>1, <3>2
  <2> QED BY <2>3, <2>4
<1> QED BY <1>14, <1>15

\* While toasts are off, a cool reading only disarms its lane.
LEMMA RememberedOff ==
    ASSUME TypeOK, Remembered, NEW t \in Task, ~batch[t].settings.show_notifications,
           NotifyToasts(t)
    PROVE  Remembered'
<1>1. UNCHANGED sent /\ RecordToasts(t, {}) BY DEF NotifyToasts
<1>2. astray' = astray /\ unarmed' = unarmed \cup CoolLanes(t) BY <1>1 DEF RecordToasts
<1>3. ASSUME NEW l \in Lane
      PROVE  reached'[l] = IF l \in CoolLanes(t) THEN {} ELSE reached[l]
  BY <1>1 DEF RecordToasts
<1>4. ASSUME NEW l \in Lane, NEW k \in Threshold
      PROVE  shown'[l][k] = AtMost(2, (IF l \in CoolLanes(t) THEN 0 ELSE shown[l][k]) + 0)
  BY <1>1 DEF RecordToasts
<1>5. AtMost(2, 0 + 0) = 0 /\ AtMost(2, 1 + 0) = 1 BY DEF AtMost
<1>6. ASSUME NEW l \in Lane \ astray, NEW k \in Threshold
      PROVE  /\ k \in reached'[l] => ToastOf(l, k) \in sent'
             /\ shown'[l][k] \in {0, 1}
             /\ shown'[l][k] = 1 => k \in reached'[l]
             /\ l \notin unarmed' => /\ ToastOf(l, k) \in sent' => k \in reached'[l]
                                     /\ k \in reached'[l] => shown'[l][k] = 1
  BY <1>1, <1>2, <1>3, <1>4, <1>5 DEF Remembered
<1> QED BY <1>2, <1>6 DEF Remembered

LEMMA RememberedStep == ASSUME TypeOK, Remembered, [Next]_vars PROVE Remembered'
<1>1. CASE UNCHANGED vars BY <1>1 DEF Remembered, vars, alertVars, history, toastHistory, hookHistory
<1>2. CASE ChangeSettings BY <1>2 DEF ChangeSettings, Remembered, alertVars, toastHistory
<1>3. CASE SwitchAccount BY <1>3 DEF SwitchAccount, Remembered, alertVars, history, toastHistory, hookHistory
<1>4. ASSUME NEW t \in Task, Quiet(t) PROVE Remembered'
  BY <1>4 DEF Quiet, Start, Publish, FailFetch, Fetched, Finish, CloneCache, Remembered,
              alertVars, history, toastHistory, hookHistory
<1>5. ASSUME NEW t \in Task, Notify(t) PROVE Remembered'
  <2>1. CASE batch[t].seen = NoEntry
    BY <1>5, <2>1 DEF Notify, Remembered, alertVars, toastHistory
  <2>2. CASE batch[t].seen # NoEntry
    <3>1. NotifyToasts(t) /\ batch[t].phase = "cloned" BY <1>5, <2>2, Zenon DEF Notify
    <3>2. CASE batch[t].settings.show_notifications BY <2>2, <3>1, <3>2, RememberedNotify
    <3>3. CASE ~batch[t].settings.show_notifications BY <3>1, <3>3, RememberedOff
    <3> QED BY <3>2, <3>3
  <2> QED BY <2>1, <2>2
<1> QED BY <1>1, <1>2, <1>3, <1>4, <1>5, NextCases

\* Whatever the readings of the two windows and of all accounts, and in whatever
\* order batches end, a lane that did not go astray is told of a threshold once for a
\* climb of its account, and at most once if it was cool only while toasts were off.
THEOREM OneToastPerClimb == Spec => []ToldOncePerClimb
<1>1. Init => Remembered BY DEF Init, Remembered
<1>2. ASSUME Remembered PROVE ToldOncePerClimb
  <2> SUFFICES ASSUME NEW l \in Lane \ astray, NEW k \in Threshold
               PROVE  /\ shown[l][k] <= IF k \in reached[l] THEN 1 ELSE 0
                      /\ l \notin unarmed => (k \in reached[l] => shown[l][k] = 1)
    BY DEF ToldOncePerClimb
  <2> QED BY <1>2 DEF Remembered
<1> QED BY <1>1, <1>2, RememberedStep, TypeCorrect, PTL DEF Spec

(***************************************************************************)
(* Depletion                                                               *)
(***************************************************************************)

LEMMA DepletedToasts ==
    ASSUME NEW toasts, NEW account \in Account, NEW window \in Window, NEW used,
           NEW a \in Account
    PROVE  DepletedToast(a) \in AfterThresholds(toasts, account, window, used) <=>
               DepletedToast(a) \in toasts
<1>1. DepletedToast(a).kind \notin Threshold BY DEF DepletedToast, Threshold
<1>2. Kind(used) \in Threshold \cup {"none"} BY DEF Kind, Threshold
<1>3. CASE used = Absent BY <1>3 DEF AfterThresholds
<1>4. CASE used # Absent /\ Kind(used) = "none"
  BY <1>1, <1>4 DEF AfterThresholds, Forgotten
<1>5. CASE used # Absent /\ Kind(used) # "none"
  BY <1>1, <1>2, <1>5 DEF AfterThresholds
<1> QED BY <1>3, <1>4, <1>5

LEMMA UsedIntegers == Used \subseteq Int
<1>1. Full \in Int BY DEF Full
<1> QED BY <1>1, UsedAssumption

LEMMA DepletedStep == ASSUME TypeOK, DepletedIsTold, [Next]_vars PROVE DepletedIsTold'
<1>1. CASE UNCHANGED vars BY <1>1 DEF DepletedIsTold, vars, alertVars
<1>2. CASE ChangeSettings BY <1>2 DEF ChangeSettings, DepletedIsTold, alertVars
<1>3. CASE SwitchAccount BY <1>3 DEF SwitchAccount, DepletedIsTold, alertVars
<1>4. ASSUME NEW t \in Task, Quiet(t) PROVE DepletedIsTold'
  BY <1>4 DEF Quiet, Start, Publish, FailFetch, Fetched, Finish, CloneCache, DepletedIsTold,
              alertVars
<1>5. ASSUME NEW t \in Task, Notify(t) PROVE DepletedIsTold'
  <2>1. CASE batch[t].seen = NoEntry BY <1>5, <2>1 DEF Notify, DepletedIsTold, alertVars
  <2>2. CASE batch[t].seen # NoEntry /\ ~batch[t].settings.show_notifications
    BY <1>5, <2>2 DEF Notify, NotifyToasts, DepletedIsTold, SessionAfter
  <2>3. CASE batch[t].seen # NoEntry /\ batch[t].settings.show_notifications
    <3> DEFINE account == Identity(t)
               session == ReadingOf(t, "session")
               weekly == ReadingOf(t, "weekly")
               atSession == AfterThresholds(sent, account, "session", session)
               atTransition == AfterTransition(atSession, account, session)
    <3>0. "session" \in Window /\ "weekly" \in Window BY DEF Window
    <3>1. account \in Account /\ session \in Reading
      BY <1>5, <2>3, <3>0, Observed DEF Notify
    <3>2. /\ sent' = AfterThresholds(atTransition, account, "weekly", weekly)
          /\ previous' = IF session = Absent THEN previous
                         ELSE [previous EXCEPT ![account] = session]
      BY <1>5, <2>3 DEF Notify, NotifyToasts, SessionAfter
    <3> SUFFICES ASSUME NEW a \in Account
                 PROVE  previous'[a] >= Depleted <=> DepletedToast(a) \in sent'
      BY DEF DepletedIsTold
    <3>3. previous[a] >= Depleted <=> DepletedToast(a) \in atSession
      BY <3>0, <3>1, DepletedToasts DEF DepletedIsTold
    <3>4. DepletedToast(a) \in sent' <=> DepletedToast(a) \in atTransition
      BY <3>0, <3>1, <3>2, DepletedToasts
    <3>5. a # account => DepletedToast(a) # DepletedToast(account) BY DEF DepletedToast
    <3>6. previous \in [Account -> Int] /\ (session # Absent => session \in Int)
      <4>1. previous \in [Account -> Used \cup {0}] BY DEF TypeOK
      <4>2. Used \cup {0} \subseteq Int BY UsedIntegers
      <4> QED BY <3>1, <4>1, <4>2 DEF Reading
    <3> HIDE DEF account, session, atSession
    <3>7. CASE session = Absent BY <3>2, <3>3, <3>4, <3>7 DEF AfterTransition
    <3>8. CASE session # Absent /\ a # account
      BY <3>1, <3>2, <3>3, <3>4, <3>5, <3>6, <3>8 DEF AfterTransition
    <3>9. CASE session # Absent /\ a = account
      <4>1. previous'[a] = session BY <3>2, <3>6, <3>9
      <4>2. previous[a] \in Int /\ session \in Int /\ Depleted \in Int
        BY <3>6, <3>9 DEF Depleted
      <4>3. atTransition =
                IF previous[a] < Depleted /\ session >= Depleted
                THEN atSession \cup {DepletedToast(a)}
                ELSE IF previous[a] >= Depleted /\ session < Depleted
                THEN atSession \ {DepletedToast(a)} ELSE atSession
        BY <3>9 DEF AfterTransition
      <4> HIDE DEF atTransition
      <4> QED BY <3>3, <3>4, <4>1, <4>2, <4>3
    <3> QED BY <3>7, <3>8, <3>9
  <2> QED BY <2>1, <2>2, <2>3
<1> QED BY <1>1, <1>2, <1>3, <1>4, <1>5, NextCases

\* However readings, switches of toasts and accounts follow each other, an account
\* counts as depleted exactly while its depleted toast awaits its counterpart.
THEOREM DepletionIsTold == Spec => []DepletedIsTold
<1>1. Init => DepletedIsTold BY DEF Init, DepletedIsTold, Depleted
<1> QED BY <1>1, DepletedStep, TypeCorrect, PTL DEF Spec

(***************************************************************************)
(* Hooks                                                                   *)
(***************************************************************************)

\* The code's rule for the crossings is what the thresholds call for.
LEMMA CrossingsCalled ==
    ASSUME NEW before \in Reading, NEW used \in Reading
    PROVE  HooksFrom(before, used) = Called(before, used)
<1>1. CASE before = Absent \/ used = Absent BY <1>1 DEF HooksFrom, Called
<1>2. CASE before # Absent /\ used # Absent
  <2>1. /\ before \in Int /\ used \in Int /\ used <= Full
        /\ High \in Int /\ Critical \in Int /\ Full \in Int /\ Depleted \in Int
        /\ High <= Full /\ Critical <= Full
    <3>1. before \in 0..Full /\ used \in 0..Full BY <1>2, UsedAssumption DEF Reading
    <3>2. Full \in Int /\ Depleted \in Int BY DEF Full, Depleted
    <3> QED BY <3>1, <3>2, ThresholdAssumption
  <2> DEFINE passed == {level \in {High, Critical, Full} : before < level /\ level <= used}
  <2>2. Full \in passed <=> before < Full /\ used >= Full BY <2>1
  <2>3. passed # {} /\ Full \notin passed <=>
            /\ used < Full
            /\ \/ before < Critical /\ used >= Critical
               \/ before < High /\ used >= High
    BY <2>1
  <2>4. Called(before, used) =
            (IF Full \in passed THEN {"reached"} ELSE {})
               \cup (IF passed # {} /\ Full \notin passed THEN {"low"} ELSE {})
               \cup (IF used < Depleted /\ Depleted <= before THEN {"reset"} ELSE {})
    BY <1>2 DEF Called
  <2>5. HooksFrom(before, used) =
            {event \in {"reached", "low", "reset"} :
               \/ event = "reached" /\ Full \in passed
               \/ event = "low" /\ passed # {} /\ Full \notin passed
               \/ event = "reset" /\ Recovers(before, used)}
    <3> HIDE DEF passed
    <3> QED BY <1>2, <2>2, <2>3 DEF HooksFrom
  <2>6. Recovers(before, used) <=> used < Depleted /\ Depleted <= before
    BY <2>1 DEF Recovers
  <2> HIDE DEF passed
  <2> QED BY <2>4, <2>5, <2>6
<1> QED BY <1>1, <1>2

\* Until personal information is hidden, a baseline is the reading of its account that
\* the hooks last saw, but for the accounts taken for one another, and no batch carries
\* settings that hide it.
BaselinesOwned ==
    everHidden \/ /\ ~misfired
                  /\ ~settings.hide_personal_info
                  /\ \A t \in Task : batch[t] # Idle => ~batch[t].settings.hide_personal_info
                  /\ \A l \in Lane \ muddled : baselines[l] = observed[l]

LEMMA OwnedQuiet ==
    ASSUME TypeOK, BaselinesOwned, NEW t \in Task, Quiet(t) PROVE BaselinesOwned'
<1>0. batch[t] \in Batch BY DEF TypeOK
<1>1. UNCHANGED <<everHidden, misfired, muddled, settings, baselines, observed>>
  BY DEF Quiet, Start, Publish, FailFetch, Fetched, Finish, CloneCache, alertVars, history, toastHistory, hookHistory
<1>2. /\ batch'[t].settings \in {settings, batch[t].settings}
      /\ batch[t] = Idle => batch'[t].settings = settings
      /\ \A u \in Task \ {t} : batch'[u] = batch[u]
  <2>1. CASE Start(t) BY <2>1 DEF Start, TypeOK
  <2>2. CASE Publish(t) \/ FailFetch(t) \/ Finish(t)
    BY <1>0, <2>2, PhaseOf DEF Publish, FailFetch, Fetched, Finish, TypeOK, Idle
  <2>3. CASE CloneCache(t) BY <1>0, <2>3, PhaseOf DEF CloneCache, TypeOK, Idle
  <2> QED BY <2>1, <2>2, <2>3 DEF Quiet
<1> QED BY <1>1, <1>2 DEF BaselinesOwned

LEMMA OwnedHooks ==
    ASSUME TypeOK, BaselinesOwned, ~everHidden, NEW t \in Task, batch[t].phase = "cloned",
           batch[t].seen # NoEntry, NotifyHooks(t)
    PROVE  ~misfired' /\ \A l \in Lane \ muddled' : baselines'[l] = observed'[l]
<1>1. Identity(t) \in Account /\ batch[t] # Idle BY Observed DEF Idle
<1>2. BaselineOwner(batch[t].settings.hide_personal_info, Identity(t)) = Identity(t)
  BY <1>1 DEF BaselinesOwned, BaselineOwner
<1>3. ~misfired /\ \A l \in Lane \ muddled : baselines[l] = observed[l]
  BY DEF BaselinesOwned
<1>4. CASE ~batch[t].settings.hooks_enabled BY <1>3, <1>4 DEF NotifyHooks, hookHistory
<1>5. CASE batch[t].settings.hooks_enabled
  <2> DEFINE ran == [window \in Window |->
                       HooksFrom(baselines[<<Identity(t), window>>], ReadingOf(t, window))]
  <2>1. RecordHooks(t, ran) BY <1>2, <1>5 DEF NotifyHooks
  <2>2. ASSUME NEW l \in OwnLanes(t) \ muddled, ~Misread(t)
        PROVE  ran[l[2]] = Called(observed[l], ReadingOf(t, l[2]))
    <3>1. l \in Lane /\ l[1] = Identity(t) BY <2>2 DEF OwnLanes, Misread
    <3>2. l = <<Identity(t), l[2]>> /\ l[2] \in Window BY <3>1 DEF Lane
    <3>3. baselines[l] = observed[l] /\ observed[l] \in Reading
      BY <1>3, <3>1 DEF TypeOK
    <3>4. ReadingOf(t, l[2]) \in Reading BY <3>2, Observed
    <3>5. ran[l[2]] = HooksFrom(baselines[<<Identity(t), l[2]>>], ReadingOf(t, l[2]))
      BY <3>2
    <3> HIDE DEF ran
    <3> QED BY <3>2, <3>3, <3>4, <3>5, CrossingsCalled
  <2>3. ~misfired' BY <1>3, <2>1, <2>2 DEF RecordHooks
  <2>4. ASSUME NEW l \in Lane, l \notin muddled' PROVE baselines'[l] = observed'[l]
    <3>1. l \in DOMAIN baselines BY DEF TypeOK, Lane
    <3>2. baselines'[l] = IF l[1] = Identity(t) /\ ReadingOf(t, l[2]) # Absent
                          THEN ReadingOf(t, l[2]) ELSE baselines[l]
      BY <1>2, <1>5, <3>1 DEF NotifyHooks
    <3>3. observed'[l] = IF l \in OwnLanes(t) THEN ReadingOf(t, l[2]) ELSE observed[l]
      BY <2>1 DEF RecordHooks
    <3>4. l \in OwnLanes(t) <=> l[1] = batch[t].seen.owner /\ ReadingOf(t, l[2]) # Absent
      BY DEF OwnLanes
    <3>5. CASE Misread(t)
      <4>1. l \notin muddled /\ l \notin MixedLanes(t) BY <2>1, <2>4, <3>5 DEF RecordHooks
      <4> QED BY <1>3, <3>2, <3>3, <3>4, <4>1 DEF MixedLanes
    <3>6. CASE ~Misread(t)
      <4>1. l \in muddled => l \in OwnLanes(t) BY <2>1, <2>4, <3>6 DEF RecordHooks
      <4> QED BY <1>3, <3>2, <3>3, <3>4, <3>6, <4>1 DEF Misread
    <3> QED BY <3>5, <3>6
  <2> QED BY <2>3, <2>4
<1> QED BY <1>4, <1>5

LEMMA OwnedStep == ASSUME TypeOK, BaselinesOwned, [Next]_vars PROVE BaselinesOwned'
<1>1. CASE UNCHANGED vars BY <1>1 DEF BaselinesOwned, vars, alertVars, history, toastHistory, hookHistory
<1>2. CASE ChangeSettings BY <1>2 DEF ChangeSettings, BaselinesOwned, alertVars, hookHistory
<1>3. CASE SwitchAccount BY <1>3 DEF SwitchAccount, BaselinesOwned, alertVars, history, toastHistory, hookHistory
<1>4. CASE \E t \in Task : Quiet(t) BY <1>4, OwnedQuiet
<1>5. ASSUME NEW t \in Task, Notify(t) PROVE BaselinesOwned'
  <2>1. /\ UNCHANGED <<everHidden, settings>>
        /\ \A u \in Task : batch'[u] \in {batch[u], Idle}
    BY <1>5 DEF Notify, TypeOK
  <2>2. CASE batch[t].seen = NoEntry
    <3>1. UNCHANGED <<misfired, muddled, baselines, observed>>
      BY <1>5, <2>2 DEF Notify, alertVars, hookHistory
    <3> QED BY <2>1, <3>1 DEF BaselinesOwned
  <2>3. CASE batch[t].seen # NoEntry
    <3>1. NotifyHooks(t) /\ batch[t].phase = "cloned" BY <1>5, <2>3, Zenon DEF Notify
    <3>2. ~everHidden => ~misfired' /\ \A l \in Lane \ muddled' : baselines'[l] = observed'[l]
      BY <2>3, <3>1, OwnedHooks
    <3> QED BY <2>1, <3>2 DEF BaselinesOwned
  <2> QED BY <2>2, <2>3
<1> QED BY <1>1, <1>2, <1>3, <1>4, <1>5, NextCases

\* In whatever order the batches of several accounts end, the hooks that run are those
\* an account's own readings call for, until personal information is hidden and but for
\* accounts a batch took for one another.
THEOREM HooksOnTheirCrossings == Spec => []HooksOnCrossings
<1>1. Init => BaselinesOwned
  <2> SUFFICES ASSUME Init PROVE BaselinesOwned OBVIOUS
  <2>1. \A l \in Lane : baselines[l] = observed[l] BY DEF Init, Lane
  <2> QED BY <2>1 DEF Init, BaselinesOwned
<1>2. BaselinesOwned => HooksOnCrossings BY DEF BaselinesOwned, HooksOnCrossings
<1> QED BY <1>1, <1>2, OwnedStep, TypeCorrect, PTL DEF Spec
-----------------------------------------------------------------------------
(***************************************************************************)
(* CodexScan                                                               *)
(***************************************************************************)

(***************************************************************************)
(* The inductive invariant                                                 *)
(***************************************************************************)

\* A fork continues a record that its parent has.
LogHolds ==
    \A f \in Files :
        /\ log[f].at = "absent" => log[f].len = 0
        /\ IsFork(f) => log[f].fork <= log[Parent[f]].len

\* What was counted of a file is what it held up to the cursor, and is still there.
Exact(c, f) ==
    c.files[f] # None =>
        /\ 2 * c.files[f].count = c.files[f].parsed
        /\ c.files[f].count <= log[f].len

\* A scan reads a file that it has still to do, as large as it is at most.
ReadingHolds(r) ==
    r.at = "reading" =>
        /\ r.file \in r.todo
        /\ r.size <= Bytes(r.file) /\ r.read <= ReadLimit

\* What a scan found in a file is counted, or the file is still to be read.
Found(r, f) ==
    /\ r.seen[f] <= log[f].len
    /\ r.at # "idle" /\ f \in InWindow(r.range) =>
          f \in r.todo \cup r.next \/ r.seen[f] <= Count(r.cache, f)

\* A scan that may still save works on the cache as it is: it keeps the last complete
\* report, and is one the user asked for if the cache is paused.
UpToDate(r) ==
    r.current => /\ r.cache.report = good.report
                 /\ ~r.app => disk.pause = "none"

ScanHolds(r) ==
    /\ \A f \in Files : Exact(r.cache, f) /\ Found(r, f)
    /\ ReadingHolds(r) /\ UpToDate(r)

\* A complete cache counts what its scan found, of each file that is not gone, unless
\* the sessions root was away when it was saved.
Whole ==
    /\ disk.since = None => \A f \in Files : disk.files[f] = None
    /\ disk.since # None =>
          \A f \in InWindow(disk.since) :
              ~good.away /\ log[f].at # "gone" => good.seen[f] <= Count(disk, f)

\* The report the cache gives is the last complete one, and only a catch-up pauses.
DiskHolds ==
    /\ \A f \in Files : Exact(disk, f)
    /\ ~disk.incomplete => Whole /\ disk.report = None /\ disk.pause = "none"
    /\ Established(disk) = good.report

ScanInv ==
    /\ ScanTypeOK /\ LogHolds /\ DiskHolds
    /\ \A s \in Scans : ScanHolds(scan[s])

(***************************************************************************)
(* Types                                                                   *)
(***************************************************************************)

LEMMA EntryFields ==
    ASSUME NEW e \in EntryType
    PROVE  /\ e # None
           /\ e.size \in Nat /\ e.parsed \in Nat /\ e.target \in Nat /\ e.count \in Int
           /\ e.forked \in BOOLEAN /\ e.unresolved \in BOOLEAN
BY ScanAssumption DEF EntryType

LEMMA CacheFields ==
    ASSUME NEW c \in CacheType
    PROVE  /\ \A f \in Files : c.files[f] \in EntryType \cup {None}
           /\ c.files \in [Files -> EntryType \cup {None}]
           /\ c.since \in Windows \cup {None} /\ c.pending \in Windows \cup {None}
           /\ c.queue \in SUBSET Files /\ c.incomplete \in BOOLEAN
           /\ c.report \in ReportType \cup {None}
           /\ c.pause \in {"none", "NoProgress", "Error"}
BY DEF CacheType

LEMMA ScanFields ==
    ASSUME NEW r \in ScanType
    PROVE  /\ r.at \in {"idle", "walking", "reading"}
           /\ r.window \in Windows /\ r.range \in Windows /\ r.app \in BOOLEAN
           /\ r.cache \in CacheType /\ r.found \in BOOLEAN
           /\ r.todo \in SUBSET Files /\ r.next \in SUBSET Files
           /\ r.read \in Nat /\ r.file \in Files \cup {None} /\ r.size \in Nat
           /\ r.cancelled \in BOOLEAN /\ r.current \in BOOLEAN /\ r.seen \in [Files -> Nat]
BY DEF ScanType

LEMMA LogFields ==
    ASSUME ScanTypeOK, NEW f \in Files
    PROVE  /\ log[f] \in LogType /\ log[f].len \in Nat /\ log[f].torn \in BOOLEAN
           /\ log[f].fork \in Nat \cup {NoFork} /\ log[f].at \in {"absent", "there", "gone"}
           /\ Bytes(f) \in Nat /\ Bytes(f) \in {2 * log[f].len, 2 * log[f].len + 1}
           /\ Parent[f] \in Files
BY ScanAssumption DEF ScanTypeOK, LogType, Bytes

LEMMA EmptyTyped ==
    /\ EmptyCache \in CacheType /\ IdleScan \in ScanType
    /\ EmptyCache.since = None /\ EmptyCache.pause = "none" /\ EmptyCache.report = None
    /\ EmptyCache.incomplete = FALSE /\ \A f \in Files : EmptyCache.files[f] = None
    /\ IdleScan.at = "idle" /\ IdleScan.current = FALSE /\ IdleScan.cache = EmptyCache
    /\ \A f \in Files : IdleScan.seen[f] = 0
<1>1. /\ EmptyCache \in CacheType
      /\ EmptyCache.since = None /\ EmptyCache.pause = "none" /\ EmptyCache.report = None
      /\ EmptyCache.incomplete = FALSE /\ \A f \in Files : EmptyCache.files[f] = None
  BY DEF EmptyCache, CacheType
<1>2. NoReport.seen \in [Files -> Nat] /\ \A f \in Files : NoReport.seen[f] = 0
  BY DEF NoReport
<1> QED BY <1>1, <1>2 DEF IdleScan, ScanType, Windows

LEMMA ReportTyped ==
    ASSUME NEW c \in CacheType, NEW w \in Windows
    PROVE  ReportOf(c, w) \in ReportType
<1>1. \A f \in Files : Count(c, f) \in Int BY CacheFields, EntryFields DEF Count
<1> QED BY <1>1 DEF ReportOf, ReportType

LEMMA EstablishedTyped ==
    ASSUME NEW c \in CacheType
    PROVE  Established(c) \in ReportType \cup {None}
BY CacheFields, ReportTyped DEF Established

LEMMA CountBounds ==
    ASSUME ScanTypeOK, NEW c \in CacheType, NEW f \in Files, Exact(c, f)
    PROVE  Count(c, f) \in Nat /\ Count(c, f) <= log[f].len
<1>1. CASE c.files[f] = None BY <1>1, LogFields DEF Count
<1>2. CASE c.files[f] # None
  <2>1. c.files[f] \in EntryType BY <1>2, CacheFields
  <2>2. c.files[f].parsed \in Nat /\ c.files[f].count \in Int BY <2>1, EntryFields
  <2> QED BY <1>2, <2>2 DEF Exact, Count
<1> QED BY <1>1, <1>2

LEMMA IdleHolds ==
    ASSUME ScanTypeOK
    PROVE  ScanHolds(IdleScan)
BY EmptyTyped, LogFields DEF ScanHolds, Exact, Found, ReadingHolds, UpToDate

(***************************************************************************)
(* A step of one scan                                                      *)
(***************************************************************************)

LEMMA StepKeeps ==
    ASSUME ScanInv, NEW s \in Scans, NEW to \in ScanType, ScanHolds(to),
           scan' = [scan EXCEPT ![s] = to], started' \in 0..MaxScans, faults' \in 0..MaxFaults,
           UNCHANGED <<log, mounted, disk, good>>
    PROVE  ScanInv'
<1>1. \A t \in Scans : scan'[t] \in ScanType /\ ScanHolds(scan'[t])
  BY DEF ScanInv, ScanTypeOK
<1>2. ScanTypeOK' BY DEF ScanInv, ScanTypeOK
<1>3. LogHolds' BY DEF ScanInv, LogHolds, IsFork
<1>4. DiskHolds'
  BY DEF ScanInv, DiskHolds, Exact, Whole, Established, Count, ReportOf
<1>5. ASSUME NEW t \in Scans PROVE ScanHolds(scan[t])'
  <2> DEFINE r == scan'[t]
  <2>1. ScanHolds(r) BY <1>1
  <2> HIDE DEF r
  <2>2. /\ \A f \in Files : Exact(r.cache, f) /\ Found(r, f)
        /\ ReadingHolds(r) /\ UpToDate(r)
    BY <2>1 DEF ScanHolds
  <2>3. \A f \in Files : Exact(scan[t].cache, f)' /\ Found(scan[t], f)'
    BY <2>2 DEF r, Exact, Found, Count
  <2>4. ReadingHolds(scan[t])' BY <2>2 DEF r, ReadingHolds, Bytes
  <2>5. UpToDate(scan[t])' BY <2>2 DEF r, UpToDate
  <2> QED BY <2>3, <2>4, <2>5 DEF ScanHolds
<1> QED BY <1>2, <1>3, <1>4, <1>5 DEF ScanInv

LEMMA CancelKeeps ==
    ASSUME ScanInv, NEW s \in Scans, Cancel(s)
    PROVE  ScanInv'
<1> DEFINE r == scan[s]
           to == [r EXCEPT !.cancelled = TRUE]
<1>1. r \in ScanType /\ ScanHolds(r) BY DEF ScanInv, ScanTypeOK
<1>2. scan' = [scan EXCEPT ![s] = to] /\ UNCHANGED <<log, mounted, disk, started, good>>
  BY DEF Cancel
<1>3. started' \in 0..MaxScans /\ faults' \in 0..MaxFaults
  BY ScanAssumption DEF Cancel, ScanInv, ScanTypeOK
<1> HIDE DEF r
<1>4. to \in ScanType BY <1>1 DEF ScanType
<1>5. /\ to.cache = r.cache /\ to.seen = r.seen /\ to.at = r.at /\ to.range = r.range
      /\ to.todo = r.todo /\ to.next = r.next /\ to.file = r.file /\ to.size = r.size
      /\ to.read = r.read /\ to.current = r.current /\ to.app = r.app
  BY <1>1 DEF ScanType
<1> HIDE DEF to
<1>6. ScanHolds(to) BY <1>1, <1>5 DEF ScanHolds, Exact, Found, ReadingHolds, UpToDate
<1> QED BY <1>2, <1>3, <1>4, <1>6, StepKeeps

\* Leaving a file for a later pass: nothing of it is counted yet.
LEMMA PassFields ==
    ASSUME NEW s \in Scans, NEW f \in Files, NEW complete \in BOOLEAN, scan[s] \in ScanType
    PROVE  LET to == Pass(s, f, complete) IN
           /\ to \in ScanType /\ to.at = "walking"
           /\ to.todo = scan[s].todo \ {f}
           /\ to.next = IF complete THEN scan[s].next \ {f} ELSE scan[s].next \cup {f}
           /\ to.cache = scan[s].cache /\ to.seen = scan[s].seen /\ to.range = scan[s].range
           /\ to.read = scan[s].read /\ to.current = scan[s].current /\ to.app = scan[s].app
BY DEF Pass, ScanType

LEMMA PassHolds ==
    ASSUME ScanInv, NEW s \in Scans, NEW f \in Files, scan[s].at # "idle"
    PROVE  Pass(s, f, FALSE) \in ScanType /\ ScanHolds(Pass(s, f, FALSE))
<1> DEFINE r == scan[s]
           to == Pass(s, f, FALSE)
<1>1. r \in ScanType /\ ScanHolds(r) BY DEF ScanInv, ScanTypeOK
<1>2. /\ to \in ScanType /\ to.at = "walking"
      /\ to.todo = r.todo \ {f} /\ to.next = r.next \cup {f}
      /\ to.cache = r.cache /\ to.seen = r.seen /\ to.range = r.range
      /\ to.current = r.current /\ to.app = r.app
  BY <1>1, PassFields
<1>3. r.at # "idle" OBVIOUS
<1> HIDE DEF r, to
<1>4. ScanHolds(to) BY <1>1, <1>2, <1>3 DEF ScanHolds, Exact, Found, ReadingHolds, UpToDate
<1> QED BY <1>2, <1>4 DEF to

LEMMA InspectKeeps ==
    ASSUME ScanInv, NEW s \in Scans, NEW f \in Files, Inspect(s, f)
    PROVE  ScanInv'
<1> DEFINE r == scan[s]
           to == [r EXCEPT !.at = "reading", !.file = f, !.size = Bytes(f)]
<1>1. r \in ScanType /\ ScanHolds(r) BY DEF ScanInv, ScanTypeOK
<1>2. /\ started' \in 0..MaxScans /\ faults' \in 0..MaxFaults
      /\ UNCHANGED <<log, mounted, disk, good>> /\ r.at = "walking"
  BY DEF Inspect, Step, KeepDisk, ScanInv, ScanTypeOK
<1>3. CASE ~Readable(f)
  <2>1. scan' = [scan EXCEPT ![s] = Pass(s, f, FALSE)] BY <1>3 DEF Inspect, Step
  <2>2. Pass(s, f, FALSE) \in ScanType /\ ScanHolds(Pass(s, f, FALSE)) BY <1>2, PassHolds
  <2> HIDE DEF r
  <2> QED BY <1>2, <2>1, <2>2, StepKeeps
<1>4. CASE Readable(f)
  <2>1. scan' = [scan EXCEPT ![s] = to] BY <1>4 DEF Inspect, Step
  <2>2. f \in r.todo BY DEF Inspect, Turn
  <2>3. r.read \in Nat /\ ReadLimit \in Nat /\ ~(r.read >= ReadLimit)
    BY <1>1, ScanFields, ScanAssumption DEF Inspect, OutOfBudget
  <2>4. Bytes(f) \in Nat BY LogFields DEF ScanInv
  <2> HIDE DEF r
  <2>5. to \in ScanType BY <1>1, <2>4 DEF ScanType
  <2>6. /\ to.cache = r.cache /\ to.seen = r.seen /\ to.at = "reading" /\ to.range = r.range
        /\ to.todo = r.todo /\ to.next = r.next /\ to.file = f /\ to.size = Bytes(f)
        /\ to.read = r.read /\ to.current = r.current /\ to.app = r.app
    BY <1>1 DEF ScanType
  <2> HIDE DEF to
  <2>7. ReadingHolds(to) BY <2>2, <2>3, <2>4, <2>6 DEF ReadingHolds
  <2>8. ScanHolds(to) BY <1>1, <1>2, <2>6, <2>7 DEF ScanHolds, Exact, Found, UpToDate
  <2> QED BY <1>2, <2>1, <2>5, <2>8, StepKeeps
<1> QED BY <1>3, <1>4

\* A file that is settled has been counted whole.
LEMMA SettledWhole ==
    ASSUME ScanTypeOK, NEW c \in CacheType, NEW f \in Files, Exact(c, f), Settled(c, f)
    PROVE  Count(c, f) = log[f].len
<1> DEFINE e == c.files[f]
<1>1. /\ e # None /\ e.size = Bytes(f) /\ e.parsed >= e.size
      /\ 2 * e.count = e.parsed /\ e.count <= log[f].len
  BY DEF Settled, Unchanged, Exact
<1>2. e \in EntryType BY <1>1, CacheFields
<1>3. e.size \in Nat /\ e.parsed \in Nat /\ e.count \in Int BY <1>2, EntryFields
<1>4. Count(c, f) = e.count BY <1>1 DEF Count
<1>5. log[f].len \in Nat /\ Bytes(f) \in {2 * log[f].len, 2 * log[f].len + 1} BY LogFields
<1> HIDE DEF e
<1> QED BY <1>1, <1>3, <1>4, <1>5

\* A parent that can be a baseline counts what its fork continues, no more or less.
LEMMA BaselineIsFork ==
    ASSUME ScanTypeOK, LogHolds, NEW c \in CacheType, NEW f \in Files, Exact(c, Parent[f]),
           IsFork(f), Baseline(c, f)
    PROVE  log[f].fork - Count(c, Parent[f]) = 0
<1>1. Parent[f] \in Files /\ log[Parent[f]].len \in Nat /\ log[f].fork \in Nat \cup {NoFork}
  BY LogFields
<1>2. Settled(c, Parent[f]) /\ Count(c, Parent[f]) \in 1..log[f].fork BY DEF Baseline
<1>3. Count(c, Parent[f]) = log[Parent[f]].len BY <1>1, <1>2, SettledWhole
<1>4. log[f].fork <= log[Parent[f]].len /\ log[f].fork # NoFork BY DEF LogHolds, IsFork
<1> QED BY <1>1, <1>2, <1>3, <1>4

\* The file was read: what is kept of it leaves the pass, and is whole if it leaves
\* the queue.
LEMMA ReadKeeps ==
    ASSUME ScanInv, NEW s \in Scans, NEW f \in Files, scan[s].at # "idle",
           NEW entry \in EntryType, NEW n \in Nat, NEW complete \in BOOLEAN,
           2 * entry.count = entry.parsed, entry.count <= log[f].len,
           complete => entry.parsed >= Bytes(f),
           Step(s, [Pass(s, f, complete) EXCEPT !.cache.files[f] = entry, !.read = @ + n]),
           KeepDisk
    PROVE  ScanInv'
<1> DEFINE r == scan[s]
           at == Pass(s, f, complete)
           to == [at EXCEPT !.cache.files[f] = entry, !.read = @ + n]
<1>1. r \in ScanType /\ ScanHolds(r) /\ ScanTypeOK BY DEF ScanInv, ScanTypeOK
<1>2. /\ at \in ScanType /\ at.at = "walking"
      /\ at.todo = r.todo \ {f}
      /\ at.next = IF complete THEN r.next \ {f} ELSE r.next \cup {f}
      /\ at.cache = r.cache /\ at.seen = r.seen /\ at.range = r.range
      /\ at.current = r.current /\ at.app = r.app
  BY <1>1 DEF Pass, ScanType
<1>3. scan' = [scan EXCEPT ![s] = to] BY DEF Step
<1>4. r.at # "idle" OBVIOUS
<1>5. r.cache \in CacheType BY <1>1, ScanFields
<1> HIDE DEF r, at
<1>6. /\ to.at = "walking" /\ to.todo = at.todo /\ to.next = at.next /\ to.seen = at.seen
      /\ to.range = at.range /\ to.current = at.current /\ to.app = at.app
      /\ to.cache = [at.cache EXCEPT !.files[f] = entry] /\ to.read = at.read + n
      /\ to = [at EXCEPT !.cache = to.cache, !.read = to.read]
  BY <1>2 DEF ScanType
<1>7. /\ to.cache \in CacheType /\ to.cache.report = r.cache.report
      /\ \A x \in Files : to.cache.files[x] = IF x = f THEN entry ELSE r.cache.files[x]
  BY <1>2, <1>5, <1>6 DEF CacheType
<1>8. to \in ScanType
  <2>1. at.read \in Nat BY <1>2, ScanFields
  <2>2. to.read \in Nat BY <1>6, <2>1
  <2> HIDE DEF to
  <2> QED BY <1>2, <1>6, <1>7, <2>2 DEF ScanType
<1> HIDE DEF to
<1>9. \A x \in Files : Exact(to.cache, x) BY <1>1, <1>7 DEF ScanHolds, Exact
<1>10. ASSUME NEW x \in Files PROVE Found(to, x)
  <2>1. Found(r, x) BY <1>1 DEF ScanHolds
  <2>2. CASE x # f
    <3>1. Count(to.cache, x) = Count(r.cache, x) BY <1>7, <2>2 DEF Count
    <3> QED BY <1>2, <1>4, <1>6, <2>1, <2>2, <3>1 DEF Found
  <2>3. CASE x = f /\ ~complete BY <1>2, <1>6, <2>1, <2>3 DEF Found
  <2>4. CASE x = f /\ complete
    <3>1. entry # None /\ entry.count \in Int /\ entry.parsed \in Nat BY EntryFields
    <3>2. Count(to.cache, x) = entry.count BY <1>7, <2>4, <3>1 DEF Count
    <3>3. log[f].len \in Nat /\ Bytes(f) \in {2 * log[f].len, 2 * log[f].len + 1}
      BY <1>1, LogFields
    <3>4. log[f].len <= entry.count BY <2>4, <3>1, <3>3
    <3>5. r.seen[f] \in Nat /\ r.seen[f] <= log[f].len
      BY <1>1, <2>1, <2>4, ScanFields DEF Found
    <3>6. to.seen[x] <= Count(to.cache, x) BY <1>2, <1>6, <2>4, <3>1, <3>2, <3>3, <3>4, <3>5
    <3> QED BY <1>2, <1>6, <2>1, <3>6 DEF Found
  <2> QED BY <2>2, <2>3, <2>4
<1>11. ScanHolds(to)
  BY <1>1, <1>2, <1>6, <1>7, <1>9, <1>10 DEF ScanHolds, ReadingHolds, UpToDate
<1> QED BY <1>3, <1>8, <1>11, StepKeeps DEF Step, KeepDisk, ScanInv, ScanTypeOK

LEMMA UnresolvedTyped ==
    ASSUME NEW size \in Nat
    PROVE  /\ Unresolved(size) \in EntryType
           /\ Unresolved(size).count = 0 /\ Unresolved(size).parsed = 0
BY DEF Unresolved, EntryType

\* What a resumed or a fresh reading may start from and end at.
LEMMA Cursor ==
    ASSUME NEW from \in Nat, NEW before \in Int, from = 2 * before,
           NEW target \in Nat, NEW len \in Nat, target <= 2 * len + 1,
           NEW limit \in Int, NEW n \in 0..CapAt((target \div 2) - (from \div 2), limit)
    PROVE  /\ n \in Nat /\ from + 2 * n \in Nat
           /\ 2 * (before + n) = from + 2 * n /\ before + n <= len
<1>1. from \div 2 = before BY Z3
<1>2. 2 * (target \div 2) <= target /\ target \div 2 \in Nat BY Z3
<1>3. n <= (target \div 2) - before BY <1>1, <1>2 DEF CapAt
<1> QED BY <1>2, <1>3

LEMMA ReadFileCases ==
    ASSUME NEW s \in Scans, ReadFile(s)
    PROVE  LET f == scan[s].file IN
           /\ scan[s].at = "reading" /\ KeepDisk
           /\ \/ Step(s, Pass(s, f, FALSE))
              \/ Keep(s, f, Unresolved(scan[s].size), 0, FALSE)
              \/ /\ IsFork(f) => Baseline(scan[s].cache, f)
                 /\ \E n \in 0..Most(s, f), cut \in BOOLEAN :
                       Keep(s, f, EntryOf(s, f, n, cut), ParseResult(s, f, n, cut).read,
                            ParseResult(s, f, n, cut).complete)
BY DEF ReadFile

LEMMA EntryKept ==
    ASSUME ScanInv, NEW s \in Scans, NEW f \in Files, scan[s].at # "idle",
           NEW entry \in EntryType, NEW n \in Nat, NEW complete \in BOOLEAN,
           2 * entry.count = entry.parsed, entry.count <= log[f].len,
           Keep(s, f, entry, n, complete), KeepDisk
    PROVE  ScanInv'
<1> DEFINE done == complete /\ entry.parsed >= Bytes(f) /\ entry.target >= Bytes(f)
<1>1. Step(s, [Pass(s, f, done) EXCEPT !.cache.files[f] = entry, !.read = @ + n])
  BY DEF Keep
<1>2. done \in BOOLEAN /\ (done => entry.parsed >= Bytes(f)) OBVIOUS
<1> HIDE DEF done
<1> QED BY <1>1, <1>2, ReadKeeps

\* ReadingHolds from the cursor, or from the start, counts each record of the file once.
LEMMA EntryRead ==
    ASSUME ScanInv, NEW s \in Scans, NEW f \in Files, scan[s].at = "reading",
           f = scan[s].file, IsFork(f) => Baseline(scan[s].cache, f),
           NEW n \in 0..Most(s, f), NEW cut \in BOOLEAN
    PROVE  LET entry == EntryOf(s, f, n, cut) IN
           /\ entry \in EntryType
           /\ 2 * entry.count = entry.parsed /\ entry.count <= log[f].len
           /\ ParseResult(s, f, n, cut).read \in Nat
           /\ ParseResult(s, f, n, cut).complete \in BOOLEAN
<1> DEFINE c == scan[s].cache
           e == scan[s].cache.files[f]
           from == StartOffset(s, f)
           target == ScanTarget(s, f)
           before == CountedBefore(s, f)
           limit == Allowance(s)
<1>1. scan[s] \in ScanType /\ ScanHolds(scan[s]) /\ ScanTypeOK /\ LogHolds
  BY DEF ScanInv, ScanTypeOK
<1>2. /\ c \in CacheType /\ scan[s].size \in Nat /\ scan[s].read \in Nat
      /\ scan[s].size <= Bytes(f) /\ \A x \in Files : Exact(c, x)
  BY <1>1, ScanFields DEF ScanHolds, ReadingHolds
<1>3. limit \in Int BY <1>2, ScanAssumption DEF Allowance
<1>4. /\ log[f].len \in Nat /\ Bytes(f) \in Nat /\ Bytes(f) <= 2 * log[f].len + 1
      /\ Parent[f] \in Files
  BY <1>1, LogFields
<1>5. e = None \/ (e \in EntryType /\ 2 * e.count = e.parsed)
  BY <1>2, CacheFields DEF Exact
<1>6. from \in Nat /\ before \in Int /\ from = 2 * before
  <2>1. CASE Resumable(s, f)
    <3>1. e # None BY <2>1 DEF Resumable
    <3>2. e.parsed \in Nat /\ e.count \in Int /\ 2 * e.count = e.parsed
      BY <1>5, <3>1, EntryFields
    <3> QED BY <2>1, <3>2 DEF StartOffset, CountedBefore
  <2>2. CASE ~Resumable(s, f) BY <2>2 DEF StartOffset, CountedBefore
  <2> QED BY <2>1, <2>2
<1>7. target \in Nat /\ target <= 2 * log[f].len + 1
  <2>1. target \in {e.target, Bytes(f)}
        /\ (target # Bytes(f) => e # None /\ e.target <= scan[s].size)
    BY DEF ScanTarget, Target
  <2>2. e # None => e.target \in Nat BY <1>5, EntryFields
  <2> HIDE DEF e, target
  <2> QED BY <1>2, <1>4, <2>1, <2>2
<1>8. n \in 0..CapAt((target \div 2) - (from \div 2), limit) BY DEF Most
<1>9. Drift(s, f, n) = 0
  <2>1. CASE IsFork(f) BY <1>1, <1>2, <1>4, <2>1, BaselineIsFork DEF Drift
  <2>2. CASE ~IsFork(f) BY <2>2 DEF Drift
  <2> QED BY <2>1, <2>2
<1>10. /\ ParseResult(s, f, n, cut).parsed = from + 2 * n
       /\ ParseResult(s, f, n, cut).target \in {from + 2 * n, target}
       /\ ParseResult(s, f, n, cut).read = n
       /\ ParseResult(s, f, n, cut).complete \in BOOLEAN
  BY DEF ParseResult, Parse
<1>11. EntryOf(s, f, n, cut) =
          [size |-> scan[s].size, parsed |-> ParseResult(s, f, n, cut).parsed,
           target |-> ParseResult(s, f, n, cut).target, count |-> before + n + Drift(s, f, n),
           forked |-> IsFork(f), unresolved |-> FALSE]
  BY DEF EntryOf
<1>12. IsFork(f) \in BOOLEAN BY DEF IsFork
<1> HIDE DEF c, e, from, target, before, limit
<1>13. /\ n \in Nat /\ from + 2 * n \in Nat
       /\ 2 * (before + n) = from + 2 * n /\ before + n <= log[f].len
  BY <1>3, <1>4, <1>6, <1>7, <1>8, Cursor
<1>14. before + n + Drift(s, f, n) = before + n BY <1>6, <1>9, <1>13
<1>15. before + n \in Int BY <1>6, <1>13
<1>16. /\ EntryOf(s, f, n, cut).count = before + n
       /\ EntryOf(s, f, n, cut).parsed = from + 2 * n
  BY <1>10, <1>11, <1>14
<1>17. EntryOf(s, f, n, cut) \in EntryType
  BY <1>2, <1>7, <1>10, <1>11, <1>12, <1>13, <1>14, <1>15 DEF EntryType
<1> QED BY <1>10, <1>13, <1>16, <1>17

LEMMA ReadFileKeeps ==
    ASSUME ScanInv, NEW s \in Scans, ReadFile(s)
    PROVE  ScanInv'
<1> DEFINE f == scan[s].file
<1>1. scan[s] \in ScanType /\ ScanHolds(scan[s]) /\ scan[s].at = "reading" /\ KeepDisk
  BY ReadFileCases DEF ScanInv, ScanTypeOK
<1>2. f \in Files /\ scan[s].size \in Nat BY <1>1, ScanFields DEF ScanHolds, ReadingHolds
<1>3. log[f].len \in Nat BY <1>2, LogFields DEF ScanInv
<1>4. scan[s].at # "idle" BY <1>1
<1>5. CASE Step(s, Pass(s, f, FALSE))
  <2>1. Pass(s, f, FALSE) \in ScanType /\ ScanHolds(Pass(s, f, FALSE))
    BY <1>2, <1>4, PassHolds
  <2>2. /\ scan' = [scan EXCEPT ![s] = Pass(s, f, FALSE)]
        /\ UNCHANGED <<log, mounted, disk, good>>
        /\ started' \in 0..MaxScans /\ faults' \in 0..MaxFaults
    BY <1>1, <1>5 DEF Step, KeepDisk, ScanInv, ScanTypeOK
  <2> QED BY <2>1, <2>2, StepKeeps
<1>6. CASE Keep(s, f, Unresolved(scan[s].size), 0, FALSE)
  <2> DEFINE entry == Unresolved(scan[s].size)
  <2>1. entry \in EntryType /\ entry.count = 0 /\ entry.parsed = 0
    BY <1>2, UnresolvedTyped
  <2>2. 2 * entry.count = entry.parsed /\ entry.count <= log[f].len BY <1>3, <2>1
  <2>3. Keep(s, f, entry, 0, FALSE) BY <1>6
  <2> HIDE DEF entry, f
  <2>4. 0 \in Nat /\ FALSE \in BOOLEAN OBVIOUS
  <2> QED BY <1>1, <1>2, <1>4, <2>1, <2>2, <2>3, <2>4, EntryKept
<1>7. ASSUME IsFork(f) => Baseline(scan[s].cache, f),
             NEW n \in 0..Most(s, f), NEW cut \in BOOLEAN,
             Keep(s, f, EntryOf(s, f, n, cut), ParseResult(s, f, n, cut).read,
                    ParseResult(s, f, n, cut).complete)
      PROVE  ScanInv'
  <2> DEFINE entry == EntryOf(s, f, n, cut)
             read == ParseResult(s, f, n, cut).read
             complete == ParseResult(s, f, n, cut).complete
  <2>1. /\ entry \in EntryType
        /\ 2 * entry.count = entry.parsed /\ entry.count <= log[f].len
        /\ read \in Nat /\ complete \in BOOLEAN
    BY <1>1, <1>2, <1>7, EntryRead
  <2>2. Keep(s, f, entry, read, complete) BY <1>7
  <2> HIDE DEF entry, read, complete, f
  <2> QED BY <1>1, <1>2, <1>4, <2>1, <2>2, EntryKept
<1> QED BY <1>5, <1>6, <1>7, ReadFileCases

LEMMA StartWalkKeeps ==
    ASSUME ScanInv, NEW s \in Scans, NEW w \in Windows, NEW app \in BOOLEAN,
           StartWalk(s, w, app)
    PROVE  ScanInv'
<1> DEFINE range == ScanRange(disk, w, app)
           shared == [disk EXCEPT !.report = Established(disk), !.pending = range,
                                  !.pause = IF app THEN "none" ELSE @]
           todo == {f \in InWindow(range) : Readable(f) /\ ~Fresh(disk, f, w)}
           next == IF mounted THEN {f \in disk.queue : ~Fresh(disk, f, w)} ELSE disk.queue
           seen == [f \in Files |-> IF Readable(f) THEN log[f].len ELSE 0]
           to == [IdleScan EXCEPT !.at = "walking", !.window = w, !.range = range,
                                  !.app = app, !.current = TRUE, !.found = mounted,
                                  !.cache = shared, !.todo = todo, !.next = next,
                                  !.seen = seen]
<1>1. /\ ScanTypeOK /\ DiskHolds /\ disk \in CacheType /\ mounted \in BOOLEAN
      /\ faults \in 0..MaxFaults
  BY DEF ScanInv, ScanTypeOK
<1>2. /\ scan' = [scan EXCEPT ![s] = to] /\ UNCHANGED <<log, mounted, disk, good>>
      /\ faults' \in 0..MaxFaults
  BY <1>1 DEF StartWalk
<1>3. started' \in 0..MaxScans BY ScanAssumption DEF StartWalk, ScanInv, ScanTypeOK
<1>4. range \in Windows BY DEF ScanRange, Windows
<1>5. todo \in SUBSET Files /\ next \in SUBSET Files
  BY <1>1, CacheFields DEF InWindow
<1>6. seen \in [Files -> Nat] BY <1>1, LogFields
<1>7. /\ shared \in CacheType /\ shared.files = disk.files
      /\ shared.report = good.report /\ shared.pause = IF app THEN "none" ELSE disk.pause
  <2>1. Established(disk) = good.report BY <1>1 DEF DiskHolds
  <2>2. Established(disk) \in ReportType \cup {None} BY <1>1, EstablishedTyped
  <2> HIDE DEF range
  <2> QED BY <1>1, <1>4, <2>1, <2>2 DEF CacheType
<1>8. ~app => disk.pause = "none" BY <1>1 DEF StartWalk, DiskHolds
<1>9. \A f \in InWindow(range) \ todo : seen[f] <= Count(disk, f)
  <2>1. SUFFICES ASSUME NEW f \in Files, Readable(f) => Fresh(disk, f, w)
                 PROVE  seen[f] <= Count(disk, f)
    BY DEF InWindow
  <2>2. Exact(disk, f) BY <1>1 DEF DiskHolds
  <2>3. Count(disk, f) \in Nat /\ log[f].len \in Nat BY <1>1, <2>2, CountBounds, LogFields
  <2>4. Readable(f) => Count(disk, f) = log[f].len
    BY <1>1, <2>1, <2>2, SettledWhole DEF Fresh
  <2> QED BY <2>3, <2>4
<1>10. \A f \in Files : seen[f] <= log[f].len
  BY <1>1, LogFields DEF Readable
<1> HIDE DEF range, shared, todo, next, seen
<1>11. to \in ScanType BY <1>1, <1>4, <1>5, <1>6, <1>7, EmptyTyped DEF ScanType
<1>12. /\ to.at = "walking" /\ to.range = range /\ to.app = app /\ to.current = TRUE
       /\ to.cache = shared /\ to.todo = todo /\ to.next = next /\ to.seen = seen
  BY EmptyTyped DEF IdleScan
<1> HIDE DEF to
<1>13. \A f \in Files : Exact(to.cache, f)
  BY <1>1, <1>7, <1>12 DEF DiskHolds, Exact
<1>14. \A f \in Files : Found(to, f)
  BY <1>7, <1>9, <1>10, <1>12 DEF Found, Count
<1>15. ReadingHolds(to) /\ UpToDate(to)
  BY <1>7, <1>8, <1>12 DEF ReadingHolds, UpToDate
<1>16. ScanHolds(to) BY <1>13, <1>14, <1>15 DEF ScanHolds
<1> QED BY <1>2, <1>3, <1>11, <1>16, StepKeeps

(***************************************************************************)
(* Codex and the user's disk                                               *)
(***************************************************************************)

LEMMA GrowthKeeps ==
    ASSUME ScanInv, log' \in [Files -> LogType], \A f \in Files : log'[f].len <= MaxLen[f],
           LogHolds', faults' \in 0..MaxFaults, UNCHANGED <<mounted, disk, scan, started, good>>,
           mounted,
           \A f \in Files : /\ log[f].len <= log'[f].len /\ Bytes(f) <= Bytes(f)'
                            /\ log[f].at = "gone" => log'[f].at = "gone"
    PROVE  ScanInv'
<1>1. ScanTypeOK' BY DEF ScanInv, ScanTypeOK
<1>2. \A f \in Files : log[f].len \in Nat /\ log'[f].len \in Nat
  BY DEF ScanInv, ScanTypeOK, LogType
<1>3. ASSUME NEW c \in CacheType, NEW f \in Files, Exact(c, f)
      PROVE  c.files[f] # None => 2 * c.files[f].count = c.files[f].parsed
                                  /\ c.files[f].count <= log'[f].len
  <2>1. c.files[f] # None => c.files[f].count \in Int BY CacheFields, EntryFields
  <2> QED BY <1>2, <1>3, <2>1 DEF Exact
<1>4. DiskHolds'
  <2>1. disk \in CacheType /\ DiskHolds BY DEF ScanInv, ScanTypeOK
  <2>2. \A f \in Files : Exact(disk, f)' BY <1>3, <2>1 DEF DiskHolds, Exact
  <2>3. Whole => Whole' BY DEF Whole, InWindow, Count
  <2>4. (Established(disk) = good.report)' BY <2>1 DEF DiskHolds, Established, ReportOf, Count
  <2> QED BY <2>1, <2>2, <2>3, <2>4 DEF DiskHolds
<1>5. ASSUME NEW t \in Scans PROVE ScanHolds(scan[t])'
  <2>1. scan[t] \in ScanType /\ ScanHolds(scan[t]) BY DEF ScanInv, ScanTypeOK
  <2>2. /\ scan[t].cache \in CacheType /\ scan[t].todo \subseteq Files
        /\ scan[t].seen \in [Files -> Nat] /\ scan[t].size \in Nat
    BY <2>1, ScanFields
  <2>3. \A f \in Files : Exact(scan[t].cache, f)'
    BY <1>3, <2>1, <2>2 DEF ScanHolds, Exact
  <2>4. ASSUME NEW f \in Files PROVE Found(scan[t], f)'
    <3>1. Found(scan[t], f) BY <2>1 DEF ScanHolds
    <3>2. scan[t].seen[f] \in Nat BY <2>2
    <3> QED BY <1>2, <3>1, <3>2 DEF Found, InWindow, Count
  <2>5. ReadingHolds(scan[t])'
    <3>1. \A f \in Files : Bytes(f) \in Nat BY LogFields DEF ScanInv
    <3>2. \A f \in Files : Bytes(f)' \in Nat BY <1>1, <1>2 DEF Bytes, ScanTypeOK, LogType
    <3>3. ReadingHolds(scan[t]) BY <2>1 DEF ScanHolds
    <3> QED BY <2>2, <3>1, <3>2, <3>3 DEF ReadingHolds
  <2>6. UpToDate(scan[t])' BY <2>1 DEF ScanHolds, UpToDate
  <2> QED BY <2>3, <2>4, <2>5, <2>6 DEF ScanHolds
<1>6. LogHolds' OBVIOUS
<1> QED BY <1>1, <1>4, <1>5, <1>6 DEF ScanInv

\* A file that is written keeps the records it had, and forks what its parent has.
LEMMA WriteKeeps ==
    ASSUME ScanInv, NEW f \in Files, NEW to \in LogType, Write(f, to), mounted,
           faults' \in 0..MaxFaults, log[f].at # "gone", to.at # "absent",
           log[f].len <= to.len, to.len <= MaxLen[f],
           Bytes(f) <= 2 * to.len + (IF to.torn THEN 1 ELSE 0),
           to.fork # NoFork => to.fork <= log[Parent[f]].len
    PROVE  ScanInv'
<1>1. /\ log \in [Files -> LogType] /\ LogHolds /\ \A x \in Files : log[x].len <= MaxLen[x]
      /\ \A x \in Files : log[x].len \in Nat /\ Bytes(x) \in Nat
      /\ \A x \in Files : Parent[x] \in Files /\ log[x].fork \in Nat \cup {NoFork}
  BY LogFields DEF ScanInv, ScanTypeOK
<1>2. /\ log' = [log EXCEPT ![f] = to]
      /\ UNCHANGED <<mounted, disk, scan, started, good>>
  BY DEF Write
<1>3. log' \in [Files -> LogType] /\ \A x \in Files : log'[x] = IF x = f THEN to ELSE log[x]
  BY <1>1, <1>2
<1>4. to.len \in Nat /\ to.fork \in Nat \cup {NoFork} BY DEF LogType
<1>5. \A x \in Files : /\ log[x].len <= log'[x].len /\ log'[x].len <= MaxLen[x]
                       /\ log'[x].len \in Nat
                       /\ log[x].at = "gone" => log'[x].at = "gone"
  BY <1>1, <1>3, <1>4
<1>6. \A x \in Files : Bytes(x) <= Bytes(x)'
  <2>1. Bytes(f) <= Bytes(f)' BY <1>3 DEF Bytes
  <2>2. \A x \in Files : x # f => Bytes(x)' = Bytes(x) BY <1>3 DEF Bytes
  <2> QED BY <1>1, <2>1, <2>2
<1>7. LogHolds'
  <2>1. SUFFICES ASSUME NEW x \in Files
                 PROVE  /\ log'[x].at = "absent" => log'[x].len = 0
                        /\ log'[x].fork # NoFork => log'[x].fork <= log'[Parent[x]].len
    BY DEF LogHolds, IsFork
  <2>2. log'[x].at = "absent" => log'[x].len = 0 BY <1>1, <1>3 DEF LogHolds
  <2>3. log'[x].fork # NoFork => log'[x].fork <= log[Parent[x]].len
    BY <1>1, <1>3 DEF LogHolds, IsFork
  <2>4. /\ log[Parent[x]].len <= log'[Parent[x]].len /\ log[Parent[x]].len \in Nat
        /\ log'[Parent[x]].len \in Nat /\ log'[x].fork \in Nat \cup {NoFork}
    BY <1>1, <1>3, <1>4, <1>5
  <2> QED BY <2>2, <2>3, <2>4 DEF NoFork
<1> QED BY <1>2, <1>3, <1>5, <1>6, <1>7, GrowthKeeps

LEMMA Created ==
    ASSUME NEW k
    PROVE  LET to == [Unwritten EXCEPT !.at = "there", !.fork = k, !.len = 1] IN
           /\ to.at = "there" /\ to.len = 1 /\ to.torn = FALSE /\ to.fork = k
           /\ k \in Nat \cup {NoFork} => to \in LogType
BY DEF Unwritten, LogType

LEMMA CreateKeeps ==
    ASSUME ScanInv, NEW f \in Files, Create(f)
    PROVE  ScanInv'
<1>1. /\ mounted /\ log[f] = Unwritten /\ UNCHANGED faults /\ faults \in 0..MaxFaults
      /\ Parent[f] \in Files /\ log[Parent[f]].len \in Nat
      /\ MaxLen[f] \in Nat \ {0}
  BY LogFields, ScanAssumption DEF Create, ScanInv, ScanTypeOK
<1>2. PICK fork \in {NoFork} \cup {log[p].len : p \in {q \in {Parent[f]} \ {f} :
                                        log[q].len > 0 /\ log[q].fork = NoFork}} :
          Write(f, [Unwritten EXCEPT !.at = "there", !.fork = fork, !.len = 1])
  BY DEF Create
<1> DEFINE to == [Unwritten EXCEPT !.at = "there", !.fork = fork, !.len = 1]
<1>3. fork = NoFork \/ fork = log[Parent[f]].len BY <1>2
<1>4. to.at = "there" /\ to.len = 1 /\ to.torn = FALSE /\ to.fork = fork BY Created
<1>5. /\ log[f].at = "absent" /\ log[f].len = 0 /\ Bytes(f) = 0
  BY <1>1 DEF Unwritten, Bytes
<1>6. Write(f, to) BY <1>2
<1> HIDE DEF to
<1>7. to \in LogType
  <2>1. fork \in Nat \cup {NoFork} BY <1>1, <1>3
  <2> QED BY <2>1, Created DEF to
<1>8. /\ to.at # "absent" /\ log[f].len <= to.len /\ to.len <= MaxLen[f]
      /\ Bytes(f) <= 2 * to.len + (IF to.torn THEN 1 ELSE 0)
      /\ to.fork # NoFork => to.fork <= log[Parent[f]].len
      /\ log[f].at # "gone" /\ faults' \in 0..MaxFaults
  BY <1>1, <1>3, <1>4, <1>5
<1> QED BY <1>1, <1>6, <1>7, <1>8, WriteKeeps

\* What a readable file holds, and may be written to.
LEMMA ReadableFile ==
    ASSUME ScanInv, NEW f \in Files, Readable(f)
    PROVE  /\ mounted /\ log[f] \in LogType /\ log[f].at = "there" /\ log[f].len \in Nat
           /\ log[f].torn \in BOOLEAN /\ log[f].len <= MaxLen[f]
           /\ log[f].fork # NoFork => log[f].fork <= log[Parent[f]].len
           /\ Bytes(f) = 2 * log[f].len + (IF log[f].torn THEN 1 ELSE 0)
BY LogFields DEF ScanInv, ScanTypeOK, Readable, LogHolds, IsFork, Bytes

LEMMA AppendKeeps ==
    ASSUME ScanInv, NEW f \in Files, Append(f)
    PROVE  ScanInv'
<1>1. /\ Readable(f) /\ log[f].len < MaxLen[f] /\ UNCHANGED faults /\ faults \in 0..MaxFaults
      /\ MaxLen[f] \in Nat
  BY ScanAssumption DEF Append, ScanInv, ScanTypeOK
<1> DEFINE longer == log[f].len + 1
           grown == [log[f] EXCEPT !.len = longer, !.torn = FALSE]
           torn == [log[f] EXCEPT !.torn = TRUE]
<1>2. /\ mounted /\ log[f] \in LogType /\ log[f].at = "there" /\ log[f].len \in Nat
      /\ log[f].torn \in BOOLEAN
      /\ log[f].fork # NoFork => log[f].fork <= log[Parent[f]].len
      /\ Bytes(f) = 2 * log[f].len + (IF log[f].torn THEN 1 ELSE 0)
  BY <1>1, ReadableFile
<1>3. CASE Write(f, grown)
  <2>0. longer \in Nat /\ longer = log[f].len + 1 BY <1>2
  <2> HIDE DEF longer
  <2>1. /\ grown \in LogType /\ grown.at = "there" /\ grown.len = longer
        /\ grown.fork = log[f].fork /\ grown.torn = FALSE
    BY <1>2, <2>0 DEF LogType
  <2> HIDE DEF grown
  <2>2. /\ grown.at # "absent" /\ log[f].len <= grown.len /\ grown.len <= MaxLen[f]
        /\ Bytes(f) <= 2 * grown.len + (IF grown.torn THEN 1 ELSE 0)
    BY <1>1, <1>2, <2>1, <2>0
  <2>3. grown.fork # NoFork => grown.fork <= log[Parent[f]].len BY <1>2, <2>1
  <2>4. log[f].at # "gone" /\ faults' \in 0..MaxFaults BY <1>1, <1>2
  <2> QED BY <1>2, <1>3, <2>1, <2>2, <2>3, <2>4, WriteKeeps
<1>4. CASE Write(f, torn)
  <2>1. /\ torn \in LogType /\ torn.at = "there" /\ torn.len = log[f].len
        /\ torn.fork = log[f].fork /\ torn.torn = TRUE
    BY <1>2 DEF LogType
  <2> HIDE DEF torn
  <2>2. /\ torn.at # "absent" /\ log[f].len <= torn.len /\ torn.len <= MaxLen[f]
        /\ Bytes(f) <= 2 * torn.len + (IF torn.torn THEN 1 ELSE 0)
    BY <1>1, <1>2, <2>1
  <2>3. torn.fork # NoFork => torn.fork <= log[Parent[f]].len BY <1>2, <2>1
  <2>4. log[f].at # "gone" /\ faults' \in 0..MaxFaults BY <1>1, <1>2
  <2> QED BY <1>2, <1>4, <2>1, <2>2, <2>3, <2>4, WriteKeeps
<1> QED BY <1>3, <1>4 DEF Append

LEMMA LoseKeeps ==
    ASSUME ScanInv, NEW f \in Files, Lose(f)
    PROVE  ScanInv'
<1> DEFINE to == [log[f] EXCEPT !.at = "gone"]
<1>1. Readable(f) /\ Write(f, to) BY DEF Lose
<1>2. faults' \in 0..MaxFaults BY ScanAssumption DEF Lose, ScanInv, ScanTypeOK
<1>3. /\ mounted /\ log[f] \in LogType /\ log[f].at = "there" /\ log[f].len \in Nat
      /\ log[f].torn \in BOOLEAN /\ log[f].len <= MaxLen[f]
      /\ log[f].fork # NoFork => log[f].fork <= log[Parent[f]].len
      /\ Bytes(f) = 2 * log[f].len + (IF log[f].torn THEN 1 ELSE 0)
  BY <1>1, ReadableFile
<1>4. /\ to \in LogType /\ to.at = "gone" /\ to.len = log[f].len
      /\ to.fork = log[f].fork /\ to.torn = log[f].torn
  BY <1>3 DEF LogType
<1> HIDE DEF to
<1>5. /\ to.at # "absent" /\ log[f].len <= to.len /\ to.len <= MaxLen[f]
      /\ Bytes(f) <= 2 * to.len + (IF to.torn THEN 1 ELSE 0)
      /\ to.fork # NoFork => to.fork <= log[Parent[f]].len
      /\ log[f].at # "gone"
  BY <1>3, <1>4
<1> QED BY <1>1, <1>2, <1>3, <1>4, <1>5, WriteKeeps

\* The drive goes away under the scans, or comes back.
LEMMA UnmountKeeps ==
    ASSUME ScanInv, Unmount
    PROVE  ScanInv'
<1>1. /\ UNCHANGED <<log, disk, scan, started, good>> /\ mounted' = FALSE
      /\ faults' \in 0..MaxFaults
  BY ScanAssumption DEF Unmount, ScanInv, ScanTypeOK
<1>2. ScanTypeOK' BY <1>1 DEF ScanInv, ScanTypeOK
<1>3. LogHolds' BY <1>1 DEF ScanInv, LogHolds, IsFork
<1>4. DiskHolds'
  BY <1>1 DEF ScanInv, DiskHolds, Exact, Whole, Established, Count, ReportOf, InWindow
<1>5. ASSUME NEW t \in Scans PROVE ScanHolds(scan[t])'
  <2>1. ScanHolds(scan[t]) BY DEF ScanInv
  <2>2. \A f \in Files : Exact(scan[t].cache, f)' /\ Found(scan[t], f)'
    BY <1>1, <2>1 DEF ScanHolds, Exact, Found, Count, InWindow
  <2>3. ReadingHolds(scan[t])' BY <1>1, <2>1 DEF ScanHolds, ReadingHolds, Bytes
  <2>4. UpToDate(scan[t])' BY <1>1, <2>1 DEF ScanHolds, UpToDate
  <2> QED BY <2>2, <2>3, <2>4 DEF ScanHolds
<1> QED BY <1>2, <1>3, <1>4, <1>5 DEF ScanInv

LEMMA MountKeeps ==
    ASSUME ScanInv, Mount
    PROVE  ScanInv'
<1>1. UNCHANGED <<log, disk, scan, started, faults, good>> /\ mounted' = TRUE BY DEF Mount
<1>2. ScanTypeOK' BY <1>1 DEF ScanInv, ScanTypeOK
<1>3. LogHolds' BY <1>1 DEF ScanInv, LogHolds, IsFork
<1>4. DiskHolds'
  BY <1>1 DEF ScanInv, DiskHolds, Exact, Whole, Established, Count, ReportOf, InWindow
<1>5. ASSUME NEW t \in Scans PROVE ScanHolds(scan[t])'
  <2>1. ScanHolds(scan[t]) BY DEF ScanInv
  <2>2. \A f \in Files : Exact(scan[t].cache, f)' /\ Found(scan[t], f)'
    BY <1>1, <2>1 DEF ScanHolds, Exact, Found, Count, InWindow
  <2>3. ReadingHolds(scan[t])' BY <1>1, <2>1 DEF ScanHolds, ReadingHolds, Bytes
  <2>4. UpToDate(scan[t])' BY <1>1, <2>1 DEF ScanHolds, UpToDate
  <2> QED BY <2>2, <2>3, <2>4 DEF ScanHolds
<1> QED BY <1>2, <1>3, <1>4, <1>5 DEF ScanInv

\* The cache file is replaced, and the scans that had loaded the old one save nothing.
Outdated(t) == [scan[t] EXCEPT !.current = FALSE]

LEMMA OutdatedHolds ==
    ASSUME ScanInv, NEW t \in Scans
    PROVE  /\ Outdated(t) \in ScanType /\ Outdated(t).current = FALSE
           /\ \A f \in Files : Exact(Outdated(t).cache, f) /\ Found(Outdated(t), f)
           /\ ReadingHolds(Outdated(t))
<1>1. scan[t] \in ScanType /\ ScanHolds(scan[t]) BY DEF ScanInv, ScanTypeOK
<1> DEFINE to == Outdated(t)
           r == scan[t]
<1>2. to = [r EXCEPT !.current = FALSE] BY DEF Outdated
<1> HIDE DEF to, r
<1>3. /\ to \in ScanType /\ to.current = FALSE
      /\ to.at = r.at /\ to.range = r.range /\ to.cache = r.cache /\ to.todo = r.todo
      /\ to.next = r.next /\ to.file = r.file /\ to.size = r.size /\ to.read = r.read
      /\ to.seen = r.seen
  BY <1>1, <1>2 DEF ScanType, r
<1>4. \A f \in Files : Exact(to.cache, f) /\ Found(to, f)
  BY <1>1, <1>3 DEF ScanHolds, Exact, Found, r
<1>5. ReadingHolds(to) BY <1>1, <1>3 DEF ScanHolds, ReadingHolds, r
<1> QED BY <1>3, <1>4, <1>5 DEF to

LEMMA ReplaceKeeps ==
    ASSUME ScanInv, disk' \in CacheType,
           good' \in [report : ReportType \cup {None}, seen : [Files -> Nat], away : BOOLEAN],
           faults' \in 0..MaxFaults, UNCHANGED <<log, mounted, started>>, DiskHolds',
           scan' \in [Scans -> ScanType],
           \A t \in Scans : scan'[t] \in {IdleScan, Outdated(t)}
    PROVE  ScanInv'
<1>1. ScanTypeOK' BY DEF ScanInv, ScanTypeOK
<1>2. LogHolds' BY DEF ScanInv, LogHolds, IsFork
<1>3. ASSUME NEW t \in Scans PROVE ScanHolds(scan[t])'
  <2> DEFINE r == scan'[t]
  <2>1. /\ r.current = FALSE
        /\ \A f \in Files : Exact(r.cache, f) /\ Found(r, f)
        /\ ReadingHolds(r)
    <3>1. ScanTypeOK BY DEF ScanInv
    <3>2. CASE r = IdleScan BY <3>1, <3>2, IdleHolds, EmptyTyped DEF ScanHolds
    <3>3. CASE r = Outdated(t) BY <3>3, OutdatedHolds
    <3> QED BY <3>2, <3>3
  <2>2. \A f \in Files : Exact(scan[t].cache, f)' /\ Found(scan[t], f)'
    BY <2>1 DEF Exact, Found, Count, InWindow
  <2>3. ReadingHolds(scan[t])' BY <2>1 DEF ReadingHolds, Bytes
  <2>4. UpToDate(scan[t])' BY <2>1 DEF UpToDate
  <2> QED BY <2>2, <2>3, <2>4 DEF ScanHolds
<1>4. DiskHolds' OBVIOUS
<1> QED BY <1>1, <1>2, <1>3, <1>4 DEF ScanInv

LEMMA LoseCacheKeeps ==
    ASSUME ScanInv, LoseCache
    PROVE  ScanInv'
<1>1. /\ disk' = EmptyCache /\ good' = NoReport
      /\ scan' = [t \in Scans |-> Outdated(t)] /\ UNCHANGED <<log, mounted, started>>
  BY DEF LoseCache, Outdated
<1>2. faults' \in 0..MaxFaults BY ScanAssumption DEF LoseCache, ScanInv, ScanTypeOK
<1>3. NoReport \in [report : ReportType \cup {None}, seen : [Files -> Nat], away : BOOLEAN]
      /\ NoReport.report = None
  BY DEF NoReport
<1>4. DiskHolds'
  <2>1. \A f \in Files : disk'.files[f] = None BY <1>1, EmptyTyped
  <2>2. \A f \in Files : Exact(disk, f)' BY <2>1 DEF Exact
  <2>3. Whole' BY <1>1, <2>1, EmptyTyped DEF Whole
  <2>4. (Established(disk) = good.report)' BY <1>1, <1>3, EmptyTyped DEF Established
  <2> QED BY <1>1, <2>2, <2>3, <2>4, EmptyTyped DEF DiskHolds
<1>5. scan' \in [Scans -> ScanType] /\ \A t \in Scans : scan'[t] = Outdated(t)
  BY <1>1, OutdatedHolds
<1> QED BY <1>1, <1>2, <1>3, <1>4, <1>5, EmptyTyped, ReplaceKeeps

(***************************************************************************)
(* The save                                                                *)
(***************************************************************************)

\* What the end of a scan makes of its cache, whether it is saved or not.
Complete(s) == Sure(s) /\ Queue(s) = {}
FilesAfter(s) == [f \in Files |-> IF f \in Dropped(s) THEN None ELSE scan[s].cache.files[f]]

LEMMA DroppedAreGone ==
    ASSUME NEW s \in Scans, scan[s] \in ScanType
    PROVE  \A f \in Dropped(s) : f \in Files /\ ~Readable(f)
BY ScanFields, CacheFields DEF Dropped, Missing, InWindow, Cached

LEMMA ResultShape ==
    ASSUME NEW s \in Scans, scan[s] \in ScanType
    PROVE  /\ Result(s) \in CacheType /\ Result(s).files = FilesAfter(s)
           /\ Complete(s) =>
                 /\ ~Result(s).incomplete /\ Result(s).since = scan[s].range
                 /\ Result(s).report = None /\ Result(s).pause = "none"
           /\ ~Complete(s) =>
                 /\ Result(s).incomplete /\ Result(s).report = scan[s].cache.report
<1> DEFINE c == scan[s].cache
<1>1. /\ c \in CacheType /\ scan[s].range \in Windows /\ scan[s].next \subseteq Files
      /\ scan[s].todo \subseteq Files
  BY ScanFields
<1>2. FilesAfter(s) \in [Files -> EntryType \cup {None}]
  BY <1>1, CacheFields DEF FilesAfter
<1>3. Queue(s) \in SUBSET Files BY <1>1 DEF Queue, Missing, InWindow
<1>4. Pause(s) \in {"none", "NoProgress", "Error"} BY <1>1, CacheFields DEF Pause
<1>5. Result(s) = IF Complete(s)
                  THEN [EmptyCache EXCEPT !.files = FilesAfter(s), !.since = scan[s].range]
                  ELSE [c EXCEPT !.files = FilesAfter(s), !.queue = Queue(s),
                                 !.incomplete = TRUE, !.pause = Pause(s)]
  BY DEF Result, Complete, FilesAfter
<1> HIDE DEF c
<1>6. CASE Complete(s)
  <2> DEFINE to == [EmptyCache EXCEPT !.files = FilesAfter(s), !.since = scan[s].range]
  <2>1. /\ to \in CacheType /\ to.files = FilesAfter(s) /\ to.since = scan[s].range
        /\ to.incomplete = EmptyCache.incomplete /\ to.report = EmptyCache.report
        /\ to.pause = EmptyCache.pause
    BY <1>1, <1>2, EmptyTyped DEF CacheType
  <2>2. Result(s) = to BY <1>5, <1>6
  <2> HIDE DEF to
  <2> QED BY <1>6, <2>1, <2>2, EmptyTyped
<1>7. CASE ~Complete(s)
  <2> DEFINE to == [c EXCEPT !.files = FilesAfter(s), !.queue = Queue(s),
                             !.incomplete = TRUE, !.pause = Pause(s)]
  <2>1. /\ to \in CacheType /\ to.files = FilesAfter(s)
        /\ to.incomplete = TRUE /\ to.report = c.report
    BY <1>1, <1>2, <1>3, <1>4 DEF CacheType
  <2>2. Result(s) = to BY <1>5, <1>7
  <2> HIDE DEF to
  <2> QED BY <1>7, <2>1, <2>2 DEF c
<1> QED BY <1>6, <1>7

\* No scan saves or returns an entry that is not exact.
LEMMA ResultExact ==
    ASSUME ScanInv, NEW s \in Scans, NEW f \in Files
    PROVE  Exact(Result(s), f)
<1>1. scan[s] \in ScanType /\ Exact(scan[s].cache, f)
  BY DEF ScanInv, ScanTypeOK, ScanHolds
<1>2. Result(s).files[f] \in {None, scan[s].cache.files[f]}
  BY <1>1, ResultShape DEF FilesAfter
<1> QED BY <1>1, <1>2 DEF Exact

\* A result that is complete counts what its scan found of each file that is not gone,
\* while the sessions root is there.
LEMMA ResultWhole ==
    ASSUME ScanInv, NEW s \in Scans, scan[s].at # "idle", Complete(s),
           mounted, NEW f \in InWindow(scan[s].range), log[f].at # "gone"
    PROVE  scan[s].seen[f] <= Count(Result(s), f)
<1> DEFINE r == scan[s]
<1>1. f \in Files BY DEF InWindow
<1>2. r \in ScanType /\ ScanTypeOK /\ LogHolds /\ Found(r, f)
  BY <1>1 DEF ScanInv, ScanTypeOK, ScanHolds
<1>3. /\ r.seen[f] \in Nat /\ log[f].len \in Nat /\ log[f].at \in {"absent", "there", "gone"}
      /\ mounted \in BOOLEAN
  BY <1>1, <1>2, ScanFields, LogFields DEF ScanTypeOK
<1>4. CASE Readable(f)
  <2>1. f \notin Dropped(s) BY <1>2, <1>4, DroppedAreGone
  <2>2. Count(Result(s), f) = Count(r.cache, f)
    BY <1>1, <1>2, <2>1, ResultShape DEF FilesAfter, Count
  <2>3. f \notin r.todo \cup r.next BY <1>4 DEF Complete, Queue
  <2> QED BY <1>2, <2>2, <2>3 DEF Found
<1>5. CASE ~Readable(f)
  <2>1. log[f].at = "absent" BY <1>3, <1>5 DEF Readable
  <2>2. r.seen[f] = 0
    <3>1. log[f].len = 0 /\ r.seen[f] <= log[f].len BY <1>1, <1>2, <2>1 DEF LogHolds, Found
    <3> QED BY <1>3, <3>1
  <2>3. Count(Result(s), f) \in Nat
    <3>1. Exact(Result(s), f) BY <1>1, ResultExact
    <3>2. Result(s) \in CacheType BY <1>2, ResultShape
    <3> QED BY <1>1, <1>2, <3>1, <3>2, CountBounds
  <2> HIDE DEF r
  <2>4. r.seen[f] <= Count(Result(s), f) BY <2>2, <2>3
  <2> QED BY <2>4 DEF r
<1> QED BY <1>4, <1>5

LEMMA FinishKeeps ==
    ASSUME ScanInv, NEW s \in Scans, FinishScan(s)
    PROVE  ScanInv'
<1> DEFINE c == Result(s)
<1>1. /\ scan[s] \in ScanType /\ ScanHolds(scan[s]) /\ scan[s].at = "walking" /\ ScanTypeOK
      /\ scan \in [Scans -> ScanType]
  BY DEF ScanInv, ScanTypeOK, FinishScan, Through
<1>2. UNCHANGED <<log, mounted, started, faults>> /\ faults \in 0..MaxFaults
      /\ started \in 0..MaxScans
  BY DEF FinishScan, ScanInv, ScanTypeOK
<1>3. scan[s].current \in BOOLEAN BY <1>1, ScanFields
<1>4. CASE ~scan[s].current
  <2>1. UNCHANGED <<disk, good>> BY <1>4 DEF FinishScan
  <2>2. scan' = [scan EXCEPT ![s] = IdleScan]
    <3>1. ASSUME NEW t \in Scans PROVE [scan[t] EXCEPT !.current = @ /\ TRUE] = scan[t]
      <4>1. scan[t] \in ScanType BY <1>1
      <4>2. scan[t].current \in BOOLEAN BY <4>1, ScanFields
      <4>3. (scan[t].current /\ TRUE) = scan[t].current BY <4>2
      <4> QED BY <4>1, <4>3 DEF ScanType
    <3>2. scan' = [t \in Scans |-> IF t = s THEN IdleScan
                                   ELSE [scan[t] EXCEPT !.current = @ /\ TRUE]]
      BY <1>4 DEF FinishScan
    <3> QED BY <1>1, <3>1, <3>2
  <2>3. IdleScan \in ScanType /\ ScanHolds(IdleScan) BY <1>1, IdleHolds, EmptyTyped
  <2> QED BY <1>2, <2>1, <2>2, <2>3, StepKeeps
<1>5. CASE scan[s].current
  <2>1. /\ disk' = c
        /\ good' = IF ~c.incomplete
                   THEN [report |-> ReportOf(c, c.since), seen |-> scan[s].seen,
                         away |-> ~mounted]
                   ELSE good
    BY <1>5 DEF FinishScan
  <2>2. scan' = [t \in Scans |-> IF t = s THEN IdleScan ELSE Outdated(t)]
    <3>1. ASSUME NEW t \in Scans
          PROVE  [scan[t] EXCEPT !.current = @ /\ FALSE] = Outdated(t)
      BY DEF Outdated
    <3>2. scan' = [t \in Scans |-> IF t = s THEN IdleScan
                                   ELSE [scan[t] EXCEPT !.current = @ /\ FALSE]]
      BY <1>5 DEF FinishScan
    <3> QED BY <3>1, <3>2
  <2>3. scan' \in [Scans -> ScanType]
        /\ \A t \in Scans : scan'[t] \in {IdleScan, Outdated(t)}
    BY <2>2, OutdatedHolds, EmptyTyped
  <2>4. /\ c \in CacheType
        /\ Complete(s) => /\ ~c.incomplete /\ c.since = scan[s].range
                          /\ c.report = None /\ c.pause = "none"
        /\ ~Complete(s) => c.incomplete /\ c.report = scan[s].cache.report
    BY <1>1, ResultShape
  <2>5. \A f \in Files : Exact(c, f) BY ResultExact
  <2>6. ASSUME Complete(s), mounted, NEW f \in InWindow(scan[s].range), log[f].at # "gone"
        PROVE  scan[s].seen[f] <= Count(c, f)
    BY <1>1, <2>6, ResultWhole
  <2>7. scan[s].cache.report = good.report BY <1>1, <1>5 DEF ScanHolds, UpToDate
  <2>8. scan[s].range \in Windows /\ scan[s].seen \in [Files -> Nat] BY <1>1, ScanFields
  <2>9. good \in [report : ReportType \cup {None}, seen : [Files -> Nat], away : BOOLEAN]
    BY <1>1 DEF ScanTypeOK
  <2> HIDE DEF c
  <2>10. \A f \in Files : Exact(disk, f)' BY <1>2, <2>1, <2>5 DEF Exact
  <2>11. CASE Complete(s)
    <3>1. good' = [report |-> ReportOf(c, scan[s].range), seen |-> scan[s].seen,
                   away |-> ~mounted]
      BY <2>1, <2>4, <2>11
    <3>2. good' \in [report : ReportType \cup {None}, seen : [Files -> Nat], away : BOOLEAN]
      BY <2>4, <2>8, <3>1, ReportTyped
    <3>3. scan[s].range # None BY <2>8, ScanAssumption
    <3>4. Whole'
      <4>1. disk'.since # None BY <2>1, <2>4, <2>11, <3>3
      <4>2. SUFFICES ASSUME NEW f \in InWindow(scan[s].range), log[f].at # "gone",
                            ~good'.away
                     PROVE  good'.seen[f] <= Count(c, f)
        BY <1>2, <2>1, <2>4, <2>11, <4>1 DEF Whole, InWindow, Count
      <4>3. mounted BY <3>1, <4>2
      <4> QED BY <2>6, <2>11, <3>1, <4>2, <4>3
    <3>5. (Established(disk) = good.report)'
      <4>1. Established(c) = ReportOf(c, scan[s].range)
        BY <2>4, <2>11, <3>3 DEF Established
      <4>2. Established(disk)' = Established(c)
        BY <2>1 DEF Established, ReportOf, Count, InWindow
      <4> QED BY <3>1, <4>1, <4>2
    <3>6. DiskHolds' BY <2>1, <2>4, <2>10, <2>11, <3>4, <3>5 DEF DiskHolds
    <3> QED BY <1>2, <2>1, <2>3, <2>4, <3>2, <3>6, ReplaceKeeps
  <2>12. CASE ~Complete(s)
    <3>1. good' = good /\ c.incomplete BY <2>1, <2>4, <2>12
    <3>2. (Established(disk) = good.report)'
      BY <2>1, <2>4, <2>7, <2>12, <3>1 DEF Established
    <3>3. DiskHolds' BY <2>1, <2>10, <3>1, <3>2 DEF DiskHolds
    <3> QED BY <1>2, <2>1, <2>3, <2>4, <2>9, <3>1, <3>3, ReplaceKeeps
  <2> QED BY <2>11, <2>12
<1> QED BY <1>3, <1>4, <1>5

(***************************************************************************)
(* The invariant holds                                                     *)
(***************************************************************************)

Counted == [size |-> 2, parsed |-> 2, target |-> 2, count |-> 1, forked |-> FALSE,
            unresolved |-> FALSE]

LEMMA ScanInvInit == ScanInit => ScanInv
<1> SUFFICES ASSUME ScanInit PROVE ScanInv OBVIOUS
<1>1. PICK there \in SUBSET Files :
         /\ log = [f \in Files |->
                     IF f \in there THEN [Unwritten EXCEPT !.at = "there", !.len = 1]
                     ELSE Unwritten]
         /\ \/ disk = EmptyCache /\ good = NoReport
            \/ \E w \in Windows :
                  /\ disk = [EmptyCache EXCEPT !.since = w, !.files =
                               [f \in Files |-> IF f \in there \cap InWindow(w)
                                                THEN Counted ELSE None]]
                  /\ good = [report |-> ReportOf(disk, w),
                             seen |-> [f \in Files |-> IF f \in there THEN 1 ELSE 0],
                             away |-> FALSE]
  BY DEF ScanInit, Counted
<1>2. /\ mounted \in BOOLEAN /\ scan = [s \in Scans |-> IdleScan]
      /\ started = 0 /\ faults = 0
  BY DEF ScanInit
<1> DEFINE first == [Unwritten EXCEPT !.at = "there", !.len = 1]
<1>0. log = [f \in Files |-> IF f \in there THEN first ELSE Unwritten] BY <1>1
<1>3. ASSUME NEW f \in Files
      PROVE  /\ log[f] \in LogType /\ log[f].fork = NoFork /\ log[f].len \in Nat
             /\ log[f].len = IF f \in there THEN 1 ELSE 0
             /\ log[f].at = IF f \in there THEN "there" ELSE "absent"
  <2>1. /\ Unwritten \in LogType /\ Unwritten.len = 0 /\ Unwritten.at = "absent"
        /\ Unwritten.fork = NoFork
    BY DEF Unwritten, LogType
  <2>2. first \in LogType /\ first.len = 1 /\ first.at = "there" /\ first.fork = NoFork
    BY DEF Unwritten, LogType
  <2> HIDE DEF first
  <2>3. CASE f \in there BY <1>0, <2>2, <2>3
  <2>4. CASE f \notin there BY <1>0, <2>1, <2>4
  <2> QED BY <2>3, <2>4
<1>4. \A f \in Files : MaxLen[f] \in Nat \ {0} BY ScanAssumption
<1>5. log \in [Files -> LogType] /\ \A f \in Files : log[f].len <= MaxLen[f]
  <2>1. log \in [Files -> LogType] BY <1>0, <1>3
  <2> QED BY <1>3, <1>4, <2>1
<1>6. LogHolds BY <1>3 DEF LogHolds, IsFork
<1>7. /\ disk \in CacheType /\ good \in [report : ReportType \cup {None}, seen : [Files -> Nat], away : BOOLEAN]
      /\ DiskHolds
  <2>1. CASE disk = EmptyCache /\ good = NoReport
    <3>1. good.report = None
          /\ good \in [report : ReportType \cup {None}, seen : [Files -> Nat], away : BOOLEAN]
      BY <2>1 DEF NoReport
    <3> QED BY <2>1, <3>1, EmptyTyped DEF DiskHolds, Exact, Whole, Established
  <2>2. ASSUME NEW w \in Windows,
               disk = [EmptyCache EXCEPT !.since = w, !.files =
                         [f \in Files |-> IF f \in there \cap InWindow(w)
                                          THEN Counted ELSE None]],
               good = [report |-> ReportOf(disk, w),
                       seen |-> [f \in Files |-> IF f \in there THEN 1 ELSE 0],
                       away |-> FALSE]
        PROVE  /\ disk \in CacheType
               /\ good \in [report : ReportType \cup {None}, seen : [Files -> Nat], away : BOOLEAN]
               /\ DiskHolds
    <3> DEFINE files == [f \in Files |-> IF f \in there \cap InWindow(w)
                                         THEN Counted ELSE None]
    <3>1. /\ Counted \in EntryType /\ Counted.count = 1 /\ Counted.parsed = 2
          /\ Counted # None
      <4>1. Counted \in EntryType /\ Counted.count = 1 /\ Counted.parsed = 2
        BY DEF Counted, EntryType
      <4> QED BY <4>1, EntryFields
    <3>2. files \in [Files -> EntryType \cup {None}] BY <3>1
    <3>3. /\ disk \in CacheType /\ disk.since = w /\ disk.files = files
          /\ disk.incomplete = FALSE /\ disk.report = None /\ disk.pause = "none"
      <4>1. disk = [EmptyCache EXCEPT !.since = w, !.files = files] BY <2>2
      <4> HIDE DEF files
      <4> QED BY <3>2, <4>1, EmptyTyped DEF CacheType
    <3>4. \A f \in Files : files[f] = IF f \in there /\ f \in InWindow(w)
                                      THEN Counted ELSE None
      OBVIOUS
    <3>5. /\ good.report = ReportOf(disk, w)
          /\ \A f \in Files : good.seen[f] = IF f \in there THEN 1 ELSE 0
          /\ good \in [report : ReportType \cup {None}, seen : [Files -> Nat], away : BOOLEAN]
      <4>1. ReportOf(disk, w) \in ReportType BY <3>3, ReportTyped
      <4> QED BY <2>2, <4>1
    <3> HIDE DEF files
    <3>6. \A f \in Files : Exact(disk, f) BY <1>3, <3>1, <3>3, <3>4 DEF Exact
    <3>7. w # None BY ScanAssumption
    <3>8. Whole
      <4>1. SUFFICES ASSUME NEW f \in InWindow(w) PROVE good.seen[f] <= Count(disk, f)
        BY <3>3, <3>7 DEF Whole
      <4>2. f \in Files BY DEF InWindow
      <4>3. Count(disk, f) = IF f \in there THEN 1 ELSE 0
        BY <3>1, <3>3, <3>4, <4>2 DEF Count
      <4> QED BY <3>5, <4>2, <4>3
    <3>9. Established(disk) = good.report BY <3>3, <3>5, <3>7 DEF Established
    <3> QED BY <3>3, <3>5, <3>6, <3>8, <3>9 DEF DiskHolds
  <2> QED BY <1>1, <2>1, <2>2
<1>8. ScanTypeOK BY <1>2, <1>5, <1>7, EmptyTyped, ScanAssumption DEF ScanTypeOK
<1>9. \A s \in Scans : ScanHolds(scan[s]) BY <1>2, <1>8, IdleHolds
<1> QED BY <1>6, <1>7, <1>8, <1>9 DEF ScanInv

LEMMA ScanCases ==
    ASSUME ScanNext
    PROVE  \/ \E f \in Files : Create(f) \/ Append(f) \/ Lose(f)
           \/ Unmount \/ Mount \/ LoseCache
           \/ \E s \in Scans :
                 \/ \E w \in Windows, app \in BOOLEAN : StartWalk(s, w, app)
                 \/ \E f \in Files : Inspect(s, f)
                 \/ ReadFile(s) \/ FinishScan(s) \/ Cancel(s)
BY DEF ScanNext, ScanStep

LEMMA ScanInvNext == ScanInv /\ [ScanNext]_scanVars => ScanInv'
<1> SUFFICES ASSUME ScanInv, [ScanNext]_scanVars PROVE ScanInv' OBVIOUS
<1>1. CASE ScanNext
  BY <1>1, ScanCases, CreateKeeps, AppendKeeps, LoseKeeps, UnmountKeeps, MountKeeps,
     LoseCacheKeeps, StartWalkKeeps, InspectKeeps, ReadFileKeeps, FinishKeeps, CancelKeeps
<1>2. CASE UNCHANGED scanVars
  <2>1. UNCHANGED <<log, mounted, disk, scan, started, faults, good>> BY <1>2 DEF scanVars
  <2>2. ScanTypeOK' BY <2>1 DEF ScanInv, ScanTypeOK
  <2>3. LogHolds' BY <2>1 DEF ScanInv, LogHolds, IsFork
  <2>4. DiskHolds'
    BY <2>1 DEF ScanInv, DiskHolds, Exact, Whole, Established, Count, ReportOf, InWindow
  <2>5. ASSUME NEW t \in Scans PROVE ScanHolds(scan[t])'
    <3>1. ScanHolds(scan[t]) BY DEF ScanInv
    <3>2. \A f \in Files : Exact(scan[t].cache, f)' /\ Found(scan[t], f)'
      BY <2>1, <3>1 DEF ScanHolds, Exact, Found, Count, InWindow
    <3>3. ReadingHolds(scan[t])' BY <2>1, <3>1 DEF ScanHolds, ReadingHolds, Bytes
    <3>4. UpToDate(scan[t])' BY <2>1, <3>1 DEF ScanHolds, UpToDate
    <3> QED BY <3>2, <3>3, <3>4 DEF ScanHolds
  <2> QED BY <2>2, <2>3, <2>4, <2>5 DEF ScanInv
<1> QED BY <1>1, <1>2

\* The inductive invariant of the shared scan cache: what is on disk and what each scan
\* under way holds of it.
THEOREM ScanInvariant == ScanSpec => []ScanInv
<1>1. ScanInit => ScanInv BY ScanInvInit
<1>2. ScanInv /\ [ScanNext]_scanVars => ScanInv' BY ScanInvNext
<1> QED BY <1>1, <1>2, PTL DEF ScanSpec

\* The variables keep their types, and no log outgrows its bound.
THEOREM ScanTypesCorrect == ScanSpec => []ScanTypeOK
<1>1. ScanInv => ScanTypeOK BY DEF ScanInv
<1> QED BY <1>1, ScanInvariant, PTL

\* However a session grows, is torn, forked or lost between two refreshes, what is
\* counted of it is what its records up to the cursor say (parse_codex_file_bounded).
THEOREM RecordsAreCountedOnce == ScanSpec => []EntriesExact
<1>1. ScanInv => EntriesExact
  BY DEF ScanInv, EntriesExact, ExactEntries, Cached, DiskHolds, ScanHolds, Exact
<1> QED BY <1>1, ScanInvariant, PTL

LEMMA HonestDisk ==
    ASSUME ScanInv, NEW w \in Windows, ShownFromCache(w)
    PROVE  Honest(disk, w, Owed)
<1>1. SUFFICES ASSUME NEW f \in InWindow(w), Readable(f)
               PROVE  Count(disk, f) \in Owed[f]..log[f].len
  BY DEF Honest
<1>2. f \in Files BY DEF InWindow
<1>3. ScanTypeOK /\ DiskHolds /\ disk \in CacheType /\ good.seen[f] \in Nat
  BY <1>2 DEF ScanInv, ScanTypeOK
<1>4. Whole /\ ~disk.incomplete /\ Covers(disk, w) /\ Cached(disk) # {}
  BY <1>3 DEF ShownFromCache, DiskHolds
<1>5. disk.since # None BY <1>4 DEF Whole, Cached
<1>6. f \in InWindow(disk.since)
  <2>1. disk.since = "month" \/ w = "week" BY <1>4, <1>5 DEF Covers
  <2>2. disk.since \in Windows BY <1>3, <1>5, CacheFields
  <2> QED BY <1>1, <2>1, <2>2 DEF InWindow, Windows
<1>7. log[f].at # "gone" BY <1>1 DEF Readable
<1>8. good.away \/ good.seen[f] <= Count(disk, f) BY <1>4, <1>5, <1>6, <1>7 DEF Whole
<1>9. Count(disk, f) \in Nat /\ Count(disk, f) <= log[f].len /\ log[f].len \in Nat
  BY <1>2, <1>3, CountBounds, LogFields DEF DiskHolds
<1>10. Owed[f] = 0 \/ (~good.away /\ Owed[f] = good.seen[f]) BY <1>2 DEF Owed, NoReport
<1> QED BY <1>3, <1>8, <1>9, <1>10

LEMMA HonestResult ==
    ASSUME ScanInv, NEW s \in Scans, Through(s)
    PROVE  Honest(Result(s), scan[s].range, scan[s].seen)
<1>1. SUFFICES ASSUME ~Result(s).incomplete, NEW f \in InWindow(scan[s].range), Readable(f)
               PROVE  Count(Result(s), f) \in scan[s].seen[f]..log[f].len
  BY DEF Honest
<1>2. f \in Files BY DEF InWindow
<1>3. scan[s] \in ScanType /\ ScanTypeOK /\ scan[s].at # "idle"
  BY DEF ScanInv, ScanTypeOK, Through
<1>4. Complete(s) /\ Result(s) \in CacheType BY <1>1, <1>3, ResultShape
<1>5. mounted /\ log[f].at # "gone" BY <1>1 DEF Readable
<1>6. scan[s].seen[f] <= Count(Result(s), f) BY <1>3, <1>4, <1>5, ResultWhole
<1>7. Count(Result(s), f) \in Nat /\ Count(Result(s), f) <= log[f].len /\ log[f].len \in Nat
  <2>1. Exact(Result(s), f) BY <1>2, ResultExact
  <2> QED BY <1>2, <1>3, <1>4, <2>1, CountBounds, LogFields
<1>8. scan[s].seen[f] \in Nat BY <1>2, <1>3, ScanFields
<1> QED BY <1>6, <1>7, <1>8

\* A window that is called complete was read whole: by a summary shown from the cache,
\* unless the sessions root was away when it was saved, and by one that a scan returns,
\* saved or not (cache_covers_range, save_cache).
THEOREM CompleteWindowsAreWhole == ScanSpec => []CoverageIsReal
<1>1. ScanInv => CoverageIsReal BY HonestDisk, HonestResult DEF CoverageIsReal
<1> QED BY <1>1, ScanInvariant, PTL

\* No catch-up, cancelled, failed or overtaken, replaces the last complete report
\* (completed_report_range, previous_report).
THEOREM LastReportIsKept == ScanSpec => []KeepsLastReport
<1>1. ScanInv => KeepsLastReport
  BY DEF ScanInv, DiskHolds, Established, KeepsLastReport
<1> QED BY <1>1, ScanInvariant, PTL

\* What an ordinary scan loaded before the pause, it does not save after it.
LEMMA PauseStep ==
    ASSUME ScanInv, [ScanNext]_scanVars, disk.pause # "none", disk' # disk,
           disk' # EmptyCache
    PROVE  \E s \in Scans : Through(s) /\ scan[s].app /\ scan'[s] = IdleScan
<1>1. PICK s \in Scans : FinishScan(s)
  <2>1. ScanNext BY DEF scanVars
  <2>2. \A f \in Files : Create(f) \/ Append(f) \/ Lose(f) => disk' = disk
    BY DEF Create, Append, Lose, Write
  <2>3. Unmount \/ Mount => disk' = disk BY DEF Unmount, Mount
  <2>4. LoseCache => disk' = EmptyCache BY DEF LoseCache
  <2>5. \A s \in Scans, w \in Windows, app \in BOOLEAN :
           StartWalk(s, w, app) => disk' = disk
    BY DEF StartWalk
  <2>6. \A s \in Scans, f \in Files : Inspect(s, f) => disk' = disk
    BY DEF Inspect, KeepDisk
  <2>7. \A s \in Scans : ReadFile(s) \/ Cancel(s) => disk' = disk
    BY DEF ReadFile, Cancel, KeepDisk
  <2>8. disk' # disk /\ disk' # EmptyCache OBVIOUS
  <2> QED BY <2>1, <2>2, <2>3, <2>4, <2>5, <2>6, <2>7, <2>8, ScanCases
<1>2. Through(s) /\ scan[s].current BY <1>1 DEF FinishScan
<1>3. scan[s].app
  <2>1. scan[s] \in ScanType /\ UpToDate(scan[s]) BY DEF ScanInv, ScanTypeOK, ScanHolds
  <2> QED BY <1>2, <2>1, ScanFields DEF UpToDate
<1>4. scan'[s] = IdleScan BY <1>1 DEF FinishScan
<1> QED BY <1>2, <1>3, <1>4

\* Only a scan the user asked for takes up a catch-up that has paused
\* (codex_scan_pause_reason).
THEOREM PausedCatchUpWaits == ScanSpec => PauseHolds
<1>1. ScanInv /\ [ScanNext]_scanVars =>
         [disk.pause # "none" /\ disk' # disk /\ disk' # EmptyCache =>
             \E s \in Scans : Through(s) /\ scan[s].app /\ scan'[s] = IdleScan]_scanVars
  BY PauseStep
<1> QED BY <1>1, ScanInvariant, PTL DEF ScanSpec, PauseHolds
=============================================================================
