------------------------ MODULE RefreshSurface_proofs ------------------------
(* Theorems about RefreshSurface, for any providers, batches and commands.     *)
EXTENDS RefreshSurface, TLAPS

(***************************************************************************)
(* Types                                                                   *)
(***************************************************************************)

Values == [Provider -> Version]
BatchState ==
    [at : {"idle", "reserve", "announce", "fetch", "complete"},
     force : BOOLEAN, expected : Nat, token : Nat, ids : SUBSET Provider,
     todo : SUBSET Provider, owed : Values]
CommandState ==
    [at : {"idle", "settings", "placeholder", "account"},
     provider : SUBSET Provider, version : Version, owed : SUBSET {"settings", "refresh"}]
HookState ==
    [listening : BOOLEAN, view : Values, pending : Values, timer : BOOLEAN,
     reloading : BOOLEAN, epoch : Nat, initial : Nat, refreshing : BOOLEAN,
     ids : SUBSET Provider]
Reply == [epoch : Nat, values : Values]

\* TypeOK is not inductive: a placeholder that is announced has a version.
TypeInv ==
    /\ TypeOK
    /\ \A c \in Command : command[c].at = "placeholder" => command[c].version # 0

ShellTyped == /\ cache \in Values /\ generation \in Nat /\ refreshing \in BOOLEAN
              /\ enabled \in SUBSET Provider
BatchTyped == batch \in [Batch -> BatchState]
CommandTyped == /\ command \in [Command -> CommandState]
                /\ \A c \in Command : command[c].at = "placeholder" => command[c].version # 0
LinkTyped == events \in Seq(Event) /\ asked \in SUBSET Nat /\ answers \in SUBSET Reply
HookTyped == hook \in HookState
CountersTyped == written \in Version /\ started \in 0..MaxBatch /\ changes \in 0..MaxChange
HistoryTyped == stale \in SUBSET Provider /\ unended \in BOOLEAN

Parts == /\ ShellTyped /\ BatchTyped /\ CommandTyped /\ LinkTyped /\ HookTyped
         /\ CountersTyped /\ HistoryTyped

LEMMA PartsOfType == TypeInv <=> Parts
BY DEF TypeInv, TypeOK, Parts, ShellTyped, BatchTyped, CommandTyped, LinkTyped, HookTyped,
       CountersTyped, HistoryTyped, BatchState, CommandState, HookState, Reply, Values

LEMMA Versions == 0 \in Version /\ Nothing \in Values /\ 1 \in Version /\ 1 \in 1..MaxVersion
BY SurfaceAssumption DEF Version, Nothing, Values

LEMMA Unchanged ==
    ASSUME Parts
    PROVE  /\ UNCHANGED shell => ShellTyped'
           /\ UNCHANGED batch => BatchTyped'
           /\ UNCHANGED command => CommandTyped'
           /\ UNCHANGED link => LinkTyped'
           /\ UNCHANGED hook => HookTyped'
           /\ UNCHANGED counters => CountersTyped'
           /\ UNCHANGED history => HistoryTyped'
BY DEF Parts, ShellTyped, BatchTyped, CommandTyped, LinkTyped, HookTyped, CountersTyped,
       HistoryTyped, shell, link, counters, history

LEMMA EmitTyped ==
    ASSUME Parts, NEW event \in Event, Emit(event), UNCHANGED <<asked, answers>>
    PROVE  LinkTyped'
BY DEF Parts, LinkTyped, Emit

LEMMA UpdatedTyped ==
    ASSUME Parts, NEW p \in Provider, NEW version \in 1..MaxVersion,
           EmitUpdated(p, version), UNCHANGED <<asked, answers>>
    PROVE  LinkTyped' /\ stale' \in SUBSET Provider
<1>1. [kind |-> "updated", provider |-> p, version |-> version] \in Event BY DEF Event
<1>2. LinkTyped' BY <1>1, EmitTyped DEF EmitUpdated
<1> QED BY <1>2 DEF EmitUpdated, Parts, HistoryTyped

LEMMA WriteTyped ==
    ASSUME Parts, NEW p \in Provider, Write(p)
    PROVE  /\ written + 1 \in 1..MaxVersion /\ written + 1 \in Version
           /\ written' = written + 1 /\ cache' \in Values
<1>1. written \in 0..MaxVersion /\ written < MaxVersion
  BY DEF Parts, CountersTyped, Version, Write
<1>2. written + 1 \in 1..MaxVersion /\ written + 1 \in 0..MaxVersion
  BY <1>1, SurfaceAssumption
<1> QED BY <1>2 DEF Write, Parts, ShellTyped, Values, Version

LEMMA StartTyped ==
    ASSUME Parts, NEW b \in Batch, NEW force \in BOOLEAN, NEW ids \in SUBSET Provider,
           Start(b, force, ids)
    PROVE  BatchTyped' /\ started' \in 0..MaxBatch
<1>1. ASSUME NEW i, i = IdleBatch
      PROVE  [i EXCEPT !.at = "reserve", !.force = force, !.expected = generation,
                       !.ids = ids, !.todo = ids] \in BatchState
  <2>1. i \in BatchState BY <1>1, Versions DEF IdleBatch, BatchState
  <2> QED BY <2>1 DEF BatchState, Parts, ShellTyped
<1>2. batch' \in [Batch -> BatchState] BY <1>1 DEF Start, Parts, BatchTyped
<1>3. started' \in 0..MaxBatch BY SurfaceAssumption DEF Start, Parts, CountersTyped
<1> QED BY <1>2, <1>3 DEF BatchTyped

LEMMA TypeInit == Init => Parts
<1> SUFFICES ASSUME Init PROVE Parts OBVIOUS
<1> USE Versions, SurfaceAssumption
<1>1. ShellTyped BY DEF Init, ShellTyped, Values
<1>2. BatchTyped BY DEF Init, BatchTyped, BatchState, IdleBatch
<1>3. CommandTyped BY DEF Init, CommandTyped, CommandState, IdleCommand
<1>4. LinkTyped BY DEF Init, LinkTyped
<1>5. HookTyped BY DEF Init, HookTyped, HookState, Fresh
<1>6. CountersTyped BY DEF Init, CountersTyped
<1>7. HistoryTyped BY DEF Init, HistoryTyped
<1> QED BY <1>1, <1>2, <1>3, <1>4, <1>5, <1>6, <1>7 DEF Parts

LEMMA TypeBatch == ASSUME Parts, NEW b \in Batch, BatchStep(b) PROVE Parts'
<1> USE Unchanged
<1>0. /\ batch \in [Batch -> BatchState] /\ batch[b] \in BatchState /\ IdleBatch \in BatchState
      /\ cache \in Values /\ generation \in Nat /\ refreshing \in BOOLEAN
      /\ unended \in BOOLEAN /\ stale \in SUBSET Provider
  BY Versions DEF Parts, ShellTyped, BatchTyped, BatchState, IdleBatch, HistoryTyped
<1>1. ASSUME NEW new \in BatchState, batch' = [batch EXCEPT ![b] = new] PROVE BatchTyped'
  BY <1>0, <1>1 DEF BatchTyped
<1>2. CASE StartElsewhere(b)
  <2>1. PICK ids \in SUBSET enabled : Start(b, FALSE, ids) BY <1>2 DEF StartElsewhere
  <2>2. ids \in SUBSET Provider BY DEF Parts, ShellTyped
  <2>3. BatchTyped' /\ started' \in 0..MaxBatch BY <2>1, <2>2, StartTyped
  <2>4. CountersTyped' BY <1>2, <2>3 DEF StartElsewhere, Parts, CountersTyped
  <2> QED BY <1>2, <2>3, <2>4 DEF StartElsewhere, Parts
<1>3. CASE Reserve(b)
  <2> DEFINE new == [batch[b] EXCEPT !.at = "announce", !.token = generation + 1, !.expected = 0]
  <2>1. new \in BatchState
    <3>1. ASSUME NEW i \in BatchState, NEW n \in Nat
          PROVE  [i EXCEPT !.at = "announce", !.token = n, !.expected = 0] \in BatchState
      BY DEF BatchState
    <3>2. generation + 1 \in Nat BY <1>0
    <3> QED BY <1>0, <3>1, <3>2
  <2>2. batch' = [batch EXCEPT ![b] = new] BY <1>0, <1>3 DEF Reserve
  <2>3. BatchTyped' BY <1>1, <2>1, <2>2
  <2>4. ShellTyped' BY <1>0, <1>3 DEF Reserve, Parts, ShellTyped
  <2> QED BY <1>3, <2>3, <2>4 DEF Reserve, Parts
<1>4. CASE Reject(b) BY <1>0, <1>1, <1>4 DEF Reject, Parts
<1>5. CASE Announce(b)
  <2> DEFINE new == [batch[b] EXCEPT !.at = "fetch", !.force = FALSE, !.ids = {}]
  <2>1. new \in BatchState BY <1>0 DEF BatchState
  <2>2. batch' = [batch EXCEPT ![b] = new] BY <1>0, <1>5 DEF Announce
  <2>3. BatchTyped' BY <1>1, <2>1, <2>2
  <2>4. cache' \in Values BY <1>0, <1>5, Versions DEF Announce, Prune, Values
  <2>5. [kind |-> "started", ids |-> batch[b].ids] \in Event BY <1>0 DEF BatchState, Event
  <2>6. LinkTyped' BY <1>5, <2>5, EmitTyped DEF Announce
  <2>7. HistoryTyped' BY <1>0, <1>5 DEF Announce, HistoryTyped
  <2>8. ShellTyped' BY <1>5, <2>4 DEF Announce, Parts, ShellTyped
  <2> QED BY <1>5, <2>3, <2>6, <2>7, <2>8 DEF Announce, Parts
<1>6. ASSUME NEW p \in Provider, Publish(b, p) PROVE Parts'
  <2> DEFINE new == [batch[b] EXCEPT !.todo = @ \ {p}, !.owed[p] = written + 1]
  <2>1. /\ written + 1 \in Version /\ written' \in Version /\ cache' \in Values
    BY <1>6, WriteTyped DEF Publish
  <2>2. new \in BatchState BY <1>0, <2>1 DEF BatchState, Values
  <2>3. batch' = [batch EXCEPT ![b] = new] BY <1>0, <1>6 DEF Publish
  <2>4. BatchTyped' BY <1>1, <2>2, <2>3
  <2>5. ShellTyped' /\ CountersTyped'
    BY <1>6, <2>1 DEF Publish, Parts, ShellTyped, CountersTyped
  <2> QED BY <1>6, <2>4, <2>5 DEF Publish, Parts
<1>7. ASSUME NEW p \in Provider, Tell(b, p) PROVE Parts'
  <2> DEFINE new == [batch[b] EXCEPT !.owed[p] = 0]
  <2>1. new \in BatchState BY <1>0, Versions DEF BatchState, Values
  <2>2. batch' = [batch EXCEPT ![b] = new] BY <1>0, <1>7 DEF Tell
  <2>3. BatchTyped' BY <1>1, <2>1, <2>2
  <2>4. batch[b].owed[p] \in 1..MaxVersion
    BY <1>0, <1>7, SurfaceAssumption DEF Tell, BatchState, Values, Version
  <2>5. LinkTyped' /\ stale' \in SUBSET Provider BY <1>7, <2>4, UpdatedTyped DEF Tell
  <2>6. HistoryTyped' BY <1>0, <1>7, <2>5 DEF Tell, HistoryTyped
  <2> QED BY <1>7, <2>3, <2>5, <2>6 DEF Tell, Parts
<1>8. CASE Finish(b)
  <2> DEFINE new == IF IsCurrent(b) THEN [batch[b] EXCEPT !.at = "complete"] ELSE IdleBatch
  <2>1. new \in BatchState BY <1>0 DEF BatchState
  <2>2. batch' = [batch EXCEPT ![b] = new] BY <1>0, <1>8 DEF Finish
  <2>3. BatchTyped' BY <1>1, <2>1, <2>2
  <2>4. refreshing' \in BOOLEAN BY <1>8 DEF Finish
  <2>5. ShellTyped' BY <1>8, <2>4 DEF Finish, Parts, ShellTyped
  <2> QED BY <1>8, <2>3, <2>5 DEF Finish, Parts
<1>9. CASE Complete(b)
  <2>1. BatchTyped' BY <1>0, <1>1, <1>9 DEF Complete
  <2>2. [kind |-> "complete"] \in Event BY DEF Event
  <2>3. LinkTyped' BY <1>9, <2>2, EmitTyped DEF Complete
  <2>4. unended' \in BOOLEAN BY <1>9 DEF Complete
  <2>5. HistoryTyped' BY <1>0, <1>9, <2>4 DEF Complete, HistoryTyped
  <2> QED BY <1>9, <2>1, <2>3, <2>5 DEF Complete, Parts
<1> QED BY <1>2, <1>3, <1>4, <1>5, <1>6, <1>7, <1>8, <1>9 DEF BatchStep

LEMMA TypeCommand == ASSUME Parts, NEW c \in Command, CommandStep(c) PROVE Parts'
<1> USE Unchanged
<1>0. /\ command \in [Command -> CommandState] /\ command[c] \in CommandState
      /\ IdleCommand \in CommandState /\ IdleCommand.at = "idle"
      /\ \A d \in Command : command[d].at = "placeholder" => command[d].version # 0
      /\ cache \in Values /\ generation \in Nat /\ enabled \in SUBSET Provider
      /\ unended \in BOOLEAN /\ stale \in SUBSET Provider /\ changes \in 0..MaxChange
  BY Versions DEF Parts, ShellTyped, CommandTyped, CommandState, IdleCommand, HistoryTyped,
                  CountersTyped
<1>1. ASSUME NEW new \in CommandState, command' = [command EXCEPT ![c] = new],
             new.at = "placeholder" => new.version # 0
      PROVE  CommandTyped'
  BY <1>0, <1>1 DEF CommandTyped
<1>2. ASSUME BeginCommand(c) PROVE changes' \in 0..MaxChange /\ command[c] = IdleCommand
  BY <1>0, <1>2, SurfaceAssumption DEF BeginCommand
<1>3. ASSUME NEW owed \in SUBSET {"settings", "refresh"},
             command' = [command EXCEPT ![c].at = "settings", ![c].owed = owed]
      PROVE  CommandTyped'
  <2> DEFINE new == [command[c] EXCEPT !.at = "settings", !.owed = owed]
  <2>1. new \in CommandState /\ new.at = "settings" BY <1>0 DEF CommandState
  <2>2. command' = [command EXCEPT ![c] = new] BY <1>0, <1>3
  <2> QED BY <1>1, <2>1, <2>2
<1>4. ASSUME NEW kind \in {"settings", "refresh"}, Paid(c, kind),
             command[c].at # "placeholder"
      PROVE  CommandTyped'
  <2> DEFINE left == command[c].owed \ {kind}
             new == IF left = {} THEN IdleCommand ELSE [command[c] EXCEPT !.owed = left]
  <2>1. new \in CommandState /\ new.at # "placeholder" BY <1>0, <1>4 DEF CommandState
  <2>2. command' = [command EXCEPT ![c] = new] BY <1>4, Zenon DEF Paid
  <2> QED BY <1>1, <2>1, <2>2
<1>5. CASE UpdateSettings(c)
  <2>1. CommandTyped' BY <1>3, <1>5 DEF UpdateSettings
  <2>2. enabled' \in SUBSET Provider /\ refreshing' \in BOOLEAN BY <1>5 DEF UpdateSettings
  <2>4. generation' \in Nat BY <1>0, <1>5 DEF UpdateSettings
  <2>5. cache' \in Values BY <1>0, <1>5, Versions DEF UpdateSettings, Values
  <2>6. ShellTyped' BY <2>2, <2>4, <2>5 DEF ShellTyped
  <2>3. CountersTyped' BY <1>2, <1>5 DEF UpdateSettings, Parts, CountersTyped
  <2> QED BY <1>5, <2>1, <2>3, <2>6 DEF UpdateSettings, Parts
<1>6. CASE ChangePresentation(c)
  <2>1. CommandTyped' BY <1>3, <1>6 DEF ChangePresentation
  <2>2. CountersTyped' BY <1>2, <1>6 DEF ChangePresentation, Parts, CountersTyped
  <2> QED BY <1>6, <2>1, <2>2 DEF ChangePresentation, Parts
<1>7. ASSUME NEW p \in Provider, ChangeAccount(c, p) PROVE Parts'
  <2>1. /\ written + 1 \in 1..MaxVersion /\ written + 1 \in Version
        /\ written' \in Version /\ cache' \in Values
    BY <1>7, WriteTyped DEF ChangeAccount
  <2>2. PICK owed \in {{"refresh"}, {"refresh", "settings"}} :
          command' = [command EXCEPT ![c] =
              [at |-> "placeholder", provider |-> {p}, version |-> written + 1, owed |-> owed]]
    BY <1>7 DEF ChangeAccount
  <2>3. written + 1 # 0 BY <2>1
  <2>4. [at |-> "placeholder", provider |-> {p}, version |-> written + 1, owed |-> owed]
            \in CommandState
    BY <2>1 DEF CommandState
  <2>5. CommandTyped' BY <1>1, <2>2, <2>3, <2>4
  <2>8. generation' \in Nat BY <1>0, <1>7 DEF ChangeAccount
  <2>6. ShellTyped' BY <1>0, <1>7, <2>1, <2>8 DEF ChangeAccount, ShellTyped
  <2>7. CountersTyped' BY <1>2, <1>7, <2>1 DEF ChangeAccount, Parts, CountersTyped
  <2> QED BY <1>7, <2>5, <2>6, <2>7 DEF ChangeAccount, Parts
<1>8. CASE TellPlaceholder(c)
  <2> DEFINE new == [command[c] EXCEPT !.at = "account", !.provider = {}, !.version = 0]
  <2>1. new \in CommandState /\ new.at = "account" BY <1>0, Versions DEF CommandState
  <2>2. command' = [command EXCEPT ![c] = new] BY <1>0, <1>8 DEF TellPlaceholder
  <2>3. CommandTyped' BY <1>1, <2>1, <2>2
  <2>4. command[c].version \in 1..MaxVersion
    BY <1>0, <1>8, SurfaceAssumption DEF TellPlaceholder, CommandState, Version
  <2>5. PICK p \in command[c].provider : EmitUpdated(p, command[c].version)
    BY <1>8 DEF TellPlaceholder
  <2>6. p \in Provider BY <1>0 DEF CommandState
  <2>7. LinkTyped' /\ stale' \in SUBSET Provider
    BY <1>8, <2>4, <2>5, <2>6, UpdatedTyped DEF TellPlaceholder
  <2>8. HistoryTyped' BY <1>0, <1>8, <2>7 DEF TellPlaceholder, HistoryTyped
  <2> QED BY <1>8, <2>3, <2>7, <2>8 DEF TellPlaceholder, Parts
<1>9. CASE TellSettings(c)
  <2>1. [kind |-> "settings"] \in Event BY DEF Event
  <2>2. LinkTyped' BY <1>9, <2>1, EmitTyped DEF TellSettings
  <2>3. CommandTyped' BY <1>4, <1>9 DEF TellSettings
  <2> QED BY <1>9, <2>2, <2>3 DEF TellSettings, Parts
<1>10. ASSUME NEW b \in Batch, FollowUp(c, b) PROVE Parts'
  <2>1. CommandTyped' BY <1>4, <1>10 DEF FollowUp
  <2>2. BatchTyped' /\ started' \in 0..MaxBatch /\ unended' \in BOOLEAN
    <3>1. CASE enabled = {}
      BY <1>0, <1>10, <3>1 DEF FollowUp, StartAll, Parts, BatchTyped, CountersTyped
    <3>2. CASE enabled # {}
      BY <1>0, <1>10, <3>2, StartTyped DEF FollowUp, StartAll
    <3> QED BY <3>1, <3>2
  <2>3. CountersTyped' /\ HistoryTyped'
    BY <1>0, <1>10, <2>2 DEF FollowUp, Parts, CountersTyped, HistoryTyped
  <2> QED BY <1>10, <2>1, <2>2, <2>3 DEF FollowUp, Parts
<1> QED BY <1>5, <1>6, <1>7, <1>8, <1>9, <1>10 DEF CommandStep

LEMMA MergeTyped ==
    ASSUME NEW view \in Values, NEW values \in Values
    PROVE  Merge(view, values) \in Values
BY DEF Merge, Values

LEMMA FlushTyped ==
    ASSUME NEW h \in HookState
    PROVE  Flush(h) \in HookState
<1>1. Merge(h.view, h.pending) \in Values BY MergeTyped DEF HookState
<1> QED BY <1>1, Versions DEF Flush, HookState

LEMMA LoadedTyped ==
    ASSUME NEW h \in HookState, NEW reply \in Reply
    PROVE  Loaded(h, reply) \in HookState
<1> DEFINE loaded == [h EXCEPT !.view = Merge(@, reply.values)]
<1>1. Merge(h.view, reply.values) \in Values BY MergeTyped DEF HookState, Reply
<1>2. loaded \in HookState BY <1>1 DEF HookState
<1>3. ASSUME NEW i \in HookState PROVE [i EXCEPT !.reloading = FALSE] \in HookState
  BY DEF HookState
<1>4. Flush([loaded EXCEPT !.reloading = FALSE]) \in HookState
  <2> HIDE DEF loaded
  <2> QED BY <1>2, <1>3, FlushTyped
<1> QED BY <1>2, <1>4 DEF Loaded

LEMMA DeliverTyped ==
    ASSUME Parts, Deliver
    PROVE  hook' \in HookState /\ asked' \in SUBSET Nat /\ events' \in Seq(Event)
<1>0. /\ events \in Seq(Event) /\ events # <<>> /\ hook \in HookState /\ asked \in SUBSET Nat
      /\ events' = Tail(events)
  BY DEF Parts, LinkTyped, HookTyped, Deliver
<1>1. Head(events) \in Event /\ Tail(events) \in Seq(Event) BY <1>0
<1>2. ASSUME NEW p \in Provider, NEW version \in 1..MaxVersion, OnUpdated(p, version)
      PROVE  hook' \in HookState /\ asked' \in SUBSET Nat
  <2>1. version \in Version BY SurfaceAssumption DEF Version
  <2>2. ASSUME NEW h \in HookState, NEW timer \in BOOLEAN, NEW pending \in Values,
               NEW ids \in SUBSET Provider
        PROVE  [h EXCEPT !.pending = pending, !.timer = timer, !.ids = ids] \in HookState
    BY DEF HookState
  <2>3. /\ [hook.pending EXCEPT ![p] = version] \in Values
        /\ (hook.timer \/ ~hook.reloading) \in BOOLEAN
        /\ hook.ids \ {p} \in SUBSET Provider
    BY <1>0, <2>1 DEF HookState, Values
  <2>4. hook' = [hook EXCEPT !.pending = [hook.pending EXCEPT ![p] = version],
                             !.timer = (hook.timer \/ ~hook.reloading),
                             !.ids = hook.ids \ {p}]
    BY <1>2, Zenon DEF OnUpdated
  <2>5. hook' \in HookState BY <1>0, <2>2, <2>3, <2>4, Zenon
  <2> QED BY <1>0, <1>2, <2>5 DEF OnUpdated
<1>3. ASSUME OnSettings PROVE hook' \in HookState /\ asked' \in SUBSET Nat
  <2>1. hook.epoch + 1 \in Nat BY <1>0 DEF HookState
  <2> QED BY <1>0, <1>3, <2>1, Versions DEF OnSettings, HookState
<1>4. ASSUME NEW ids \in SUBSET Provider, OnStarted(ids)
      PROVE  hook' \in HookState /\ asked' \in SUBSET Nat
  BY <1>0, <1>4 DEF OnStarted, HookState
<1>5. ASSUME OnComplete PROVE hook' \in HookState /\ asked' \in SUBSET Nat
  <2>1. ASSUME NEW i \in HookState PROVE [i EXCEPT !.refreshing = FALSE, !.ids = {}] \in HookState
    BY DEF HookState
  <2> QED BY <1>0, <1>5, <2>1, FlushTyped DEF OnComplete
<1>6. LET event == Head(events) IN
          \/ /\ event.provider \in Provider /\ event.version \in 1..MaxVersion
             /\ OnUpdated(event.provider, event.version)
          \/ OnSettings
          \/ event.ids \in SUBSET Provider /\ OnStarted(event.ids)
          \/ OnComplete
  BY <1>1 DEF Deliver, Event
<1> QED BY <1>0, <1>1, <1>2, <1>3, <1>4, <1>5, <1>6

LEMMA TypeHook == ASSUME Parts, HookStep PROVE Parts'
<1> USE Unchanged
<1>0. /\ hook \in HookState /\ events \in Seq(Event) /\ asked \in SUBSET Nat
      /\ answers \in SUBSET Reply /\ cache \in Values /\ changes \in 0..MaxChange
      /\ stale \in SUBSET Provider /\ unended \in BOOLEAN
  BY DEF Parts, HookTyped, LinkTyped, ShellTyped, CountersTyped, HistoryTyped
<1>1. CASE Restart
  <2>1. hook.epoch + 1 \in Nat BY <1>0 DEF HookState
  <2>2. ASSUME NEW n \in Nat
        PROVE  [hook EXCEPT !.epoch = n, !.initial = n, !.reloading = FALSE, !.timer = FALSE,
                            !.pending = Nothing, !.listening = FALSE] \in HookState
    BY <1>0, Versions DEF HookState
  <2>3. HookTyped' BY <1>1, <2>1, <2>2 DEF Restart, HookTyped
  <2>4. LinkTyped' BY <1>1, <2>1 DEF Restart, LinkTyped
  <2>5. changes' \in 0..MaxChange BY <1>0, <1>1, SurfaceAssumption DEF Restart
  <2>6. CountersTyped' BY <1>1, <2>5 DEF Restart, Parts, CountersTyped
  <2>7. HistoryTyped' BY <1>0, <1>1 DEF Restart, HistoryTyped
  <2> QED BY <1>1, <2>3, <2>4, <2>6, <2>7 DEF Restart, Parts
<1>2. CASE Listen
  <2>1. HookTyped' BY <1>0, <1>2 DEF Listen, HookTyped, HookState
  <2> QED BY <1>2, <2>1 DEF Listen, Parts
<1>3. ASSUME NEW epoch \in asked, Answer(epoch) PROVE Parts'
  <2>1. [epoch |-> epoch, values |-> cache] \in Reply BY <1>0 DEF Reply
  <2>2. LinkTyped' BY <1>0, <1>3, <2>1 DEF Answer, LinkTyped
  <2> QED BY <1>3, <2>2 DEF Answer, Parts
<1>4. ASSUME NEW reply \in answers, Receive(reply) PROVE Parts'
  <2>1. HookTyped' BY <1>0, <1>4, LoadedTyped DEF Receive, HookTyped
  <2>2. LinkTyped' BY <1>0, <1>4 DEF Receive, LinkTyped
  <2>3. HistoryTyped' BY <1>0, <1>4 DEF Receive, HistoryTyped
  <2> QED BY <1>4, <2>1, <2>2, <2>3 DEF Receive, Parts
<1>5. CASE Deliver
  <2>1. HookTyped' /\ LinkTyped' BY <1>0, <1>5, DeliverTyped DEF Deliver, HookTyped, LinkTyped
  <2> QED BY <1>5, <2>1 DEF Deliver, Parts
<1>6. CASE FlushTimer
  <2>1. HookTyped' BY <1>0, <1>6, FlushTyped DEF FlushTimer, HookTyped
  <2> QED BY <1>6, <2>1 DEF FlushTimer, Parts
<1>7. ASSUME NEW b \in Batch, Refresh(b) PROVE Parts'
  <2>1. HookTyped' BY <1>0, <1>7 DEF Refresh, HookTyped, HookState
  <2>2. BatchTyped' /\ started' \in 0..MaxBatch /\ unended' \in BOOLEAN
    <3>1. CASE enabled = {} BY <1>7, <3>1 DEF Refresh, Parts, BatchTyped, CountersTyped
    <3>2. CASE enabled # {}
      BY <1>0, <1>7, <3>2, StartTyped DEF Refresh, Parts, ShellTyped
    <3> QED BY <3>1, <3>2
  <2>3. CountersTyped' /\ HistoryTyped'
    BY <1>0, <1>7, <2>2 DEF Refresh, Parts, CountersTyped, HistoryTyped
  <2> QED BY <1>7, <2>1, <2>2, <2>3 DEF Refresh, Parts
<1> QED BY <1>1, <1>2, <1>3, <1>4, <1>5, <1>6, <1>7 DEF HookStep

LEMMA TypeStep == ASSUME Parts, [Next]_vars PROVE Parts'
<1>1. CASE UNCHANGED vars BY <1>1, Unchanged DEF vars, Parts
<1> QED BY <1>1, TypeBatch, TypeCommand, TypeHook DEF Next

\* Every reachable state keeps the shape of TypeOK.
THEOREM TypeCorrect == Spec => []TypeOK
<1>1. Parts => TypeOK BY PartsOfType DEF TypeInv
<1> QED BY <1>1, TypeInit, TypeStep, PTL DEF Spec

(***************************************************************************)
(* The queue of a surface                                                  *)
(***************************************************************************)

\* A reload has its request or the reply on its way, and is not the effect's first
\* request, whose reply flushes nothing.
Drained ==
    /\ hook.reloading => \/ hook.epoch \in asked
                         \/ \E reply \in answers : reply.epoch = hook.epoch
    /\ hook.reloading => hook.epoch > hook.initial
    /\ hook.initial <= hook.epoch
    /\ hook.pending # Nothing => hook.timer \/ hook.reloading

LEMMA FlushFields ==
    ASSUME NEW h \in HookState
    PROVE  /\ Flush(h).pending = Nothing
           /\ Flush(h).reloading = h.reloading
           /\ Flush(h).epoch = h.epoch /\ Flush(h).initial = h.initial
BY DEF Flush, HookState

LEMMA DrainedReceive ==
    ASSUME Parts, Drained, NEW reply \in answers, Receive(reply) PROVE Drained'
<1> DEFINE loaded == [hook EXCEPT !.view = Merge(@, reply.values)]
           ended == [loaded EXCEPT !.reloading = FALSE]
<1>0. hook \in HookState /\ reply \in Reply BY DEF Parts, HookTyped, LinkTyped
<1>1. /\ hook' = Loaded(hook, reply)
      /\ asked' = asked /\ answers' = answers \ {reply}
  BY DEF Receive
<1>2. CASE reply.epoch # hook.epoch
  <2>1. hook' = hook BY <1>1, <1>2 DEF Loaded
  <2> QED BY <1>1, <1>2, <2>1 DEF Drained
<1>3. Merge(hook.view, reply.values) \in Values BY <1>0, MergeTyped DEF HookState, Reply
<1>4. /\ loaded \in HookState
      /\ loaded.reloading = hook.reloading /\ loaded.epoch = hook.epoch
      /\ loaded.initial = hook.initial /\ loaded.pending = hook.pending
      /\ loaded.timer = hook.timer
  <2>1. ASSUME NEW view \in Values
        PROVE  LET h == [hook EXCEPT !.view = view]
               IN  /\ h \in HookState
                   /\ h.reloading = hook.reloading /\ h.epoch = hook.epoch
                   /\ h.initial = hook.initial /\ h.pending = hook.pending
                   /\ h.timer = hook.timer
    BY <1>0 DEF HookState
  <2> QED BY <1>3, <2>1
<1>5. CASE reply.epoch = hook.epoch /\ reply.epoch = hook.initial
  <2>1. hook' = loaded BY <1>1, <1>5 DEF Loaded
  <2>2. hook.epoch \in Int BY <1>0 DEF HookState
  <2>3. ~hook.reloading BY <1>5, <2>2 DEF Drained
  <2> HIDE DEF loaded
  <2> QED BY <1>1, <1>4, <1>5, <2>1, <2>2, <2>3 DEF Drained
<1>6. CASE reply.epoch = hook.epoch /\ reply.epoch # hook.initial
  <2>1. hook' = Flush(ended) BY <1>1, <1>6 DEF Loaded
  <2> HIDE DEF loaded
  <2>2. /\ ended \in HookState /\ ended.reloading = FALSE
        /\ ended.epoch = hook.epoch /\ ended.initial = hook.initial
    BY <1>4 DEF HookState
  <2> HIDE DEF ended
  <2>3. /\ hook'.pending = Nothing /\ hook'.reloading = FALSE
        /\ hook'.epoch = hook.epoch /\ hook'.initial = hook.initial
    BY <2>1, <2>2, FlushFields
  <2> QED BY <2>3 DEF Drained
<1> QED BY <1>2, <1>5, <1>6

LEMMA DrainedDeliver == ASSUME Parts, Drained, Deliver PROVE Drained'
<1>0. hook \in HookState /\ answers' = answers /\ hook.epoch \in Nat /\ hook.initial \in Nat
  BY DEF Parts, HookTyped, Deliver, HookState
<1>1. ASSUME NEW p, NEW version, OnUpdated(p, version) PROVE Drained'
  <2>1. /\ hook'.reloading = hook.reloading /\ hook'.epoch = hook.epoch
        /\ hook'.initial = hook.initial /\ asked' = asked
        /\ hook'.timer = (hook.timer \/ ~hook.reloading)
    BY <1>0, <1>1 DEF OnUpdated, HookState
  <2> QED BY <1>0, <2>1 DEF Drained
<1>2. ASSUME OnSettings PROVE Drained'
  <2>1. /\ hook'.reloading = TRUE /\ hook'.epoch = hook.epoch + 1
        /\ hook'.initial = hook.initial /\ hook'.pending = Nothing
        /\ asked' = asked \cup {hook.epoch + 1}
    BY <1>0, <1>2 DEF OnSettings, HookState
  <2> QED BY <1>0, <2>1 DEF Drained
<1>3. ASSUME NEW ids, OnStarted(ids) PROVE Drained'
  <2>1. /\ hook'.reloading = hook.reloading /\ hook'.epoch = hook.epoch
        /\ hook'.initial = hook.initial /\ asked' = asked
        /\ hook'.timer = hook.timer /\ hook'.pending = hook.pending
    BY <1>0, <1>3 DEF OnStarted, HookState
  <2> QED BY <1>0, <2>1 DEF Drained
<1>4. ASSUME OnComplete PROVE Drained'
  <2> DEFINE h == IF hook.reloading THEN hook ELSE Flush(hook)
  <2>1. /\ h \in HookState /\ h.reloading = hook.reloading
        /\ h.epoch = hook.epoch /\ h.initial = hook.initial
        /\ h.reloading \/ h.pending = Nothing
    BY <1>0, FlushTyped, FlushFields
  <2>2. hook' = [h EXCEPT !.refreshing = FALSE, !.ids = {}] /\ asked' = asked
    BY <1>4 DEF OnComplete
  <2> HIDE DEF h
  <2>3. /\ hook'.reloading = h.reloading /\ hook'.epoch = h.epoch
        /\ hook'.initial = h.initial /\ hook'.pending = h.pending
    BY <2>1, <2>2 DEF HookState
  <2> QED BY <1>0, <2>1, <2>2, <2>3 DEF Drained
<1> QED BY <1>1, <1>2, <1>3, <1>4 DEF Deliver

LEMMA DrainedStep == ASSUME Parts, Drained, [Next]_vars PROVE Drained'
<1>0. hook \in HookState /\ hook.epoch \in Nat /\ hook.initial \in Nat /\ answers \subseteq Reply
  BY DEF Parts, HookTyped, LinkTyped, HookState
<1>1. CASE UNCHANGED vars BY <1>1 DEF Drained, vars, link
<1>2. CASE \E b \in Batch : BatchStep(b)
  BY <1>2 DEF BatchStep, StartElsewhere, Reserve, Reject, Announce, Publish, Tell, Finish,
              Complete, Drained, link
<1>3. CASE \E c \in Command : CommandStep(c)
  BY <1>3 DEF CommandStep, UpdateSettings, ChangePresentation, ChangeAccount, TellPlaceholder,
              TellSettings, FollowUp, Drained, link
<1>4. CASE Restart
  <2>1. /\ hook'.reloading = FALSE /\ hook'.pending = Nothing
        /\ hook'.epoch = hook.epoch + 1 /\ hook'.initial = hook.epoch + 1
    BY <1>0, <1>4 DEF Restart, HookState
  <2> QED BY <1>0, <2>1 DEF Drained
<1>5. CASE Listen
  <2>1. /\ hook'.reloading = hook.reloading /\ hook'.pending = hook.pending
        /\ hook'.epoch = hook.epoch /\ hook'.initial = hook.initial /\ hook'.timer = hook.timer
    BY <1>0, <1>5 DEF Listen, HookState
  <2> QED BY <1>5, <2>1 DEF Listen, Drained, link
<1>6. ASSUME NEW epoch \in asked, Answer(epoch) PROVE Drained'
  <2>1. hook' = hook /\ asked' = asked \ {epoch}
        /\ answers' = answers \cup {[epoch |-> epoch, values |-> cache]}
    BY <1>6 DEF Answer
  <2>2. [epoch |-> epoch, values |-> cache].epoch = epoch OBVIOUS
  <2> QED BY <2>1, <2>2 DEF Drained
<1>7. CASE \E reply \in answers : Receive(reply) BY <1>7, DrainedReceive
<1>8. CASE Deliver BY <1>8, DrainedDeliver
<1>9. CASE FlushTimer
  <2>1. hook' = Flush(hook) /\ UNCHANGED link BY <1>9 DEF FlushTimer
  <2> QED BY <1>0, <2>1, FlushFields DEF Drained, link
<1>10. ASSUME NEW b \in Batch, Refresh(b) PROVE Drained'
  <2>1. /\ hook'.reloading = hook.reloading /\ hook'.pending = hook.pending
        /\ hook'.epoch = hook.epoch /\ hook'.initial = hook.initial /\ hook'.timer = hook.timer
    BY <1>0, <1>10 DEF Refresh, HookState
  <2> QED BY <1>10, <2>1 DEF Refresh, Drained, link
<1> QED BY <1>1, <1>2, <1>3, <1>4, <1>5, <1>6, <1>7, <1>8, <1>9, <1>10 DEF Next, HookStep

\* No snapshot stays queued without a timer or a reload that flushes it, and no
\* reload waits for a reply that was thrown away, however restarts, settings events
\* and replies cross.
THEOREM QueueAlwaysDrained == Spec => []QueueIsDrained
<1>1. Init => Drained BY DEF Init, Drained, Fresh
<1>2. Parts /\ Drained => QueueIsDrained BY DEF Drained, QueueIsDrained
<1> QED BY <1>1, <1>2, TypeInit, TypeStep, DrainedStep, PTL DEF Spec

(***************************************************************************)
(* The end of a refresh                                                    *)
(***************************************************************************)

Running(b) == batch[b].at \in {"announce", "fetch"} /\ IsCurrent(b)

\* is_refreshing is set for a batch that is not superseded.
HasOwner == refreshing => \E b \in Batch : Running(b)

\* Of the events on their way the surface gets the end of a refresh last.
CompleteLast ==
    \E i \in DOMAIN events :
        /\ events[i].kind = "complete"
        /\ \A j \in DOMAIN events : j > i => events[j].kind # "started"

\* A batch that will end with refresh-complete, or is rejected for one that will.
Ends(b) ==
    \/ Running(b) \/ batch[b].at = "complete"
    \/ batch[b].at = "reserve" /\ batch[b].force /\ batch[b].expected = generation

WillEnd ==
    \/ CompleteLast
    \/ \E b \in Batch : Ends(b)
    \/ \E c \in Command : "refresh" \in command[c].owed

\* SettledIdle is not inductive: while a surface waits, an end is under way.
EndKnown == unended \/ ~Waits \/ WillEnd

LEMMA EndStays ==
    ASSUME EndKnown, Waits' => Waits, unended => unended', CompleteLast => CompleteLast',
           \A b \in Batch : Ends(b) => Ends(b)',
           \A c \in Command : "refresh" \in command[c].owed => "refresh" \in command'[c].owed
    PROVE  EndKnown'
BY DEF EndKnown, WillEnd

LEMMA Appended ==
    ASSUME Parts, NEW event, events' = Append(events, event)
    PROVE  /\ Len(events) \in Nat /\ DOMAIN events = 1..Len(events)
           /\ DOMAIN events' = 1..(Len(events) + 1)
           /\ \A i \in DOMAIN events : events'[i] = events[i]
           /\ events'[Len(events) + 1] = event
BY DEF Parts, LinkTyped

LEMMA Removed ==
    ASSUME Parts, events # <<>>, events' = Tail(events)
    PROVE  /\ Len(events) \in Nat \ {0} /\ DOMAIN events = 1..Len(events)
           /\ DOMAIN events' = 1..(Len(events) - 1)
           /\ Head(events) = events[1]
           /\ \A i \in DOMAIN events' : events'[i] = events[i + 1]
BY DEF Parts, LinkTyped

LEMMA EmitEnds ==
    ASSUME Parts, NEW event, Emit(event)
    PROVE  /\ event.kind # "started" /\ CompleteLast => CompleteLast'
           /\ event.kind = "complete" /\ hook.listening => CompleteLast'
           /\ event.kind # "started" /\ hook' = hook /\ Waits' => Waits
<1>1. CASE ~hook.listening BY <1>1 DEF Emit, CompleteLast, Waits
<1>2. CASE hook.listening
  <2>1. events' = Append(events, event) BY <1>2 DEF Emit
  <2>2. ASSUME event.kind # "started", CompleteLast PROVE CompleteLast'
    <3>1. PICK i \in DOMAIN events :
            /\ events[i].kind = "complete"
            /\ \A j \in DOMAIN events : j > i => events[j].kind # "started"
      BY <2>2 DEF CompleteLast
    <3>2. i \in DOMAIN events' /\ events'[i].kind = "complete" BY <2>1, <3>1, Appended
    <3>3. \A j \in DOMAIN events' : j > i => events'[j].kind # "started"
      BY <2>1, <2>2, <3>1, Appended
    <3> QED BY <3>2, <3>3 DEF CompleteLast
  <2>3. ASSUME event.kind = "complete" PROVE CompleteLast'
    <3>1. /\ Len(events) + 1 \in DOMAIN events' /\ events'[Len(events) + 1].kind = "complete"
          /\ \A j \in DOMAIN events' : ~(j > Len(events) + 1)
      BY <2>1, <2>3, Appended
    <3> QED BY <3>1 DEF CompleteLast
  <2>4. ASSUME event.kind # "started", hook' = hook, Waits' PROVE Waits
    <3>1. ASSUME NEW j \in DOMAIN events', events'[j].kind = "started"
          PROVE  j \in DOMAIN events /\ events[j].kind = "started"
      BY <2>1, <2>4, <3>1, Appended
    <3> QED BY <2>4, <3>1 DEF Waits
  <2> QED BY <2>2, <2>3, <2>4
<1> QED BY <1>1, <1>2

LEMMA OwnerStep == ASSUME Parts, HasOwner, [Next]_vars PROVE HasOwner'
<1>0. batch \in [Batch -> BatchState] /\ generation \in Nat
  BY DEF Parts, BatchTyped, ShellTyped
<1>1. ASSUME refreshing' => refreshing, generation' = generation,
             \A a \in Batch : Running(a) => Running(a)'
      PROVE  HasOwner'
  BY <1>1 DEF HasOwner
<1>2. CASE UNCHANGED vars BY <1>2 DEF HasOwner, vars, shell, Running, IsCurrent
<1>3. ASSUME NEW b \in Batch, BatchStep(b) PROVE HasOwner'
  <2> USE DEF Running, IsCurrent
  <2>1. CASE Reserve(b)
    <3>1. batch'[b].at = "announce" /\ batch'[b].token = generation' /\ generation' = generation + 1
      BY <1>0, <2>1 DEF Reserve, BatchState
    <3> QED BY <3>1 DEF HasOwner
  <2>2. CASE Finish(b) /\ IsCurrent(b) BY <2>2 DEF Finish, HasOwner
  <2>3. CASE Finish(b) /\ ~IsCurrent(b)
    BY <1>0, <1>1, <2>3 DEF Finish
  <2>4. CASE StartElsewhere(b)
    BY <1>0, <1>1, <2>4 DEF StartElsewhere, Start, shell
  <2>5. CASE Reject(b)
    BY <1>0, <1>1, <2>5 DEF Reject, shell
  <2>6. CASE Announce(b)
    <3>1. batch'[b].at = "fetch" /\ batch'[b].token = batch[b].token
          /\ \A a \in Batch \ {b} : batch'[a] = batch[a]
      BY <1>0, <2>6 DEF Announce, BatchState
    <3> QED BY <1>1, <2>6, <3>1 DEF Announce
  <2>7. ASSUME NEW p \in Provider, Publish(b, p) \/ Tell(b, p) PROVE HasOwner'
    <3>1. batch'[b].at = batch[b].at /\ batch'[b].token = batch[b].token
          /\ \A a \in Batch \ {b} : batch'[a] = batch[a]
      BY <1>0, <2>7 DEF Publish, Tell, BatchState
    <3> QED BY <1>1, <2>7, <3>1 DEF Publish, Tell, shell
  <2>8. CASE Complete(b)
    BY <1>0, <1>1, <2>8 DEF Complete, shell
  <2> QED BY <1>3, <2>1, <2>2, <2>3, <2>4, <2>5, <2>6, <2>7, <2>8 DEF BatchStep
<1>4. ASSUME NEW b \in Batch, NEW force, NEW ids, Start(b, force, ids), UNCHANGED shell
      PROVE  HasOwner'
  BY <1>0, <1>1, <1>4 DEF Start, shell, Running, IsCurrent
<1>5. ASSUME UNCHANGED <<shell, batch>> PROVE HasOwner'
  BY <1>5 DEF shell, HasOwner, Running, IsCurrent
<1>6. ASSUME NEW c \in Command, CommandStep(c) PROVE HasOwner'
  <2>1. CASE UpdateSettings(c) \/ \E p \in Provider : ChangeAccount(c, p)
    BY <2>1 DEF UpdateSettings, ChangeAccount, HasOwner
  <2>2. CASE ChangePresentation(c) \/ TellPlaceholder(c) \/ TellSettings(c)
    BY <1>5, <2>2 DEF ChangePresentation, TellPlaceholder, TellSettings
  <2>3. CASE \E b \in Batch : FollowUp(c, b)
    BY <1>4, <1>5, <2>3 DEF FollowUp, StartAll
  <2> QED BY <1>6, <2>1, <2>2, <2>3 DEF CommandStep
<1>7. CASE HookStep
  <2>1. CASE \E b \in Batch : Refresh(b) BY <1>4, <1>5, <2>1 DEF Refresh
  <2> QED BY <1>5, <1>7, <2>1 DEF HookStep, Restart, Listen, Answer, Receive, Deliver, FlushTimer
<1> QED BY <1>2, <1>3, <1>6, <1>7 DEF Next

LEMMA EndBatch ==
    ASSUME Parts, HasOwner, EndKnown, NEW b \in Batch, BatchStep(b) PROVE EndKnown'
<1>0. batch \in [Batch -> BatchState] /\ batch[b] \in BatchState /\ generation \in Nat
  BY DEF Parts, BatchTyped, ShellTyped
<1> USE DEF Ends, Running, IsCurrent
<1>1. CASE StartElsewhere(b)
  <2>1. \A a \in Batch \ {b} : batch'[a] = batch[a] BY <1>0, <1>1 DEF StartElsewhere, Start
  <2>2. batch[b].at = "idle" BY <1>1 DEF StartElsewhere, Start
  <2>3. UNCHANGED <<shell, command, link, hook, history>> BY <1>1 DEF StartElsewhere
  <2>4. (Waits' => Waits) /\ (CompleteLast => CompleteLast')
    BY <2>3 DEF link, Waits, CompleteLast
  <2> QED BY <2>1, <2>2, <2>3, <2>4, EndStays DEF shell, history
<1>2. CASE Reserve(b)
  <2>1. batch'[b].at = "announce" /\ batch'[b].token = generation'
    BY <1>0, <1>2 DEF Reserve, BatchState
  <2> QED BY <2>1 DEF EndKnown, WillEnd
<1>3. CASE Reject(b)
  <2>1. \A a \in Batch \ {b} : batch'[a] = batch[a] BY <1>0, <1>3 DEF Reject
  <2>2. batch[b].at = "reserve" BY <1>3 DEF Reject
  <2>3. UNCHANGED <<shell, command, link, hook, history>> BY <1>3 DEF Reject
  <2>4. (Waits' <=> Waits) /\ (CompleteLast => CompleteLast')
    BY <2>3 DEF link, Waits, CompleteLast
  <2>5. CASE Ends(b)
    <3>1. refreshing BY <1>3, <2>2, <2>5 DEF Reject, CanSkip
    <3>2. PICK a \in Batch : Running(a) BY <3>1 DEF HasOwner
    <3>3. Running(a)' BY <2>1, <2>2, <2>3, <3>2 DEF shell
    <3> QED BY <3>3 DEF EndKnown, WillEnd
  <2>6. CASE ~Ends(b)
    BY <2>1, <2>3, <2>4, <2>6, EndStays DEF shell, history
  <2> QED BY <2>5, <2>6
<1>4. CASE Announce(b)
  <2>1. /\ batch'[b].at = "fetch" /\ batch'[b].token = batch[b].token
        /\ \A a \in Batch \ {b} : batch'[a] = batch[a]
        /\ batch[b].at = "announce" /\ generation' = generation
    BY <1>0, <1>4 DEF Announce, BatchState
  <2>2. CASE IsCurrent(b)
    <3>1. Running(b)' BY <2>1, <2>2
    <3> QED BY <3>1 DEF EndKnown, WillEnd
  <2>3. CASE ~IsCurrent(b) /\ ~hook.listening
    <3>1. UNCHANGED <<events, hook, command>> /\ (unended => unended')
      BY <1>4, <2>3 DEF Announce, Emit
    <3>2. (Waits' => Waits) /\ (CompleteLast => CompleteLast')
      BY <3>1 DEF Waits, CompleteLast
    <3> QED BY <2>1, <2>3, <3>1, <3>2, EndStays
  <2>4. CASE ~IsCurrent(b) /\ hook.listening BY <1>4, <2>4 DEF Announce, EndKnown
  <2> QED BY <2>2, <2>3, <2>4
<1>5. ASSUME NEW p \in Provider, Publish(b, p) PROVE EndKnown'
  <2>1. /\ batch'[b].at = batch[b].at /\ batch'[b].token = batch[b].token
        /\ batch'[b].force = batch[b].force /\ batch'[b].expected = batch[b].expected
        /\ \A a \in Batch \ {b} : batch'[a] = batch[a]
    BY <1>0, <1>5 DEF Publish, BatchState
  <2>2. UNCHANGED <<generation, command, link, hook, history>> BY <1>5 DEF Publish
  <2>3. (Waits' => Waits) /\ (CompleteLast => CompleteLast')
    BY <2>2 DEF link, Waits, CompleteLast
  <2> QED BY <2>1, <2>2, <2>3, EndStays DEF history
<1>6. ASSUME NEW p \in Provider, Tell(b, p) PROVE EndKnown'
  <2>1. /\ batch'[b].at = batch[b].at /\ batch'[b].token = batch[b].token
        /\ batch'[b].force = batch[b].force /\ batch'[b].expected = batch[b].expected
        /\ \A a \in Batch \ {b} : batch'[a] = batch[a]
    BY <1>0, <1>6 DEF Tell, BatchState
  <2>2. UNCHANGED <<shell, command, hook, unended>> BY <1>6 DEF Tell
  <2>3. (Waits' => Waits) /\ (CompleteLast => CompleteLast')
    BY <1>6, <2>2, EmitEnds DEF Tell, EmitUpdated
  <2> QED BY <2>1, <2>2, <2>3, EndStays DEF shell
<1>7. CASE Finish(b)
  <2>1. \A a \in Batch \ {b} : batch'[a] = batch[a] BY <1>0, <1>7 DEF Finish
  <2>2. CASE IsCurrent(b)
    <3>1. batch'[b].at = "complete" BY <1>0, <1>7, <2>2 DEF Finish, BatchState
    <3> QED BY <3>1 DEF EndKnown, WillEnd
  <2>3. CASE ~IsCurrent(b)
    <3>1. ~Ends(b) BY <1>7, <2>3 DEF Finish
    <3>2. UNCHANGED <<generation, command, link, hook, history>> BY <1>7 DEF Finish
    <3>3. (Waits' => Waits) /\ (CompleteLast => CompleteLast')
      BY <3>2 DEF link, Waits, CompleteLast
    <3> QED BY <2>1, <3>1, <3>2, <3>3, EndStays DEF history
  <2> QED BY <2>2, <2>3
<1>8. CASE Complete(b)
  <2>1. CASE hook.listening
    <3>1. CompleteLast' BY <1>8, <2>1, EmitEnds DEF Complete
    <3> QED BY <3>1 DEF EndKnown, WillEnd
  <2>2. CASE ~hook.listening
    <3>1. UNCHANGED <<events, hook>> /\ unended' = (unended \/ Waits)
      BY <1>8, <2>2 DEF Complete, Emit
    <3>2. Waits' => Waits BY <3>1 DEF Waits
    <3> QED BY <3>1, <3>2 DEF EndKnown
  <2> QED BY <2>1, <2>2
<1> QED BY <1>1, <1>2, <1>3, <1>4, <1>5, <1>6, <1>7, <1>8 DEF BatchStep

LEMMA StartEnds ==
    ASSUME Parts, NEW b \in Batch, Start(b, TRUE, enabled), generation' = generation
    PROVE  Ends(b)'
<1>1. batch'[b].at = "reserve" /\ batch'[b].force = TRUE /\ batch'[b].expected = generation
  BY DEF Parts, BatchTyped, BatchState, Start, IdleBatch
<1> QED BY <1>1 DEF Ends

LEMMA EndCommand ==
    ASSUME Parts, EndKnown, NEW c \in Command, CommandStep(c) PROVE EndKnown'
<1>0. command \in [Command -> CommandState] /\ command[c] \in CommandState
      /\ IdleCommand.owed = {}
  BY DEF Parts, CommandTyped, IdleCommand
<1>1. ASSUME "refresh" \in command'[c].owed PROVE EndKnown' BY <1>1 DEF EndKnown, WillEnd
<1>2. ASSUME UNCHANGED <<generation, batch, hook, unended>>,
             Waits' => Waits, CompleteLast => CompleteLast',
             \A d \in Command : "refresh" \in command[d].owed => "refresh" \in command'[d].owed
      PROVE  EndKnown'
  BY <1>2, EndStays DEF Ends, Running, IsCurrent
<1>3. ASSUME UNCHANGED <<events, hook>> PROVE (Waits' <=> Waits) /\ (CompleteLast => CompleteLast')
  BY <1>3 DEF Waits, CompleteLast
<1>4. CASE UpdateSettings(c)
  <2>1. command'[c].owed = {"settings", "refresh"}
    BY <1>0, <1>4 DEF UpdateSettings, CommandState
  <2> QED BY <1>1, <2>1
<1>5. ASSUME NEW p \in Provider, ChangeAccount(c, p) PROVE EndKnown'
  <2>1. command'[c].owed \in {{"refresh"}, {"refresh", "settings"}}
    BY <1>0, <1>5 DEF ChangeAccount
  <2> QED BY <1>1, <2>1
<1>6. CASE ChangePresentation(c)
  <2>1. command[c].owed = {} /\ \A d \in Command \ {c} : command'[d] = command[d]
    BY <1>0, <1>6 DEF ChangePresentation, BeginCommand
  <2>2. UNCHANGED <<shell, batch, link, hook, history>> BY <1>6 DEF ChangePresentation
  <2> QED BY <1>2, <1>3, <2>1, <2>2 DEF shell, link, history
<1>7. CASE TellPlaceholder(c)
  <2>1. command'[c].owed = command[c].owed /\ \A d \in Command \ {c} : command'[d] = command[d]
    BY <1>0, <1>7 DEF TellPlaceholder, CommandState
  <2>2. UNCHANGED <<shell, batch, hook, unended>> BY <1>7 DEF TellPlaceholder
  <2>3. (Waits' => Waits) /\ (CompleteLast => CompleteLast')
    BY <1>7, <2>2, EmitEnds DEF TellPlaceholder, EmitUpdated
  <2> QED BY <1>2, <2>1, <2>2, <2>3 DEF shell
<1>8. CASE TellSettings(c)
  <2>1. \A d \in Command : "refresh" \in command[d].owed => "refresh" \in command'[d].owed
    <3>1. \A d \in Command \ {c} : command'[d] = command[d]
      BY <1>0, <1>8 DEF TellSettings, Paid
    <3>2. ASSUME "refresh" \in command[c].owed PROVE "refresh" \in command'[c].owed
      <4>1. command[c].owed \ {"settings"} # {} BY <3>2
      <4>2. command' = [command EXCEPT ![c] =
                          [command[c] EXCEPT !.owed = command[c].owed \ {"settings"}]]
        BY <1>8, <4>1 DEF TellSettings, Paid
      <4> QED BY <1>0, <3>2, <4>2 DEF CommandState
    <3> QED BY <3>1, <3>2
  <2>2. UNCHANGED <<shell, batch, hook, history>> BY <1>8 DEF TellSettings
  <2>3. (Waits' => Waits) /\ (CompleteLast => CompleteLast')
    BY <1>8, <2>2, EmitEnds DEF TellSettings
  <2> QED BY <1>2, <2>1, <2>2, <2>3 DEF shell, history
<1>9. ASSUME NEW b \in Batch, FollowUp(c, b) PROVE EndKnown'
  <2>1. UNCHANGED <<shell, link, hook>> BY <1>9 DEF FollowUp
  <2>2. CASE enabled = {}
    BY <1>3, <1>9, <2>1, <2>2 DEF FollowUp, StartAll, EndKnown, link
  <2>3. CASE enabled # {}
    <3>1. Ends(b)' BY <1>9, <2>1, <2>3, StartEnds DEF FollowUp, StartAll, shell
    <3> QED BY <3>1 DEF EndKnown, WillEnd
  <2> QED BY <2>2, <2>3
<1> QED BY <1>4, <1>5, <1>6, <1>7, <1>8, <1>9 DEF CommandStep

LEMMA FlushWaits ==
    ASSUME NEW h \in HookState
    PROVE  Flush(h).refreshing = h.refreshing /\ Flush(h).ids = h.ids
BY DEF Flush, HookState

LEMMA LoadedWaits ==
    ASSUME NEW h \in HookState, NEW reply \in Reply
    PROVE  Loaded(h, reply).refreshing = h.refreshing /\ Loaded(h, reply).ids = h.ids
<1> DEFINE loaded == [h EXCEPT !.view = Merge(@, reply.values)]
           ended == [loaded EXCEPT !.reloading = FALSE]
<1>1. Merge(h.view, reply.values) \in Values BY MergeTyped DEF HookState, Reply
<1>2. loaded \in HookState /\ loaded.refreshing = h.refreshing /\ loaded.ids = h.ids
  BY <1>1 DEF HookState
<1> HIDE DEF loaded
<1>3. ended \in HookState /\ ended.refreshing = h.refreshing /\ ended.ids = h.ids
  BY <1>2 DEF HookState
<1> HIDE DEF ended
<1>4. Flush(ended).refreshing = h.refreshing /\ Flush(ended).ids = h.ids
  BY <1>3, FlushWaits
<1>5. Loaded(h, reply) \in {h, loaded, Flush(ended)} BY DEF Loaded, loaded, ended
<1> QED BY <1>2, <1>4, <1>5

\* What the surface gets next: the end that came last, or it goes on waiting.
LEMMA EndDeliver == ASSUME Parts, EndKnown, Deliver PROVE EndKnown'
<1>0. /\ hook \in HookState /\ events # <<>> /\ events' = Tail(events)
      /\ UNCHANGED <<shell, batch, command, unended>>
  BY DEF Parts, HookTyped, Deliver, history
<1> DEFINE head == Head(events)
<1>1. head = events[1] /\ 1 \in DOMAIN events
  BY <1>0, Removed
<1>2. ASSUME NEW j \in DOMAIN events' PROVE j + 1 \in DOMAIN events /\ events'[j] = events[j + 1]
  BY <1>0, <1>2, Removed
<1>3. Waits' => Waits
  <2>1. ASSUME \E j \in DOMAIN events' : events'[j].kind = "started"
        PROVE  \E i \in DOMAIN events : events[i].kind = "started"
    BY <1>2, <2>1
  <2>2. \/ hook'.refreshing = hook.refreshing /\ hook'.ids \subseteq hook.ids
        \/ head.kind = "started"
        \/ ~hook'.refreshing /\ hook'.ids = {}
    <3>1. ASSUME NEW p, NEW version, OnUpdated(p, version)
          PROVE  hook'.refreshing = hook.refreshing /\ hook'.ids \subseteq hook.ids
      BY <1>0, <3>1 DEF OnUpdated, HookState
    <3>2. ASSUME OnSettings PROVE hook'.refreshing = hook.refreshing /\ hook'.ids = hook.ids
      BY <1>0, <3>2 DEF OnSettings, HookState
    <3>3. ASSUME OnComplete PROVE hook'.refreshing = FALSE /\ hook'.ids = {}
      <4> DEFINE h == IF hook.reloading THEN hook ELSE Flush(hook)
      <4>1. h \in HookState BY <1>0, FlushTyped
      <4>2. hook' = [h EXCEPT !.refreshing = FALSE, !.ids = {}] BY <3>3 DEF OnComplete
      <4> HIDE DEF h
      <4> QED BY <4>1, <4>2 DEF HookState
    <3> QED BY <3>1, <3>2, <3>3 DEF Deliver
  <2> QED BY <1>1, <2>1, <2>2 DEF Waits
<1>4. CASE CompleteLast => CompleteLast'
  BY <1>0, <1>3, <1>4, EndStays DEF shell, Ends, Running, IsCurrent
<1>5. CASE CompleteLast /\ ~CompleteLast'
  <2>1. PICK i \in DOMAIN events :
          /\ events[i].kind = "complete"
          /\ \A j \in DOMAIN events : j > i => events[j].kind # "started"
    BY <1>5 DEF CompleteLast
  <2>2. i \in Nat /\ Len(events) \in Nat \ {0} /\ DOMAIN events = 1..Len(events)
        /\ DOMAIN events' = 1..(Len(events) - 1)
    BY <1>0, <2>1, Removed
  <2>3. i = 1
    <3> SUFFICES ASSUME i # 1 PROVE CompleteLast' BY <1>5
    <3>1. i - 1 \in DOMAIN events' /\ (i - 1) + 1 = i BY <2>1, <2>2
    <3>2. events'[i - 1] = events[i] BY <1>2, <3>1
    <3>3. ASSUME NEW j \in DOMAIN events', j > i - 1 PROVE events'[j].kind # "started"
      <4>1. j + 1 \in DOMAIN events /\ events'[j] = events[j + 1] BY <1>2
      <4>2. j + 1 > i BY <2>2, <3>3
      <4> QED BY <2>1, <4>1, <4>2
    <3> QED BY <2>1, <3>1, <3>2, <3>3 DEF CompleteLast
  <2>4. \A j \in DOMAIN events' : events'[j].kind # "started"
    <3>1. \A j \in DOMAIN events' : j + 1 > 1 BY <2>2
    <3> QED BY <1>2, <2>1, <2>3, <3>1
  <2>5. OnComplete BY <1>1, <2>1, <2>3 DEF Deliver
  <2>6. hook'.refreshing = FALSE /\ hook'.ids = {}
    <3> DEFINE h == IF hook.reloading THEN hook ELSE Flush(hook)
    <3>1. h \in HookState BY <1>0, FlushTyped
    <3>2. hook' = [h EXCEPT !.refreshing = FALSE, !.ids = {}] BY <2>5 DEF OnComplete
    <3> HIDE DEF h
    <3> QED BY <3>1, <3>2 DEF HookState
  <2> QED BY <2>4, <2>6 DEF EndKnown, Waits
<1> QED BY <1>4, <1>5

LEMMA EndStep == ASSUME Parts, HasOwner, EndKnown, [Next]_vars PROVE EndKnown'
<1>0. hook \in HookState /\ answers \subseteq Reply BY DEF Parts, HookTyped, LinkTyped
<1>1. CASE UNCHANGED vars
  BY <1>1 DEF EndKnown, WillEnd, Waits, CompleteLast, Ends, Running, IsCurrent,
              vars, shell, link, history
<1>2. ASSUME UNCHANGED <<shell, batch, command, events, unended>>,
             hook'.refreshing = hook.refreshing, hook'.ids = hook.ids
      PROVE  EndKnown'
  BY <1>2 DEF EndKnown, WillEnd, Waits, CompleteLast, Ends, Running, IsCurrent, shell
<1>3. CASE Restart
  <2>1. /\ hook'.refreshing = hook.refreshing /\ hook'.ids = hook.ids /\ events' = <<>>
        /\ UNCHANGED <<shell, batch, command>>
        /\ unended' = (unended \/ \E i \in DOMAIN events : events[i].kind = "complete")
    BY <1>0, <1>3 DEF Restart, HookState
  <2>2. Waits' => Waits BY <2>1 DEF Waits
  <2>3. CompleteLast => unended' BY <2>1 DEF CompleteLast
  <2>4. CASE CompleteLast BY <2>3, <2>4 DEF EndKnown
  <2>5. CASE ~CompleteLast
    BY <2>1, <2>2, <2>5, EndStays DEF shell, Ends, Running, IsCurrent
  <2> QED BY <2>4, <2>5
<1>4. CASE Listen
  BY <1>0, <1>2, <1>4 DEF Listen, HookState, link, history
<1>5. CASE \E epoch \in asked : Answer(epoch) BY <1>2, <1>5 DEF Answer, history
<1>6. ASSUME NEW reply \in answers, Receive(reply) PROVE EndKnown'
  BY <1>0, <1>2, <1>6, LoadedWaits DEF Receive
<1>7. CASE FlushTimer BY <1>0, <1>2, <1>7, FlushWaits DEF FlushTimer, link, history
<1>8. ASSUME NEW b \in Batch, Refresh(b) PROVE EndKnown'
  <2>1. CASE enabled = {} BY <1>8, <2>1 DEF Refresh, EndKnown
  <2>2. CASE enabled # {}
    <3>1. Ends(b)' BY <1>8, <2>2, StartEnds DEF Refresh, shell
    <3> QED BY <3>1 DEF EndKnown, WillEnd
  <2> QED BY <2>1, <2>2
<1> QED BY <1>1, <1>3, <1>4, <1>5, <1>6, <1>7, <1>8, EndBatch, EndCommand, EndDeliver
        DEF Next, HookStep

\* A surface that has got everything there was does not wait for the end of a refresh,
\* whatever superseded what, for any number of providers, batches and commands.
THEOREM WaitingEnds == Spec => []SettledIdle
<1>1. Init => HasOwner /\ EndKnown
  BY DEF Init, HasOwner, EndKnown, Waits, Fresh
<1>2. ASSUME Parts, EndKnown PROVE SettledIdle
  <2> SUFFICES ASSUME Quiet, ~unended, Waits PROVE FALSE
    BY <1>2 DEF SettledIdle, Waits, Parts, HookTyped, HookState
  <2>1. WillEnd BY <1>2 DEF EndKnown
  <2>2. ~CompleteLast BY DEF CompleteLast, Quiet
  <2>3. \A b \in Batch : ~Ends(b) BY DEF Quiet, Ends, Running
  <2>4. \A c \in Command : command[c].owed = {} BY DEF Quiet, IdleCommand
  <2> QED BY <2>1, <2>2, <2>3, <2>4 DEF WillEnd
<1> QED BY <1>1, <1>2, TypeInit, TypeStep, OwnerStep, EndStep, PTL DEF Spec

(***************************************************************************)
(* What the surface shows in the end                                       *)
(***************************************************************************)

\* The cached value of p is yet to be emitted.
DueFromBatch(p) == \E b \in Batch : batch[b].owed[p] = cache[p]
DueFromCommand(p) ==
    \E c \in Command : /\ command[c].at = "placeholder" /\ command[c].provider = {p}
                       /\ command[c].version = cache[p]
Due(p) == DueFromBatch(p) \/ DueFromCommand(p)

\* It is the last one on its way to the surface.
UpdateOf(event, p) == event.kind = "updated" /\ event.provider = p
Coming(p) ==
    \E i \in DOMAIN events :
       /\ UpdateOf(events[i], p) /\ events[i].version = cache[p]
       /\ \A j \in DOMAIN events : j > i /\ UpdateOf(events[j], p) => events[j].version = cache[p]
NoneComing(p) == \A i \in DOMAIN events : ~UpdateOf(events[i], p)

\* The surface has it, or will read it, and no reply on its way writes over it.
Replies == {reply \in answers : reply.epoch = hook.epoch}
Shown(p) ==
    /\ hook.view[p] = cache[p]
    /\ hook.epoch # hook.initial => \A reply \in Replies : reply.values[p] \in {0, cache[p]}
Held(p) ==
    \/ hook.pending[p] = cache[p]
    \/ /\ hook.pending[p] = 0
       /\ \/ hook.epoch \in asked
          \/ \E reply \in Replies : reply.values[p] = cache[p]
          \/ Shown(p)
Arrives(p) == Coming(p) \/ (NoneComing(p) /\ Held(p))
Live(p) == cache[p] # 0 => Due(p) \/ Arrives(p)

\* A surface that does not listen has nothing on its way or queued.
Deaf == ~hook.listening => events = <<>> /\ hook.pending = Nothing

\* Only a batch that fetches owes events.
Owes == \A b \in Batch : batch[b].at # "fetch" => batch[b].owed = Nothing

\* There is one request of an epoch or one reply to it.
Once ==
    /\ \A e \in asked : e <= hook.epoch
    /\ \A reply \in answers : reply.epoch <= hook.epoch /\ reply.epoch \notin asked
    /\ \A r, s \in answers : r.epoch = s.epoch => r = s

\* A reload lasts until its reply is there, and no timer runs meanwhile.
Reloads ==
    /\ hook.reloading => ~hook.timer
    /\ hook.epoch # hook.initial /\ (hook.epoch \in asked \/ Replies # {}) => hook.reloading

\* Versions of a provider go up, except for those that are pruned.
Newest ==
    /\ \A p \in Provider : cache[p] <= written
    /\ \A reply \in answers, p \in Provider :
          reply.values[p] <= written /\ (cache[p] # 0 => reply.values[p] <= cache[p])

\* SettledViewCurrent is not inductive: until everything has arrived, the cached value of
\* a provider that is not behind is owed, on its way, queued, to be read or shown.
Current == \A p \in Provider \ stale : Live(p)
ViewInv == Deaf /\ Owes /\ Once /\ Reloads /\ Newest /\ Current

LEMMA FlushResult ==
    ASSUME NEW h \in HookState
    PROVE  LET k == Flush(h) IN
           /\ k.view = Merge(h.view, h.pending) /\ k.pending = Nothing /\ k.timer = FALSE
           /\ k.reloading = h.reloading /\ k.listening = h.listening
           /\ k.epoch = h.epoch /\ k.initial = h.initial
BY DEF Flush, HookState

LEMMA LoadedResult ==
    ASSUME NEW h \in HookState, NEW reply \in Reply
    PROVE  LET k == Loaded(h, reply) IN
           /\ k.listening = h.listening /\ k.epoch = h.epoch /\ k.initial = h.initial
           /\ reply.epoch # h.epoch => k = h
           /\ reply.epoch = h.epoch /\ h.epoch = h.initial =>
                 /\ k.view = Merge(h.view, reply.values) /\ k.pending = h.pending
                 /\ k.timer = h.timer /\ k.reloading = h.reloading
           /\ reply.epoch = h.epoch /\ h.epoch # h.initial =>
                 /\ k.view = Merge(Merge(h.view, reply.values), h.pending)
                 /\ k.pending = Nothing /\ k.timer = FALSE /\ k.reloading = FALSE
<1> DEFINE view == Merge(h.view, reply.values)
<1>1. view \in Values BY MergeTyped DEF HookState, Reply
<1> HIDE DEF view
<1> DEFINE loaded == [h EXCEPT !.view = view]
           ended == [loaded EXCEPT !.reloading = FALSE]
<1>2. /\ loaded \in HookState /\ loaded.view = view /\ loaded.pending = h.pending
      /\ loaded.timer = h.timer /\ loaded.reloading = h.reloading
      /\ loaded.listening = h.listening /\ loaded.epoch = h.epoch /\ loaded.initial = h.initial
  BY <1>1 DEF HookState
<1>3. Loaded(h, reply) = IF reply.epoch # h.epoch THEN h
                         ELSE IF reply.epoch = h.initial THEN loaded ELSE Flush(ended)
  BY DEF Loaded, loaded, ended, view
<1> HIDE DEF loaded
<1>4. /\ ended \in HookState /\ ended.view = view /\ ended.pending = h.pending
      /\ ended.reloading = FALSE
      /\ ended.listening = h.listening /\ ended.epoch = h.epoch /\ ended.initial = h.initial
  BY <1>2 DEF HookState
<1> HIDE DEF ended
<1>5. LET k == Flush(ended) IN
      /\ k.view = Merge(view, h.pending) /\ k.pending = Nothing /\ k.timer = FALSE
      /\ k.reloading = FALSE
      /\ k.listening = h.listening /\ k.epoch = h.epoch /\ k.initial = h.initial
  BY <1>4, FlushResult
<1>6. CASE reply.epoch # h.epoch BY <1>3, <1>6
<1>7. CASE reply.epoch = h.epoch /\ h.epoch = h.initial
  <2>1. Loaded(h, reply) = loaded BY <1>3, <1>7
  <2> QED BY <1>2, <1>7, <2>1 DEF view
<1>8. CASE reply.epoch = h.epoch /\ h.epoch # h.initial
  <2>1. Loaded(h, reply) = Flush(ended) BY <1>3, <1>8
  <2> QED BY <1>5, <1>8, <2>1 DEF view
<1> QED BY <1>6, <1>7, <1>8

\* What the four listeners do to the parts of the hook that a view depends on.
SameHook ==
    /\ hook'.view = hook.view /\ hook'.pending = hook.pending /\ hook'.timer = hook.timer
    /\ hook'.reloading = hook.reloading /\ hook'.listening = hook.listening
    /\ hook'.epoch = hook.epoch /\ hook'.initial = hook.initial
Flushed ==
    /\ hook'.view = Merge(hook.view, hook.pending) /\ hook'.pending = Nothing
    /\ hook'.timer = FALSE
    /\ hook'.reloading = hook.reloading /\ hook'.listening = hook.listening
    /\ hook'.epoch = hook.epoch /\ hook'.initial = hook.initial
Queued(p, version) ==
    /\ hook'.pending = [hook.pending EXCEPT ![p] = version]
    /\ hook'.timer = (hook.timer \/ ~hook.reloading)
    /\ hook'.view = hook.view
    /\ hook'.reloading = hook.reloading /\ hook'.listening = hook.listening
    /\ hook'.epoch = hook.epoch /\ hook'.initial = hook.initial
Reloading ==
    /\ hook'.epoch = hook.epoch + 1 /\ hook'.reloading = TRUE /\ hook'.timer = FALSE
    /\ hook'.pending = Nothing
    /\ hook'.view = hook.view /\ hook'.listening = hook.listening
    /\ hook'.initial = hook.initial

LEMMA DeliverResult ==
    ASSUME Parts, Deliver
    PROVE  LET event == events[1] IN
           \/ /\ event.kind = "updated" /\ event.provider \in Provider
              /\ Queued(event.provider, event.version) /\ asked' = asked
           \/ /\ event.kind = "settings" /\ Reloading
              /\ asked' = asked \cup {hook.epoch + 1}
           \/ event.kind = "started" /\ SameHook /\ asked' = asked
           \/ event.kind = "complete" /\ hook.reloading /\ SameHook /\ asked' = asked
           \/ event.kind = "complete" /\ ~hook.reloading /\ Flushed /\ asked' = asked
<1>0. hook \in HookState /\ hook.pending \in Values /\ events \in Seq(Event) /\ events # <<>>
  BY DEF Parts, HookTyped, LinkTyped, HookState, Deliver
<1>1. Head(events) = events[1] /\ events[1] \in Event BY <1>0
<1> DEFINE event == events[1]
<1>2. ASSUME NEW p, NEW version, OnUpdated(p, version)
      PROVE  Queued(p, version) /\ asked' = asked
  BY <1>0, <1>2 DEF OnUpdated, Queued, HookState
<1>3. ASSUME OnSettings PROVE Reloading /\ asked' = asked \cup {hook.epoch + 1}
  BY <1>0, <1>3 DEF OnSettings, Reloading, HookState
<1>4. ASSUME NEW ids, OnStarted(ids) PROVE SameHook /\ asked' = asked
  BY <1>0, <1>4 DEF OnStarted, SameHook, HookState
<1>5. ASSUME OnComplete
      PROVE  (IF hook.reloading THEN SameHook ELSE Flushed) /\ asked' = asked
  <2> DEFINE h == IF hook.reloading THEN hook ELSE Flush(hook)
  <2>1. h \in HookState BY <1>0, FlushTyped
  <2>2. hook' = [h EXCEPT !.refreshing = FALSE, !.ids = {}] /\ asked' = asked
    BY <1>5 DEF OnComplete
  <2> HIDE DEF h
  <2>3. /\ hook'.view = h.view /\ hook'.pending = h.pending /\ hook'.timer = h.timer
        /\ hook'.reloading = h.reloading /\ hook'.listening = h.listening
        /\ hook'.epoch = h.epoch /\ hook'.initial = h.initial
    BY <2>1, <2>2 DEF HookState
  <2>4. CASE hook.reloading BY <2>2, <2>3, <2>4 DEF h, SameHook
  <2>5. CASE ~hook.reloading BY <1>0, <2>2, <2>3, <2>5, FlushResult DEF h, Flushed
  <2> QED BY <2>4, <2>5
<1>6. CASE event.kind = "updated"
  <2>1. event.provider \in Provider BY <1>1, <1>6 DEF Event
  <2>2. OnUpdated(event.provider, event.version) BY <1>1, <1>6 DEF Deliver
  <2> QED BY <1>2, <1>6, <2>1, <2>2
<1>7. CASE event.kind = "settings" BY <1>1, <1>3, <1>7 DEF Deliver
<1>8. CASE event.kind = "started" BY <1>1, <1>4, <1>8 DEF Deliver
<1>9. CASE event.kind = "complete"
  <2>1. OnComplete BY <1>1, <1>9 DEF Deliver
  <2> QED BY <1>5, <1>9, <2>1
<1> QED BY <1>1, <1>6, <1>7, <1>8, <1>9 DEF Event

\* What a step of the shell does to the link and to the hook.
LEMMA ShellLink ==
    ASSUME \/ \E b \in Batch : BatchStep(b)
           \/ \E c \in Command : CommandStep(c)
    PROVE  /\ UNCHANGED <<asked, answers, hook>>
           /\ events' = events \/ hook.listening
BY DEF BatchStep, StartElsewhere, Reserve, Reject, Announce, Publish, Tell, Finish, Complete,
       CommandStep, UpdateSettings, ChangePresentation, ChangeAccount, TellPlaceholder,
       TellSettings, FollowUp, EmitUpdated, Emit, link

LEMMA RestartResult ==
    ASSUME Parts, Restart
    PROVE  /\ hook'.epoch = hook.epoch + 1 /\ hook'.initial = hook.epoch + 1
           /\ hook'.reloading = FALSE /\ hook'.timer = FALSE /\ hook'.pending = Nothing
           /\ events' = <<>> /\ asked' = {hook.epoch + 1} /\ answers' = {}
           /\ UNCHANGED <<cache, batch, command, written>>
BY DEF Parts, HookTyped, HookState, Restart, shell

\* A step of the surface that changes nothing a view depends on.
LEMMA ListenResult ==
    ASSUME Parts, Listen
    PROVE  /\ hook'.view = hook.view /\ hook'.pending = hook.pending /\ hook'.timer = hook.timer
           /\ hook'.reloading = hook.reloading /\ hook'.listening = TRUE
           /\ hook'.epoch = hook.epoch /\ hook'.initial = hook.initial
           /\ UNCHANGED <<cache, batch, command, written, events, asked, answers, stale>>
BY DEF Parts, HookTyped, HookState, Listen, shell, link, counters, history

LEMMA RefreshResult ==
    ASSUME Parts, NEW b \in Batch, Refresh(b)
    PROVE  /\ SameHook /\ UNCHANGED <<cache, command, written, events, asked, answers, stale>>
           /\ batch' = batch \/ \E ids : Start(b, TRUE, ids)
BY DEF Parts, HookTyped, HookState, Refresh, SameHook, shell, link

LEMMA TimerResult ==
    ASSUME Parts, FlushTimer
    PROVE  /\ hook.timer /\ Flushed
           /\ UNCHANGED <<cache, batch, command, written, events, asked, answers, stale>>
BY FlushResult DEF Parts, HookTyped, FlushTimer, Flushed, shell, link, counters, history

LEMMA DeafStep == ASSUME Parts, Deaf, [Next]_vars PROVE Deaf'
<1>0. hook \in HookState /\ answers \subseteq Reply BY DEF Parts, HookTyped, LinkTyped
<1>1. CASE UNCHANGED vars BY <1>1 DEF vars, link, Deaf
<1>2. CASE \/ \E b \in Batch : BatchStep(b)
           \/ \E c \in Command : CommandStep(c)
  BY <1>2, ShellLink DEF Deaf
<1>3. CASE Restart BY <1>3, RestartResult DEF Deaf
<1>4. CASE Listen BY <1>4, ListenResult DEF Deaf
<1>5. CASE \E epoch \in asked : Answer(epoch) BY <1>5 DEF Answer, Deaf
<1>6. ASSUME NEW reply \in answers, Receive(reply) PROVE Deaf'
  <2>1. hook' = Loaded(hook, reply) /\ events' = events BY <1>6 DEF Receive
  <2> QED BY <1>0, <2>1, LoadedResult DEF Deaf
<1>7. CASE Deliver
  <2>1. hook.listening BY <1>7 DEF Deaf, Deliver
  <2>2. hook'.listening
    BY <1>7, <2>1, DeliverResult DEF Queued, Reloading, SameHook, Flushed
  <2> QED BY <2>2 DEF Deaf
<1>8. CASE FlushTimer BY <1>8, TimerResult DEF Deaf, Flushed
<1>9. ASSUME NEW b \in Batch, Refresh(b) PROVE Deaf'
  BY <1>9, RefreshResult DEF Deaf, SameHook
<1> QED BY <1>1, <1>2, <1>3, <1>4, <1>5, <1>6, <1>7, <1>8, <1>9 DEF Next, HookStep

\* A batch that begins, is rejected or ends owes nothing before and after.
Turns(b) ==
    \/ \E force, ids : Start(b, force, ids)
    \/ Reserve(b) \/ Reject(b) \/ Announce(b) \/ Finish(b) \/ Complete(b)

LEMMA OwedKept ==
    ASSUME Parts, Owes, NEW b \in Batch, Turns(b)
    PROVE  /\ \A a \in Batch : batch'[a].owed = batch[a].owed
           /\ Owes'
<1>0. batch \in [Batch -> BatchState] /\ batch[b] \in BatchState /\ IdleBatch.owed = Nothing
  BY DEF Parts, BatchTyped, IdleBatch
<1>1. ASSUME \A a \in Batch \ {b} : batch'[a] = batch[a],
             batch[b].owed = Nothing, batch'[b].owed = Nothing
      PROVE  (\A a \in Batch : batch'[a].owed = batch[a].owed) /\ Owes'
  BY <1>1 DEF Owes
<1>2. \A a \in Batch \ {b} : batch'[a] = batch[a]
  BY <1>0 DEF Turns, Start, Reserve, Reject, Announce, Finish, Complete
<1>3. batch[b].owed = Nothing
  BY DEF Turns, Owes, Start, Reserve, Reject, Announce, Finish, Complete
<1>4. ASSUME NEW force, NEW ids, Start(b, force, ids) PROVE batch'[b].owed = Nothing
  <2>1. batch'[b] = [IdleBatch EXCEPT !.at = "reserve", !.force = force,
                                      !.expected = generation, !.ids = ids, !.todo = ids]
    BY <1>0, <1>4 DEF Start
  <2> QED BY <2>1 DEF IdleBatch
<1>5. ASSUME Reserve(b) \/ Announce(b) PROVE batch'[b].owed = Nothing
  BY <1>0, <1>3, <1>5 DEF Reserve, Announce, BatchState
<1>6. ASSUME Reject(b) \/ Complete(b) PROVE batch'[b].owed = Nothing
  BY <1>0, <1>6 DEF Reject, Complete
<1>7. ASSUME Finish(b) PROVE batch'[b].owed = Nothing
  <2>1. batch'[b] = IF IsCurrent(b) THEN [batch[b] EXCEPT !.at = "complete"] ELSE IdleBatch
    BY <1>0, <1>7 DEF Finish
  <2> QED BY <1>0, <1>3, <2>1 DEF BatchState
<1> QED BY <1>1, <1>2, <1>3, <1>4, <1>5, <1>6, <1>7 DEF Turns

LEMMA OwesStep == ASSUME Parts, Owes, [Next]_vars PROVE Owes'
<1>0. batch \in [Batch -> BatchState] BY DEF Parts, BatchTyped
<1>1. CASE batch' = batch BY <1>1 DEF Owes
<1>2. ASSUME NEW b \in Batch, BatchStep(b) PROVE Owes'
  <2>1. ASSUME NEW p \in Provider, Publish(b, p) PROVE Owes'
    <3>1. batch'[b].at = "fetch" /\ \A a \in Batch \ {b} : batch'[a] = batch[a]
      BY <1>0, <2>1 DEF Publish, BatchState
    <3> QED BY <3>1 DEF Owes
  <2>2. ASSUME NEW p \in Provider, Tell(b, p) PROVE Owes'
    <3>1. batch'[b].at = batch[b].at /\ \A a \in Batch \ {b} : batch'[a] = batch[a]
      BY <1>0, <2>2 DEF Tell, BatchState
    <3>2. batch[b].owed # Nothing BY <2>2 DEF Tell, Nothing
    <3> QED BY <3>1, <3>2 DEF Owes
  <2> QED BY <1>2, <2>1, <2>2, OwedKept DEF BatchStep, StartElsewhere, Turns
<1>3. CASE \E c \in Command : CommandStep(c)
  BY <1>1, <1>3, OwedKept DEF CommandStep, UpdateSettings, ChangePresentation, ChangeAccount,
              TellPlaceholder, TellSettings, FollowUp, StartAll, Turns
<1>4. CASE HookStep
  <2>1. ASSUME NEW b \in Batch, Refresh(b) PROVE Owes'
    BY <1>1, <2>1, RefreshResult, OwedKept DEF Turns
  <2> QED BY <1>1, <1>4, <2>1 DEF HookStep, Restart, Listen, Answer, Receive, Deliver, FlushTimer
<1> QED BY <1>1, <1>2, <1>3, <1>4 DEF Next, vars

LEMMA OnceStep == ASSUME Parts, Once, [Next]_vars PROVE Once'
<1>0. /\ hook \in HookState /\ hook.epoch \in Nat /\ asked \subseteq Nat /\ answers \subseteq Reply
      /\ \A reply \in answers : reply.epoch \in Nat
  BY DEF Parts, HookTyped, LinkTyped, HookState, Reply
<1>1. ASSUME hook'.epoch = hook.epoch, asked' = asked, answers' \subseteq answers PROVE Once'
  BY <1>1 DEF Once
<1>2. CASE UNCHANGED vars BY <1>1, <1>2 DEF vars, link
<1>3. CASE \/ \E b \in Batch : BatchStep(b)
           \/ \E c \in Command : CommandStep(c)
  BY <1>1, <1>3, ShellLink
<1>4. CASE Restart BY <1>0, <1>4, RestartResult DEF Once
<1>5. CASE Listen BY <1>1, <1>5, ListenResult
<1>6. ASSUME NEW epoch \in asked, Answer(epoch) PROVE Once'
  <2> DEFINE new == [epoch |-> epoch, values |-> cache]
  <2>1. asked' = asked \ {epoch} /\ answers' = answers \cup {new} /\ hook' = hook
    BY <1>6 DEF Answer
  <2>2. new.epoch = epoch OBVIOUS
  <2>3. epoch <= hook.epoch /\ \A reply \in answers : reply.epoch # epoch BY DEF Once
  <2> HIDE DEF new
  <2> QED BY <2>1, <2>2, <2>3 DEF Once
<1>7. ASSUME NEW reply \in answers, Receive(reply) PROVE Once'
  <2>1. hook' = Loaded(hook, reply) /\ asked' = asked /\ answers' \subseteq answers
    BY <1>7 DEF Receive
  <2> QED BY <1>0, <1>1, <2>1, LoadedResult
<1>8. CASE Deliver
  <2>1. answers' = answers BY <1>8 DEF Deliver
  <2>2. CASE hook'.epoch = hook.epoch /\ asked' = asked BY <1>1, <2>1, <2>2
  <2>3. CASE hook'.epoch = hook.epoch + 1 /\ asked' = asked \cup {hook.epoch + 1}
    <3>1. \A e \in asked' : e <= hook'.epoch BY <1>0, <2>3 DEF Once
    <3>2. \A reply \in answers : reply.epoch <= hook.epoch /\ reply.epoch \notin asked
      BY DEF Once
    <3>3. \A reply \in answers' : reply.epoch <= hook'.epoch /\ reply.epoch \notin asked'
      BY <1>0, <2>1, <2>3, <3>2
    <3> QED BY <2>1, <3>1, <3>3 DEF Once
  <2> QED BY <1>8, <2>2, <2>3, DeliverResult DEF Queued, Reloading, SameHook, Flushed
<1>9. CASE FlushTimer BY <1>1, <1>9, TimerResult DEF Flushed
<1>10. ASSUME NEW b \in Batch, Refresh(b) PROVE Once'
  BY <1>1, <1>10, RefreshResult DEF SameHook
<1> QED BY <1>2, <1>3, <1>4, <1>5, <1>6, <1>7, <1>8, <1>9, <1>10 DEF Next, HookStep

\* The reply to the newest request is the only one, and the request is not out.
LEMMA OnlyReply ==
    ASSUME Once, NEW reply \in answers, reply.epoch = hook.epoch
    PROVE  hook.epoch \notin asked /\ \A r \in Replies : r = reply
BY DEF Once, Replies

LEMMA ReloadsStep == ASSUME Parts, Drained, Once, Reloads, [Next]_vars PROVE Reloads'
<1>0. /\ hook \in HookState /\ hook.epoch \in Nat /\ hook.initial \in Nat
      /\ asked \subseteq Nat /\ answers \subseteq Reply
  BY DEF Parts, HookTyped, LinkTyped, HookState, Reply
<1> USE DEF Replies
<1>1. ASSUME hook'.epoch = hook.epoch, hook'.initial = hook.initial,
             hook'.reloading = hook.reloading, hook'.timer => hook.timer \/ ~hook.reloading,
             asked' \subseteq asked, answers' \subseteq answers
      PROVE  Reloads'
  BY <1>1 DEF Reloads
<1>2. CASE UNCHANGED vars BY <1>1, <1>2 DEF vars, link
<1>3. CASE \/ \E b \in Batch : BatchStep(b)
           \/ \E c \in Command : CommandStep(c)
  BY <1>1, <1>3, ShellLink
<1>4. CASE Restart BY <1>4, RestartResult DEF Reloads
<1>5. CASE Listen BY <1>1, <1>5, ListenResult
<1>6. ASSUME NEW epoch \in asked, Answer(epoch) PROVE Reloads'
  <2> DEFINE new == [epoch |-> epoch, values |-> cache]
  <2>1. asked' = asked \ {epoch} /\ answers' = answers \cup {new} /\ hook' = hook
    BY <1>6 DEF Answer
  <2>2. new.epoch = epoch OBVIOUS
  <2> HIDE DEF new
  <2> QED BY <2>1, <2>2 DEF Reloads
<1>7. ASSUME NEW reply \in answers, Receive(reply) PROVE Reloads'
  <2>1. hook' = Loaded(hook, reply) /\ asked' = asked /\ answers' = answers \ {reply}
    BY <1>7 DEF Receive
  <2>2. reply \in Reply BY <1>0
  <2>3. CASE reply.epoch # hook.epoch
    <3>1. hook' = hook BY <1>0, <2>1, <2>2, <2>3, LoadedResult
    <3> QED BY <1>1, <2>1, <3>1
  <2>4. CASE reply.epoch = hook.epoch /\ hook.epoch = hook.initial
    <3>1. /\ hook'.epoch = hook.epoch /\ hook'.initial = hook.initial
          /\ hook'.timer = hook.timer /\ hook'.reloading = hook.reloading
      BY <1>0, <2>1, <2>2, <2>4, LoadedResult
    <3> QED BY <1>1, <2>1, <3>1
  <2>5. CASE reply.epoch = hook.epoch /\ hook.epoch # hook.initial
    <3>1. hook'.epoch = hook.epoch /\ hook'.reloading = FALSE
      BY <1>0, <2>1, <2>2, <2>5, LoadedResult
    <3>2. hook.epoch \notin asked' /\ \A r \in answers' : r.epoch # hook.epoch
      BY <2>1, <2>5, OnlyReply
    <3> QED BY <3>1, <3>2 DEF Reloads
  <2> QED BY <2>3, <2>4, <2>5
<1>8. CASE Deliver
  <2>1. answers' = answers BY <1>8 DEF Deliver
  <2>2. CASE Reloading BY <2>2 DEF Reloading, Reloads
  <2>3. CASE SameHook /\ asked' = asked BY <1>1, <2>1, <2>3 DEF SameHook
  <2>4. CASE Flushed /\ asked' = asked BY <1>1, <2>1, <2>4 DEF Flushed
  <2>5. ASSUME NEW p, NEW version, Queued(p, version), asked' = asked PROVE Reloads'
    BY <1>1, <2>1, <2>5 DEF Queued
  <2> QED BY <1>8, <2>2, <2>3, <2>4, <2>5, DeliverResult
<1>9. CASE FlushTimer BY <1>1, <1>9, TimerResult DEF Flushed
<1>10. ASSUME NEW b \in Batch, Refresh(b) PROVE Reloads'
  BY <1>1, <1>10, RefreshResult DEF SameHook
<1> QED BY <1>2, <1>3, <1>4, <1>5, <1>6, <1>7, <1>8, <1>9, <1>10 DEF Next, HookStep

\* A version is written, a provider pruned, or neither.
LEMMA CacheStep ==
    ASSUME Parts, [Next]_vars
    PROVE  \/ /\ written' = written /\ \A p \in Provider : cache'[p] \in {cache[p], 0}
           \/ /\ written' = written + 1 /\ answers' = answers
              /\ \E q \in Provider : cache' = [cache EXCEPT ![q] = written + 1]
<1>0. cache \in Values BY DEF Parts, ShellTyped
<1>1. CASE cache' = cache /\ written' = written BY <1>1
<1>2. ASSUME NEW b \in Batch, BatchStep(b),
             ~(cache' = cache /\ written' = written)
      PROVE  \/ Announce(b) \/ \E p \in Provider : Publish(b, p)
  BY <1>2 DEF BatchStep, StartElsewhere, Reserve, Reject, Tell, Finish, Complete, shell, counters
<1>3. ASSUME NEW b \in Batch, Announce(b)
      PROVE  written' = written /\ \A p \in Provider : cache'[p] \in {cache[p], 0}
  BY <1>3 DEF Announce, Prune, counters
<1>4. ASSUME NEW b \in Batch, NEW p \in Provider, Publish(b, p)
      PROVE  /\ written' = written + 1 /\ answers' = answers
             /\ cache' = [cache EXCEPT ![p] = written + 1]
  BY <1>4 DEF Publish, Write, link
<1>5. ASSUME NEW c \in Command, CommandStep(c),
             ~(cache' = cache /\ written' = written)
      PROVE  UpdateSettings(c) \/ \E p \in Provider : ChangeAccount(c, p)
  BY <1>5 DEF CommandStep, ChangePresentation, TellPlaceholder, TellSettings, FollowUp, shell,
              counters
<1>6. ASSUME NEW c \in Command, UpdateSettings(c)
      PROVE  written' = written /\ \A p \in Provider : cache'[p] \in {cache[p], 0}
  BY <1>6 DEF UpdateSettings
<1>7. ASSUME NEW c \in Command, NEW p \in Provider, ChangeAccount(c, p)
      PROVE  /\ written' = written + 1 /\ answers' = answers
             /\ cache' = [cache EXCEPT ![p] = written + 1]
  BY <1>7 DEF ChangeAccount, Write, link
<1>8. CASE HookStep
  BY <1>1, <1>8 DEF HookStep, Restart, Listen, Answer, Receive, Deliver, FlushTimer, Refresh,
                    shell, counters
<1>9. CASE UNCHANGED vars BY <1>1, <1>9 DEF vars, shell, counters
<1> QED BY <1>1, <1>2, <1>3, <1>4, <1>5, <1>6, <1>7, <1>8, <1>9 DEF Next

\* Where answers come from.
LEMMA AnswerStep ==
    ASSUME Parts, [Next]_vars
    PROVE  \/ answers' \subseteq answers
           \/ /\ cache' = cache /\ written' = written
              /\ \E epoch \in asked : answers' = answers \cup {[epoch |-> epoch, values |-> cache]}
<1>1. CASE UNCHANGED vars BY <1>1 DEF vars, link
<1>2. CASE \/ \E b \in Batch : BatchStep(b)
           \/ \E c \in Command : CommandStep(c)
  BY <1>2, ShellLink
<1>3. CASE HookStep
  BY <1>3 DEF HookStep, Restart, Listen, Answer, Receive, Deliver, FlushTimer, Refresh,
              shell, counters, link
<1> QED BY <1>1, <1>2, <1>3 DEF Next

LEMMA NewestStep == ASSUME Parts, Newest, [Next]_vars PROVE Newest'
<1>0. /\ cache \in Values /\ written \in Nat /\ \A p \in Provider : cache[p] \in Nat
      /\ \A reply \in answers, p \in Provider : reply.values[p] \in Nat
  BY SurfaceAssumption DEF Parts, ShellTyped, CountersTyped, LinkTyped, Reply, Values, Version
<1>1. CASE answers' \subseteq answers /\ written' = written
           /\ \A p \in Provider : cache'[p] \in {cache[p], 0}
  BY <1>0, <1>1 DEF Newest
<1>2. ASSUME NEW q \in Provider, written' = written + 1, answers' \subseteq answers,
             cache' = [cache EXCEPT ![q] = written + 1]
      PROVE  Newest'
  <2>1. \A p \in Provider : cache'[p] \in {cache[p], written + 1} BY <1>0, <1>2 DEF Values
  <2>2. \A p \in Provider : cache'[p] <= written' BY <1>0, <1>2, <2>1 DEF Newest
  <2>3. ASSUME NEW reply \in answers', NEW p \in Provider
        PROVE  reply.values[p] <= written' /\ (cache'[p] # 0 => reply.values[p] <= cache'[p])
    <3>1. /\ reply.values[p] \in Nat /\ reply.values[p] <= written
          /\ cache[p] # 0 => reply.values[p] <= cache[p]
      BY <1>0, <1>2 DEF Newest
    <3> QED BY <1>0, <1>2, <2>1, <3>1
  <2> QED BY <2>2, <2>3 DEF Newest
<1>3. ASSUME NEW epoch \in asked, cache' = cache, written' = written,
             answers' = answers \cup {[epoch |-> epoch, values |-> cache]}
      PROVE  Newest'
  <2>1. [epoch |-> epoch, values |-> cache].values = cache OBVIOUS
  <2> QED BY <1>0, <1>3, <2>1 DEF Newest
<1> QED BY <1>1, <1>2, <1>3, CacheStep, AnswerStep

\* What keeps an owed value owed.
LEMMA DueStays ==
    ASSUME NEW p, cache'[p] = cache[p],
           \A b \in Batch : batch'[b].owed[p] = batch[b].owed[p],
           \A c \in Command :
              command[c].at = "placeholder" /\ command[c].provider = {p} => command'[c] = command[c]
    PROVE  Due(p) => Due(p)'
BY DEF Due, DueFromBatch, DueFromCommand

\* Nothing of p happens: the event, if there is one, is about something else.
LEMMA OtherEvent ==
    ASSUME Parts, NEW p, cache'[p] = cache[p],
           events' = events \/ \E event : Emit(event) /\ ~UpdateOf(event, p)
    PROVE  (Coming(p) => Coming(p)') /\ (NoneComing(p) => NoneComing(p)')
<1>1. CASE events' = events BY <1>1 DEF Coming, NoneComing
<1>2. ASSUME NEW event, events' = Append(events, event), ~UpdateOf(event, p)
      PROVE  (Coming(p) => Coming(p)') /\ (NoneComing(p) => NoneComing(p)')
  <2>1. /\ \A i \in DOMAIN events : i \in DOMAIN events' /\ events'[i] = events[i]
        /\ \A i \in DOMAIN events' : i \in DOMAIN events \/ events'[i] = event
    BY <1>2, Appended
  <2>2. \A i \in DOMAIN events' : UpdateOf(events'[i], p) => i \in DOMAIN events
    BY <1>2, <2>1
  <2>3. ASSUME Coming(p) PROVE Coming(p)'
    <3>1. PICK i \in DOMAIN events :
            /\ UpdateOf(events[i], p) /\ events[i].version = cache[p]
            /\ \A j \in DOMAIN events :
                  j > i /\ UpdateOf(events[j], p) => events[j].version = cache[p]
      BY <2>3 DEF Coming
    <3>2. /\ i \in DOMAIN events' /\ UpdateOf(events'[i], p) /\ events'[i].version = cache'[p]
          /\ \A j \in DOMAIN events' :
                j > i /\ UpdateOf(events'[j], p) => events'[j].version = cache'[p]
      BY <2>1, <2>2, <3>1
    <3> QED BY <3>2 DEF Coming, UpdateOf
  <2>4. ASSUME NoneComing(p) PROVE NoneComing(p)'
    <3>1. \A i \in DOMAIN events' : ~UpdateOf(events'[i], p)
      BY <2>1, <2>2, <2>4 DEF NoneComing
    <3> QED BY <3>1 DEF NoneComing, UpdateOf
  <2> QED BY <2>3, <2>4
<1> QED BY <1>1, <1>2 DEF Emit

LEMMA HeldStays ==
    ASSUME NEW p, cache'[p] = cache[p], UNCHANGED <<asked, answers>>,
           hook'.view = hook.view, hook'.pending[p] = hook.pending[p],
           hook'.epoch = hook.epoch, hook'.initial = hook.initial
    PROVE  Held(p) => Held(p)'
BY DEF Held, Shown, Replies

\* A step of the shell that neither writes p nor announces it.
LEMMA LiveStays ==
    ASSUME Parts, NEW p, Live(p), cache'[p] = cache[p] \/ cache'[p] = 0,
           UNCHANGED <<asked, answers, hook>>,
           events' = events \/ \E event : Emit(event) /\ ~UpdateOf(event, p),
           \A b \in Batch : batch'[b].owed[p] = batch[b].owed[p],
           \A c \in Command :
              command[c].at = "placeholder" /\ command[c].provider = {p} => command'[c] = command[c]
    PROVE  Live(p)'
<1>1. CASE cache'[p] = 0 BY <1>1 DEF Live
<1>2. CASE cache'[p] = cache[p]
  <2>1. (Coming(p) => Coming(p)') /\ (NoneComing(p) => NoneComing(p)') BY <1>2, OtherEvent
  <2>2. (Due(p) => Due(p)') /\ (Held(p) => Held(p)') BY <1>2, DueStays, HeldStays
  <2> QED BY <1>2, <2>1, <2>2 DEF Live, Arrives
<1> QED BY <1>1, <1>2

\* A current value that is emitted, and not missed, is on its way or will be read.
LEMMA Told ==
    ASSUME Parts, Deaf, NEW p \in Provider, NEW version, EmitUpdated(p, version),
           p \notin stale', UNCHANGED <<cache, asked, answers, hook>>
    PROVE  Live(p)'
<1>1. version = cache[p] /\ ~Misses BY DEF EmitUpdated
<1> DEFINE event == [kind |-> "updated", provider |-> p, version |-> version]
<1>2. CASE hook.listening
  <2>1. event.kind = "updated" /\ event.provider = p /\ event.version = version OBVIOUS
  <2> HIDE DEF event
  <2>2. events' = Append(events, event) BY <1>2 DEF EmitUpdated, Emit, event
  <2> DEFINE n == Len(events) + 1
  <2>3. n \in DOMAIN events' /\ events'[n] = event /\ \A j \in DOMAIN events' : ~(j > n)
    BY <2>2, Appended
  <2> HIDE DEF n
  <2>4. Coming(p)' BY <1>1, <2>1, <2>3 DEF Coming, UpdateOf
  <2> QED BY <2>4 DEF Live, Arrives
<1>3. CASE ~hook.listening
  <2>1. events' = <<>> /\ hook.pending = Nothing BY <1>3 DEF Deaf, EmitUpdated, Emit
  <2>2. hook.epoch \in asked BY <1>1, <1>3 DEF Misses
  <2>3. NoneComing(p)' BY <2>1 DEF NoneComing
  <2>4. Held(p)' BY <2>1, <2>2 DEF Held, Nothing
  <2> QED BY <2>3, <2>4 DEF Live, Arrives
<1> QED BY <1>2, <1>3

LEMMA CurrentBatch ==
    ASSUME Parts, Deaf, Owes, Current, NEW b \in Batch, BatchStep(b) PROVE Current'
<1> SUFFICES ASSUME NEW p \in Provider, p \notin stale' PROVE Live(p)'
  BY DEF Current
<1>0. /\ batch \in [Batch -> BatchState] /\ batch[b] \in BatchState /\ cache \in Values
      /\ cache[p] \in Nat /\ UNCHANGED <<asked, answers, hook>>
      /\ \E a \in Batch : BatchStep(a)
  BY ShellLink DEF Parts, BatchTyped, ShellTyped, Values, Version
<1>1. ASSUME p \notin stale PROVE Live(p) BY <1>1 DEF Current
<1>2. ASSUME Turns(b), UNCHANGED <<command, stale>>, cache'[p] = cache[p] \/ cache'[p] = 0,
             events' = events \/ \E event : Emit(event) /\ event.kind # "updated"
      PROVE  Live(p)'
  <2>1. events' = events \/ \E event : Emit(event) /\ ~UpdateOf(event, p)
    BY <1>2 DEF UpdateOf
  <2> QED BY <1>0, <1>1, <1>2, <2>1, OwedKept, LiveStays
<1>3. CASE StartElsewhere(b)
  <2>1. PICK ids : Start(b, FALSE, ids) BY <1>3 DEF StartElsewhere
  <2>2. Turns(b) BY <2>1 DEF Turns
  <2> QED BY <1>2, <1>3, <2>2 DEF StartElsewhere, shell, link, history
<1>4. CASE Reserve(b) BY <1>2, <1>4 DEF Turns, Reserve, link, history
<1>5. CASE Reject(b) BY <1>2, <1>5 DEF Turns, Reject, shell, link, history
<1>6. CASE Announce(b)
  <2>1. cache'[p] = cache[p] \/ cache'[p] = 0 BY <1>6 DEF Announce, Prune
  <2>2. \E event : Emit(event) /\ event.kind # "updated" BY <1>6 DEF Announce
  <2> QED BY <1>2, <1>6, <2>1, <2>2 DEF Turns, Announce
<1>7. CASE Finish(b) BY <1>2, <1>7 DEF Turns, Finish, link, history
<1>8. CASE Complete(b)
  <2>1. \E event : Emit(event) /\ event.kind # "updated" BY <1>8 DEF Complete
  <2> QED BY <1>2, <1>8, <2>1 DEF Turns, Complete, shell
<1>9. ASSUME NEW q \in Provider, Publish(b, q) PROVE Live(p)'
  <2>1. /\ batch'[b].owed = [batch[b].owed EXCEPT ![q] = written + 1]
        /\ \A a \in Batch \ {b} : batch'[a] = batch[a]
        /\ cache' = [cache EXCEPT ![q] = written + 1]
    BY <1>0, <1>9 DEF Publish, Write, BatchState
  <2>2. batch[b].owed \in Values BY <1>0 DEF BatchState
  <2>3. UNCHANGED <<command, events, stale>> BY <1>9 DEF Publish, link, history
  <2>4. CASE p = q
    <3>1. batch'[b].owed[p] = cache'[p] BY <1>0, <2>1, <2>2, <2>4 DEF Values
    <3> QED BY <3>1 DEF Live, Due, DueFromBatch
  <2>5. CASE p # q
    <3>1. cache'[p] = cache[p] /\ \A a \in Batch : batch'[a].owed[p] = batch[a].owed[p]
      BY <1>0, <2>1, <2>2, <2>5 DEF Values
    <3> QED BY <1>0, <1>1, <2>3, <3>1, LiveStays
  <2> QED BY <2>4, <2>5
<1>10. ASSUME NEW q \in Provider, Tell(b, q) PROVE Live(p)'
  <2>1. /\ EmitUpdated(q, batch[b].owed[q]) /\ UNCHANGED <<cache, command>>
    BY <1>10 DEF Tell, shell
  <2>2. CASE p = q BY <1>0, <2>1, <2>2, Told
  <2>3. CASE p # q
    <3>1. /\ batch'[b].owed = [batch[b].owed EXCEPT ![q] = 0]
          /\ \A a \in Batch \ {b} : batch'[a] = batch[a]
      BY <1>0, <1>10 DEF Tell, BatchState
    <3>2. batch[b].owed \in Values BY <1>0 DEF BatchState
    <3>3. \A a \in Batch : batch'[a].owed[p] = batch[a].owed[p]
      BY <2>3, <3>1, <3>2 DEF Values
    <3>4. \E event : Emit(event) /\ ~UpdateOf(event, p)
      BY <2>1, <2>3 DEF EmitUpdated, UpdateOf
    <3>5. p \notin stale BY <2>1, <2>3 DEF EmitUpdated
    <3> QED BY <1>0, <1>1, <2>1, <3>3, <3>4, <3>5, LiveStays
  <2> QED BY <2>2, <2>3
<1> QED BY <1>3, <1>4, <1>5, <1>6, <1>7, <1>8, <1>9, <1>10 DEF BatchStep

LEMMA CurrentCommand ==
    ASSUME Parts, Deaf, Owes, Current, NEW c \in Command, CommandStep(c) PROVE Current'
<1> SUFFICES ASSUME NEW p \in Provider, p \notin stale' PROVE Live(p)'
  BY DEF Current
<1>0. /\ command \in [Command -> CommandState] /\ command[c] \in CommandState
      /\ cache \in Values /\ UNCHANGED <<asked, answers, hook>>
      /\ IdleCommand.at = "idle"
  BY ShellLink DEF Parts, CommandTyped, ShellTyped, IdleCommand
<1>1. ASSUME p \notin stale PROVE Live(p) BY <1>1 DEF Current
<1>2. ASSUME command[c].at # "placeholder" \/ command[c].provider # {p},
             \A d \in Command \ {c} : command'[d] = command[d],
             \A a \in Batch : batch'[a].owed = batch[a].owed, p \notin stale,
             cache'[p] = cache[p] \/ cache'[p] = 0,
             events' = events \/ \E event : Emit(event) /\ ~UpdateOf(event, p)
      PROVE  Live(p)'
  <2>1. \A d \in Command :
           command[d].at = "placeholder" /\ command[d].provider = {p} => command'[d] = command[d]
    BY <1>2
  <2> QED BY <1>0, <1>1, <1>2, <2>1, LiveStays
<1>3. CASE UpdateSettings(c)
  <2>1. /\ command[c].at # "placeholder" /\ \A d \in Command \ {c} : command'[d] = command[d]
        /\ cache'[p] = cache[p] \/ cache'[p] = 0
        /\ UNCHANGED <<batch, events, stale>>
    BY <1>0, <1>3 DEF UpdateSettings, BeginCommand, link, history
  <2> QED BY <1>2, <2>1
<1>4. CASE ChangePresentation(c)
  <2>1. /\ command[c].at # "placeholder" /\ \A d \in Command \ {c} : command'[d] = command[d]
        /\ UNCHANGED <<cache, batch, events, stale>>
    BY <1>0, <1>4 DEF ChangePresentation, BeginCommand, shell, link, history
  <2> QED BY <1>2, <2>1
<1>5. ASSUME NEW q \in Provider, ChangeAccount(c, q) PROVE Live(p)'
  <2>1. /\ command[c].at # "placeholder" /\ \A d \in Command \ {c} : command'[d] = command[d]
        /\ command'[c].at = "placeholder" /\ command'[c].provider = {q}
        /\ command'[c].version = written + 1
        /\ cache' = [cache EXCEPT ![q] = written + 1]
        /\ UNCHANGED <<batch, events, stale>>
    BY <1>0, <1>5 DEF ChangeAccount, BeginCommand, Write, link, history
  <2>2. CASE p = q
    <3>1. command'[c].version = cache'[p] BY <1>0, <2>1, <2>2 DEF Values
    <3> QED BY <2>1, <2>2, <3>1 DEF Live, Due, DueFromCommand
  <2>3. CASE p # q
    <3>1. cache'[p] = cache[p] BY <1>0, <2>1, <2>3 DEF Values
    <3> QED BY <1>2, <2>1, <3>1
  <2> QED BY <2>2, <2>3
<1>6. CASE TellPlaceholder(c)
  <2>1. PICK q \in command[c].provider : EmitUpdated(q, command[c].version)
    BY <1>6 DEF TellPlaceholder
  <2>2. /\ UNCHANGED <<cache, batch>> /\ \A d \in Command \ {c} : command'[d] = command[d]
    BY <1>0, <1>6 DEF TellPlaceholder, shell
  <2>3. CASE p = q BY <1>0, <2>1, <2>2, <2>3, Told
  <2>4. CASE p # q
    <3>1. command[c].provider # {p} /\ p \notin stale BY <2>1, <2>4 DEF EmitUpdated
    <3>2. \E event : Emit(event) /\ ~UpdateOf(event, p)
      BY <2>1, <2>4 DEF EmitUpdated, UpdateOf
    <3> QED BY <1>2, <2>2, <3>1, <3>2
  <2> QED BY <2>3, <2>4
<1>7. CASE TellSettings(c)
  <2>1. /\ command[c].at # "placeholder" /\ \A d \in Command \ {c} : command'[d] = command[d]
        /\ UNCHANGED <<cache, batch, stale>>
    BY <1>0, <1>7 DEF TellSettings, Paid, shell, history
  <2>2. \E event : Emit(event) /\ ~UpdateOf(event, p) BY <1>7 DEF TellSettings, UpdateOf
  <2> QED BY <1>2, <2>1, <2>2
<1>8. ASSUME NEW b \in Batch, FollowUp(c, b) PROVE Live(p)'
  <2>1. /\ command[c].at # "placeholder" /\ \A d \in Command \ {c} : command'[d] = command[d]
        /\ UNCHANGED <<cache, events, stale>>
    BY <1>0, <1>8 DEF FollowUp, Paid, shell, link
  <2>2. \A a \in Batch : batch'[a].owed = batch[a].owed
    BY <1>8, OwedKept DEF FollowUp, StartAll, Turns
  <2> QED BY <1>2, <2>1, <2>2
<1> QED BY <1>3, <1>4, <1>5, <1>6, <1>7, <1>8 DEF CommandStep

LEMMA MergeAt ==
    ASSUME NEW view, NEW values, NEW p \in Provider
    PROVE  Merge(view, values)[p] = IF values[p] # 0 THEN values[p] ELSE view[p]
BY DEF Merge

\* A flush shows what was queued; outside of a reload no reply can undo it.
LEMMA HeldFlush ==
    ASSUME Reloads, NEW p \in Provider, cache[p] # 0, Held(p), ~hook.reloading, Flushed,
           UNCHANGED <<cache, asked, answers>>
    PROVE  Held(p)'
<1>1. hook'.pending[p] = 0 BY DEF Flushed, Nothing
<1>2. hook'.view[p] = IF hook.pending[p] # 0 THEN hook.pending[p] ELSE hook.view[p]
  BY MergeAt DEF Flushed
<1>3. hook'.epoch = hook.epoch /\ hook'.initial = hook.initial BY DEF Flushed
<1>4. CASE hook.pending[p] = cache[p]
  <2>1. hook'.view[p] = cache'[p] BY <1>2, <1>4
  <2>2. hook.epoch # hook.initial => Replies = {} BY DEF Reloads
  <2>3. Replies' = Replies BY <1>3 DEF Replies
  <2>4. Shown(p)' BY <1>3, <2>1, <2>2, <2>3 DEF Shown
  <2> QED BY <1>1, <2>4 DEF Held
<1>5. CASE hook.pending[p] # cache[p]
  <2>1. hook.pending[p] = 0 BY <1>5 DEF Held
  <2>2. hook'.view[p] = hook.view[p] /\ hook'.pending[p] = hook.pending[p]
    BY <1>1, <1>2, <2>1
  <2> QED BY <1>1, <1>3, <1>5, <2>2 DEF Held, Shown, Replies
<1> QED BY <1>4, <1>5

LEMMA HeldDeliver ==
    ASSUME Parts, Once, Reloads, NEW p \in Provider, cache[p] # 0, Deliver,
           NoneComing(p), Held(p)
    PROVE  Held(p)'
<1>0. /\ hook.pending \in Values /\ UNCHANGED <<cache, answers>>
      /\ 1 \in DOMAIN events
  BY Removed DEF Parts, HookTyped, HookState, Deliver, shell
<1> DEFINE event == events[1]
<1>1. ~UpdateOf(event, p) BY <1>0 DEF NoneComing
<1>2. CASE event.kind = "updated" /\ Queued(event.provider, event.version) /\ asked' = asked
  <2>1. hook'.pending[p] = hook.pending[p]
    BY <1>0, <1>1, <1>2 DEF Queued, UpdateOf, Values
  <2> QED BY <1>0, <1>2, <2>1, HeldStays DEF Queued
<1>3. CASE Reloading /\ asked' = asked \cup {hook.epoch + 1}
  BY <1>3 DEF Reloading, Held, Nothing
<1>4. CASE SameHook /\ asked' = asked BY <1>0, <1>4, HeldStays DEF SameHook
<1>5. CASE ~hook.reloading /\ Flushed /\ asked' = asked BY <1>0, <1>5, HeldFlush
<1> QED BY <1>2, <1>3, <1>4, <1>5, DeliverResult

\* The event that is delivered is the last one of p and is queued, or the last one is
\* still to come.
LEMMA LiveDeliver ==
    ASSUME Parts, Once, Reloads, NEW p \in Provider, Live(p), Deliver PROVE Live(p)'
<1>0. /\ UNCHANGED <<cache, batch, command, answers>> /\ events # <<>>
      /\ events' = Tail(events) /\ hook.pending \in Values
  BY DEF Parts, HookTyped, HookState, Deliver, shell
<1>1. /\ Len(events) \in Nat \ {0} /\ DOMAIN events = 1..Len(events)
      /\ DOMAIN events' = 1..(Len(events) - 1)
      /\ \A i \in DOMAIN events' : events'[i] = events[i + 1]
  BY <1>0, Removed
<1> SUFFICES ASSUME cache[p] # 0, Arrives(p) PROVE Arrives(p)'
  BY <1>0 DEF Live, Due, DueFromBatch, DueFromCommand
<1>2. CASE NoneComing(p) /\ Held(p)
  <2>1. \A i \in DOMAIN events' : i + 1 \in DOMAIN events BY <1>1
  <2>2. NoneComing(p)' BY <1>1, <1>2, <2>1 DEF NoneComing, UpdateOf
  <2> QED BY <1>2, <2>2, HeldDeliver DEF Arrives
<1>3. CASE Coming(p)
  <2>1. PICK i \in DOMAIN events :
          /\ UpdateOf(events[i], p) /\ events[i].version = cache[p]
          /\ \A j \in DOMAIN events :
                j > i /\ UpdateOf(events[j], p) => events[j].version = cache[p]
    BY <1>3 DEF Coming
  <2>2. ASSUME NEW k \in DOMAIN events, k # 1, k >= i, UpdateOf(events[k], p)
        PROVE  Coming(p)'
    <3>1. k - 1 \in DOMAIN events' /\ events'[k - 1] = events[k]
      BY <1>1, <2>2
    <3>2. events[k].version = cache[p] BY <1>1, <2>1, <2>2
    <3>3. ASSUME NEW j \in DOMAIN events', j > k - 1, UpdateOf(events'[j], p)
          PROVE  events'[j].version = cache[p]
      <4>1. j + 1 \in DOMAIN events /\ j + 1 > i /\ events'[j] = events[j + 1]
        BY <1>1, <2>1, <2>2, <3>3
      <4> QED BY <2>1, <3>3, <4>1
    <3> QED BY <1>0, <2>2, <3>1, <3>2, <3>3 DEF Coming, UpdateOf
  <2>3. CASE \E k \in DOMAIN events : k # 1 /\ k >= i /\ UpdateOf(events[k], p)
    BY <2>2, <2>3 DEF Arrives
  <2>4. CASE ~ \E k \in DOMAIN events : k # 1 /\ k >= i /\ UpdateOf(events[k], p)
    <3>1. i = 1 BY <1>1, <2>1, <2>4
    <3>2. NoneComing(p)'
      <4>1. ASSUME NEW j \in DOMAIN events' PROVE ~UpdateOf(events'[j], p)
        <5>1. j + 1 \in DOMAIN events /\ j + 1 # 1 /\ j + 1 >= i /\ events'[j] = events[j + 1]
          BY <1>1, <3>1
        <5> QED BY <2>4, <5>1
      <4> QED BY <4>1 DEF NoneComing, UpdateOf
    <3>3. /\ events[1].kind = "updated" /\ events[1].provider = p
          /\ events[1].version = cache[p]
      BY <2>1, <3>1 DEF UpdateOf
    <3>4. Queued(p, cache[p]) BY <3>3, DeliverResult
    <3>5. hook'.pending[p] = cache'[p] BY <1>0, <3>4 DEF Queued, Values
    <3>6. Held(p)' BY <3>5 DEF Held
    <3> QED BY <3>2, <3>6 DEF Arrives
  <2> QED BY <2>3, <2>4
<1> QED BY <1>2, <1>3 DEF Arrives

\* The reply is the only one of its epoch, and no newer than the cache.
LEMMA HeldReceive ==
    ASSUME Parts, Once, Newest, NEW reply \in answers, Receive(reply),
           NEW p \in Provider, cache[p] # 0, p \notin stale', Held(p)
    PROVE  Held(p)'
<1>0. /\ hook \in HookState /\ hook.view \in Values /\ hook.pending \in Values
      /\ reply \in Reply /\ hook' = Loaded(hook, reply)
      /\ UNCHANGED <<cache, asked>> /\ answers' = answers \ {reply}
  BY DEF Parts, HookTyped, LinkTyped, HookState, Receive, shell
<1>1. /\ cache[p] \in Nat /\ reply.values[p] \in Nat /\ reply.values[p] <= cache[p]
      /\ hook.view[p] \in Nat
  BY <1>0 DEF Parts, ShellTyped, Reply, Values, Version, Newest
<1>2. hook'.epoch = hook.epoch /\ hook'.initial = hook.initial BY <1>0, LoadedResult
<1>3. CASE reply.epoch # hook.epoch
  <2>1. hook' = hook BY <1>0, <1>3, LoadedResult
  <2>2. Replies' = Replies BY <1>0, <1>3, <2>1 DEF Replies
  <2> QED BY <1>0, <2>1, <2>2 DEF Held, Shown
<1>4. CASE reply.epoch = hook.epoch
  <2>1. hook.epoch \notin asked /\ \A r \in Replies : r = reply BY <1>4, OnlyReply
  <2>2. Replies' = {} BY <1>0, <1>2, <2>1 DEF Replies
  <2>3. ASSUME hook'.pending[p] = 0, hook'.view[p] = cache[p] PROVE Held(p)'
    BY <1>0, <2>2, <2>3 DEF Held, Shown
  <2>4. CASE hook.epoch = hook.initial
    <3>1. hook'.view = Merge(hook.view, reply.values) /\ hook'.pending = hook.pending
      BY <1>0, <1>4, <2>4, LoadedResult
    <3>2. hook'.view[p] = IF reply.values[p] # 0 THEN reply.values[p] ELSE hook.view[p]
      BY <3>1, MergeAt
    <3>3. ~(hook'.view[p] < hook.view[p]) BY <1>4, <2>4 DEF Receive
    <3>4. CASE hook.pending[p] = cache[p] BY <1>0, <3>1, <3>4 DEF Held
    <3>5. CASE hook.pending[p] = 0
      <4>1. reply.values[p] = cache[p] \/ hook.view[p] = cache[p]
        BY <2>1, <3>5 DEF Held, Shown
      <4>2. hook'.view[p] = cache[p] BY <1>1, <3>2, <3>3, <4>1
      <4> QED BY <2>3, <3>1, <3>5, <4>2
    <3> QED BY <3>4, <3>5 DEF Held
  <2>5. CASE hook.epoch # hook.initial
    <3> DEFINE view == Merge(hook.view, reply.values)
    <3>1. hook'.view = Merge(view, hook.pending) /\ hook'.pending = Nothing
      BY <1>0, <1>4, <2>5, LoadedResult
    <3>2. view[p] = IF reply.values[p] # 0 THEN reply.values[p] ELSE hook.view[p]
      BY MergeAt
    <3> HIDE DEF view
    <3>3. hook'.view[p] = IF hook.pending[p] # 0 THEN hook.pending[p] ELSE view[p]
      BY <3>1, MergeAt
    <3>4. hook'.pending[p] = 0 BY <3>1 DEF Nothing
    <3>5. CASE hook.pending[p] = cache[p] BY <2>3, <3>3, <3>4, <3>5
    <3>6. CASE hook.pending[p] = 0
      <4>1. \/ reply.values[p] = cache[p]
            \/ hook.view[p] = cache[p] /\ reply.values[p] \in {0, cache[p]}
        <5>1. reply \in Replies BY <1>4 DEF Replies
        <5> QED BY <2>1, <2>5, <3>6, <5>1 DEF Held, Shown
      <4>2. hook'.view[p] = cache[p] BY <3>2, <3>3, <3>6, <4>1
      <4> QED BY <2>3, <3>4, <4>2
    <3> QED BY <3>5, <3>6 DEF Held
  <2> QED BY <2>4, <2>5
<1> QED BY <1>3, <1>4

\* The reply that is sent holds the cache.
LEMMA HeldAnswer ==
    ASSUME Parts, NEW epoch \in asked, Answer(epoch), NEW p \in Provider, Held(p)
    PROVE  Held(p)'
<1> DEFINE new == [epoch |-> epoch, values |-> cache]
<1>1. /\ asked' = asked \ {epoch} /\ answers' = answers \cup {new}
      /\ UNCHANGED <<cache, hook>>
  BY DEF Answer, shell
<1>2. new.epoch = epoch /\ new.values = cache OBVIOUS
<1> HIDE DEF new
<1>3. /\ Replies \subseteq Replies' /\ Replies' \subseteq Replies \cup {new}
      /\ epoch = hook.epoch => new \in Replies'
  BY <1>1, <1>2 DEF Replies
<1>4. CASE hook.epoch \in asked \/ \E reply \in Replies : reply.values[p] = cache[p]
  <2>1. hook.epoch \in asked' \/ \E reply \in Replies' : reply.values[p] = cache[p]
    BY <1>1, <1>2, <1>3, <1>4
  <2> QED BY <1>1, <2>1 DEF Held
<1>5. CASE Shown(p)
  <2>1. Shown(p)' BY <1>1, <1>2, <1>3, <1>5 DEF Shown
  <2> QED BY <1>1, <2>1 DEF Held
<1>6. CASE hook.pending[p] = cache[p] BY <1>1, <1>6 DEF Held
<1> QED BY <1>4, <1>5, <1>6 DEF Held

LEMMA CurrentHook ==
    ASSUME Parts, Owes, Once, Reloads, Newest, Current, HookStep PROVE Current'
<1> SUFFICES ASSUME NEW p \in Provider, p \notin stale' PROVE Live(p)'
  BY DEF Current
<1>1. ASSUME p \notin stale PROVE Live(p) BY <1>1 DEF Current
<1>2. ASSUME p \notin stale, UNCHANGED <<cache, command, events>>,
             \A b \in Batch : batch'[b].owed = batch[b].owed,
             Held(p) /\ cache[p] # 0 => Held(p)'
      PROVE  Live(p)'
  <2>1. (Coming(p) => Coming(p)') /\ (NoneComing(p) => NoneComing(p)')
    BY <1>2 DEF Coming, NoneComing
  <2>2. Due(p) => Due(p)' BY <1>2, DueStays
  <2> QED BY <1>1, <1>2, <2>1, <2>2 DEF Live, Arrives
<1>3. CASE Restart
  <2>1. NoneComing(p)' BY <1>3, RestartResult DEF NoneComing
  <2>2. Held(p)' BY <1>3, RestartResult DEF Held, Nothing
  <2> QED BY <2>1, <2>2 DEF Live, Arrives
<1>4. CASE Listen
  <2>1. Held(p) => Held(p)' BY <1>4, ListenResult, HeldStays
  <2> QED BY <1>2, <1>4, <2>1, ListenResult
<1>5. ASSUME NEW epoch \in asked, Answer(epoch) PROVE Live(p)'
  <2>1. Held(p) => Held(p)' BY <1>5, HeldAnswer
  <2> QED BY <1>2, <1>5, <2>1 DEF Answer, shell, history
<1>6. ASSUME NEW reply \in answers, Receive(reply) PROVE Live(p)'
  <2>1. Held(p) /\ cache[p] # 0 => Held(p)' BY <1>6, HeldReceive
  <2>2. p \notin stale BY <1>6 DEF Receive
  <2> QED BY <1>2, <1>6, <2>1, <2>2 DEF Receive, shell
<1>7. CASE Deliver
  <2>1. p \notin stale BY <1>7 DEF Deliver, history
  <2> QED BY <1>1, <1>7, <2>1, LiveDeliver
<1>8. CASE FlushTimer
  <2>1. Held(p) /\ cache[p] # 0 => Held(p)'
    <3>1. ~hook.reloading BY <1>8, TimerResult DEF Reloads
    <3> QED BY <1>8, <3>1, TimerResult, HeldFlush
  <2> QED BY <1>2, <1>8, <2>1, TimerResult
<1>9. ASSUME NEW b \in Batch, Refresh(b) PROVE Live(p)'
  <2>1. Held(p) => Held(p)' BY <1>9, RefreshResult, HeldStays DEF SameHook
  <2>2. \A a \in Batch : batch'[a].owed = batch[a].owed
    BY <1>9, RefreshResult, OwedKept DEF Turns
  <2> QED BY <1>2, <1>9, <2>1, <2>2, RefreshResult
<1> QED BY <1>3, <1>4, <1>5, <1>6, <1>7, <1>8, <1>9 DEF HookStep

LEMMA CurrentIdle == ASSUME Current, UNCHANGED vars PROVE Current'
BY DEF Current, Live, Due, DueFromBatch, DueFromCommand, Arrives, Coming, NoneComing, Held,
       Shown, Replies, vars, shell, link, history

LEMMA ViewStep == ASSUME Parts, Drained, ViewInv, [Next]_vars PROVE ViewInv'
<1> USE DEF ViewInv
<1>1. Deaf' /\ Owes' /\ Once' /\ Newest' BY DeafStep, OwesStep, OnceStep, NewestStep
<1>2. Reloads' BY ReloadsStep
<1>3. Current' BY CurrentBatch, CurrentCommand, CurrentHook, CurrentIdle DEF Next
<1> QED BY <1>1, <1>2, <1>3

LEMMA ViewInit == Init => ViewInv
<1> SUFFICES ASSUME Init PROVE ViewInv OBVIOUS
<1>1. Deaf /\ Owes /\ Reloads
  BY DEF Init, Deaf, Owes, Reloads, Fresh, IdleBatch
<1>2. Once /\ Newest BY DEF Init, Once, Newest, Fresh
<1>3. Current
  <2>1. \A p \in Provider : NoneComing(p) /\ Held(p)
    BY DEF Init, NoneComing, Held, Fresh, Nothing
  <2> QED BY <2>1 DEF Current, Live, Arrives
<1> QED BY <1>1, <1>2, <1>3 DEF ViewInv

\* Once everything has arrived, a surface shows the cached value of every provider whose
\* last event was neither overtaken nor missed, however reloads, restarts, flushes and
\* batches crossed, for any number of providers, batches, commands and versions.
THEOREM ViewSettles == Spec => []SettledViewCurrent
<1>1. ASSUME Parts, Drained, ViewInv PROVE SettledViewCurrent
  <2> SUFFICES ASSUME Quiet, NEW p \in Provider, p \notin stale, cache[p] # 0
               PROVE  hook.view[p] = cache[p]
    BY DEF SettledViewCurrent
  <2>1. Due(p) \/ Arrives(p) BY <1>1 DEF ViewInv, Current, Live
  <2>2. ~Due(p)
    <3>1. \A b \in Batch : batch[b].owed[p] = 0
      BY <1>1 DEF ViewInv, Owes, Quiet, Nothing
    <3>2. \A c \in Command : command[c].at = "idle" BY DEF Quiet, IdleCommand
    <3> QED BY <3>1, <3>2 DEF Due, DueFromBatch, DueFromCommand
  <2>3. Held(p) BY <2>1, <2>2 DEF Arrives, Coming, Quiet
  <2>4. hook.pending = Nothing BY <1>1 DEF Drained, Quiet
  <2>5. hook.pending[p] = 0 BY <2>4 DEF Nothing
  <2> QED BY <2>3, <2>5 DEF Held, Shown, Replies, Quiet
<1>2. Init => Drained BY DEF Init, Drained, Fresh
<1> QED BY <1>1, <1>2, TypeInit, TypeStep, DrainedStep, ViewInit, ViewStep, PTL DEF Spec
=============================================================================
