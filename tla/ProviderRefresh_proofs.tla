----------------------- MODULE ProviderRefresh_proofs -----------------------
(***************************************************************************)
(* Theorems about ProviderRefresh, for every set of providers, tasks and   *)
(* writers and every value of the bounds.                                  *)
(***************************************************************************)
EXTENDS ProviderRefresh, TLAPS

\* Init puts every variable in its set.
LEMMA TypeInit == ASSUME Init PROVE TypeOK
<1> USE RefreshAssumption DEF Init, NoEntry, Entry, Kind
<1>1. cache \in [Provider -> Entry] OBVIOUS
<1>2. writerStep \in [Writer -> [at : {"idle", "saved", "invalidated"}, ids : SUBSET Provider]]
  OBVIOUS
<1>3. cred \in [Task -> [Provider -> Nat]] OBVIOUS
<1>4. job \in [Task -> [Provider -> {"none", "queued", "fetching", "published", "done"}]]
  OBVIOUS
<1>5. failures \in [Provider -> 0..FailureCap] OBVIOUS
<1>6. /\ account \in [Provider -> Nat] /\ floor \in [Provider -> Nat]
      /\ hidden \in [Provider -> Nat] /\ token \in [Task -> Nat]
  OBVIOUS
<1> QED BY <1>1, <1>2, <1>3, <1>4, <1>5, <1>6 DEF TypeOK

\* A returning batch leaves the batch variables in their sets.
LEMMA ReturnType ==
  ASSUME TypeOK, NEW t \in Task, Return(t)
  PROVE  /\ pc' \in [Task -> {"idle", "settings", "inputs", "begin", "prune", "spawn",
                             "running", "complete"}]
         /\ kind' \in [Task -> Kind]
         /\ token' \in [Task -> Nat]
         /\ ids' \in [Task -> SUBSET Provider]
         /\ cred' \in [Task -> [Provider -> Nat]]
         /\ job' \in [Task -> [Provider -> {"none", "queued", "fetching", "published", "done"}]]
         /\ lanes' \in [Task -> BOOLEAN]
<1> USE DEF TypeOK, Return, Kind
<1>1. /\ pc' \in [Task -> {"idle", "settings", "inputs", "begin", "prune", "spawn",
                             "running", "complete"}]
      /\ kind' \in [Task -> Kind]
      /\ token' \in [Task -> Nat]
      /\ ids' \in [Task -> SUBSET Provider]
      /\ lanes' \in [Task -> BOOLEAN]
  OBVIOUS
<1>2. cred' \in [Task -> [Provider -> Nat]] OBVIOUS
<1>3. job' \in [Task -> [Provider -> {"none", "queued", "fetching", "published", "done"}]]
  OBVIOUS
<1> QED BY <1>1, <1>2, <1>3

\* Entering the call leaves every variable it changes in its set.
LEMMA EnterType ==
  ASSUME TypeOK, NEW t \in Task, NEW k \in Kind, Enter(t, k),
         followUps' \in Nat, starts' \in Nat
  PROVE  TypeOK'
BY DEF TypeOK, Enter, appState, stores, history

\* No step leaves TypeOK.
LEMMA TypeNext == ASSUME TypeOK, [Next]_vars PROVE TypeOK'
<1> USE RefreshAssumption
<1>1. ASSUME NEW t \in Task, NEW k \in Kind, StartFromUser(t, k) PROVE TypeOK'
  BY <1>1, EnterType DEF StartFromUser, TypeOK
<1>2. ASSUME NEW t \in Task, StartFollowUp(t) PROVE TypeOK'
  BY <1>2, EnterType DEF StartFollowUp, TypeOK, Kind
<1>3. ASSUME NEW k \in Kind, StartFromLoop(k) PROVE TypeOK'
  BY <1>3, EnterType DEF StartFromLoop, TypeOK
<1>4. ASSUME NEW t \in Task, LoadSettings(t) PROVE TypeOK'
  <2> DEFINE refreshIds == IF kind[t] = "autoResume" THEN enabled \cap watch ELSE enabled
  <2>1. CASE refreshIds = {}
    BY <1>4, <2>1, ReturnType DEF LoadSettings, TypeOK, appState, stores, pending, history, spent
  <2>2. CASE refreshIds # {}
    <3>1. refreshIds \subseteq Provider BY DEF TypeOK
    <3>2. /\ pc' = [pc EXCEPT ![t] = "inputs"]
          /\ ids' = [ids EXCEPT ![t] = refreshIds]
          /\ UNCHANGED <<kind, token, cred, job, lanes, appState, stores, pending, history, spent>>
      BY <1>4, <2>2 DEF LoadSettings
    <3> HIDE DEF refreshIds
    <3> QED BY <3>1, <3>2 DEF TypeOK, appState, stores, pending, history, spent
  <2> QED BY <2>1, <2>2
<1>5. ASSUME NEW t \in Task, LoadInputs(t) PROVE TypeOK'
  BY <1>5 DEF LoadInputs, TypeOK, appState, stores, pending, history, spent
<1>6. ASSUME NEW t \in Task, Begin(t) PROVE TypeOK'
  BY <1>6 DEF Begin, TypeOK, stores, pending, history, spent
<1>7. ASSUME NEW t \in Task, RejectBegin(t) PROVE TypeOK'
  BY <1>7, ReturnType DEF RejectBegin, TypeOK, appState, stores, pending, history, spent
<1>8. ASSUME NEW t \in Task, Prune(t) PROVE TypeOK'
  <2>1. cache' \in [Provider -> Entry]
    BY <1>8 DEF Prune, PrunedTo, TypeOK, NoEntry, Entry
  <2> QED BY <1>8, <2>1 DEF Prune, TypeOK, stores, pending, history, spent
<1>9. ASSUME NEW t \in Task, Spawn(t) PROVE TypeOK'
  BY <1>9 DEF Spawn, TypeOK, appState, stores, pending, history, spent
<1>10. ASSUME NEW t \in Task, JobStep(t) PROVE TypeOK'
  <2> USE DEF TypeOK, stores, pending, history, spent
  <2>0. PICK p \in Provider :
           \/ Acquire(t, p) \/ DropSuperseded(t, p) \/ PublishUsage(t, p)
           \/ PublishFailure(t, p) \/ Settle(t, p)
    BY <1>10 DEF JobStep
  <2>1. CASE Acquire(t, p)
    <3>1. cred' \in [Task -> [Provider -> Nat]] BY <2>1 DEF Acquire
    <3> QED BY <2>1, <3>1 DEF Acquire, SetJob, appState
  <2>2. CASE DropSuperseded(t, p)
    BY <2>2 DEF DropSuperseded, SetJob, appState
  <2>3. CASE PublishUsage(t, p)
    <3>1. cache' \in [Provider -> Entry]
      <4>1. PICK fetched \in {0, cred[t][p]} : \E reset \in BackfilledReset(p, fetched) :
               cache' = [cache EXCEPT ![p] =
                            [shows |-> "good", account |-> cred[t][p], reset |-> reset]]
        BY <2>3 DEF PublishUsage
      <4>2. PICK reset \in BackfilledReset(p, fetched) :
               cache' = [cache EXCEPT ![p] =
                            [shows |-> "good", account |-> cred[t][p], reset |-> reset]]
        BY <4>1
      <4>3. cred[t][p] \in Nat /\ reset \in Nat
        BY DEF BackfilledReset, Entry
      <4> QED BY <4>2, <4>3 DEF Entry
    <3> QED BY <2>3, <3>1 DEF PublishUsage, SetJob
  <2>4. CASE PublishFailure(t, p)
    <3>1. PICK policy \in ErrorPolicy[p], reset \in BackfilledReset(p, 0) :
             /\ cache' = [cache EXCEPT ![p] = FailedEntry(p, policy, cred[t][p], reset)]
             /\ failures' = [failures EXCEPT ![p] = FailureCount(p, policy)]
             /\ hidden' = [hidden EXCEPT ![p] =
                              IF policy # "Preserve" /\ Preserves(p, policy) THEN @ + 1 ELSE @]
      BY <2>4 DEF PublishFailure
    <3>2. FailedEntry(p, policy, cred[t][p], reset) \in Entry
      <4>1. cred[t][p] \in Nat /\ cache[p] \in Entry /\ reset \in Nat
        BY DEF BackfilledReset, Entry
      <4>2. [shows |-> "error", account |-> cred[t][p], reset |-> reset] \in Entry
        BY <4>1 DEF Entry
      <4>3. [cache[p] EXCEPT !.shows = "surfaced"] \in Entry BY <4>1 DEF Entry
      <4> QED BY <4>1, <4>2, <4>3 DEF FailedEntry
    <3>3. FailureCount(p, policy) \in 0..FailureCap
      BY DEF FailureCount
    <3>4. hidden' \in [Provider -> Nat] BY <3>1
    <3> QED BY <2>4, <3>1, <3>2, <3>3, <3>4 DEF PublishFailure, SetJob
  <2>5. CASE Settle(t, p)
    BY <2>5 DEF Settle, SetJob, appState
  <2> QED BY <2>0, <2>1, <2>2, <2>3, <2>4, <2>5
<1>11. ASSUME NEW t \in Task, SettleLanes(t) PROVE TypeOK'
  BY <1>11 DEF SettleLanes, TypeOK, appState, pending, history, spent
<1>12. ASSUME NEW t \in Task, Finish(t) PROVE TypeOK'
  BY <1>12 DEF Finish, TypeOK, stores, pending, history, spent
<1>13. ASSUME NEW t \in Task, FinishSuperseded(t) PROVE TypeOK'
  BY <1>13, ReturnType DEF FinishSuperseded, TypeOK, appState, stores, pending, history, spent
<1>14. ASSUME NEW t \in Task, Complete(t) PROVE TypeOK'
  BY <1>14, ReturnType DEF Complete, TypeOK, appState, stores, pending, history, spent
<1>15. ASSUME NEW p \in AccountProvider, CommitAccount(p) PROVE TypeOK'
  BY <1>15 DEF CommitAccount, TypeOK, appState, batch, history
<1>16. ASSUME NEW p \in AccountProvider, InvalidateAccount(p) PROVE TypeOK'
  <2>1. [shows |-> "pending", account |-> account[p], reset |-> 0] \in Entry
    BY DEF TypeOK, Entry
  <2>2. cache' \in [Provider -> Entry] BY <1>16, <2>1 DEF InvalidateAccount, TypeOK
  <2>3. failures' \in [Provider -> 0..FailureCap] BY <1>16 DEF InvalidateAccount, TypeOK
  <2>4. /\ accountStep' \in [AccountProvider -> {"idle", "committed", "invalidated"}]
        /\ floor' \in [Provider -> Nat] /\ hidden' \in [Provider -> Nat]
    BY <1>16 DEF InvalidateAccount, TypeOK
  <2>6. generation' = generation + 1 /\ isRefreshing' = FALSE
    BY <1>16 DEF InvalidateAccount
  <2>5. UNCHANGED <<updatedAt, stores, batch, followUps, writerStep, toggled, spent>>
    BY <1>16 DEF InvalidateAccount
  <2>7. generation' \in Nat BY <2>6 DEF TypeOK
  <2>8. isRefreshing' \in BOOLEAN BY <2>6
  <2>9. /\ updatedAt' \in [Provider -> {"never", "fresh", "stale"}]
        /\ followUps' \in Nat
        /\ writerStep' \in [Writer -> [at : {"idle", "saved", "invalidated"}, ids : SUBSET Provider]]
        /\ toggled' \in BOOLEAN /\ starts' \in Nat /\ changes' \in Nat
    BY <2>5 DEF TypeOK, spent
  <2>10. UNCHANGED <<stores, batch>> BY <2>5
  <2> QED BY <2>2, <2>3, <2>4, <2>7, <2>8, <2>9, <2>10 DEF TypeOK, stores, batch
<1>17. ASSUME NEW p \in AccountProvider, EndAccountChange(p) PROVE TypeOK'
  BY <1>17 DEF EndAccountChange, TypeOK, appState, stores, batch, history, spent
<1>18. ASSUME NEW w \in Writer, SaveSettings(w) PROVE TypeOK'
  BY <1>18 DEF SaveSettings, TypeOK, appState, batch, history
<1>19. ASSUME NEW w \in Writer, InvalidateAndPrune(w) PROVE TypeOK'
  <2>1. cache' \in [Provider -> Entry]
    BY <1>19 DEF InvalidateAndPrune, PrunedTo, TypeOK, NoEntry, Entry
  <2>2. writerStep' \in [Writer -> [at : {"idle", "saved", "invalidated"}, ids : SUBSET Provider]]
    BY <1>19 DEF InvalidateAndPrune, TypeOK
  <2>3. failures' \in [Provider -> 0..FailureCap] BY <1>19 DEF InvalidateAndPrune, TypeOK
  <2>4. updatedAt' \in [Provider -> {"never", "fresh", "stale"}]
    BY <1>19 DEF InvalidateAndPrune, TypeOK
  <2>5. generation' = generation + 1 /\ isRefreshing' = FALSE
    BY <1>19 DEF InvalidateAndPrune
  <2>6. UNCHANGED <<stores, batch, followUps, accountStep, history, spent>>
    BY <1>19 DEF InvalidateAndPrune
  <2>7. generation' \in Nat BY <2>5 DEF TypeOK
  <2>8. isRefreshing' \in BOOLEAN BY <2>5
  <2>9. /\ followUps' \in Nat
        /\ accountStep' \in [AccountProvider -> {"idle", "committed", "invalidated"}]
        /\ floor' \in [Provider -> Nat] /\ hidden' \in [Provider -> Nat]
        /\ toggled' \in BOOLEAN /\ starts' \in Nat /\ changes' \in Nat
    BY <2>6 DEF TypeOK, history, spent
  <2>10. UNCHANGED <<stores, batch>> BY <2>6
  <2> QED BY <2>1, <2>2, <2>3, <2>4, <2>7, <2>8, <2>9, <2>10 DEF TypeOK, stores, batch
<1>20. ASSUME NEW w \in Writer, EndSettingsChange(w) PROVE TypeOK'
  BY <1>20 DEF EndSettingsChange, TypeOK, appState, stores, batch, history, spent
<1>21. ASSUME NEW p \in Provider, ToggleFromTray(p) PROVE TypeOK'
  BY <1>21 DEF ToggleFromTray, TypeOK, appState, batch, pending, history
<1>22. ASSUME NEW p \in Watchable, ToggleWatch(p) PROVE TypeOK'
  BY <1>22 DEF ToggleWatch, TypeOK, appState, batch, pending, history
<1>23. ASSUME NEW p \in Provider, Age(p) PROVE TypeOK'
  BY <1>23 DEF Age, TypeOK, stores, batch, pending, history, spent
<1>24. CASE UNCHANGED vars
  BY <1>24 DEF vars, TypeOK, appState, stores, batch, pending, history, spent
<1> QED
  BY <1>1, <1>2, <1>3, <1>4, <1>5, <1>6, <1>7, <1>8, <1>9, <1>10, <1>11, <1>12,
     <1>13, <1>14, <1>15, <1>16, <1>17, <1>18, <1>19, <1>20, <1>21, <1>22, <1>23, <1>24
  DEF Next, BatchStep, AccountCommandStep, SettingsCommandStep

\* Types hold in every reachable state.
THEOREM TypeCorrect == Spec => []TypeOK
<1>1. Init => TypeOK BY TypeInit
<1>2. TypeOK /\ [Next]_vars => TypeOK' BY TypeNext
<1> QED BY <1>1, <1>2, PTL DEF Spec
-----------------------------------------------------------------------------
LEMMA BasicsInit == ASSUME Init PROVE Basics
<1>1. TypeOK BY TypeInit
<1> QED BY <1>1 DEF Basics, Init, TokensBounded, JobsInBatch

\* A returning batch holds generation 0 and no fetch.
LEMMA ReturnBasics ==
  ASSUME Basics, NEW t \in Task, Return(t), UNCHANGED generation
  PROVE  TokensBounded' /\ JobsInBatch'
<1>1. TokensBounded' BY DEF Basics, TypeOK, TokensBounded, Return
<1>2. JobsInBatch' BY DEF Basics, TypeOK, JobsInBatch, Return
<1> QED BY <1>1, <1>2

LEMMA EnterBasics ==
  ASSUME Basics, NEW t \in Task, NEW k \in Kind, Enter(t, k)
  PROVE  TokensBounded' /\ JobsInBatch'
<1>1. TokensBounded' BY DEF Basics, TypeOK, TokensBounded, Enter, appState
<1>2. JobsInBatch' BY DEF Basics, TypeOK, JobsInBatch, Enter
<1> QED BY <1>1, <1>2

\* A step that leaves the batches alone and only raises the generation.
LEMMA FrameBasics ==
  ASSUME Basics, UNCHANGED batch, generation' \in Nat, generation' >= generation
  PROVE  TokensBounded' /\ JobsInBatch'
BY DEF Basics, TypeOK, TokensBounded, JobsInBatch, batch

LEMMA BasicsNext == ASSUME Basics, [Next]_vars PROVE Basics'
<1>0. TypeOK' BY TypeNext DEF Basics
<1> SUFFICES TokensBounded' /\ JobsInBatch' BY <1>0 DEF Basics
<1>1. ASSUME NEW t \in Task, NEW k \in Kind, StartFromUser(t, k)
      PROVE TokensBounded' /\ JobsInBatch'
  BY <1>1, EnterBasics DEF StartFromUser
<1>2. ASSUME NEW t \in Task, StartFollowUp(t) PROVE TokensBounded' /\ JobsInBatch'
  BY <1>2, EnterBasics DEF StartFollowUp, Kind
<1>3. ASSUME NEW k \in Kind, StartFromLoop(k) PROVE TokensBounded' /\ JobsInBatch'
  BY <1>3, EnterBasics, RefreshAssumption DEF StartFromLoop
<1>4. ASSUME NEW t \in Task, LoadSettings(t) PROVE TokensBounded' /\ JobsInBatch'
  <2>1. CASE Return(t) BY <1>4, <2>1, ReturnBasics DEF LoadSettings, appState
  <2>2. CASE ~Return(t)
    <3>1. UNCHANGED <<token, job, generation>> /\ pc[t] = "settings"
          /\ pc' = [pc EXCEPT ![t] = "inputs"]
      BY <1>4, <2>2 DEF LoadSettings, appState
    <3>2. \A u \in Task : u # t => ids'[u] = ids[u]
      BY <1>4, <2>2 DEF LoadSettings, Basics, TypeOK
    <3>3. \A p \in Provider : job[t][p] = "none"
      BY <3>1 DEF Basics, TypeOK, JobsInBatch
    <3> QED BY <3>1, <3>2, <3>3 DEF Basics, TypeOK, TokensBounded, JobsInBatch
  <2> QED BY <2>1, <2>2
<1>5. ASSUME NEW t \in Task, LoadInputs(t) PROVE TokensBounded' /\ JobsInBatch'
  BY <1>5 DEF LoadInputs, Basics, TypeOK, TokensBounded, JobsInBatch, appState
<1>6. ASSUME NEW t \in Task, Begin(t) PROVE TokensBounded' /\ JobsInBatch'
  BY <1>6 DEF Begin, Basics, TypeOK, TokensBounded, JobsInBatch
<1>7. ASSUME NEW t \in Task, RejectBegin(t) PROVE TokensBounded' /\ JobsInBatch'
  BY <1>7, ReturnBasics DEF RejectBegin, appState
<1>8. ASSUME NEW t \in Task, Prune(t) PROVE TokensBounded' /\ JobsInBatch'
  BY <1>8 DEF Prune, Basics, TypeOK, TokensBounded, JobsInBatch
<1>9. ASSUME NEW t \in Task, Spawn(t) PROVE TokensBounded' /\ JobsInBatch'
  BY <1>9 DEF Spawn, Basics, TypeOK, TokensBounded, JobsInBatch, appState
<1>10. ASSUME NEW t \in Task, JobStep(t) PROVE TokensBounded' /\ JobsInBatch'
  <2>1. PICK p \in Provider :
           /\ job[t][p] \in {"queued", "fetching", "published"}
           /\ \E s \in {"fetching", "published", "done"} : SetJob(t, p, s)
    BY <1>10 DEF JobStep, Acquire, DropSuperseded, PublishUsage, PublishFailure, Settle
  <2>2. UNCHANGED <<generation, pc, token, ids>>
    BY <1>10 DEF JobStep, Acquire, DropSuperseded, PublishUsage, PublishFailure, Settle, appState
  <2> QED BY <2>1, <2>2 DEF SetJob, Basics, TypeOK, TokensBounded, JobsInBatch
<1>11. ASSUME NEW t \in Task, SettleLanes(t) PROVE TokensBounded' /\ JobsInBatch'
  BY <1>11 DEF SettleLanes, Basics, TypeOK, TokensBounded, JobsInBatch, appState
<1>12. ASSUME NEW t \in Task, Finish(t) PROVE TokensBounded' /\ JobsInBatch'
  BY <1>12 DEF Finish, AllAwaited, Basics, TypeOK, TokensBounded, JobsInBatch
<1>13. ASSUME NEW t \in Task, FinishSuperseded(t) PROVE TokensBounded' /\ JobsInBatch'
  BY <1>13, ReturnBasics DEF FinishSuperseded, appState
<1>14. ASSUME NEW t \in Task, Complete(t) PROVE TokensBounded' /\ JobsInBatch'
  BY <1>14, ReturnBasics DEF Complete, appState
<1>15. ASSUME \E p \in AccountProvider : CommitAccount(p) \/ AccountCommandStep(p)
       PROVE TokensBounded' /\ JobsInBatch'
  BY <1>15, FrameBasics DEF Basics, TypeOK, CommitAccount, AccountCommandStep,
     InvalidateAccount, EndAccountChange, appState
<1>16. ASSUME \E w \in Writer : SaveSettings(w) \/ SettingsCommandStep(w)
       PROVE TokensBounded' /\ JobsInBatch'
  BY <1>16, FrameBasics DEF Basics, TypeOK, SaveSettings, SettingsCommandStep,
     InvalidateAndPrune, EndSettingsChange, appState
<1>17. ASSUME \/ \E p \in Provider : ToggleFromTray(p) \/ Age(p)
              \/ \E p \in Watchable : ToggleWatch(p)
       PROVE TokensBounded' /\ JobsInBatch'
  BY <1>17, FrameBasics DEF Basics, TypeOK, ToggleFromTray, Age, ToggleWatch, appState
<1>18. CASE UNCHANGED vars
  BY <1>18, FrameBasics DEF Basics, TypeOK, vars, appState
<1> QED
  BY <1>1, <1>2, <1>3, <1>4, <1>5, <1>6, <1>7, <1>8, <1>9, <1>10, <1>11, <1>12,
     <1>13, <1>14, <1>15, <1>16, <1>17, <1>18
  DEF Next, BatchStep
-----------------------------------------------------------------------------
(* A batch superseded by an account change publishes nothing *)

LEMMA SupersededInit == ASSUME Init PROVE SupersededInv
BY DEF Init, NoEntry, SupersededInv, CredsCurrent, Loaded, FloorBelowAccount, NoSupersededUsage

\* A step of one task that touches neither the cache nor the accounts, and
\* leaves the task without inputs, or with those it had.
LEMMA QuietStep ==
  ASSUME Basics, SupersededInv, NEW t \in Task,
         UNCHANGED <<generation, cache, account, floor>>,
         \A u \in Task : u # t => pc'[u] = pc[u] /\ token'[u] = token[u] /\ cred'[u] = cred[u],
         \/ pc'[t] \notin {"begin", "prune", "spawn", "running"}
         \/ Loaded(t) /\ token'[t] = token[t] /\ cred'[t] = cred[t]
  PROVE  SupersededInv'
BY DEF SupersededInv, CredsCurrent, Loaded, IsCurrent, FloorBelowAccount, NoSupersededUsage

\* An invalidation leaves every batch behind.
LEMMA NoneCurrent ==
  ASSUME Basics, UNCHANGED batch, generation' = generation + 1
  PROVE  CredsCurrent'
BY DEF Basics, TypeOK, TokensBounded, CredsCurrent, IsCurrent, batch

LEMMA PublishKeepsSuperseded ==
  ASSUME Basics, SupersededInv, NEW t \in Task, NEW p \in Provider,
         PublishUsage(t, p) \/ PublishFailure(t, p)
  PROVE  SupersededInv'
<1>1. pc[t] = "running" /\ IsCurrent(t)
  BY DEF PublishUsage, PublishFailure, Basics, JobsInBatch
<1>2. cred[t][p] >= floor[p] /\ cred[t][p] \in Nat /\ floor[p] \in Nat
  BY <1>1 DEF SupersededInv, CredsCurrent, Loaded, Basics, TypeOK
<1>3. UNCHANGED <<generation, pc, token, cred, account, floor>>
  BY DEF PublishUsage, PublishFailure, stores
<1>4. CredsCurrent' /\ FloorBelowAccount'
  BY <1>3 DEF SupersededInv, CredsCurrent, Loaded, IsCurrent, FloorBelowAccount
<1>5. NoSupersededUsage'
  <2>1. CASE PublishUsage(t, p)
    <3>1. PICK fetched \in {0, cred[t][p]} : \E reset \in BackfilledReset(p, fetched) :
             cache' = [cache EXCEPT ![p] =
                          [shows |-> "good", account |-> cred[t][p], reset |-> reset]]
      BY <2>1 DEF PublishUsage
    <3>2. PICK reset \in BackfilledReset(p, fetched) :
             cache' = [cache EXCEPT ![p] =
                          [shows |-> "good", account |-> cred[t][p], reset |-> reset]]
      BY <3>1
    <3>3. reset # 0 => reset >= floor[p]
      BY <1>2 DEF BackfilledReset, IsGood, SupersededInv, NoSupersededUsage
    <3> QED BY <1>2, <1>3, <3>2, <3>3 DEF SupersededInv, NoSupersededUsage, Basics, TypeOK
  <2>2. CASE PublishFailure(t, p)
    <3>1. PICK policy \in ErrorPolicy[p], reset \in BackfilledReset(p, 0) :
             cache' = [cache EXCEPT ![p] = FailedEntry(p, policy, cred[t][p], reset)]
      BY <2>2 DEF PublishFailure
    <3>2. reset # 0 => reset >= floor[p]
      BY <1>2 DEF BackfilledReset, IsGood, SupersededInv, NoSupersededUsage
    <3>3. /\ FailedEntry(p, policy, cred[t][p], reset).account >= floor[p]
          /\ FailedEntry(p, policy, cred[t][p], reset).reset # 0
                => FailedEntry(p, policy, cred[t][p], reset).reset >= floor[p]
      BY <1>2, <3>2 DEF FailedEntry, Preserves, IsGood, SupersededInv, NoSupersededUsage,
         Basics, TypeOK, Entry
    <3> QED BY <1>3, <3>1, <3>3 DEF SupersededInv, NoSupersededUsage, Basics, TypeOK
  <2> QED BY <2>1, <2>2
<1> QED BY <1>4, <1>5 DEF SupersededInv

LEMMA SupersededNext == ASSUME Basics, SupersededInv, [Next]_vars PROVE SupersededInv'
<1> USE RefreshAssumption
<1>1. ASSUME NEW t \in Task, NEW k \in Kind, Enter(t, k) PROVE SupersededInv'
  BY <1>1, QuietStep DEF Enter, Basics, TypeOK, appState, stores, history
<1>2. ASSUME NEW t \in Task, Return(t), UNCHANGED <<generation, cache, account, floor>>
      PROVE SupersededInv'
  BY <1>2, QuietStep DEF Return, Basics, TypeOK
<1>3. ASSUME NEW t \in Task, LoadSettings(t) PROVE SupersededInv'
  BY <1>2, <1>3, QuietStep DEF LoadSettings, Basics, TypeOK, appState, stores, history
<1>4. ASSUME NEW t \in Task, LoadInputs(t) PROVE SupersededInv'
  <2>1. cred'[t] = account /\ \A u \in Task : u # t => cred'[u] = cred[u] /\ pc'[u] = pc[u]
    BY <1>4 DEF LoadInputs, Basics, TypeOK
  <2>2. UNCHANGED <<generation, cache, account, floor, token>>
    BY <1>4 DEF LoadInputs, appState, stores, history
  <2>3. \A p \in Provider : account[p] >= floor[p]
    BY DEF SupersededInv, FloorBelowAccount, Basics, TypeOK
  <2> QED BY <2>1, <2>2, <2>3
       DEF SupersededInv, CredsCurrent, Loaded, IsCurrent, FloorBelowAccount, NoSupersededUsage
<1>5. ASSUME NEW t \in Task, Begin(t) PROVE SupersededInv'
  <2>1. /\ generation' = generation + 1 /\ UNCHANGED <<cache, account, floor, cred>>
        /\ token'[t] = generation'
        /\ \A u \in Task : u # t => token'[u] = token[u] /\ token[u] # generation'
    BY <1>5 DEF Begin, Basics, TypeOK, TokensBounded, stores, history
  <2>2. \A p \in Provider : cred[t][p] >= floor[p]
    BY <1>5 DEF Begin, Rejected, SupersededInv, CredsCurrent, Loaded
  <2> QED BY <2>1, <2>2
       DEF SupersededInv, CredsCurrent, Loaded, IsCurrent, FloorBelowAccount, NoSupersededUsage
<1>6. ASSUME NEW t \in Task, Prune(t) PROVE SupersededInv'
  <2>1. NoSupersededUsage'
    BY <1>6 DEF Prune, PrunedTo, NoEntry, SupersededInv, NoSupersededUsage, history
  <2>2. CredsCurrent'
    BY <1>6 DEF Prune, Basics, TypeOK, SupersededInv, CredsCurrent, Loaded, IsCurrent, history
  <2> QED BY <1>6, <2>1, <2>2 DEF Prune, SupersededInv, FloorBelowAccount, stores, history
<1>7. ASSUME NEW t \in Task, Spawn(t) PROVE SupersededInv'
  BY <1>7, QuietStep DEF Spawn, Basics, TypeOK, Loaded, appState, stores, history
<1>8. ASSUME NEW t \in Task, JobStep(t) PROVE SupersededInv'
  <2>0. PICK p \in Provider :
           \/ Acquire(t, p) \/ DropSuperseded(t, p) \/ PublishUsage(t, p)
           \/ PublishFailure(t, p) \/ Settle(t, p)
    BY <1>8 DEF JobStep
  <2>1. CASE Acquire(t, p)
    <3>1. /\ UNCHANGED <<generation, cache, account, floor, token, pc>>
          /\ \A u \in Task, q \in Provider : cred'[u][q] \in {cred[u][q], account[q]}
      BY <2>1 DEF Acquire, Basics, TypeOK, appState, stores, history
    <3>2. \A q \in Provider : account[q] >= floor[q]
      BY DEF SupersededInv, FloorBelowAccount, Basics, TypeOK
    <3> QED BY <3>1, <3>2
         DEF SupersededInv, CredsCurrent, Loaded, IsCurrent, FloorBelowAccount, NoSupersededUsage
  <2>2. CASE DropSuperseded(t, p) \/ Settle(t, p)
    BY <2>2 DEF DropSuperseded, Settle, SupersededInv, CredsCurrent, Loaded, IsCurrent,
       FloorBelowAccount, NoSupersededUsage, appState, stores, history
  <2>3. CASE PublishUsage(t, p) \/ PublishFailure(t, p)
    BY <2>3, PublishKeepsSuperseded
  <2> QED BY <2>0, <2>1, <2>2, <2>3
<1>9. ASSUME NEW t \in Task, SettleLanes(t) PROVE SupersededInv'
  BY <1>9 DEF SettleLanes, SupersededInv, CredsCurrent, Loaded, IsCurrent,
     FloorBelowAccount, NoSupersededUsage, appState, history
<1>10. ASSUME NEW t \in Task, Finish(t) PROVE SupersededInv'
  BY <1>10, QuietStep DEF Finish, Basics, TypeOK, stores, history
<1>11. ASSUME NEW t \in Task, RejectBegin(t) \/ FinishSuperseded(t) \/ Complete(t)
       PROVE SupersededInv'
  BY <1>2, <1>11 DEF RejectBegin, FinishSuperseded, Complete, appState, stores, history
<1>12. ASSUME NEW p \in AccountProvider, CommitAccount(p) PROVE SupersededInv'
  <2>1. FloorBelowAccount'
    BY <1>12 DEF CommitAccount, Basics, TypeOK, SupersededInv, FloorBelowAccount, history
  <2> QED BY <1>12, <2>1 DEF CommitAccount, SupersededInv, CredsCurrent, Loaded, IsCurrent,
       NoSupersededUsage, appState, batch, history
<1>13. ASSUME NEW p \in AccountProvider, InvalidateAccount(p) PROVE SupersededInv'
  <2>1. CredsCurrent' BY <1>13, NoneCurrent DEF InvalidateAccount
  <2>2. FloorBelowAccount'
    BY <1>13 DEF InvalidateAccount, Basics, TypeOK, SupersededInv, FloorBelowAccount, stores
  <2>3. NoSupersededUsage'
    BY <1>13 DEF InvalidateAccount, Basics, TypeOK, SupersededInv, NoSupersededUsage
  <2> QED BY <2>1, <2>2, <2>3 DEF SupersededInv
<1>14. ASSUME NEW w \in Writer, InvalidateAndPrune(w) PROVE SupersededInv'
  <2>1. CredsCurrent' BY <1>14, NoneCurrent DEF InvalidateAndPrune
  <2>2. NoSupersededUsage'
    BY <1>14 DEF InvalidateAndPrune, PrunedTo, NoEntry, SupersededInv, NoSupersededUsage, history
  <2> QED BY <1>14, <2>1, <2>2
       DEF InvalidateAndPrune, SupersededInv, FloorBelowAccount, stores, history
<1>15. ASSUME UNCHANGED <<generation, cache, account, batch, floor>> PROVE SupersededInv'
  BY <1>15 DEF SupersededInv, CredsCurrent, Loaded, IsCurrent, FloorBelowAccount,
     NoSupersededUsage, batch
<1>16. CASE \E p \in AccountProvider : EndAccountChange(p)
  BY <1>15, <1>16 DEF EndAccountChange, appState, stores, history
<1>17. CASE \E w \in Writer : SaveSettings(w) \/ EndSettingsChange(w)
  BY <1>15, <1>17 DEF SaveSettings, EndSettingsChange, appState, stores, history
<1>18. CASE \/ \E p \in Provider : ToggleFromTray(p) \/ Age(p)
            \/ \E p \in Watchable : ToggleWatch(p)
  BY <1>15, <1>18 DEF ToggleFromTray, Age, ToggleWatch, appState, stores, history
<1>19. CASE UNCHANGED vars
  BY <1>15, <1>19 DEF vars, appState, stores, history
<1>20. CASE \E t \in Task : \E k \in Kind : StartFromUser(t, k)
  BY <1>1, <1>20 DEF StartFromUser
<1>21. CASE \E t \in Task : StartFollowUp(t)
  BY <1>1, <1>21 DEF StartFollowUp, Kind
<1>22. CASE \E k \in Kind : StartFromLoop(k)
  BY <1>1, <1>22 DEF StartFromLoop
<1> QED
  BY <1>3, <1>4, <1>5, <1>6, <1>7, <1>8, <1>9, <1>10, <1>11, <1>12, <1>13, <1>14,
     <1>16, <1>17, <1>18, <1>19, <1>20, <1>21, <1>22
  DEF Next, BatchStep, AccountCommandStep, SettingsCommandStep

\* "Account changes supersede the old identity's cache and any in-flight
\* batch": no entry shows usage, or a reset time, of an account older than the
\* last invalidation, in any interleaving of any number of batches.
THEOREM SupersededNeverShown == Spec => []NoSupersededUsage
<1>1. Init => Basics /\ SupersededInv BY BasicsInit, SupersededInit
<1>2. Basics /\ SupersededInv /\ [Next]_vars => (Basics /\ SupersededInv)'
  BY BasicsNext, SupersededNext
<1>3. Basics /\ SupersededInv => NoSupersededUsage BY DEF SupersededInv
<1> QED BY <1>1, <1>2, <1>3, PTL DEF Spec
-----------------------------------------------------------------------------
(* The refresh is held by the one batch that owns the generation *)

\* A step that leaves the refresh, and who owns the generation, as they were.
LEMMA SameOwners ==
  ASSUME LockHasOwner, UNCHANGED isRefreshing, \A t \in Task : Owns(t)' <=> Owns(t)
  PROVE  LockHasOwner'
BY DEF LockHasOwner

LEMMA LockNext == ASSUME Basics, LockHasOwner, [Next]_vars PROVE LockHasOwner'
<1> USE RefreshAssumption
<1>1. ASSUME NEW t \in Task, NEW k \in Kind, Enter(t, k) PROVE LockHasOwner'
  <2>1. \A u \in Task : Owns(u)' <=> Owns(u)
    BY <1>1 DEF Enter, Owns, IsCurrent, Basics, TypeOK, appState
  <2> QED BY <1>1, <2>1, SameOwners DEF Enter, appState
<1>2. ASSUME NEW t \in Task, Return(t), ~Owns(t), UNCHANGED appState PROVE LockHasOwner'
  <2>1. \A u \in Task : Owns(u)' <=> Owns(u)
    BY <1>2 DEF Return, Owns, IsCurrent, Basics, TypeOK, appState
  <2> QED BY <1>2, <2>1, SameOwners DEF appState
<1>3. ASSUME NEW t \in Task, LoadSettings(t) \/ LoadInputs(t) PROVE LockHasOwner'
  <2>1. \A u \in Task : Owns(u)' <=> Owns(u)
    BY <1>3 DEF LoadSettings, LoadInputs, Return, Owns, IsCurrent, Basics, TypeOK, appState
  <2> QED BY <1>3, <2>1, SameOwners DEF LoadSettings, LoadInputs, appState
<1>4. ASSUME NEW t \in Task, Begin(t) PROVE LockHasOwner'
  <2>1. \A u \in Task : Owns(u)' <=> u = t
    BY <1>4 DEF Begin, Owns, IsCurrent, Basics, TypeOK, TokensBounded
  <2> QED BY <1>4, <2>1 DEF Begin, LockHasOwner
<1>5. ASSUME NEW t \in Task, RejectBegin(t) \/ FinishSuperseded(t) \/ Complete(t)
      PROVE LockHasOwner'
  BY <1>2, <1>5 DEF RejectBegin, FinishSuperseded, Complete, Owns
<1>6. ASSUME NEW t \in Task, Prune(t) \/ Spawn(t) \/ JobStep(t) \/ SettleLanes(t)
      PROVE LockHasOwner'
  <2>1. UNCHANGED <<generation, isRefreshing, token>>
    BY <1>6 DEF Prune, Spawn, JobStep, Acquire, DropSuperseded, PublishUsage, PublishFailure,
       Settle, SettleLanes, appState
  <2>2. \A u \in Task : Owns(u)' <=> Owns(u)
    BY <1>6, <2>1 DEF Prune, Spawn, JobStep, Acquire, DropSuperseded, PublishUsage,
       PublishFailure, Settle, SettleLanes, Owns, IsCurrent, Basics, TypeOK
  <2> QED BY <2>1, <2>2, SameOwners
<1>7. ASSUME NEW t \in Task, Finish(t) PROVE LockHasOwner'
  <2>1. Owns(t) BY <1>7 DEF Finish, Owns
  <2>2. \A u \in Task : ~Owns(u)'
    BY <1>7, <2>1 DEF Finish, LockHasOwner, Owns, IsCurrent, Basics, TypeOK
  <2> QED BY <1>7, <2>2 DEF Finish, LockHasOwner
<1>8. ASSUME UNCHANGED batch, generation' = generation + 1, isRefreshing' = FALSE
      PROVE LockHasOwner'
  <2>1. \A u \in Task : ~Owns(u)'
    BY <1>8 DEF Owns, IsCurrent, Basics, TypeOK, TokensBounded, batch
  <2> QED BY <1>8, <2>1 DEF LockHasOwner
<1>9. ASSUME UNCHANGED <<generation, isRefreshing, batch>> PROVE LockHasOwner'
  BY <1>9 DEF LockHasOwner, Owns, IsCurrent, batch
<1>10. CASE \E p \in AccountProvider : CommitAccount(p) \/ AccountCommandStep(p)
  BY <1>8, <1>9, <1>10 DEF CommitAccount, AccountCommandStep, InvalidateAccount,
     EndAccountChange, appState
<1>11. CASE \E w \in Writer : SaveSettings(w) \/ SettingsCommandStep(w)
  BY <1>8, <1>9, <1>11 DEF SaveSettings, SettingsCommandStep, InvalidateAndPrune,
     EndSettingsChange, appState
<1>12. CASE \/ \E p \in Provider : ToggleFromTray(p) \/ Age(p)
            \/ \E p \in Watchable : ToggleWatch(p)
  BY <1>9, <1>12 DEF ToggleFromTray, Age, ToggleWatch, appState
<1>13. CASE UNCHANGED vars BY <1>9, <1>13 DEF vars, appState
<1>14. CASE \/ \E t \in Task : \E k \in Kind : StartFromUser(t, k)
            \/ \E t \in Task : StartFollowUp(t)
            \/ \E k \in Kind : StartFromLoop(k)
  BY <1>1, <1>14 DEF StartFromUser, StartFollowUp, StartFromLoop, Kind
<1> QED
  BY <1>3, <1>4, <1>5, <1>6, <1>7, <1>10, <1>11, <1>12, <1>13, <1>14 DEF Next, BatchStep

\* is_refreshing always belongs to exactly one live batch: it can neither leak,
\* which would stop every later refresh, nor be cleared by a superseded batch.
THEOREM LockIsOwned == Spec => []LockHasOwner
<1>1. Init => Basics /\ LockHasOwner
  BY BasicsInit DEF Init, LockHasOwner, Owns
<1>2. Basics /\ LockHasOwner /\ [Next]_vars => (Basics /\ LockHasOwner)'
  BY BasicsNext, LockNext
<1> QED BY <1>1, <1>2, PTL DEF Spec
-----------------------------------------------------------------------------
(* The Codex account snapshots *)

LanesInv == laneOwner <= generation

LEMMA LanesNext ==
  ASSUME Basics, LanesInv, [Next]_vars
  PROVE  LanesInv' /\ laneOwner' >= laneOwner
<1>1. generation \in Nat /\ laneOwner \in Nat BY DEF Basics, TypeOK
<1>2. ASSUME UNCHANGED laneOwner, generation' \in {generation, generation + 1}
      PROVE LanesInv' /\ laneOwner' >= laneOwner
  BY <1>1, <1>2 DEF LanesInv
<1>3. ASSUME NEW t \in Task, SettleLanes(t) PROVE LanesInv' /\ laneOwner' >= laneOwner
  BY <1>1, <1>3 DEF SettleLanes, IsCurrent, LanesInv, appState
<1>4. ASSUME NEW t \in Task, BatchStep(t), ~SettleLanes(t)
      PROVE LanesInv' /\ laneOwner' >= laneOwner
  BY <1>2, <1>4 DEF BatchStep, LoadSettings, LoadInputs, Begin, RejectBegin, Prune, Spawn,
     JobStep, Acquire, DropSuperseded, PublishUsage, PublishFailure, Settle, Finish,
     FinishSuperseded, Complete, appState, stores
<1>5. CASE \/ \E t \in Task : \E k \in Kind : StartFromUser(t, k)
           \/ \E t \in Task : StartFollowUp(t)
           \/ \E k \in Kind : StartFromLoop(k)
  BY <1>2, <1>5 DEF StartFromUser, StartFollowUp, StartFromLoop, Enter, appState, stores
<1>6. CASE \/ \E p \in AccountProvider : CommitAccount(p) \/ AccountCommandStep(p)
           \/ \E w \in Writer : SaveSettings(w) \/ SettingsCommandStep(w)
  BY <1>2, <1>6 DEF CommitAccount, AccountCommandStep, InvalidateAccount, EndAccountChange,
     SaveSettings, SettingsCommandStep, InvalidateAndPrune, EndSettingsChange, appState, stores
<1>7. CASE \/ \E p \in Provider : ToggleFromTray(p) \/ Age(p)
           \/ \E p \in Watchable : ToggleWatch(p)
  BY <1>2, <1>7 DEF ToggleFromTray, Age, ToggleWatch, appState, stores
<1>8. CASE UNCHANGED vars BY <1>2, <1>8 DEF vars, appState, stores
<1> QED BY <1>3, <1>4, <1>5, <1>6, <1>7, <1>8 DEF Next

\* An invalidated batch cannot overwrite a replacement batch's account snapshots.
THEOREM LanesKeepTheNewest == Spec => LanesNeverRegress
<1>0. Init => laneOwner = 0 /\ generation = 0 BY DEF Init
<1>1. Init => Basics /\ LanesInv BY <1>0, BasicsInit DEF LanesInv
<1>2. Basics /\ LanesInv /\ [Next]_vars => (Basics /\ LanesInv)' BY BasicsNext, LanesNext
<1>3. Basics /\ LanesInv /\ [Next]_vars => [laneOwner' >= laneOwner]_vars BY LanesNext
<1> QED BY <1>1, <1>2, <1>3, PTL DEF Spec, LanesNeverRegress
-----------------------------------------------------------------------------
(* A PreserveOnce policy hides one failure, no more *)

\* A step that fetches nothing may forget counts only with the data they guard.
LEMMA NoFetchKeepsFailures ==
  ASSUME FailureInv,
         \A p \in Provider :
            \/ hidden'[p] = hidden[p] /\ cache'[p] = cache[p] /\ failures'[p] = failures[p]
            \/ hidden'[p] = hidden[p] /\ cache'[p].shows # "good"
            \/ hidden'[p] = 0
  PROVE  FailureInv'
BY DEF FailureInv, FailureHiddenOnce, IsGood

LEMMA FailureNext == ASSUME Basics, FailureInv, [Next]_vars PROVE FailureInv'
<1> USE RefreshAssumption
<1>1. ASSUME UNCHANGED <<cache, failures, hidden>> PROVE FailureInv'
  BY <1>1, NoFetchKeepsFailures
<1>2. ASSUME NEW t \in Task, Prune(t) PROVE FailureInv'
  BY <1>2, NoFetchKeepsFailures DEF Prune, PrunedTo, NoEntry, history
<1>3. ASSUME NEW t \in Task, NEW p \in Provider, PublishUsage(t, p) PROVE FailureInv'
  BY <1>3, NoFetchKeepsFailures DEF PublishUsage, Basics, TypeOK
<1>4. ASSUME NEW t \in Task, NEW p \in Provider, PublishFailure(t, p) PROVE FailureInv'
  <2>1. PICK policy \in ErrorPolicy[p], reset \in BackfilledReset(p, 0) :
           /\ cache' = [cache EXCEPT ![p] = FailedEntry(p, policy, cred[t][p], reset)]
           /\ failures' = [failures EXCEPT ![p] = FailureCount(p, policy)]
           /\ hidden' = [hidden EXCEPT ![p] =
                            IF policy # "Preserve" /\ Preserves(p, policy) THEN @ + 1 ELSE @]
    BY <1>4 DEF PublishFailure
  <2>2. cache[p] \in Entry /\ failures[p] \in 0..FailureCap /\ hidden[p] \in Nat
    BY DEF Basics, TypeOK
  <2>3. policy \in Policy BY <1>4
  <2>4. /\ cache'[p] = FailedEntry(p, policy, cred[t][p], reset)
        /\ failures'[p] = FailureCount(p, policy)
        /\ hidden'[p] = IF policy # "Preserve" /\ Preserves(p, policy)
                        THEN hidden[p] + 1 ELSE hidden[p]
        /\ \A q \in Provider : q # p => /\ cache'[q] = cache[q]
                                        /\ failures'[q] = failures[q]
                                        /\ hidden'[q] = hidden[q]
    BY <2>1 DEF Basics, TypeOK
  <2>5. CASE Preserves(p, policy) /\ policy # "Preserve"
    <3>1. hidden[p] = 0 BY <2>3, <2>5 DEF Preserves, FailureInv, Policy
    <3>2. failures'[p] = 1 /\ hidden'[p] = 1
      BY <2>2, <2>3, <2>4, <2>5, <3>1 DEF Preserves, FailureCount, Policy
    <3> QED BY <2>4, <3>2 DEF FailureInv, FailureHiddenOnce, IsGood
  <2>6. CASE Preserves(p, policy) /\ policy = "Preserve"
    <3>1. cache'[p] = cache[p] /\ failures'[p] = failures[p] /\ hidden'[p] = hidden[p]
      BY <2>4, <2>6 DEF FailedEntry, FailureCount
    <3> QED BY <2>4, <3>1 DEF FailureInv, FailureHiddenOnce, IsGood
  <2>7. CASE ~Preserves(p, policy)
    <3>1. cache'[p].shows # "good" /\ hidden'[p] = hidden[p]
      BY <2>2, <2>4, <2>7 DEF FailedEntry, Entry
    <3> QED BY <2>4, <3>1, NoFetchKeepsFailures
  <2> QED BY <2>5, <2>6, <2>7
<1>5. ASSUME NEW p \in AccountProvider, InvalidateAccount(p) PROVE FailureInv'
  BY <1>5, NoFetchKeepsFailures DEF InvalidateAccount, Basics, TypeOK
<1>6. ASSUME NEW w \in Writer, InvalidateAndPrune(w) PROVE FailureInv'
  BY <1>6, NoFetchKeepsFailures DEF InvalidateAndPrune, PrunedTo, NoEntry, history
<1>7. ASSUME NEW t \in Task, BatchStep(t), ~Prune(t), ~JobStep(t) PROVE FailureInv'
  BY <1>1, <1>7 DEF BatchStep, LoadSettings, LoadInputs, Begin, RejectBegin, Spawn,
     SettleLanes, Finish, FinishSuperseded, Complete, appState, history
<1>8. ASSUME NEW t \in Task, JobStep(t) PROVE FailureInv'
  BY <1>1, <1>3, <1>4, <1>8 DEF JobStep, Acquire, DropSuperseded, Settle, appState, history
<1>9. CASE \/ \E t \in Task : \E k \in Kind : StartFromUser(t, k)
           \/ \E t \in Task : StartFollowUp(t)
           \/ \E k \in Kind : StartFromLoop(k)
  BY <1>1, <1>9 DEF StartFromUser, StartFollowUp, StartFromLoop, Enter, appState, history
<1>10. CASE \/ \E p \in AccountProvider : CommitAccount(p) \/ EndAccountChange(p)
            \/ \E w \in Writer : SaveSettings(w) \/ EndSettingsChange(w)
  BY <1>1, <1>10 DEF CommitAccount, EndAccountChange, SaveSettings, EndSettingsChange,
     appState, history
<1>11. CASE \/ \E p \in Provider : ToggleFromTray(p) \/ Age(p)
            \/ \E p \in Watchable : ToggleWatch(p)
  BY <1>1, <1>11 DEF ToggleFromTray, Age, ToggleWatch, appState, history
<1>12. CASE UNCHANGED vars BY <1>1, <1>12 DEF vars, appState, history
<1> QED
  BY <1>2, <1>5, <1>6, <1>7, <1>8, <1>9, <1>10, <1>11, <1>12
  DEF Next, BatchStep, AccountCommandStep, SettingsCommandStep

\* Whatever mix of policies, prunes, invalidations and superseded batches a
\* provider goes through, at most one PreserveOnce failure stays hidden.
THEOREM OneFailureHidden == Spec => []FailureHiddenOnce
<1>0. Init => \A p \in Provider : hidden[p] = 0 BY DEF Init
<1>1. Init => Basics /\ FailureInv BY <1>0, BasicsInit DEF FailureInv, FailureHiddenOnce
<1>2. Basics /\ FailureInv /\ [Next]_vars => (Basics /\ FailureInv)'
  BY BasicsNext, FailureNext
<1>3. Basics /\ FailureInv => FailureHiddenOnce BY DEF FailureInv
<1> QED BY <1>1, <1>2, <1>3, PTL DEF Spec
-----------------------------------------------------------------------------
(* Disabled providers stay out of the cache, when only update_settings writes
   the enabled set *)

\* A step that leaves the settings alone, loads none and publishes nothing.
LEMMA QuietSettings ==
  ASSUME DisabledInv, UNCHANGED <<enabled, writerStep>>,
         \A p \in Provider : cache'[p].shows \in {cache[p].shows, "none", "pending"},
         \A t \in Task : KnowsIds(t)' /\ IsCurrent(t)' =>
            KnowsIds(t) /\ IsCurrent(t) /\ ids'[t] = ids[t]
  PROVE  DisabledInv'
<1>1. Settled' <=> Settled BY DEF Settled
<1>2. CASE ~Settled BY <1>1, <1>2 DEF DisabledInv
<1>3. CASE Settled
  <2>1. \A p \in Provider \ enabled : cache'[p].shows \in {"none", "pending"}
    BY <1>3 DEF DisabledInv
  <2>2. \A t \in Task : KnowsIds(t)' /\ IsCurrent(t)' => ids'[t] \subseteq enabled
    BY <1>3 DEF DisabledInv
  <2> QED BY <2>1, <2>2 DEF DisabledInv
<1> QED BY <1>2, <1>3

\* A returning batch knows no ids any more.
LEMMA ReturnDisabled ==
  ASSUME Basics, DisabledInv, NEW t \in Task, Return(t),
         UNCHANGED <<generation, cache, enabled, writerStep>>
  PROVE  DisabledInv'
<1>1. \A u \in Task : KnowsIds(u)' /\ IsCurrent(u)' =>
         KnowsIds(u) /\ IsCurrent(u) /\ ids'[u] = ids[u]
  BY DEF Return, KnowsIds, IsCurrent, Basics, TypeOK
<1> QED BY <1>1, QuietSettings

LEMMA PublishKeepsDisabled ==
  ASSUME Basics, DisabledInv, NEW t \in Task, NEW p \in Provider,
         PublishUsage(t, p) \/ PublishFailure(t, p)
  PROVE  DisabledInv'
<1>1. p \in ids[t] /\ KnowsIds(t) /\ IsCurrent(t)
  BY DEF PublishUsage, PublishFailure, Basics, JobsInBatch, KnowsIds
<1>2. UNCHANGED <<generation, pc, token, ids, enabled, writerStep>>
  BY DEF PublishUsage, PublishFailure, stores, pending
<1>3. \A q \in Provider : q # p => cache'[q] = cache[q]
  <2>1. \E e : cache' = [cache EXCEPT ![p] = e] BY DEF PublishUsage, PublishFailure
  <2> QED BY <2>1 DEF Basics, TypeOK
<1>4. Settled => p \in enabled BY <1>1 DEF DisabledInv
<1> QED BY <1>2, <1>3, <1>4 DEF DisabledInv, Settled, KnowsIds, IsCurrent

LEMMA DisabledNext ==
  ASSUME ~toggled', Basics, DisabledInv, [Next]_vars
  PROVE  DisabledInv'
<1> USE RefreshAssumption
<1>1. ASSUME NEW t \in Task, NEW k \in Kind, Enter(t, k), UNCHANGED writerStep
      PROVE DisabledInv'
  <2>1. \A u \in Task : KnowsIds(u)' /\ IsCurrent(u)' =>
           KnowsIds(u) /\ IsCurrent(u) /\ ids'[u] = ids[u]
    BY <1>1 DEF Enter, KnowsIds, IsCurrent, Basics, TypeOK, appState
  <2> QED BY <1>1, <2>1, QuietSettings DEF Enter, appState, stores
<1>2. ASSUME NEW t \in Task, LoadSettings(t) PROVE DisabledInv'
  <2>1. CASE Return(t)
    BY <1>2, <2>1, ReturnDisabled DEF LoadSettings, appState, stores, pending
  <2>2. CASE ~Return(t)
    <3>1. UNCHANGED <<generation, cache, enabled, writerStep, token>>
      BY <1>2, <2>2 DEF LoadSettings, appState, stores, pending
    <3>2. ids'[t] \subseteq enabled
      BY <1>2, <2>2 DEF LoadSettings, Basics, TypeOK
    <3>3. \A u \in Task : u # t => ids'[u] = ids[u] /\ pc'[u] = pc[u]
      BY <1>2, <2>2 DEF LoadSettings, Basics, TypeOK
    <3> QED BY <3>1, <3>2, <3>3 DEF DisabledInv, Settled, KnowsIds, IsCurrent
  <2> QED BY <2>1, <2>2
<1>3. ASSUME NEW t \in Task, LoadInputs(t) \/ Spawn(t) \/ SettleLanes(t) \/ Finish(t)
      PROVE DisabledInv'
  <2>1. \A u \in Task : KnowsIds(u)' /\ IsCurrent(u)' =>
           KnowsIds(u) /\ IsCurrent(u) /\ ids'[u] = ids[u]
    BY <1>3 DEF LoadInputs, Spawn, SettleLanes, Finish, KnowsIds, IsCurrent, Basics, TypeOK,
       appState
  <2> QED BY <1>3, <2>1, QuietSettings
       DEF LoadInputs, Spawn, SettleLanes, Finish, appState, stores, pending
<1>4. ASSUME NEW t \in Task, Begin(t) PROVE DisabledInv'
  <2>1. \A u \in Task : KnowsIds(u)' /\ IsCurrent(u)' =>
           KnowsIds(u) /\ IsCurrent(u) /\ ids'[u] = ids[u]
    BY <1>4 DEF Begin, Rejected, KnowsIds, IsCurrent, Basics, TypeOK, TokensBounded
  <2> QED BY <1>4, <2>1, QuietSettings DEF Begin, stores, pending
<1>5. ASSUME NEW t \in Task, RejectBegin(t) \/ FinishSuperseded(t) \/ Complete(t)
      PROVE DisabledInv'
  BY <1>5, ReturnDisabled DEF RejectBegin, FinishSuperseded, Complete, appState, stores, pending
<1>6. ASSUME NEW t \in Task, Prune(t) PROVE DisabledInv'
  <2>1. \A u \in Task : KnowsIds(u)' /\ IsCurrent(u)' =>
           KnowsIds(u) /\ IsCurrent(u) /\ ids'[u] = ids[u]
    BY <1>6 DEF Prune, KnowsIds, IsCurrent, Basics, TypeOK
  <2> QED BY <1>6, <2>1, QuietSettings DEF Prune, PrunedTo, NoEntry, stores, pending
<1>7. ASSUME NEW t \in Task, NEW p \in Provider,
             Acquire(t, p) \/ DropSuperseded(t, p) \/ Settle(t, p)
      PROVE DisabledInv'
  BY <1>7, QuietSettings
  DEF Acquire, DropSuperseded, Settle, KnowsIds, IsCurrent, appState, stores, pending
<1>8. ASSUME NEW t \in Task, JobStep(t) PROVE DisabledInv'
  BY <1>7, <1>8, PublishKeepsDisabled DEF JobStep
<1>9. ASSUME UNCHANGED <<batch, enabled, writerStep>>, generation' \in {generation, generation + 1},
             \A p \in Provider : cache'[p].shows \in {cache[p].shows, "none", "pending"}
      PROVE DisabledInv'
  <2>1. \A u \in Task : KnowsIds(u)' /\ IsCurrent(u)' =>
           KnowsIds(u) /\ IsCurrent(u) /\ ids'[u] = ids[u]
    BY <1>9 DEF KnowsIds, IsCurrent, Basics, TypeOK, TokensBounded, batch
  <2> QED BY <1>9, <2>1, QuietSettings
<1>10. CASE \E p \in AccountProvider : CommitAccount(p) \/ EndAccountChange(p)
  BY <1>9, <1>10 DEF CommitAccount, EndAccountChange, appState, stores
<1>11. ASSUME NEW p \in AccountProvider, InvalidateAccount(p) PROVE DisabledInv'
  <2>1. \A q \in Provider : cache'[q].shows \in {cache[q].shows, "none", "pending"}
    BY <1>11 DEF InvalidateAccount, Basics, TypeOK
  <2> QED BY <1>9, <1>11, <2>1 DEF InvalidateAccount, stores
<1>12. ASSUME NEW w \in Writer, SaveSettings(w) PROVE DisabledInv'
  <2>1. writerStep'[w].at = "saved" /\ writerStep'[w].ids = enabled'
    BY <1>12 DEF SaveSettings, Basics, TypeOK
  <2> QED BY <2>1 DEF DisabledInv, Settled
<1>13. ASSUME NEW w \in Writer, InvalidateAndPrune(w) PROVE DisabledInv'
  <2>1. /\ writerStep[w].at = "saved" /\ writerStep'[w].at # "saved"
        /\ \A v \in Writer : v # w => writerStep'[v] = writerStep[v]
        /\ UNCHANGED <<enabled, batch>> /\ generation' = generation + 1
    BY <1>13 DEF InvalidateAndPrune, Basics, TypeOK, stores
  <2>2. \A u \in Task : ~IsCurrent(u)'
    BY <2>1 DEF IsCurrent, Basics, TypeOK, TokensBounded, batch
  <2>3. \A p \in Provider : /\ cache'[p].shows \in {cache[p].shows, "none"}
                            /\ p \notin writerStep[w].ids => cache'[p].shows = "none"
    BY <1>13 DEF InvalidateAndPrune, PrunedTo, NoEntry
  <2>4. CASE writerStep[w].ids = enabled
    BY <2>1, <2>2, <2>3, <2>4 DEF DisabledInv
  <2>5. CASE writerStep[w].ids # enabled
    <3>1. Settled' => Settled BY <2>1, <2>5 DEF Settled
    <3> QED BY <2>1, <2>2, <2>3, <3>1 DEF DisabledInv
  <2> QED BY <2>4, <2>5
<1>14. ASSUME NEW w \in Writer, EndSettingsChange(w) PROVE DisabledInv'
  <2>1. /\ writerStep[w].at # "saved" /\ writerStep'[w].at # "saved"
        /\ \A v \in Writer : v # w => writerStep'[v] = writerStep[v]
        /\ UNCHANGED <<enabled, batch, generation, cache>>
    BY <1>14 DEF EndSettingsChange, Basics, TypeOK, appState, stores
  <2>2. Settled' <=> Settled BY <2>1 DEF Settled
  <2> QED BY <2>1, <2>2 DEF DisabledInv, KnowsIds, IsCurrent, batch
<1>15. CASE \/ \E p \in Provider : ToggleFromTray(p) \/ Age(p)
            \/ \E p \in Watchable : ToggleWatch(p)
  BY <1>9, <1>15 DEF ToggleFromTray, Age, ToggleWatch, appState, stores, pending
<1>16. CASE UNCHANGED vars BY <1>9, <1>16 DEF vars, appState, stores, pending
<1>17. CASE \/ \E t \in Task : \E k \in Kind : StartFromUser(t, k)
            \/ \E t \in Task : StartFollowUp(t)
            \/ \E k \in Kind : StartFromLoop(k)
  BY <1>1, <1>17 DEF StartFromUser, StartFollowUp, StartFromLoop, Enter, Kind
<1> QED
  BY <1>2, <1>3, <1>4, <1>5, <1>6, <1>8, <1>10, <1>11, <1>12, <1>13, <1>14, <1>15, <1>16, <1>17
  DEF Next, BatchStep, AccountCommandStep, SettingsCommandStep

\* Nothing takes a tray toggle back.
LEMMA ToggledStays == ASSUME toggled, [Next]_vars PROVE toggled'
<1>1. CASE \E t \in Task : \/ \E k \in Kind : StartFromUser(t, k)
                          \/ StartFollowUp(t)
  BY <1>1 DEF StartFromUser, StartFollowUp, Enter, history
<1>2. CASE \E k \in Kind : StartFromLoop(k)
  BY <1>2 DEF StartFromLoop, Enter, history
<1>3. CASE \E t \in Task : BatchStep(t)
  BY <1>3 DEF BatchStep, LoadSettings, LoadInputs, Begin, RejectBegin, Prune, Spawn, JobStep,
     Acquire, DropSuperseded, PublishUsage, PublishFailure, Settle, SettleLanes, Finish,
     FinishSuperseded, Complete, history
<1>4. CASE \E p \in AccountProvider : CommitAccount(p) \/ AccountCommandStep(p)
  BY <1>4 DEF CommitAccount, AccountCommandStep, InvalidateAccount, EndAccountChange, history
<1>5. CASE \E w \in Writer : SaveSettings(w) \/ SettingsCommandStep(w)
  BY <1>5 DEF SaveSettings, SettingsCommandStep, InvalidateAndPrune, EndSettingsChange, history
<1>6. CASE \/ \E p \in Provider : ToggleFromTray(p) \/ Age(p)
           \/ \E p \in Watchable : ToggleWatch(p)
  BY <1>6 DEF ToggleFromTray, Age, ToggleWatch, history
<1>7. CASE UNCHANGED vars BY <1>7 DEF vars, history
<1> QED BY <1>1, <1>2, <1>3, <1>4, <1>5, <1>6, <1>7 DEF Next

\* With every saved change pruned, usage is cached for enabled providers only,
\* for any number of update_settings commands that overlap, as long as nobody
\* uses the tray's check items: they write the settings and prune nothing.
THEOREM DisabledNeverCached == Spec => []NoDisabledUsage
<1>1. Init => Basics /\ (toggled \/ DisabledInv)
  <2>1. Init => (\A p \in Provider : cache[p].shows = "none")
    BY DEF Init, NoEntry
  <2>2. Init => \A t \in Task : ~KnowsIds(t) BY DEF Init, KnowsIds
  <2> QED BY <2>1, <2>2, BasicsInit DEF DisabledInv
<1>2. Basics /\ (toggled \/ DisabledInv) /\ [Next]_vars => (Basics /\ (toggled \/ DisabledInv))'
  BY BasicsNext, DisabledNext, ToggledStays
<1>3. Basics /\ (toggled \/ DisabledInv) => NoDisabledUsage
  BY DEF DisabledInv, Settled, NoDisabledUsage
<1> QED BY <1>1, <1>2, <1>3, PTL DEF Spec
=============================================================================
