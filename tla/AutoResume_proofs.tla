------------------------- MODULE AutoResume_proofs -------------------------
(* Theorems about AutoResume, for any calls, lanes, sessions and bounds.     *)
EXTENDS AutoResume, TLAPS

USE ResumeAssumption

LEMMA NoSnapshotType == NoSnapshot \in Snapshot
BY DEF NoSnapshot, Snapshot

(***************************************************************************)
(* What a step may do to the markers, the phases and the generation.       *)
(***************************************************************************)

\* The steps that move a call on and leave the shared state alone.
Moves(o) ==
    \/ ReadSettings(o) \/ ReadLane(o) \/ GiveUp(o) \/ Found(o) \/ RecheckSettings(o)
    \/ RecheckLane(o) \/ RecheckIdentity(o) \/ Confirm(o)

\* The steps that return without touching the shared state.
Leaves(o) == Ignore(o) \/ SkipCapture(o) \/ SkipResume(o)

\* The commands' steps that change a store only.
Saves == (\E l \in Lane : SwitchAccount(l)) \/ TurnOn \/ TurnOff \/ ChangeTokenAccount

LEMMA NextCases ==
    ASSUME [Next]_vars
    PROVE  \/ UNCHANGED vars
           \/ Saves
           \/ Command
           \/ \E o \in Observer :
                \/ Observe(o) \/ Moves(o) \/ Leaves(o) \/ Clear(o) \/ ClearMismatched(o)
                \/ BeginCapture(o) \/ Scan(o) \/ FinishCapture(o) \/ BeginResume(o)
                \/ Act(o) \/ Abandon(o) \/ FinishResume(o)
BY DEF Next, Step, CaptureStep, ResumeStep, Moves, Leaves, Saves

LEMMA BasicsInit == Init => Basics
BY NoSnapshotType DEF Init, Basics, TypeOK, OpsBounded, MarkersOwned, Captures, Resumes, Place

LEMMA TypeStutter == ASSUME Basics, UNCHANGED vars PROVE Basics'
BY DEF Basics, TypeOK, OpsBounded, MarkersOwned, Captures, Resumes, vars, state, stores,
       locals, history, bounds

LEMMA BasicsSaves == ASSUME Basics, Saves PROVE Basics'
<1> USE DEF Basics, Saves, SwitchAccount, TurnOn, TurnOff, ChangeTokenAccount, Change
<1>1. UNCHANGED <<state, at, locals, history, snapshots>> OBVIOUS
<1>2. /\ watch' \in BOOLEAN /\ managed' \in BOOLEAN /\ account' \in Lane
      /\ previous' \in Lane /\ owed' \in Nat /\ changes' \in Nat
  <2>1. CASE \E l \in Lane : SwitchAccount(l) BY <2>1 DEF TypeOK
  <2>2. CASE TurnOn BY <2>2 DEF TypeOK
  <2>3. CASE TurnOff
    <3>1. watch' \in BOOLEAN BY <2>3
    <3>2. owed' \in Nat /\ changes' \in Nat BY <2>3 DEF TypeOK
    <3> QED BY <2>3, <3>1, <3>2 DEF TypeOK
  <2>4. CASE ChangeTokenAccount BY <2>4 DEF TypeOK
  <2> QED BY <2>1, <2>2, <2>3, <2>4
<1>5. TypeOK' BY <1>1, <1>2 DEF TypeOK, state, locals, history
<1>3. OpsBounded' BY <1>1 DEF OpsBounded, state, locals
<1>4. MarkersOwned' BY <1>1 DEF MarkersOwned, Captures, Resumes, state, locals
<1> QED BY <1>3, <1>4, <1>5

LEMMA BasicsCommand == ASSUME Basics, Command PROVE Basics'
<1> USE DEF Basics, Command, InvalidateSwitch, ClearOwed, ClearProvider
<1>1. UNCHANGED <<at, locals, history, bounds>> OBVIOUS
<1>2. /\ arm' = {} /\ capturing' = {} /\ resuming' = {} /\ generation' = generation + 1
      /\ watch' = watch /\ managed' = managed /\ account' = account
  OBVIOUS
<1>6. previous' \in Lane /\ owed' \in Nat
  <2>1. CASE InvalidateSwitch BY <2>1 DEF TypeOK
  <2>2. CASE ClearOwed BY <2>2 DEF TypeOK
  <2> QED BY <2>1, <2>2
<1>7. TypeOK' BY <1>1, <1>2, <1>6 DEF TypeOK, locals, history, bounds
<1>3. OpsBounded' BY <1>1, <1>2 DEF TypeOK, OpsBounded, locals
<1>4. \A o \in Observer : opGen'[o] # generation' BY <1>1 DEF TypeOK, OpsBounded, locals
<1>5. MarkersOwned' BY <1>2, <1>4 DEF MarkersOwned
<1> QED BY <1>3, <1>5, <1>7

LEMMA BasicsObserve == ASSUME Basics, NEW o \in Observer, Observe(o) PROVE Basics'
BY DEF Observe, GoTo, Basics, TypeOK, Place,
       OpsBounded, MarkersOwned, Captures, Resumes, state, stores, history

\* A call that moves on stays in its phase.
LEMMA MovesPhase ==
    ASSUME TypeOK, NEW o \in Observer, Moves(o)
    PROVE  /\ UNCHANGED <<state, stores, locals, history, bounds>>
           /\ at' \in [Observer -> Place]
           /\ \A u \in Observer : /\ Captures(u)' <=> Captures(u)
                                  /\ Resumes(u)' <=> Resumes(u)
           /\ \A u \in Observer \ {o} : at'[u] = at[u]
           /\ at'[o] \notin {"scan", "arm"}
BY DEF Moves, ReadSettings, ReadLane, GiveUp, Found, RecheckSettings, RecheckLane,
       RecheckIdentity, Confirm, GoTo, TypeOK, Captures, Resumes, Place

LEMMA BasicsMoves == ASSUME Basics, NEW o \in Observer, Moves(o) PROVE Basics'
<1>1. TypeOK' BY MovesPhase DEF Basics, TypeOK, state, stores, locals, history, bounds
<1>2. OpsBounded' BY MovesPhase DEF Basics, OpsBounded, state, locals
<1>3. MarkersOwned' BY MovesPhase DEF Basics, MarkersOwned, state, locals
<1> QED BY <1>1, <1>2, <1>3 DEF Basics

\* A call that returns is in no phase and holds no operation.
LEMMA ReturnPhase ==
    ASSUME TypeOK, NEW o \in Observer, Return(o)
    PROVE  /\ at' \in [Observer -> Place]
           /\ snap' \in [Observer -> Snapshot]
           /\ opGen' \in [Observer -> Nat]
           /\ target' \in [Observer -> Session \cup {NoSession}]
           /\ ok' \in [Observer -> BOOLEAN]
           /\ begunOn' \in [Observer -> Nat]
           /\ opGen'[o] = 0 /\ at'[o] = "idle"
           /\ ~Captures(o)' /\ ~Resumes(o)'
           /\ \A u \in Observer \ {o} :
                 /\ at'[u] = at[u] /\ snap'[u] = snap[u] /\ opGen'[u] = opGen[u]
                 /\ target'[u] = target[u] /\ ok'[u] = ok[u] /\ begunOn'[u] = begunOn[u]
                 /\ Captures(u)' <=> Captures(u)
                 /\ Resumes(u)' <=> Resumes(u)
BY NoSnapshotType DEF Return, GoTo, TypeOK, Captures, Resumes, Place

LEMMA BasicsLeaves == ASSUME Basics, NEW o \in Observer, Leaves(o) PROVE Basics'
<1>1. Return(o) /\ UNCHANGED <<state, stores, history, bounds>> /\ ~Captures(o) /\ ~Resumes(o)
  BY DEF Leaves, Ignore, SkipCapture, SkipResume, Captures, Resumes
<1>2. TypeOK' BY <1>1, ReturnPhase DEF Basics, TypeOK, state, stores, history, bounds
<1>3. OpsBounded' BY <1>1, ReturnPhase DEF Basics, OpsBounded, TypeOK, state
<1>4. MarkersOwned' BY <1>1, ReturnPhase DEF Basics, MarkersOwned, state
<1> QED BY <1>2, <1>3, <1>4 DEF Basics

\* A call that clears and returns
LEMMA BasicsClears ==
    ASSUME Basics, NEW o \in Observer, ClearProvider, Return(o),
           UNCHANGED <<stores, history, bounds>>
    PROVE  Basics'
<1>1. TypeOK' BY ReturnPhase DEF Basics, TypeOK, ClearProvider, stores, history, bounds
<1>2. OpsBounded' BY ReturnPhase DEF Basics, OpsBounded, TypeOK, ClearProvider
<1>3. \A u \in Observer : opGen'[u] # generation'
  BY ReturnPhase DEF Basics, OpsBounded, TypeOK, ClearProvider
<1>4. MarkersOwned' BY <1>3 DEF MarkersOwned, ClearProvider
<1> QED BY <1>1, <1>2, <1>4 DEF Basics

LEMMA BasicsBeginCapture == ASSUME Basics, NEW o \in Observer, BeginCapture(o) PROVE Basics'
<1> USE DEF Basics, BeginCapture, GoTo
<1>1. /\ arm' = {} /\ capturing' = {o} /\ generation' \in Nat /\ generation' >= generation
      /\ UNCHANGED <<watch, managed, account, previous, owed, snap, target, ok, begunOn,
                     armings, spent, snapshots, changes>>
  BY DEF TypeOK, stores, history, bounds
<1>2. opGen' = [opGen EXCEPT ![o] = generation'] /\ at' = [at EXCEPT ![o] = "scan"]
  OBVIOUS
<1>3. resuming' \subseteq Observer BY DEF TypeOK
<1>4. TypeOK' BY <1>1, <1>2, <1>3 DEF TypeOK, Place
<1>5. OpsBounded' BY <1>1, <1>2 DEF TypeOK, OpsBounded
<1>6. \A u \in Observer \ {o} : at'[u] = at[u] /\ opGen'[u] = opGen[u] BY <1>2 DEF TypeOK
<1>7. at'[o] = "scan" /\ opGen'[o] = generation' BY <1>2 DEF TypeOK
<1>8. \A u \in Observer : Resumes(u)' <=> Resumes(u)
  BY <1>6, <1>7 DEF Resumes
<1>9. \A u \in Observer : Captures(u)' <=> (u = o \/ Captures(u))
  BY <1>6, <1>7 DEF Captures
<1>10. CASE arm = {}
  <2>1. capturing = {} /\ generation' = generation /\ resuming' = resuming BY <1>10
  <2> QED BY <1>1, <1>4, <1>5, <1>6, <1>7, <1>8, <1>9, <2>1 DEF MarkersOwned, Resumes
<1>11. CASE arm # {}
  <2>1. generation' = generation + 1 /\ resuming' = {} BY <1>11
  <2>2. \A u \in Observer : opGen'[u] = generation' <=> u = o
    BY <1>6, <1>7, <2>1 DEF OpsBounded, TypeOK
  <2>3. ~Resumes(o)' BY <1>7 DEF Resumes
  <2> QED BY <1>1, <1>4, <1>5, <1>9, <2>1, <2>2, <2>3 DEF MarkersOwned
<1> QED BY <1>10, <1>11

LEMMA BasicsScan == ASSUME Basics, NEW o \in Observer, Scan(o) PROVE Basics'
BY DEF Scan, GoTo, Basics, TypeOK, Place, OpsBounded, MarkersOwned, Captures, Resumes,
       state, stores, history, bounds

LEMMA ArmingType ==
    ASSUME TypeOK, NEW o \in Observer, Arms(o)
    PROVE  [session |-> target[o], lane |-> snap[o].lane, slots |-> snap[o].blocked] \in Arm
BY DEF Arms, TypeOK, Arm, Snapshot

LEMMA BasicsFinishCapture == ASSUME Basics, NEW o \in Observer, FinishCapture(o) PROVE Basics'
<1> USE DEF Basics, FinishCapture
<1>1. Return(o) /\ UNCHANGED <<resuming, generation, stores, spent, bounds>>
      /\ capturing' = capturing \ {o}
  OBVIOUS
<1>2. /\ arm' \subseteq Arm
      /\ \A a, b \in arm' : a = b
      /\ armings' \in Nat
  BY ArmingType DEF TypeOK
<1>3. TypeOK' BY <1>1, <1>2, ReturnPhase DEF TypeOK, stores, bounds
<1>4. OpsBounded' BY <1>1, ReturnPhase DEF OpsBounded, TypeOK
<1>5. ~Resumes(o) BY DEF Resumes
<1>6. MarkersOwned' BY <1>1, <1>5, ReturnPhase DEF MarkersOwned
<1> QED BY <1>3, <1>4, <1>6

LEMMA BasicsBeginResume == ASSUME Basics, NEW o \in Observer, BeginResume(o) PROVE Basics'
<1> USE DEF Basics, BeginResume, GoTo
<1>1. PICK a \in arm : CanResume(a, o) /\ target' = [target EXCEPT ![o] = a.session] OBVIOUS
<1>2. a.session \in Session BY DEF TypeOK, Arm
<1>3. TypeOK' BY <1>1, <1>2 DEF TypeOK, Place, stores, history, bounds
<1>4. OpsBounded' BY DEF OpsBounded, TypeOK
<1>5. resuming = {} BY <1>1 DEF CanResume
<1>6. /\ \A u \in Observer \ {o} : at'[u] = at[u] /\ opGen'[u] = opGen[u]
      /\ at'[o] = "rescan" /\ opGen'[o] = generation
  BY DEF TypeOK
<1>7. MarkersOwned' BY <1>5, <1>6 DEF MarkersOwned, Captures, Resumes
<1> QED BY <1>3, <1>4, <1>7

LEMMA BasicsAct == ASSUME Basics, NEW o \in Observer, Act(o) PROVE Basics'
<1> USE DEF Basics, Act, GoTo
<1>1. PICK succeeded \in BOOLEAN :
         /\ ok' = [ok EXCEPT ![o] = succeeded]
         /\ spent' = IF succeeded THEN spent \cup {begunOn[o]} ELSE spent
  OBVIOUS
<1>2. at' = [at EXCEPT ![o] = "finish"] OBVIOUS
<1>9. ok' \in [Observer -> BOOLEAN] BY <1>1 DEF TypeOK
<1>10. begunOn[o] \in Nat BY DEF TypeOK
<1>3. spent' \subseteq Nat BY <1>1, <1>10 DEF TypeOK
<1>7. at' \in [Observer -> Place] BY <1>2 DEF TypeOK, Place
<1>8. UNCHANGED <<state, stores, snap, opGen, target, begunOn, armings, bounds>> OBVIOUS
<1>4. TypeOK' BY <1>3, <1>7, <1>8, <1>9 DEF TypeOK, state, stores, bounds
<1>5. OpsBounded' BY DEF OpsBounded, state
<1>6. MarkersOwned' BY <1>2 DEF TypeOK, MarkersOwned, Captures, Resumes, state
<1> QED BY <1>4, <1>5, <1>6

LEMMA BasicsAbandon == ASSUME Basics, NEW o \in Observer, Abandon(o) PROVE Basics'
<1> USE DEF Basics, Abandon
<1>1. CASE o \in resuming BY <1>1, BasicsClears
<1>2. CASE o \notin resuming
  <2>1. Return(o) /\ UNCHANGED <<state, stores, history, bounds>> /\ ~Captures(o)
    BY <1>2 DEF Captures
  <2>2. opGen[o] # generation BY <1>2 DEF MarkersOwned, Resumes
  <2>3. TypeOK' BY <2>1, ReturnPhase DEF TypeOK, state, stores, history, bounds
  <2>4. OpsBounded' BY <2>1, ReturnPhase DEF OpsBounded, TypeOK, state
  <2>5. MarkersOwned' BY <2>1, <2>2, ReturnPhase DEF MarkersOwned, state
  <2> QED BY <2>3, <2>4, <2>5
<1> QED BY <1>1, <1>2

LEMMA BasicsFinishResume == ASSUME Basics, NEW o \in Observer, FinishResume(o) PROVE Basics'
<1> USE DEF Basics, FinishResume
<1>1. /\ Return(o) /\ UNCHANGED <<capturing, generation, stores, history, bounds>>
      /\ resuming' = resuming \ {o} /\ arm' \subseteq arm /\ ~Captures(o)
  BY DEF Captures
<1>2. TypeOK' BY <1>1, ReturnPhase DEF TypeOK, stores, history, bounds
<1>3. OpsBounded' BY <1>1, ReturnPhase DEF OpsBounded, TypeOK
<1>4. MarkersOwned' BY <1>1, ReturnPhase DEF MarkersOwned
<1> QED BY <1>2, <1>3, <1>4

LEMMA BasicsNext == Basics /\ [Next]_vars => Basics'
<1> SUFFICES ASSUME Basics, [Next]_vars PROVE Basics' OBVIOUS
<1>1. ASSUME NEW o \in Observer, Clear(o) \/ ClearMismatched(o) PROVE Basics'
  BY <1>1, BasicsClears DEF Clear, ClearMismatched
<1> QED BY <1>1, NextCases, TypeStutter, BasicsSaves, BasicsCommand, BasicsObserve,
           BasicsMoves, BasicsLeaves, BasicsBeginCapture, BasicsScan,
           BasicsFinishCapture, BasicsBeginResume, BasicsAct, BasicsAbandon,
           BasicsFinishResume

LEMMA BasicsAlways == Spec => []Basics
BY BasicsInit, BasicsNext, PTL DEF Spec

\* Every reachable state keeps the shape of TypeOK, and the map holds one arm at
\* most.
THEOREM TypeCorrect == Spec => []TypeOK
BY BasicsAlways, PTL DEF Basics

\* The markers belong to the operations begun since the last clear and to no
\* other, however many calls overlap (finish_capture_state,
\* finish_resume_attempt_state).
THEOREM MarkersAreOwned == Spec => []MarkersOwned
BY BasicsAlways, PTL DEF Basics
-----------------------------------------------------------------------------
(* The switch *)

LEMMA EnabledInit == Init => EnabledInv
BY DEF Init, EnabledInv

LEMMA EnabledNext == Basics /\ EnabledInv /\ [Next]_vars => EnabledInv'
<1> SUFFICES ASSUME Basics, EnabledInv, [Next]_vars PROVE EnabledInv' OBVIOUS
<1> USE DEF EnabledInv
<1>1. CASE UNCHANGED vars BY <1>1 DEF vars, state, stores, locals
<1>2. CASE Saves
  <2>1. watch' \/ owed' > 0 \/ (watch' = watch /\ owed' = owed)
    BY <1>2 DEF Saves, SwitchAccount, TurnOn, TurnOff, ChangeTokenAccount, Basics, TypeOK
  <2>2. UNCHANGED <<state, at, locals>>
    BY <1>2 DEF Saves, SwitchAccount, TurnOn, TurnOff, ChangeTokenAccount
  <2> QED BY <2>1, <2>2 DEF state, locals
<1>3. ASSUME ClearProvider, \A u \in Observer : opGen'[u] <= opGen[u] PROVE EnabledInv'
  BY <1>3 DEF ClearProvider, Basics, OpsBounded, TypeOK
<1>4. CASE Command
  BY <1>3, <1>4 DEF Command, InvalidateSwitch, ClearOwed, locals, Basics, TypeOK
<1>5. ASSUME NEW o \in Observer, UNCHANGED <<arm, generation, stores>>, at'[o] # "arm",
             \A u \in Observer \ {o} :
                at'[u] = at[u] /\ ok'[u] = ok[u] /\ opGen'[u] = opGen[u]
      PROVE  EnabledInv'
  BY <1>5 DEF stores
<1>6. ASSUME NEW o \in Observer, Observe(o) \/ Leaves(o) \/ Act(o) PROVE EnabledInv'
  <2>1. UNCHANGED <<arm, generation, stores>>
    BY <1>6 DEF Observe, Leaves, Ignore, SkipCapture, SkipResume, Act, state
  <2>2. /\ at'[o] # "arm"
        /\ \A u \in Observer \ {o} :
              at'[u] = at[u] /\ ok'[u] = ok[u] /\ opGen'[u] = opGen[u]
    BY <1>6, ReturnPhase
       DEF Observe, Leaves, Ignore, SkipCapture, SkipResume, Act, GoTo, Basics, TypeOK
  <2> QED BY <1>5, <2>1, <2>2
<1>7. ASSUME NEW o \in Observer, Moves(o) PROVE EnabledInv'
  BY <1>5, <1>7, MovesPhase DEF Basics, state, locals
<1>8. ASSUME NEW o \in Observer, Clear(o) \/ ClearMismatched(o) PROVE EnabledInv'
  <2>1. \A u \in Observer : opGen'[u] <= opGen[u]
    BY <1>8, ReturnPhase DEF Clear, ClearMismatched, Basics, TypeOK
  <2> QED BY <1>3, <1>8, <2>1 DEF Clear, ClearMismatched
<1>9. ASSUME NEW o \in Observer, BeginCapture(o) PROVE EnabledInv'
  <2>1. /\ arm' = {} /\ UNCHANGED <<stores, ok>>
        /\ generation' = generation \/ generation' = generation + 1
        /\ opGen' = [opGen EXCEPT ![o] = generation'] /\ at' = [at EXCEPT ![o] = "scan"]
    BY <1>9 DEF BeginCapture, GoTo
  <2>2. \A u \in Observer \ {o} : at'[u] = at[u] /\ opGen'[u] = opGen[u]
    BY <2>1 DEF Basics, TypeOK
  <2>3. at'[o] = "scan" BY <2>1 DEF Basics, TypeOK
  <2> QED BY <2>1, <2>2, <2>3 DEF Basics, OpsBounded, TypeOK, stores
<1>10. ASSUME NEW o \in Observer, Scan(o) PROVE EnabledInv'
  <2>1. /\ UNCHANGED <<state, stores, opGen>>
        /\ at' = [at EXCEPT ![o] = "arm"] /\ ok' = [ok EXCEPT ![o] = watch]
    BY <1>10 DEF Scan, GoTo
  <2>2. ok'[o] = watch /\ \A u \in Observer \ {o} : at'[u] = at[u] /\ ok'[u] = ok[u]
    BY <2>1 DEF Basics, TypeOK
  <2> QED BY <2>1, <2>2 DEF state, stores
<1>11. ASSUME NEW o \in Observer, FinishCapture(o) PROVE EnabledInv'
  <2>1. Return(o) /\ UNCHANGED <<generation, stores>> BY <1>11 DEF FinishCapture
  <2>2. arm' # {} => arm # {} \/ (at[o] = "arm" /\ ok[o] /\ opGen[o] = generation)
    BY <1>11 DEF FinishCapture, Arms
  <2> QED BY <2>1, <2>2, ReturnPhase DEF stores, Basics
<1>12. ASSUME NEW o \in Observer, BeginResume(o) PROVE EnabledInv'
  <2>1. /\ UNCHANGED <<arm, generation, stores, ok>>
        /\ opGen' = [opGen EXCEPT ![o] = generation] /\ at' = [at EXCEPT ![o] = "rescan"]
    BY <1>12 DEF BeginResume, GoTo
  <2> QED BY <1>5, <2>1 DEF Basics, TypeOK
<1>13. ASSUME NEW o \in Observer, Abandon(o) PROVE EnabledInv'
  <2>1. \A u \in Observer : opGen'[u] <= opGen[u]
    BY <1>13, ReturnPhase DEF Abandon, Basics, TypeOK
  <2>2. CASE o \in resuming BY <1>3, <1>13, <2>1, <2>2 DEF Abandon
  <2>3. CASE o \notin resuming
    BY <1>5, <1>13, <2>3, ReturnPhase DEF Abandon, Basics, state
  <2> QED BY <2>2, <2>3
<1>14. ASSUME NEW o \in Observer, FinishResume(o) PROVE EnabledInv'
  <2>1. Return(o) /\ UNCHANGED <<generation, stores>> /\ arm' \subseteq arm
    BY <1>14 DEF FinishResume
  <2> QED BY <2>1, ReturnPhase DEF stores, Basics
<1> QED BY <1>1, <1>2, <1>4, <1>6, <1>7, <1>8, <1>9, <1>10, <1>11, <1>12, <1>13, <1>14,
           NextCases

\* With the switch off and its clear done nothing is armed, whatever captures
\* were under way (set_provider_auto_resume_after_quota_reset, finish_capture).
THEOREM OffDisarms == Spec => []DisarmedWhenOff
<1>1. Basics /\ EnabledInv => DisarmedWhenOff
  BY DEF Basics, TypeOK, EnabledInv, DisarmedWhenOff
<1> QED BY <1>1, EnabledInit, EnabledNext, BasicsAlways, PTL DEF Spec
-----------------------------------------------------------------------------
(* The account *)

LEMMA IdentityInit == Init => IdentityInv
BY DEF Init, IdentityInv

LEMMA IdentityNext ==
    ASSUME Rechecks, Basics, IdentityInv, [Next]_vars
    PROVE  IdentityInv'
<1> USE DEF IdentityInv
<1>1. CASE UNCHANGED vars BY <1>1 DEF vars, state, stores, locals
<1>2. CASE Saves
  <2>1. UNCHANGED <<state, at, locals>> /\ (previous' = account' => UNCHANGED <<previous, account>>)
    BY <1>2 DEF Saves, SwitchAccount, TurnOn, TurnOff, ChangeTokenAccount
  <2> QED BY <2>1 DEF state, locals
<1>3. ASSUME generation' = generation + 1,
             \A u \in Observer : at'[u] = "confirm" => opGen'[u] = opGen[u]
      PROVE  IdentityInv'
  BY <1>3 DEF Basics, OpsBounded, TypeOK
<1>4. CASE Command
  BY <1>3, <1>4 DEF Command, InvalidateSwitch, ClearOwed, ClearProvider, locals
<1>5. ASSUME NEW o \in Observer, UNCHANGED <<generation, stores>>, at'[o] # "confirm",
             \A u \in Observer \ {o} :
                at'[u] = at[u] /\ snap'[u] = snap[u] /\ opGen'[u] = opGen[u]
      PROVE  IdentityInv'
  BY <1>5 DEF stores
<1>6. ASSUME NEW o \in Observer,
             Leaves(o) \/ Clear(o) \/ ClearMismatched(o) \/ FinishCapture(o)
                \/ Abandon(o) \/ FinishResume(o)
      PROVE  IdentityInv'
  <2>1. /\ Return(o) /\ UNCHANGED stores
        /\ generation' = generation \/ generation' = generation + 1
    BY <1>6 DEF Leaves, Ignore, SkipCapture, SkipResume, Clear, ClearMismatched,
                FinishCapture, Abandon, FinishResume, ClearProvider, state
  <2>2. /\ at'[o] = "idle"
        /\ \A u \in Observer \ {o} :
                at'[u] = at[u] /\ snap'[u] = snap[u] /\ opGen'[u] = opGen[u]
    BY <2>1, ReturnPhase DEF Basics
  <2>3. CASE generation' = generation BY <1>5, <2>1, <2>2, <2>3
  <2>4. CASE generation' = generation + 1 BY <1>3, <2>2, <2>4
  <2> QED BY <2>1, <2>3, <2>4
<1>7. ASSUME NEW o \in Observer, Observe(o) \/ Scan(o) \/ BeginResume(o) \/ Act(o)
      PROVE  IdentityInv'
  <2>1. UNCHANGED <<generation, stores>>
    BY <1>7 DEF Observe, Scan, BeginResume, Act, state
  <2>2. /\ at'[o] # "confirm"
        /\ \A u \in Observer \ {o} :
                at'[u] = at[u] /\ snap'[u] = snap[u] /\ opGen'[u] = opGen[u]
    BY <1>7 DEF Observe, Scan, BeginResume, Act, GoTo, Basics, TypeOK
  <2> QED BY <1>5, <2>1, <2>2
<1>8. ASSUME NEW o \in Observer, BeginCapture(o) PROVE IdentityInv'
  <2>1. /\ generation' = generation \/ generation' = generation + 1
        /\ at'[o] # "confirm" /\ UNCHANGED <<stores, snap>>
        /\ \A u \in Observer \ {o} : at'[u] = at[u] /\ opGen'[u] = opGen[u]
    BY <1>8 DEF BeginCapture, GoTo, Basics, TypeOK
  <2>2. CASE generation' = generation BY <1>5, <2>1, <2>2
  <2>3. CASE generation' = generation + 1 BY <1>3, <2>1, <2>3
  <2> QED BY <2>1, <2>2, <2>3
<1>9. ASSUME NEW o \in Observer, Moves(o) PROVE IdentityInv'
  <2>1. UNCHANGED <<state, stores, locals>> /\ \A u \in Observer \ {o} : at'[u] = at[u]
    BY <1>9, MovesPhase DEF Basics
  <2>2. at'[o] = "confirm" => snap[o].lane = account
    BY <1>9 DEF Moves, ReadSettings, ReadLane, GiveUp, Found, RecheckSettings, RecheckLane,
                RecheckIdentity, Confirm, GoTo, Basics, TypeOK
  <2> QED BY <2>1, <2>2 DEF state, stores, locals
<1> QED BY <1>1, <1>2, <1>4, <1>6, <1>7, <1>8, <1>9, NextCases

\* The step in question is Confirm, of a resume that is still valid.
LEMMA ConfirmsValid ==
    ASSUME Basics, [Next]_vars, NEW o \in Observer, at[o] = "confirm", at'[o] = "act"
    PROVE  Confirm(o) /\ StillValid(o)
<1>1. \A u \in Observer : u # o /\ Moves(u) => at'[o] = at[o]
  BY MovesPhase DEF Basics
<1>2. \A u \in Observer : Return(u) => at'[o] # "act"
  BY ReturnPhase DEF Basics
<1>3. at \in [Observer -> Place] BY DEF Basics, TypeOK
<1>4. ~UNCHANGED vars /\ ~Saves /\ ~Command
  BY DEF vars, Saves, SwitchAccount, TurnOn, TurnOff, ChangeTokenAccount, Command,
         InvalidateSwitch, ClearOwed
<1>5. ASSUME NEW u \in Observer,
             Observe(u) \/ BeginCapture(u) \/ Scan(u) \/ BeginResume(u) \/ Act(u)
      PROVE  FALSE
  BY <1>3, <1>5 DEF Observe, BeginCapture, Scan, BeginResume, Act, GoTo
<1>6. ASSUME NEW u \in Observer,
             Leaves(u) \/ Clear(u) \/ ClearMismatched(u) \/ FinishCapture(u)
                \/ Abandon(u) \/ FinishResume(u)
      PROVE  FALSE
  BY <1>2, <1>6 DEF Leaves, Ignore, SkipCapture, SkipResume, Clear, ClearMismatched,
                    FinishCapture, Abandon, FinishResume
<1>7. Moves(o) BY <1>1, <1>4, <1>5, <1>6, NextCases
<1>8. Confirm(o)
  BY <1>7 DEF Moves, ReadSettings, ReadLane, GiveUp, Found, RecheckSettings, RecheckLane,
              RecheckIdentity
<1> QED BY <1>3, <1>8 DEF Confirm, GoTo

\* A provider that compares the identity in place never resumes for an account
\* that has been replaced (resume_attempt_is_still_valid).
THEOREM OwnAccountOnly == Rechecks => (Spec => ResumesOwnAccount)
<1> SUFFICES ASSUME Rechecks PROVE Spec => ResumesOwnAccount OBVIOUS
<1>1. Basics /\ IdentityInv /\ [Next]_vars =>
        [\A o \in Observer : at[o] = "confirm" /\ at'[o] = "act" /\ previous = account =>
            snap[o].lane = account /\ ArmMatches(o)]_vars
  <2> SUFFICES ASSUME Basics, IdentityInv, [Next]_vars, NEW o \in Observer,
                      at[o] = "confirm", at'[o] = "act", previous = account
               PROVE  snap[o].lane = account /\ ArmMatches(o)
    OBVIOUS
  <2>1. StillValid(o) BY ConfirmsValid
  <2> QED BY <2>1 DEF StillValid, ArmMatches, IdentityInv
<1>2. Basics /\ IdentityInv /\ [Next]_vars => IdentityInv' BY IdentityNext
<1> QED BY <1>1, <1>2, IdentityInit, BasicsAlways, PTL DEF Spec, ResumesOwnAccount
-----------------------------------------------------------------------------
(* Once per arm *)

LEMMA ArmingInit == Init => ArmingInv
BY BasicsInit DEF Init, ArmingInv, ResumesApart, ResumesTheArm, SpentOnce, Resumes

\* What a step that neither begins a resume nor makes an arm has to keep: calls
\* only leave the resumes, and markers go with the arm or with their call.
LEMMA ArmingShrinks ==
    ASSUME ArmingInv, armings' = armings, spent' = spent,
           \A u \in Observer : Resumes(u)' =>
              /\ Resumes(u) /\ begunOn'[u] = begunOn[u]
              /\ at'[u] # "finish" => at[u] # "finish"
    PROVE  /\ ResumesApart'
           /\ \A u \in Observer : Resumes(u)' /\ at'[u] # "finish" => begunOn'[u] \notin spent'
BY DEF ArmingInv, ResumesApart, SpentOnce

LEMMA ArmingCleared ==
    ASSUME ArmingInv, arm' = {}, resuming' = {}, armings' = armings, spent' = spent,
           \A u \in Observer : Resumes(u)' =>
              Resumes(u) /\ begunOn'[u] = begunOn[u] /\ at'[u] = at[u]
    PROVE  ResumesApart' /\ ResumesTheArm' /\ SpentOnce'
BY ArmingShrinks DEF ResumesTheArm, SpentOnce

\* The steps that change nothing the invariant speaks of.
LEMMA ArmingKept ==
    ASSUME ArmingInv, UNCHANGED <<arm, resuming, history>>,
           \A u \in Observer : Resumes(u)' <=> Resumes(u),
           \A u \in Observer : Resumes(u) =>
              /\ begunOn'[u] = begunOn[u] /\ target'[u] = target[u]
              /\ snap'[u] = snap[u] /\ ok'[u] = ok[u]
              /\ at'[u] = "finish" <=> at[u] = "finish"
    PROVE  ResumesApart' /\ ResumesTheArm' /\ SpentOnce'
<1>1. resuming \subseteq Observer /\ \A u \in resuming : Resumes(u)
  BY DEF ArmingInv, Basics, TypeOK, MarkersOwned
<1>2. ResumesApart' BY DEF ArmingInv, ResumesApart, history
<1>3. ResumesTheArm' BY <1>1 DEF ArmingInv, ResumesTheArm, Matches, history
<1>4. SpentOnce' BY <1>1 DEF ArmingInv, SpentOnce, history
<1> QED BY <1>2, <1>3, <1>4

LEMMA ArmingMoves ==
    ASSUME ArmingInv, NEW o \in Observer, Moves(o)
    PROVE  ResumesApart' /\ ResumesTheArm' /\ SpentOnce'
<1>1. /\ UNCHANGED <<state, locals, history>>
      /\ \A u \in Observer : Resumes(u)' <=> Resumes(u)
      /\ \A u \in Observer \ {o} : at'[u] = at[u]
  BY MovesPhase DEF ArmingInv, Basics
<1>2. at[o] # "finish"
  BY DEF Moves, ReadSettings, ReadLane, GiveUp, Found, RecheckSettings, RecheckLane,
         RecheckIdentity, Confirm
<1>3. resuming \subseteq Observer BY DEF ArmingInv, Basics, TypeOK
<1>4. ResumesApart' BY <1>1 DEF ArmingInv, ResumesApart, locals, history
<1>5. ResumesTheArm' BY <1>1, <1>3 DEF ArmingInv, ResumesTheArm, Matches, state, locals, history
<1>6. SpentOnce'
  <2>1. \A u \in Observer : Resumes(u)' /\ at'[u] # "finish" => begunOn'[u] \notin spent'
    BY <1>1, <1>2 DEF ArmingInv, SpentOnce, locals, history
  <2>2. arm' # {} /\ armings' \in spent' => \E u \in resuming' : at'[u] = "finish" /\ ok'[u]
    BY <1>1, <1>2, <1>3 DEF ArmingInv, SpentOnce, state, locals, history
  <2> QED BY <2>1, <2>2 DEF SpentOnce
<1> QED BY <1>4, <1>5, <1>6

\* Steps of calls that are in no resume, before and after.
LEMMA ArmingAside ==
    ASSUME ArmingInv, NEW o \in Observer,
           Observe(o) \/ Leaves(o) \/ Scan(o)
    PROVE  ResumesApart' /\ ResumesTheArm' /\ SpentOnce'
<1>1. UNCHANGED <<arm, resuming, history>> /\ ~Resumes(o)
  BY DEF Observe, Leaves, Ignore, SkipCapture, SkipResume, Scan, Resumes, state
<1>2. /\ ~Resumes(o)'
      /\ \A u \in Observer \ {o} :
            /\ at'[u] = at[u] /\ begunOn'[u] = begunOn[u] /\ target'[u] = target[u]
            /\ snap'[u] = snap[u] /\ ok'[u] = ok[u]
  <2>1. CASE Observe(o) BY <2>1 DEF Observe, GoTo, Resumes, ArmingInv, Basics, TypeOK
  <2>2. CASE Scan(o) BY <2>2 DEF Scan, GoTo, Resumes, ArmingInv, Basics, TypeOK
  <2>3. CASE Leaves(o)
    BY <2>3, ReturnPhase DEF Leaves, Ignore, SkipCapture, SkipResume, ArmingInv, Basics
  <2> QED BY <2>1, <2>2, <2>3
<1>3. \A u \in Observer : Resumes(u)' <=> Resumes(u) BY <1>1, <1>2 DEF Resumes
<1> QED BY <1>1, <1>2, <1>3, ArmingKept

LEMMA ArmingReturnClears ==
    ASSUME ArmingInv, NEW o \in Observer, Return(o), ClearProvider, UNCHANGED history
    PROVE  ResumesApart' /\ ResumesTheArm' /\ SpentOnce'
<1>1. \A u \in Observer : Resumes(u)' =>
         Resumes(u) /\ begunOn'[u] = begunOn[u] /\ at'[u] = at[u]
  BY ReturnPhase DEF ArmingInv, Basics
<1> QED BY <1>1, ArmingCleared DEF ClearProvider, history

LEMMA ArmingBeginCapture ==
    ASSUME ArmingInv, NEW o \in Observer, BeginCapture(o)
    PROVE  ResumesApart' /\ ResumesTheArm' /\ SpentOnce'
<1>1. /\ UNCHANGED <<history, snap, target, ok, begunOn>>
      /\ ~Resumes(o) /\ ~Resumes(o)'
      /\ \A u \in Observer \ {o} : at'[u] = at[u]
  BY DEF BeginCapture, GoTo, Resumes, ArmingInv, Basics, TypeOK
<1>2. \A u \in Observer : Resumes(u)' <=> Resumes(u) BY <1>1 DEF Resumes
<1>3. CASE arm = {}
  BY <1>1, <1>2, <1>3, ArmingKept DEF BeginCapture
<1>4. CASE arm # {}
  <2>1. arm' = {} /\ resuming' = {} BY <1>4 DEF BeginCapture
  <2> QED BY <1>1, <1>2, <2>1, ArmingCleared DEF history
<1> QED BY <1>3, <1>4

\* A new arm is one that nobody resumes and that has not been resumed.
LEMMA ArmingFinishCapture ==
    ASSUME ArmingInv, NEW o \in Observer, FinishCapture(o)
    PROVE  ResumesApart' /\ ResumesTheArm' /\ SpentOnce'
<1>1. /\ UNCHANGED <<resuming, spent>> /\ ~Resumes(o)
      /\ ~Resumes(o)'
      /\ \A u \in Observer \ {o} :
            /\ at'[u] = at[u] /\ begunOn'[u] = begunOn[u] /\ target'[u] = target[u]
            /\ snap'[u] = snap[u] /\ ok'[u] = ok[u]
  BY ReturnPhase DEF FinishCapture, Resumes, ArmingInv, Basics
<1>2. \A u \in Observer : Resumes(u)' <=> Resumes(u) BY <1>1 DEF Resumes
<1>3. CASE ~Arms(o)
  BY <1>1, <1>2, <1>3, ArmingKept DEF FinishCapture, history
<1>4. CASE Arms(o)
  <2>1. arm = {} /\ armings' = armings + 1 /\ armings \in Nat
    BY <1>4 DEF FinishCapture, Arms, ArmingInv, Basics, TypeOK
  <2>2. resuming = {} BY <2>1 DEF ArmingInv, ResumesTheArm
  <2>3. \A n \in spent : n \in Nat /\ n < armings'
    BY <2>1 DEF ArmingInv, ResumesApart, Basics, TypeOK
  <2>4. \A u \in Observer : Resumes(u) => begunOn[u] < armings'
    BY <2>1 DEF ArmingInv, ResumesApart, Basics, TypeOK
  <2>5. ResumesApart'
    BY <1>1, <1>2, <2>3, <2>4, <2>1 DEF ArmingInv, ResumesApart, Basics, TypeOK
  <2>6. ResumesTheArm' BY <1>1, <1>2, <2>2, <2>4, <2>1 DEF ResumesTheArm, ArmingInv, Basics, TypeOK
  <2>7. SpentOnce' BY <1>1, <1>2, <2>1, <2>3 DEF SpentOnce, ArmingInv, Basics, TypeOK
  <2> QED BY <2>5, <2>6, <2>7
<1> QED BY <1>3, <1>4

\* A resume is begun on an arm nobody has resumed and nobody is resuming.
LEMMA ArmingBeginResume ==
    ASSUME ArmingInv, NEW o \in Observer, BeginResume(o)
    PROVE  ResumesApart' /\ ResumesTheArm' /\ SpentOnce'
<1>1. PICK a \in arm : CanResume(a, o) /\ target' = [target EXCEPT ![o] = a.session]
  BY DEF BeginResume
<1>2. resuming = {} /\ Matches(a, o) BY <1>1 DEF CanResume
<1>3. /\ UNCHANGED <<arm, snap, ok, history>> /\ ~Resumes(o) /\ Resumes(o)'
      /\ at'[o] = "rescan" /\ begunOn'[o] = armings /\ target'[o] = a.session
      /\ resuming' = {o}
      /\ \A u \in Observer \ {o} : at'[u] = at[u] /\ begunOn'[u] = begunOn[u]
  BY <1>1, <1>2 DEF BeginResume, GoTo, Resumes, ArmingInv, Basics, TypeOK
<1>4. \A u \in Observer \ {o} : Resumes(u)' <=> Resumes(u) BY <1>3 DEF Resumes
<1>5. \A u \in Observer : Resumes(u) => begunOn[u] # armings
  BY <1>1, <1>2 DEF ArmingInv, ResumesTheArm
<1>6. armings \notin spent BY <1>1, <1>2 DEF ArmingInv, SpentOnce
<1>7. ResumesApart'
  BY <1>3, <1>4, <1>5 DEF ArmingInv, ResumesApart, Basics, TypeOK, history
<1>8. \A b \in arm : b = a BY <1>1 DEF ArmingInv, Basics, TypeOK
<1>9. ResumesTheArm' BY <1>1, <1>2, <1>3, <1>4, <1>5, <1>8 DEF ResumesTheArm, Matches, history
<1>10. SpentOnce' BY <1>3, <1>4, <1>6 DEF ArmingInv, SpentOnce, history
<1> QED BY <1>7, <1>9, <1>10

LEMMA ArmingAct ==
    ASSUME ArmingInv, NEW o \in Observer, Act(o)
    PROVE  ResumesApart' /\ ResumesTheArm' /\ SpentOnce'
<1>1. /\ Resumes(o) /\ at[o] # "finish" /\ Resumes(o)'
      /\ at'[o] = "finish"
      /\ UNCHANGED <<state, snap, target, begunOn, armings>>
      /\ \A u \in Observer \ {o} : at'[u] = at[u] /\ ok'[u] = ok[u]
  BY DEF Act, GoTo, Resumes, ArmingInv, Basics, TypeOK
<1>2. \A u \in Observer : Resumes(u)' <=> Resumes(u) BY <1>1 DEF Resumes
<1>3. spent' = spent \/ (spent' = spent \cup {begunOn[o]} /\ ok'[o])
  BY DEF Act, ArmingInv, Basics, TypeOK
<1>4. ResumesApart' BY <1>1, <1>2, <1>3 DEF ArmingInv, ResumesApart
<1>5. resuming \subseteq Observer BY DEF ArmingInv, Basics, TypeOK
<1>6. ResumesTheArm' BY <1>1, <1>2, <1>5 DEF ArmingInv, ResumesTheArm, Matches, state
<1>7. \A u \in Observer : Resumes(u)' /\ at'[u] # "finish" => begunOn'[u] \notin spent'
  BY <1>1, <1>2, <1>3 DEF ArmingInv, SpentOnce, ResumesApart
<1>8. ASSUME arm' # {}, armings' \in spent'
      PROVE  \E u \in resuming' : at'[u] = "finish" /\ ok'[u]
  <2>1. CASE armings \in spent
    <3>1. PICK u \in resuming : at[u] = "finish" /\ ok[u]
      BY <1>1, <1>8, <2>1 DEF ArmingInv, SpentOnce, state
    <3> QED BY <1>1, <1>5, <3>1 DEF state
  <2>2. CASE armings \notin spent
    <3>1. armings = begunOn[o] /\ ok'[o] BY <1>1, <1>3, <1>8, <2>2
    <3>2. o \in resuming BY <1>1, <1>8, <3>1 DEF ArmingInv, ResumesTheArm, state
    <3> QED BY <1>1, <3>1, <3>2 DEF state
  <2> QED BY <2>1, <2>2
<1> QED BY <1>4, <1>6, <1>7, <1>8 DEF SpentOnce

\* A stale attempt leaves nothing behind; the holder's takes its arm with it.
LEMMA ArmingAbandon ==
    ASSUME ArmingInv, NEW o \in Observer, Abandon(o)
    PROVE  ResumesApart' /\ ResumesTheArm' /\ SpentOnce'
<1>1. CASE o \in resuming BY <1>1, ArmingReturnClears DEF Abandon
<1>2. CASE o \notin resuming
  <2>1. /\ UNCHANGED <<state, history>> /\ ~Resumes(o)'
        /\ \A u \in Observer \ {o} :
              /\ at'[u] = at[u] /\ begunOn'[u] = begunOn[u] /\ target'[u] = target[u]
              /\ snap'[u] = snap[u] /\ ok'[u] = ok[u]
              /\ Resumes(u)' <=> Resumes(u)
    BY <1>2, ReturnPhase DEF Abandon, ArmingInv, Basics
  <2>2. resuming \subseteq Observer \ {o} BY <1>2 DEF ArmingInv, Basics, TypeOK
  <2>3. ResumesApart' BY <2>1 DEF ArmingInv, ResumesApart, history
  <2>4. ResumesTheArm' BY <2>1, <2>2 DEF ArmingInv, ResumesTheArm, Matches, state, history
  <2>5. SpentOnce' BY <2>1, <2>2 DEF ArmingInv, SpentOnce, state, history
  <2> QED BY <2>3, <2>4, <2>5
<1> QED BY <1>1, <1>2

LEMMA ArmingFinishResume ==
    ASSUME ArmingInv, NEW o \in Observer, FinishResume(o)
    PROVE  ResumesApart' /\ ResumesTheArm' /\ SpentOnce'
<1>1. /\ resuming' = resuming \ {o} /\ arm' \subseteq arm /\ UNCHANGED history
      /\ at[o] = "finish" /\ Resumes(o) /\ ~Resumes(o)'
      /\ \A u \in Observer \ {o} :
            /\ at'[u] = at[u] /\ begunOn'[u] = begunOn[u] /\ target'[u] = target[u]
            /\ snap'[u] = snap[u] /\ ok'[u] = ok[u]
            /\ Resumes(u)' <=> Resumes(u)
  BY ReturnPhase DEF FinishResume, Resumes, ArmingInv, Basics
<1>2. resuming \subseteq Observer /\ \A u, v \in resuming : u = v
  BY DEF ArmingInv, Basics, TypeOK, MarkersOwned
<1>3. ResumesApart' BY <1>1 DEF ArmingInv, ResumesApart, history
<1>4. CASE o \in resuming
  <2>1. resuming' = {} BY <1>1, <1>2, <1>4
  <2>2. opGen[o] = generation /\ begunOn[o] = armings
        /\ \A a \in arm : a.session = target[o] /\ Matches(a, o)
    BY <1>4 DEF ArmingInv, Basics, MarkersOwned, ResumesTheArm
  <2>3. ok[o] => arm' = {} BY <1>4, <2>2 DEF FinishResume
  <2>4. ~ok[o] => armings \notin spent \/ arm = {}
    BY <1>2, <1>4 DEF ArmingInv, SpentOnce
  <2>5. \A u \in Observer \ {o} : Resumes(u) => begunOn[u] # armings
    BY <1>1, <2>2 DEF ArmingInv, ResumesApart
  <2>6. ResumesTheArm' BY <1>1, <2>1, <2>5 DEF ResumesTheArm, history
  <2>7. SpentOnce' BY <1>1, <2>3, <2>4 DEF ArmingInv, SpentOnce, history
  <2> QED BY <1>3, <2>6, <2>7
<1>5. CASE o \notin resuming
  <2>1. resuming' = resuming /\ arm' = arm BY <1>1, <1>5 DEF FinishResume
  <2>2. ResumesTheArm' BY <1>1, <1>2, <1>5, <2>1 DEF ArmingInv, ResumesTheArm, Matches, history
  <2>3. SpentOnce' BY <1>1, <1>2, <1>5, <2>1 DEF ArmingInv, SpentOnce, history
  <2> QED BY <1>3, <2>2, <2>3
<1> QED BY <1>4, <1>5

LEMMA ArmingNext == ArmingInv /\ [Next]_vars => ArmingInv'
<1> SUFFICES ASSUME ArmingInv, [Next]_vars PROVE ArmingInv' OBVIOUS
<1>1. Basics' BY BasicsNext DEF ArmingInv
<1>2. ResumesApart' /\ ResumesTheArm' /\ SpentOnce'
  <2>1. CASE UNCHANGED vars \/ Saves
    <3>1. UNCHANGED <<state, at, locals, history>>
      BY <2>1 DEF vars, Saves, SwitchAccount, TurnOn, TurnOff, ChangeTokenAccount
    <3> QED BY <3>1, ArmingKept DEF state, locals, Resumes
  <2>2. CASE Command
    <3>1. ClearProvider /\ UNCHANGED <<at, locals, history>>
      BY <2>2 DEF Command, InvalidateSwitch, ClearOwed
    <3> QED BY <3>1, ArmingCleared DEF ClearProvider, Resumes, locals, history
  <2>3. ASSUME NEW o \in Observer, Clear(o) \/ ClearMismatched(o)
        PROVE  ResumesApart' /\ ResumesTheArm' /\ SpentOnce'
    BY <2>3, ArmingReturnClears DEF Clear, ClearMismatched
  <2> QED BY <2>1, <2>2, <2>3, NextCases, ArmingMoves, ArmingAside, ArmingBeginCapture,
             ArmingFinishCapture, ArmingBeginResume, ArmingAct, ArmingAbandon,
             ArmingFinishResume
<1> QED BY <1>1, <1>2 DEF ArmingInv

\* However many calls overlap, one arm is resumed successfully once
\* (begin_resume_attempt, finish_resume_attempt_state).
THEOREM OneResumePerArm == Spec => OncePerArm
<1>1. ArmingInv /\ [Next]_vars =>
        [\A o \in Observer : at[o] = "act" /\ at'[o] = "finish" /\ ok'[o] =>
            begunOn[o] \notin spent]_vars
  BY DEF ArmingInv, SpentOnce, Resumes
<1> QED BY <1>1, ArmingInit, ArmingNext, PTL DEF Spec, OncePerArm
=============================================================================
