----------------------------- MODULE AutoResume -----------------------------
(***************************************************************************)
(* Reopening the CLI session that ran into a quota limit:                  *)
(* apps/desktop-tauri/src-tauri/src/auto_resume.rs, for one provider (its  *)
(* maps hold one independent entry per provider).                          *)
(*                                                                         *)
(* refresh_provider calls observe_fresh_snapshot after it has published a   *)
(* snapshot and released the lock.  A blocked quota starts a capture, which *)
(* scans for the active session and arms it; a quota that is available      *)
(* again starts a resume, which re-validates the arm and opens the session. *)
(* Calls overlap when a batch is superseded, and every one of them can be   *)
(* overtaken by an account change, the switch or another call's clear.      *)
(***************************************************************************)
EXTENDS Naturals

CONSTANTS
    Observer,      \* concurrent calls of observe_fresh_snapshot
    Lane,          \* what an arm is bound to: quota source and account identity
    Session,       \* CLI sessions the scanner may find
    NoSession,     \* it found none, or several
    Slot,          \* quota windows of a snapshot: primary, secondary
    Rechecks,      \* the identity in place is compared again before resuming (Claude)
    MaxSnapshots,  \* bound: snapshots observed
    MaxChanges     \* bound: account, token-account and switch changes

ASSUME ResumeAssumption ==
    /\ NoSession \notin Session
    /\ Lane # {}
    /\ Rechecks \in BOOLEAN
    /\ MaxSnapshots \in Nat
    /\ MaxChanges \in Nat

VARIABLES
    \* AutoResumeState; an entry of its maps is a set of at most one element
    arm,        \* arms
    capturing,  \* captures_in_progress: the call that holds the token
    resuming,   \* resumes_in_progress: the call that holds the token
    generation, \* capture_generations
    \* stores on disk
    watch,      \* auto_resume_after_quota_reset
    managed,    \* ~is_auto_resume_available: a token account is active
    account,    \* the lane of the credentials in place
    previous,   \* the lane they replaced, until the change is invalidated
    owed,       \* commands that have saved a change and will clear
    \* calls
    at,         \* where the call is
    snap,       \* the snapshot it observes
    opGen,      \* generation of its InFlightOp
    target,     \* the session it captured or resumes
    ok,         \* still_enabled of a capture, succeeded of a resume
    \* history, read by the properties only
    armings,    \* arms made so far
    begunOn,    \* the arming a resume was begun on
    spent,      \* armings that have been resumed
    snapshots, changes \* what is spent of the bounds

state   == <<arm, capturing, resuming, generation>>
stores  == <<watch, managed, account, previous, owed>>
locals  == <<snap, opGen, target, ok, begunOn>>
history == <<armings, spent>>
bounds  == <<snapshots, changes>>
vars    == <<state, stores, at, locals, history, bounds>>

Arm == [session : Session, lane : Lane, slots : SUBSET Slot]

\* What decides of a snapshot: "offline" is not live, "foreign" has no identity
\* or comes from another source; blocked and available windows (a window that is
\* neither is informational or missing).
Snapshot == {s \in [kind : {"bound", "foreign", "offline"}, lane : Lane,
                    blocked : SUBSET Slot, available : SUBSET Slot] :
                /\ s.blocked \cap s.available = {}
                /\ s.kind # "bound" => s.blocked \cup s.available = {}}
NoSnapshot == [kind |-> "offline", lane |-> CHOOSE l \in Lane : TRUE,
               blocked |-> {}, available |-> {}]

Init ==
    /\ arm = {} /\ capturing = {} /\ resuming = {}
    /\ generation = 0
    /\ watch \in BOOLEAN
    /\ managed \in BOOLEAN
    /\ account \in Lane
    /\ previous = account
    /\ owed = 0
    /\ at = [o \in Observer |-> "idle"]
    /\ snap = [o \in Observer |-> NoSnapshot]
    /\ opGen = [o \in Observer |-> 0]
    /\ target = [o \in Observer |-> NoSession]
    /\ ok = [o \in Observer |-> FALSE]
    /\ armings = 0
    /\ begunOn = [o \in Observer |-> 0]
    /\ spent = {}
    /\ snapshots = 0
    /\ changes = 0

\* clear_provider: every operation in flight becomes stale.
ClearProvider ==
    /\ arm' = {}
    /\ capturing' = {}
    /\ resuming' = {}
    /\ generation' = generation + 1

GoTo(o, where) == at' = [at EXCEPT ![o] = where]

\* The call returns.
Return(o) ==
    /\ GoTo(o, "idle")
    /\ snap' = [snap EXCEPT ![o] = NoSnapshot]
    /\ opGen' = [opGen EXCEPT ![o] = 0]
    /\ target' = [target EXCEPT ![o] = NoSession]
    /\ ok' = [ok EXCEPT ![o] = FALSE]
    /\ begunOn' = [begunOn EXCEPT ![o] = 0]
-----------------------------------------------------------------------------
(* observe_fresh_snapshot, up to the decision *)

\* A batch has published a snapshot.  Until an account change is invalidated,
\* that may still be one of the account replaced.
Observe(o) ==
    /\ at[o] = "idle"
    /\ snapshots < MaxSnapshots
    /\ snapshots' = snapshots + 1
    /\ \E s \in Snapshot : s.lane \in {account, previous} /\ snap' = [snap EXCEPT ![o] = s]
    /\ GoTo(o, "settings")
    /\ UNCHANGED <<state, stores, opGen, target, ok, begunOn, history, changes>>

\* Settings::load, then the token-account store; what follows is decided by the
\* snapshot alone.
ReadSettings(o) ==
    /\ at[o] = "settings"
    /\ GoTo(o, IF watch THEN "lane" ELSE "clear")
    /\ UNCHANGED <<state, stores, locals, history, bounds>>

ReadLane(o) ==
    /\ at[o] = "lane"
    /\ managed \/ snap[o].kind # "offline"
    /\ GoTo(o, IF managed \/ snap[o].kind = "foreign" THEN "clear"
               ELSE IF snap[o].blocked = {} THEN "beginResume" ELSE "beginCapture")
    /\ UNCHANGED <<state, stores, locals, history, bounds>>

\* An offline snapshot says nothing about the lane and keeps the arm.
Ignore(o) ==
    /\ at[o] = "lane"
    /\ ~managed /\ snap[o].kind = "offline"
    /\ Return(o)
    /\ UNCHANGED <<state, stores, history, bounds>>

Clear(o) ==
    /\ at[o] = "clear"
    /\ ClearProvider
    /\ Return(o)
    /\ UNCHANGED <<stores, history, bounds>>
-----------------------------------------------------------------------------
(* Capture *)

\* resume_binding_matches
Matches(a, o) == a.lane = snap[o].lane

ArmMatches(o) == \E a \in arm : Matches(a, o)

\* begin_capture, when it returns None: this lane is armed already, or another
\* call is capturing.
SkipCapture(o) ==
    /\ at[o] = "beginCapture"
    /\ ArmMatches(o) \/ (arm = {} /\ capturing # {})
    /\ Return(o)
    /\ UNCHANGED <<state, stores, history, bounds>>

\* begin_capture, otherwise: an arm of another lane is cleared first.
BeginCapture(o) ==
    /\ at[o] = "beginCapture"
    /\ ~ArmMatches(o)
    /\ IF arm = {}
       THEN capturing = {} /\ UNCHANGED <<arm, resuming, generation>>
       ELSE arm' = {} /\ resuming' = {} /\ generation' = generation + 1
    /\ capturing' = {o}
    /\ opGen' = [opGen EXCEPT ![o] = generation']
    /\ GoTo(o, "scan")
    /\ UNCHANGED <<stores, snap, target, ok, begunOn, history, bounds>>

\* Mutant: the switch is not read again after the scan.
ScanWithoutReload(o) ==
    /\ at[o] = "scan"
    /\ \E s \in Session \cup {NoSession} : target' = [target EXCEPT ![o] = s]
    /\ ok' = [ok EXCEPT ![o] = TRUE]
    /\ GoTo(o, "arm")
    /\ UNCHANGED <<state, stores, snap, opGen, begunOn, history, bounds>>

\* capture_session: the scan finds the one active session of the provider or
\* none; then still_enabled is read.
Scan(o) ==
    /\ at[o] = "scan"
    /\ \E s \in Session \cup {NoSession} : target' = [target EXCEPT ![o] = s]
    /\ ok' = [ok EXCEPT ![o] = watch]
    /\ GoTo(o, "arm")
    /\ UNCHANGED <<state, stores, snap, opGen, begunOn, history, bounds>>

\* Mutant: a completion does not check that the marker is its own.
FinishCaptureUnowned(o) ==
    /\ at[o] = "arm"
    /\ capturing' = {}
    /\ IF ok[o] /\ opGen[o] = generation /\ arm = {} /\ target[o] # NoSession
       THEN /\ arm' = {[session |-> target[o], lane |-> snap[o].lane, slots |-> snap[o].blocked]}
            /\ armings' = armings + 1
       ELSE UNCHANGED <<arm, armings>>
    /\ Return(o)
    /\ UNCHANGED <<resuming, generation, stores, spent, bounds>>

\* finish_capture_state arms the session.
Arms(o) ==
    /\ o \in capturing
    /\ ok[o] /\ opGen[o] = generation /\ arm = {}
    /\ target[o] # NoSession

FinishCapture(o) ==
    /\ at[o] = "arm"
    /\ capturing' = capturing \ {o}
    /\ IF Arms(o)
       THEN /\ arm' = {[session |-> target[o], lane |-> snap[o].lane, slots |-> snap[o].blocked]}
            /\ armings' = armings + 1
       ELSE UNCHANGED <<arm, armings>>
    /\ Return(o)
    /\ UNCHANGED <<resuming, generation, stores, spent, bounds>>
-----------------------------------------------------------------------------
(* Resume *)

\* restored
Restored(a, o) == a.slots \subseteq snap[o].available

\* begin_resume_attempt on an arm of another lane
ClearMismatched(o) ==
    /\ at[o] = "beginResume"
    /\ \E a \in arm : ~Matches(a, o)
    /\ ClearProvider
    /\ Return(o)
    /\ UNCHANGED <<stores, history, bounds>>

\* Mutant: an attempt in progress is not noticed.
CanResumeTwice(a, o) == Matches(a, o) /\ Restored(a, o)

CanResume(a, o) == Matches(a, o) /\ Restored(a, o) /\ resuming = {}

\* ... with nothing armed or restored, or while another call resumes
SkipResume(o) ==
    /\ at[o] = "beginResume"
    /\ \A a \in arm : Matches(a, o) /\ ~CanResume(a, o)
    /\ Return(o)
    /\ UNCHANGED <<state, stores, history, bounds>>

BeginResume(o) ==
    /\ at[o] = "beginResume"
    /\ \E a \in arm :
          /\ CanResume(a, o)
          /\ target' = [target EXCEPT ![o] = a.session]
    /\ resuming' = resuming \cup {o}
    /\ opGen' = [opGen EXCEPT ![o] = generation]
    /\ begunOn' = [begunOn EXCEPT ![o] = armings]
    /\ GoTo(o, "rescan")
    /\ UNCHANGED <<arm, capturing, generation, stores, snap, ok, history, bounds>>

\* Mutant: a failed scan returns without ending the attempt.
LeaveRescan(o) ==
    /\ at[o] = "rescan"
    /\ Return(o)
    /\ UNCHANGED <<state, stores, history, bounds>>

\* The scan fails, or the session and its transcript are gone.
GiveUp(o) ==
    /\ at[o] = "rescan"
    /\ GoTo(o, "finish")
    /\ UNCHANGED <<state, stores, locals, history, bounds>>

\* The session is still there.
Found(o) ==
    /\ at[o] = "rescan"
    /\ GoTo(o, "recheckSettings")
    /\ UNCHANGED <<state, stores, locals, history, bounds>>

\* resume_attempt_is_still_valid reads the stores one after the other ...
RecheckSettings(o) ==
    /\ at[o] = "recheckSettings"
    /\ GoTo(o, IF watch THEN "recheckLane" ELSE "abandon")
    /\ UNCHANGED <<state, stores, locals, history, bounds>>

RecheckLane(o) ==
    /\ at[o] = "recheckLane"
    /\ GoTo(o, IF managed THEN "abandon" ELSE IF Rechecks THEN "recheckIdentity" ELSE "confirm")
    /\ UNCHANGED <<state, stores, locals, history, bounds>>

RecheckIdentity(o) ==
    /\ at[o] = "recheckIdentity"
    /\ GoTo(o, IF snap[o].lane = account THEN "confirm" ELSE "abandon")
    /\ UNCHANGED <<state, stores, locals, history, bounds>>

\* Mutant: the arm is compared, the attempt's token and generation are not.
StillValidByArm(o) == \E a \in arm : a.session = target[o] /\ Matches(a, o)

\* ... and then takes the lock.
StillValid(o) ==
    /\ o \in resuming
    /\ opGen[o] = generation
    /\ \E a \in arm : a.session = target[o] /\ Matches(a, o)

Confirm(o) ==
    /\ at[o] = "confirm"
    /\ GoTo(o, IF StillValid(o) THEN "act" ELSE "abandon")
    /\ UNCHANGED <<state, stores, locals, history, bounds>>

\* focus_session or launch_resume, outside the lock
Act(o) ==
    /\ at[o] = "act"
    /\ \E succeeded \in BOOLEAN :
          /\ ok' = [ok EXCEPT ![o] = succeeded]
          /\ spent' = IF succeeded THEN spent \cup {begunOn[o]} ELSE spent
    /\ GoTo(o, "finish")
    /\ UNCHANGED <<state, stores, snap, opGen, target, begunOn, armings, bounds>>

\* clear_provider_if_resume_owner
Abandon(o) ==
    /\ at[o] = "abandon"
    /\ IF o \in resuming THEN ClearProvider ELSE UNCHANGED state
    /\ Return(o)
    /\ UNCHANGED <<stores, history, bounds>>

\* finish_resume_attempt_state
FinishResume(o) ==
    /\ at[o] = "finish"
    /\ resuming' = resuming \ {o}
    /\ arm' = IF o \in resuming /\ ok[o] /\ opGen[o] = generation
              THEN {a \in arm : ~(a.session = target[o] /\ Matches(a, o))} ELSE arm
    /\ Return(o)
    /\ UNCHANGED <<capturing, generation, stores, history, bounds>>
-----------------------------------------------------------------------------
(* The commands that change what auto resume reads.  Each saves its change and
   clears afterwards; account changes are serialised by a lock of their own. *)

Change == changes < MaxChanges /\ changes' = changes + 1

SwitchAccount(l) ==
    /\ Change
    /\ previous = account /\ l # account
    /\ account' = l
    /\ UNCHANGED <<state, watch, managed, previous, owed, at, locals, history, snapshots>>

\* invalidate_account_usage
InvalidateSwitch ==
    /\ previous # account
    /\ previous' = account
    /\ ClearProvider
    /\ UNCHANGED <<watch, managed, account, owed, at, locals, history, bounds>>

\* set_provider_auto_resume_after_quota_reset.  Switching on asks the store first
\* whether a token account is active; the answer may be out of date by the save,
\* and restricts nothing here.
TurnOn ==
    /\ Change
    /\ watch' = TRUE
    /\ UNCHANGED <<state, managed, account, previous, owed, at, locals, history, snapshots>>

TurnOff ==
    /\ Change
    /\ watch' = FALSE
    /\ owed' = owed + 1
    /\ UNCHANGED <<state, managed, account, previous, at, locals, history, snapshots>>

\* The token-account commands, and those that clear without a change that auto
\* resume reads (adding or removing an account, disabling the provider)
ChangeTokenAccount ==
    /\ Change
    /\ managed' \in BOOLEAN
    /\ owed' = owed + 1
    /\ UNCHANGED <<state, watch, account, previous, at, locals, history, snapshots>>

ClearOwed ==
    /\ owed > 0
    /\ owed' = owed - 1
    /\ ClearProvider
    /\ UNCHANGED <<watch, managed, account, previous, at, locals, history, bounds>>
-----------------------------------------------------------------------------
CaptureStep(o) == SkipCapture(o) \/ BeginCapture(o) \/ Scan(o) \/ FinishCapture(o)

ResumeStep(o) ==
    \/ ClearMismatched(o) \/ SkipResume(o) \/ BeginResume(o) \/ GiveUp(o) \/ Found(o)
    \/ RecheckSettings(o) \/ RecheckLane(o) \/ RecheckIdentity(o) \/ Confirm(o)
    \/ Act(o) \/ Abandon(o) \/ FinishResume(o)

Step(o) == ReadSettings(o) \/ ReadLane(o) \/ Ignore(o) \/ Clear(o) \/ CaptureStep(o) \/ ResumeStep(o)

Command == InvalidateSwitch \/ ClearOwed

Next ==
    \/ \E o \in Observer : Observe(o) \/ Step(o)
    \/ \E l \in Lane : SwitchAccount(l)
    \/ TurnOn \/ TurnOff \/ ChangeTokenAccount \/ Command

Spec == Init /\ [][Next]_vars

\* A call that was made runs on: scans end, processes are spawned or fail to.
FairSpec == Spec /\ \A o \in Observer : WF_vars(Step(o))
-----------------------------------------------------------------------------
(* Properties *)

Place == {"idle", "settings", "lane", "clear", "beginCapture", "scan", "arm",
          "beginResume", "rescan", "recheckSettings", "recheckLane",
          "recheckIdentity", "confirm", "act", "abandon", "finish"}

\* Every variable keeps the shape the code gives it; a map has one arm at most.
TypeOK ==
    /\ arm \subseteq Arm
    /\ \A a, b \in arm : a = b
    /\ capturing \subseteq Observer
    /\ resuming \subseteq Observer
    /\ generation \in Nat
    /\ watch \in BOOLEAN
    /\ managed \in BOOLEAN
    /\ account \in Lane
    /\ previous \in Lane
    /\ owed \in Nat
    /\ at \in [Observer -> Place]
    /\ snap \in [Observer -> Snapshot]
    /\ opGen \in [Observer -> Nat]
    /\ target \in [Observer -> Session \cup {NoSession}]
    /\ ok \in [Observer -> BOOLEAN]
    /\ armings \in Nat
    /\ begunOn \in [Observer -> Nat]
    /\ spent \subseteq Nat
    /\ snapshots \in Nat
    /\ changes \in Nat

Captures(o) == at[o] \in {"scan", "arm"}
Resumes(o) == at[o] \in {"rescan", "recheckSettings", "recheckLane",
                         "recheckIdentity", "confirm", "act", "abandon", "finish"}

\* The in-progress markers are held by exactly the operation that was begun
\* since the last clear: "an older async completion must never release a newer
\* capture's slot" (finish_capture_state) nor "a newer resume attempt's slot"
\* (finish_resume_attempt_state), and no marker is left behind.
MarkersOwned ==
    /\ capturing = {o \in Observer : Captures(o) /\ opGen[o] = generation}
    /\ resuming = {o \in Observer : Resumes(o) /\ opGen[o] = generation}
    /\ \A o, u \in capturing : o = u
    /\ \A o, u \in resuming : o = u

\* With the switch off and every change cleared after, nothing is armed: a
\* capture that is overtaken by the switch does not arm when its scan ends
\* (set_provider_auto_resume_after_quota_reset, finish_capture).
DisarmedWhenOff == ~watch /\ owed = 0 => arm = {}

\* One quota reset opens the session once: no arm is resumed successfully a
\* second time, by whatever calls overlap ("opt-in reopening of the exact local
\* CLI session that hit a quota limit").
OncePerArm == [][\A o \in Observer :
    at[o] = "act" /\ at'[o] = "finish" /\ ok'[o] => begunOn[o] \notin spent]_vars

\* No resume passes its last check for an account that has been replaced, once
\* the change is invalidated, nor for one captured on another account
\* (resume_attempt_is_still_valid).
ResumesOwnAccount == [][\A o \in Observer :
    at[o] = "confirm" /\ at'[o] = "act" /\ previous = account =>
        snap[o].lane = account /\ ArmMatches(o)]_vars

\* A capture or a resume that marks the provider busy ends: otherwise no
\* session would be captured or resumed again.
MarkersReleased == (capturing # {} ~> capturing = {}) /\ (resuming # {} ~> resuming = {})
-----------------------------------------------------------------------------
(* What the proofs of the properties above rest on *)

\* A clear makes every operation in flight stale: none is ahead of it.
OpsBounded == \A o \in Observer : opGen[o] <= generation

Basics == TypeOK /\ OpsBounded /\ MarkersOwned

\* A capture that will arm read the switch on, or the switch is being cleared.
EnabledInv ==
    /\ arm # {} => watch \/ owed > 0
    /\ \A o \in Observer :
          at[o] = "arm" /\ ok[o] /\ opGen[o] = generation => watch \/ owed > 0

\* Each resume was begun on an arming made before, and on one of its own.
ResumesApart ==
    /\ \A n \in spent : n <= armings
    /\ \A o \in Observer : Resumes(o) => begunOn[o] <= armings
    /\ \A o, u \in Observer :
          Resumes(o) /\ Resumes(u) /\ begunOn[o] = begunOn[u] => o = u

\* The marker's holder resumes the arm that is there; a stale resume does not.
ResumesTheArm ==
    /\ \A o \in resuming : /\ arm # {}
                            /\ begunOn[o] = armings
                            /\ \A a \in arm : a.session = target[o] /\ Matches(a, o)
    /\ arm # {} => \A o \in Observer :
          Resumes(o) /\ begunOn[o] = armings => o \in resuming

\* An arm that was resumed is about to be removed by the call that did.
SpentOnce ==
    /\ \A o \in Observer : Resumes(o) /\ at[o] # "finish" => begunOn[o] \notin spent
    /\ arm # {} /\ armings \in spent =>
          \E o \in resuming : at[o] = "finish" /\ ok[o]

ArmingInv == Basics /\ ResumesApart /\ ResumesTheArm /\ SpentOnce

\* A resume that is about to take its last check compared the identity in place.
IdentityInv == \A o \in Observer :
    at[o] = "confirm" /\ opGen[o] = generation /\ previous = account =>
        snap[o].lane = account
=============================================================================
