------------------------ MODULE SnapshotCoordinator ------------------------
(***************************************************************************)
(* The single-flight cache in front of the dashboard's snapshot builds:    *)
(* rust/src/cli/serve/dashboard/coordinator.rs.  Every request runs         *)
(* SnapshotCoordinator::get; the slot, and the outcome of each build, sit   *)
(* behind their own mutex.  An action is what runs under one of them, or     *)
(* one call of notify_waiters.                                             *)
(***************************************************************************)
EXTENDS Integers, FiniteSets

CONSTANTS
    Caller,     \* requests in flight at a time
    MaxBuilds   \* bound: build generations started

ASSUME CoordinatorAssumption == MaxBuilds \in Nat

Flight == 1..MaxBuilds   \* one per build generation, in the order they start

VARIABLES
    slot,    \* Slot: [is, flight]; "expired" is Ready for longer than the ttl
    builds,  \* flights created
    outcome, \* Flight.outcome: "none" is None
    pc,      \* where the caller is in get
    flight,  \* the flight it leads or waits for
    answer,  \* what its call returned
    past     \* history: flights resolved before its call began

vars == <<slot, builds, outcome, pc, flight, answer, past>>

Empty == [is |-> "empty", flight |-> 0]
NoAnswer == [flight |-> 0, outcome |-> "none"]

\* A flight is over once the slot has left it.
InFlight == IF slot.is = "building" THEN {slot.flight} ELSE {}
Over == (1..builds) \ InFlight

Init ==
    /\ slot = Empty
    /\ builds = 0
    /\ outcome = [f \in Flight |-> "none"]
    /\ pc = [c \in Caller |-> "idle"]
    /\ flight = [c \in Caller |-> 0]
    /\ answer = [c \in Caller |-> NoAnswer]
    /\ past = [c \in Caller |-> {}]

GoTo(c, at) == pc' = [pc EXCEPT ![c] = at]

Return(c, f, o) ==
    /\ GoTo(c, "idle")
    /\ answer' = [answer EXCEPT ![c] = [flight |-> f, outcome |-> o]]

\* A request arrives.
Call(c) ==
    /\ pc[c] = "idle"
    /\ GoTo(c, "deciding")
    /\ past' = [past EXCEPT ![c] = Over]
    /\ answer' = [answer EXCEPT ![c] = NoAnswer]
    /\ UNCHANGED <<slot, builds, outcome, flight>>
-----------------------------------------------------------------------------
(* The decision, under the slot's lock *)

Serve(c) ==
    /\ pc[c] = "deciding" /\ slot.is = "ready"
    /\ Return(c, slot.flight, outcome[slot.flight])
    /\ UNCHANGED <<slot, builds, outcome, flight, past>>

\* The caller is on the flight's wait list before the lock is released.
Join(c) ==
    /\ pc[c] = "deciding" /\ slot.is = "building"
    /\ GoTo(c, "waiting")
    /\ flight' = [flight EXCEPT ![c] = slot.flight]
    /\ UNCHANGED <<slot, builds, outcome, answer, past>>

Lead(c) ==
    /\ pc[c] = "deciding" /\ slot.is \in {"empty", "expired"}
    /\ builds < MaxBuilds
    /\ builds' = builds + 1
    /\ slot' = [is |-> "building", flight |-> builds + 1]
    /\ flight' = [flight EXCEPT ![c] = builds + 1]
    /\ GoTo(c, "building")
    /\ UNCHANGED <<outcome, answer, past>>
-----------------------------------------------------------------------------
(* The builder *)

\* The build ends and its outcome is stored in the flight.
StoreOutcome(c) ==
    /\ pc[c] = "building"
    /\ GoTo(c, "stored")
    /\ \E o \in {"ok", "err"} : outcome' = [outcome EXCEPT ![flight[c]] = o]
    /\ UNCHANGED <<slot, builds, flight, answer, past>>

\* Mutant: the slot keeps whatever the build ended with.
UpdateSlotWithError(c) ==
    /\ pc[c] = "stored"
    /\ GoTo(c, "resolved")
    /\ slot' = [is |-> "ready", flight |-> flight[c]]
    /\ UNCHANGED <<builds, outcome, flight, answer, past>>

\* A success is cached; an error never is.
UpdateSlot(c) ==
    /\ pc[c] = "stored"
    /\ GoTo(c, "resolved")
    /\ slot' = IF outcome[flight[c]] = "ok"
               THEN [is |-> "ready", flight |-> flight[c]] ELSE Empty
    /\ UNCHANGED <<builds, outcome, flight, answer, past>>

\* notify_waiters: those on the wait list wake, nobody else ever will.
Woken(f) == {d \in Caller : pc[d] = "waiting" /\ flight[d] = f}

Notify(c) ==
    /\ pc[c] = "resolved"
    /\ pc' = [d \in Caller |-> IF d = c THEN "idle"
                               ELSE IF d \in Woken(flight[c]) THEN "woken" ELSE pc[d]]
    /\ answer' = [answer EXCEPT ![c] = [flight |-> flight[c], outcome |-> outcome[flight[c]]]]
    /\ UNCHANGED <<slot, builds, outcome, flight, past>>

\* The build panics, or its request is cancelled: BuildGuard::drop resets the
\* slot if it still holds the flight...
DropBuild(c) ==
    /\ pc[c] = "building"
    /\ GoTo(c, "dropped")
    /\ slot' = IF slot.is = "building" /\ slot.flight = flight[c] THEN Empty ELSE slot
    /\ UNCHANGED <<builds, outcome, flight, answer, past>>

\* Mutant: the guard resets the slot but wakes nobody.
NotifyDroppedSilently(c) ==
    /\ pc[c] = "dropped"
    /\ GoTo(c, "idle")
    /\ UNCHANGED <<slot, builds, outcome, flight, answer, past>>

\* ...and wakes the waiters; the call itself is gone.
NotifyDropped(c) ==
    /\ pc[c] = "dropped"
    /\ pc' = [d \in Caller |-> IF d = c THEN "idle"
                               ELSE IF d \in Woken(flight[c]) THEN "woken" ELSE pc[d]]
    /\ UNCHANGED <<slot, builds, outcome, flight, answer, past>>
-----------------------------------------------------------------------------
(* The waiter, once woken, reads the outcome of the flight it joined *)

TakeOutcome(c) ==
    /\ pc[c] = "woken" /\ outcome[flight[c]] # "none"
    /\ Return(c, flight[c], outcome[flight[c]])
    /\ UNCHANGED <<slot, builds, outcome, flight, past>>

Retry(c) ==
    /\ pc[c] = "woken" /\ outcome[flight[c]] = "none"
    /\ GoTo(c, "deciding")
    /\ UNCHANGED <<slot, builds, outcome, flight, answer, past>>

\* The ttl runs out.
Expire ==
    /\ slot.is = "ready"
    /\ slot' = [slot EXCEPT !.is = "expired"]
    /\ UNCHANGED <<builds, outcome, pc, flight, answer, past>>
-----------------------------------------------------------------------------
Progress(c) ==
    \/ Serve(c) \/ Join(c) \/ Lead(c)
    \/ StoreOutcome(c) \/ UpdateSlot(c) \/ Notify(c) \/ NotifyDropped(c)
    \/ TakeOutcome(c) \/ Retry(c)

Next == Expire \/ \E c \in Caller : Call(c) \/ Progress(c) \/ DropBuild(c)

\* Every task that can run does: a build ends (each fetch has a timeout), a
\* caller holding no lock is polled.  Calls and panics are not obliged to occur.
Fairness == \A c \in Caller : WF_vars(Progress(c))

Spec == Init /\ [][Next]_vars
FairSpec == Spec /\ Fairness
-----------------------------------------------------------------------------
(* Properties *)

Leads(c) == pc[c] \in {"building", "stored"}
Joined(c) == pc[c] \in {"building", "stored", "resolved", "dropped", "waiting", "woken"}

\* Every variable keeps the shape the code gives it.
TypeOK ==
    /\ slot \in [is : {"empty", "building", "ready", "expired"}, flight : 0..MaxBuilds]
    /\ builds \in 0..MaxBuilds
    /\ outcome \in [Flight -> {"none", "ok", "err"}]
    /\ pc \in [Caller -> {"idle", "deciding", "waiting", "woken", "building", "stored",
                          "resolved", "dropped"}]
    /\ flight \in [Caller -> 0..MaxBuilds]
    /\ answer \in [Caller -> [flight : 0..MaxBuilds, outcome : {"none", "ok", "err"}]]
    /\ past \in [Caller -> SUBSET Flight]

\* The slot holds Building exactly while one caller builds that flight: builds
\* never overlap, and no slot is stranded on a build that nobody runs
\* ("single-flight builds", BuildGuard).
SlotHasBuilder ==
    /\ slot.is = "building" <=> \E c \in Caller : Leads(c)
    /\ \A c \in Caller : Leads(c) => slot.flight = flight[c]
    /\ \A c, d \in Caller : Leads(c) /\ Leads(d) => c = d

\* "Errors are never cached": a call that returns an error, or waits for a build
\* that may return one, does so for a build that was not over when it began.
NoStaleError ==
    \A c \in Caller :
        /\ Joined(c) => flight[c] \notin past[c]
        /\ answer[c].outcome = "err" => answer[c].flight \notin past[c]

\* "Every waiter that joined the failing generation receives that same stored
\* error": all answers given for one build agree, with its stored outcome too.
SharedOutcome ==
    \A c \in Caller : answer[c] # NoAnswer =>
        answer[c].outcome = outcome[answer[c].flight]

\* The coordinator keeps the promise of SingleFlight; a build is over for its
\* waiters, and cached, when the slot is updated.
Promise == INSTANCE SingleFlight WITH
    started <- builds,
    current <- IF slot.is = "building" THEN slot.flight ELSE 0,
    cached <- IF slot.is = "ready" THEN slot.flight ELSE 0,
    result <- [f \in Flight |-> IF f \notin Over THEN "none"
                                ELSE IF outcome[f] = "none" THEN "lost" ELSE outcome[f]],
    at <- [c \in Caller |-> IF pc[c] = "idle" THEN "idle"
                            ELSE IF pc[c] = "deciding" THEN "asks" ELSE "waits"],
    joined <- flight

KeepsPromise == Promise!Spec

\* The wake-up of a build that ends or is dropped is not lost: no caller waits
\* for ever, and every call returns while builds can still be started.
CallReturns ==
    \A c \in Caller :
        /\ pc[c] = "waiting" ~> pc[c] # "waiting"
        /\ pc[c] = "deciding" ~> (pc[c] = "idle" \/ builds = MaxBuilds)
-----------------------------------------------------------------------------
(* What the proofs of the properties above rest on *)

\* The slot names a flight that was started; Ready holds a success.
SlotInv ==
    /\ slot.is # "empty" => slot.flight \in 1..builds
    /\ slot.is = "ready" => outcome[slot.flight] = "ok"

\* What each place in get says of the flight the caller leads or joined.
CallerInv == \A c \in Caller :
    /\ Joined(c) => flight[c] \in 1..builds
    /\ pc[c] \in {"building", "dropped"} => outcome[flight[c]] = "none"
    /\ pc[c] \in {"stored", "resolved"} => outcome[flight[c]] # "none"
    /\ pc[c] \in {"resolved", "dropped", "woken"} => flight[c] \notin InFlight
    /\ past[c] \subseteq Over

\* An answer is the outcome of a build that was started and has ended.
AnswerInv == \A c \in Caller :
    answer[c] # NoAnswer => answer[c].flight \in 1..builds /\ answer[c].outcome # "none"

Unstarted == \A f \in Flight : f > builds => outcome[f] = "none"

Inv == /\ TypeOK /\ SlotInv /\ SlotHasBuilder /\ CallerInv /\ AnswerInv
       /\ Unstarted /\ NoStaleError /\ SharedOutcome
=============================================================================
