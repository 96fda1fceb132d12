---------------------------- MODULE SingleFlight ----------------------------
(***************************************************************************)
(* What the snapshot coordinator promises (coordinator.rs, its header):    *)
(* one build runs at a time; whoever asks while it runs gets its result,    *)
(* the same one, success or error; a success is kept for those who ask      *)
(* later, an error is not; a build that never ends well or badly is lost    *)
(* and those who waited for it ask again.                                  *)
(***************************************************************************)
EXTENDS Integers

CONSTANTS Caller, MaxBuilds

Flight == 1..MaxBuilds

VARIABLES
    started, \* builds started
    current, \* the one that runs, 0: none
    result,  \* of each build
    cached,  \* the success kept, 0: none
    at,      \* each caller's call
    joined,  \* the build it waits for
    answer   \* what its last call returned

vars == <<started, current, result, cached, at, joined, answer>>

Init ==
    /\ started = 0 /\ current = 0 /\ cached = 0
    /\ result = [f \in Flight |-> "none"]
    /\ at = [c \in Caller |-> "idle"]
    /\ joined = [c \in Caller |-> 0]
    /\ answer = [c \in Caller |-> [flight |-> 0, outcome |-> "none"]]

Ask(c) ==
    /\ at[c] = "idle"
    /\ at' = [at EXCEPT ![c] = "asks"]
    /\ answer' = [answer EXCEPT ![c] = [flight |-> 0, outcome |-> "none"]]
    /\ UNCHANGED <<started, current, result, cached, joined>>

AnswerFromCache(c) ==
    /\ at[c] = "asks" /\ cached # 0
    /\ at' = [at EXCEPT ![c] = "idle"]
    /\ answer' = [answer EXCEPT ![c] = [flight |-> cached, outcome |-> "ok"]]
    /\ UNCHANGED <<started, current, result, cached, joined>>

Join(c) ==
    /\ at[c] = "asks" /\ current # 0
    /\ at' = [at EXCEPT ![c] = "waits"]
    /\ joined' = [joined EXCEPT ![c] = current]
    /\ UNCHANGED <<started, current, result, cached, answer>>

Start(c) ==
    /\ at[c] = "asks" /\ current = 0 /\ cached = 0
    /\ started < MaxBuilds
    /\ started' = started + 1
    /\ current' = started + 1
    /\ at' = [at EXCEPT ![c] = "waits"]
    /\ joined' = [joined EXCEPT ![c] = started + 1]
    /\ UNCHANGED <<result, cached, answer>>

Finish(r) ==
    /\ current # 0
    /\ result' = [result EXCEPT ![current] = r]
    /\ current' = 0
    /\ cached' = IF r = "ok" THEN current ELSE 0
    /\ UNCHANGED <<started, at, joined, answer>>

Deliver(c) ==
    /\ at[c] = "waits" /\ result[joined[c]] \in {"ok", "err"}
    /\ at' = [at EXCEPT ![c] = "idle"]
    /\ answer' = [answer EXCEPT ![c] = [flight |-> joined[c], outcome |-> result[joined[c]]]]
    /\ UNCHANGED <<started, current, result, cached, joined>>

\* After a lost build a waiter asks again; the call that ran it is gone.
AskAgain(c) ==
    /\ at[c] = "waits" /\ result[joined[c]] = "lost"
    /\ at' \in {[at EXCEPT ![c] = "asks"], [at EXCEPT ![c] = "idle"]}
    /\ UNCHANGED <<started, current, result, cached, joined, answer>>

Expire ==
    /\ cached # 0
    /\ cached' = 0
    /\ UNCHANGED <<started, current, result, at, joined, answer>>

Next ==
    \/ Expire
    \/ \E r \in {"ok", "err", "lost"} : Finish(r)
    \/ \E c \in Caller : \/ Ask(c) \/ AnswerFromCache(c) \/ Join(c) \/ Start(c)
                         \/ Deliver(c) \/ AskAgain(c)

Spec == Init /\ [][Next]_vars
=============================================================================
