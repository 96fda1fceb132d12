-------------------------- MODULE SharedJobs_proofs -------------------------
(* Theorems about the two components that run one job for many callers: the    *)
(* coordinator of the dashboard's snapshot builds, and the update commands.     *)
EXTENDS SnapshotCoordinator, Updater, TLAPS

USE CoordinatorAssumption DEF Flight

LEMMA InvInit == Init => Inv
BY DEF Init, Inv, TypeOK, SlotInv, SlotHasBuilder, CallerInv, AnswerInv, Unstarted,
   NoStaleError, SharedOutcome, Empty, NoAnswer, Leads, Joined, Over, InFlight

\* A call begins.
LEMMA InvCall == ASSUME Inv, NEW c \in Caller, Call(c) PROVE Inv'
<1> USE DEF Inv, Call, GoTo
<1>1. TypeOK' BY DEF TypeOK, NoAnswer, Over, InFlight
<1>2. SlotInv' /\ Unstarted' BY DEF SlotInv, Unstarted
<1>3. \A d \in Caller : (Leads(d)' <=> Leads(d)) /\ (Joined(d)' <=> Joined(d))
  BY DEF TypeOK, Leads, Joined
<1>4. SlotHasBuilder' BY <1>3 DEF SlotHasBuilder
<1>5. Over' = Over /\ InFlight' = InFlight BY DEF Over, InFlight
<1>6. CallerInv' BY <1>3, <1>5 DEF CallerInv, TypeOK
<1>7. AnswerInv' /\ SharedOutcome' BY DEF AnswerInv, SharedOutcome, TypeOK
<1>8. NoStaleError' BY <1>3 DEF NoStaleError, TypeOK, NoAnswer, Joined
<1> QED BY <1>1, <1>2, <1>4, <1>6, <1>7, <1>8

\* A waiter of a lost build asks again.
LEMMA InvRetry == ASSUME Inv, NEW c \in Caller, Retry(c) PROVE Inv'
<1> USE DEF Inv, Retry, GoTo
<1>1. TypeOK' BY DEF TypeOK
<1>2. SlotInv' /\ Unstarted' /\ AnswerInv' /\ SharedOutcome'
  BY DEF SlotInv, Unstarted, AnswerInv, SharedOutcome
<1>3. \A d \in Caller : (Leads(d)' <=> Leads(d)) /\ (Joined(d)' => Joined(d))
  BY DEF TypeOK, Leads, Joined
<1>4. SlotHasBuilder' BY <1>3 DEF SlotHasBuilder
<1>5. Over' = Over /\ InFlight' = InFlight BY DEF Over, InFlight
<1>6. CallerInv' BY <1>3, <1>5 DEF CallerInv, TypeOK
<1>7. NoStaleError' BY <1>3 DEF NoStaleError
<1> QED BY <1>1, <1>2, <1>4, <1>6, <1>7

\* A call returns: from the cache, or with the outcome of the flight it joined.
LEMMA InvAnswer == ASSUME Inv, NEW c \in Caller, Serve(c) \/ TakeOutcome(c) PROVE Inv'
<1> USE DEF Inv
<1>1. PICK f \in 1..builds : /\ outcome[f] \in {"ok", "err"}
                             /\ Return(c, f, outcome[f])
                             /\ outcome[f] = "err" => f \notin past[c]
  <2>1. CASE Serve(c)
    <3>1. slot.flight \in 1..builds /\ outcome[slot.flight] = "ok"
      BY <2>1 DEF SlotInv, Serve
    <3> QED BY <2>1, <3>1 DEF Serve
  <2>2. CASE TakeOutcome(c)
    <3>1. flight[c] \in 1..builds /\ flight[c] \notin past[c] /\ flight[c] \in Flight
      BY <2>2 DEF TakeOutcome, CallerInv, NoStaleError, Joined, TypeOK
    <3>2. outcome[flight[c]] \in {"ok", "err"} BY <2>2, <3>1 DEF TakeOutcome, TypeOK
    <3> QED BY <2>2, <3>1, <3>2 DEF TakeOutcome
  <2> QED BY <2>1, <2>2
<1>2. UNCHANGED <<slot, builds, outcome, flight, past>> BY DEF Serve, TakeOutcome
<1>3. /\ pc' = [pc EXCEPT ![c] = "idle"]
      /\ answer' = [answer EXCEPT ![c] = [flight |-> f, outcome |-> outcome[f]]]
  BY <1>1 DEF Return, GoTo
<1>4. TypeOK' BY <1>1, <1>2, <1>3 DEF TypeOK
<1>5. SlotInv' /\ Unstarted' BY <1>2 DEF SlotInv, Unstarted
<1>6. \A d \in Caller : (Leads(d)' <=> Leads(d)) /\ (Joined(d)' => Joined(d))
  BY <1>3 DEF TypeOK, Leads, Joined, Serve, TakeOutcome
<1>7. SlotHasBuilder' BY <1>2, <1>6 DEF SlotHasBuilder
<1>8. Over' = Over /\ InFlight' = InFlight BY <1>2 DEF Over, InFlight
<1>9. CallerInv' BY <1>2, <1>3, <1>6, <1>8 DEF CallerInv, TypeOK
<1>10. AnswerInv' /\ SharedOutcome'
  BY <1>1, <1>2, <1>3 DEF AnswerInv, SharedOutcome, TypeOK, NoAnswer
<1>11. NoStaleError' BY <1>1, <1>2, <1>3, <1>6 DEF NoStaleError, TypeOK
<1> QED BY <1>4, <1>5, <1>7, <1>9, <1>10, <1>11

\* A caller joins the running build: it is not over, so it is in nobody's past.
LEMMA InvJoin == ASSUME Inv, NEW c \in Caller, Join(c) PROVE Inv'
<1> USE DEF Inv, Join, GoTo
<1>1. TypeOK' BY DEF TypeOK
<1>2. SlotInv' /\ Unstarted' /\ AnswerInv' /\ SharedOutcome'
  BY DEF SlotInv, Unstarted, AnswerInv, SharedOutcome
<1>3. \A d \in Caller : /\ Leads(d)' <=> Leads(d)
                        /\ d # c => pc'[d] = pc[d] /\ flight'[d] = flight[d]
  BY DEF TypeOK, Leads
<1>4. SlotHasBuilder' BY <1>3 DEF SlotHasBuilder, TypeOK, Leads
<1>5. Over' = Over /\ InFlight' = InFlight BY DEF Over, InFlight
<1>6. flight'[c] = slot.flight /\ pc'[c] = "waiting" /\ slot.flight \in 1..builds
  BY DEF TypeOK, SlotInv
<1>7. CallerInv' BY <1>3, <1>5, <1>6 DEF CallerInv, Joined
<1>8. slot.flight \notin past[c] BY DEF CallerInv, Over, InFlight
<1>9. NoStaleError' BY <1>3, <1>6, <1>8 DEF NoStaleError, Joined
<1> QED BY <1>1, <1>2, <1>4, <1>7, <1>9

\* A caller starts a build: its flight is new.
LEMMA InvLead == ASSUME Inv, NEW c \in Caller, Lead(c) PROVE Inv'
<1> USE DEF Inv, Lead, GoTo
<1>1. TypeOK' BY DEF TypeOK
<1>2. /\ flight'[c] = builds + 1 /\ pc'[c] = "building"
      /\ slot'.is = "building" /\ slot'.flight = builds + 1
      /\ \A d \in Caller : d # c => pc'[d] = pc[d] /\ flight'[d] = flight[d]
  BY DEF TypeOK
<1>3. builds \in Nat /\ builds + 1 \in Flight BY DEF TypeOK
<1>4. SlotInv' /\ Unstarted' BY <1>2, <1>3 DEF SlotInv, Unstarted
<1>5. \A d \in Caller : ~Leads(d) BY DEF SlotHasBuilder
<1>6. SlotHasBuilder' BY <1>2, <1>5 DEF SlotHasBuilder, Leads
<1>7. InFlight = {} /\ InFlight' = {builds + 1} /\ Over' = Over /\ Over = 1..builds
  BY <1>2, <1>3 DEF Over, InFlight
<1>8. outcome[builds + 1] = "none" BY <1>3 DEF Unstarted
<1>9. CallerInv' BY <1>2, <1>3, <1>7, <1>8 DEF CallerInv, Joined
<1>10. AnswerInv' /\ SharedOutcome' BY <1>3 DEF AnswerInv, SharedOutcome
<1>11. NoStaleError' BY <1>2, <1>3, <1>7 DEF NoStaleError, Joined, CallerInv
<1> QED BY <1>1, <1>4, <1>6, <1>9, <1>10, <1>11

\* The builder stores its outcome: nobody has answered with that flight yet.
LEMMA InvStore == ASSUME Inv, NEW c \in Caller, StoreOutcome(c) PROVE Inv'
<1> USE DEF Inv, StoreOutcome, GoTo
<1>1. PICK o \in {"ok", "err"} : outcome' = [outcome EXCEPT ![flight[c]] = o] OBVIOUS
<1>2. flight[c] \in 1..builds /\ flight[c] \in Flight /\ outcome[flight[c]] = "none"
  BY DEF CallerInv, Joined, TypeOK
<1>3. /\ outcome'[flight[c]] = o
      /\ \A f \in Flight : f # flight[c] => outcome'[f] = outcome[f]
  BY <1>1, <1>2 DEF TypeOK
<1>4. TypeOK' BY <1>1 DEF TypeOK
<1>5. slot.is = "building" /\ slot.flight = flight[c] BY DEF SlotHasBuilder, Leads
<1>6. SlotInv' /\ Unstarted' BY <1>2, <1>3, <1>5 DEF SlotInv, Unstarted, TypeOK
<1>7. \A d \in Caller : (Leads(d)' <=> Leads(d)) /\ (Joined(d)' <=> Joined(d))
  BY DEF TypeOK, Leads, Joined
<1>8. SlotHasBuilder' BY <1>7 DEF SlotHasBuilder
<1>9. Over' = Over /\ InFlight' = InFlight BY DEF Over, InFlight
<1>10. \A d \in Caller : d # c => flight[d] # flight[c] \/ pc[d] \in {"waiting", "idle", "deciding"}
  <2>1. flight[c] \in InFlight BY <1>5 DEF InFlight
  <2> QED BY <2>1 DEF SlotHasBuilder, CallerInv, Leads, TypeOK
<1>11. CallerInv'
  <2>1. \A d \in Caller : d # c => pc'[d] = pc[d] BY DEF TypeOK
  <2>2. pc'[c] = "stored" BY DEF TypeOK
  <2>3. \A d \in Caller : Joined(d) => flight[d] \in Flight BY DEF CallerInv, TypeOK
  <2>4. ASSUME NEW d \in Caller, d # c
        PROVE  /\ pc[d] \in {"building", "dropped"} => outcome'[flight[d]] = "none"
               /\ pc[d] \in {"stored", "resolved"} => outcome'[flight[d]] # "none"
    <3>1. CASE pc[d] \in {"building", "dropped", "stored", "resolved"}
      <4>1. flight[d] \in Flight /\ flight[d] # flight[c]
        BY <1>10, <2>3, <2>4, <3>1 DEF Joined
      <4>2. outcome'[flight[d]] = outcome[flight[d]] BY <1>3, <4>1
      <4> QED BY <4>2 DEF CallerInv
    <3> QED BY <3>1
  <2> QED BY <1>1, <1>2, <1>3, <1>7, <1>9, <2>1, <2>2, <2>4 DEF CallerInv
<1>12. AnswerInv' BY DEF AnswerInv
<1>13. SharedOutcome' BY <1>2, <1>3 DEF SharedOutcome, AnswerInv, TypeOK
<1>14. NoStaleError' BY <1>7 DEF NoStaleError
<1> QED BY <1>4, <1>6, <1>8, <1>11, <1>12, <1>13, <1>14

\* The flight leaves the slot, with a success cached or the slot emptied.
LEMMA InvLeaveSlot == ASSUME Inv, NEW c \in Caller, UpdateSlot(c) \/ DropBuild(c) PROVE Inv'
<1> USE DEF Inv
<1>0. UNCHANGED <<builds, outcome, flight, answer, past>> BY DEF UpdateSlot, DropBuild
<1>1. slot.is = "building" /\ slot.flight = flight[c] /\ flight[c] \in 1..builds
  BY DEF SlotHasBuilder, Leads, CallerInv, Joined, UpdateSlot, DropBuild
<1>2. PICK to \in {"resolved", "dropped"} :
         /\ pc' = [pc EXCEPT ![c] = to]
         /\ to = "resolved" => outcome[flight[c]] # "none"
         /\ to = "dropped" => outcome[flight[c]] = "none"
  BY DEF UpdateSlot, DropBuild, GoTo, CallerInv
<1>3. /\ slot' \in [is : {"empty", "ready"}, flight : 0..MaxBuilds]
      /\ slot'.is = "ready" => slot'.flight = flight[c] /\ outcome[flight[c]] = "ok"
  BY <1>1 DEF UpdateSlot, DropBuild, Empty, TypeOK
<1>4. pc'[c] = to /\ \A d \in Caller : d # c => pc'[d] = pc[d] BY <1>2 DEF TypeOK
<1>5. TypeOK' BY <1>0, <1>2, <1>3 DEF TypeOK
<1>6. SlotInv' /\ Unstarted' BY <1>0, <1>1, <1>3 DEF SlotInv, Unstarted
<1>7. \A d \in Caller : ~Leads(d)'
  BY <1>4 DEF SlotHasBuilder, Leads, UpdateSlot, DropBuild
<1>8. SlotHasBuilder' BY <1>3, <1>7 DEF SlotHasBuilder
<1>9. InFlight' = {} /\ Over' = 1..builds /\ Over \subseteq Over'
  BY <1>0, <1>3 DEF Over, InFlight
<1>10. \A d \in Caller : Joined(d)' <=> Joined(d)
  BY <1>4 DEF Joined, UpdateSlot, DropBuild
<1>11. CallerInv' BY <1>0, <1>2, <1>4, <1>9, <1>10 DEF CallerInv
<1>12. AnswerInv' /\ SharedOutcome' BY <1>0 DEF AnswerInv, SharedOutcome
<1>13. NoStaleError' BY <1>0, <1>10 DEF NoStaleError
<1> QED BY <1>5, <1>6, <1>8, <1>11, <1>12, <1>13

\* The builder, or its guard, wakes the waiters of a flight that is over.
LEMMA InvNotify == ASSUME Inv, NEW c \in Caller, Notify(c) \/ NotifyDropped(c) PROVE Inv'
<1> USE DEF Inv
<1>0. UNCHANGED <<slot, builds, outcome, flight, past>> BY DEF Notify, NotifyDropped
<1>1. /\ pc' = [d \in Caller |-> IF d = c THEN "idle"
                                ELSE IF d \in Woken(flight[c]) THEN "woken" ELSE pc[d]]
      /\ flight[c] \in 1..builds /\ flight[c] \notin InFlight
  BY DEF Notify, NotifyDropped, CallerInv, Joined
<1>2. \A d \in Caller : \/ d # c /\ pc'[d] = pc[d]
                        \/ d = c /\ pc'[d] = "idle" /\ pc[d] \in {"resolved", "dropped"}
                        \/ pc[d] = "waiting" /\ pc'[d] = "woken" /\ flight[d] = flight[c]
  BY <1>1 DEF Woken, Notify, NotifyDropped
<1>3. PICK a \in {answer[c], [flight |-> flight[c], outcome |-> outcome[flight[c]]]} :
         /\ answer' = [answer EXCEPT ![c] = a]
         /\ a # answer[c] => outcome[flight[c]] # "none"
  BY DEF Notify, NotifyDropped, CallerInv, TypeOK
<1>4. TypeOK' BY <1>0, <1>1, <1>3 DEF TypeOK
<1>5. SlotInv' /\ Unstarted' BY <1>0 DEF SlotInv, Unstarted
<1>6. \A d \in Caller : (Leads(d)' <=> Leads(d)) /\ (Joined(d)' => Joined(d))
  BY <1>2 DEF Leads, Joined
<1>7. SlotHasBuilder' BY <1>0, <1>6 DEF SlotHasBuilder
<1>8. Over' = Over /\ InFlight' = InFlight BY <1>0 DEF Over, InFlight
<1>9. CallerInv' BY <1>0, <1>1, <1>2, <1>6, <1>8 DEF CallerInv
<1>10. AnswerInv' /\ SharedOutcome'
  BY <1>0, <1>1, <1>3 DEF AnswerInv, SharedOutcome, TypeOK
<1>11. NoStaleError'
  <2>1. flight[c] \notin past[c] BY DEF NoStaleError, Joined, Notify, NotifyDropped
  <2> QED BY <1>0, <1>3, <1>6, <2>1 DEF NoStaleError, TypeOK
<1> QED BY <1>4, <1>5, <1>7, <1>9, <1>10, <1>11

LEMMA InvExpire == ASSUME Inv, Expire PROVE Inv'
<1> USE DEF Inv, Expire
<1>1. slot' \in [is : {"expired"}, flight : 0..MaxBuilds] /\ slot'.flight = slot.flight
  BY DEF TypeOK
<1>2. TypeOK' BY <1>1 DEF TypeOK
<1>3. SlotInv' /\ Unstarted' BY <1>1 DEF SlotInv, Unstarted
<1>4. \A d \in Caller : (Leads(d)' <=> Leads(d)) /\ (Joined(d)' <=> Joined(d))
  BY DEF Leads, Joined
<1>5. SlotHasBuilder' BY <1>1, <1>4 DEF SlotHasBuilder
<1>6. Over' = Over /\ InFlight' = InFlight BY <1>1 DEF Over, InFlight
<1>7. CallerInv' BY <1>4, <1>6 DEF CallerInv
<1>8. AnswerInv' /\ SharedOutcome' /\ NoStaleError'
  BY <1>4 DEF AnswerInv, SharedOutcome, NoStaleError
<1> QED BY <1>2, <1>3, <1>5, <1>7, <1>8

LEMMA InvNext == ASSUME Inv, [Next]_vars PROVE Inv'
<1>1. CASE UNCHANGED vars
  BY <1>1 DEF vars, Inv, TypeOK, SlotInv, SlotHasBuilder, CallerInv, AnswerInv, Unstarted,
     NoStaleError, SharedOutcome, Leads, Joined, Over, InFlight
<1> QED
  BY <1>1, InvCall, InvRetry, InvAnswer, InvJoin, InvLead, InvStore, InvLeaveSlot, InvNotify,
     InvExpire DEF Next, Progress

LEMMA InvAlways == Spec => []Inv
BY InvInit, InvNext, PTL DEF Spec

\* Every variable keeps the shape the code gives it.
THEOREM TypeCorrect == Spec => []TypeOK
BY InvAlways, PTL DEF Inv

\* Builds never overlap and the slot never names a build nobody runs, however
\* many requests there are and however builds end.
THEOREM SingleBuilder == Spec => []SlotHasBuilder
BY InvAlways, PTL DEF Inv

\* An error is returned only by calls that began before its build was over.
THEOREM ErrorsNeverCached == Spec => []NoStaleError
BY InvAlways, PTL DEF Inv

\* All the calls a build answers return its one outcome.
THEOREM OutcomeIsShared == Spec => []SharedOutcome
BY InvAlways, PTL DEF Inv
-----------------------------------------------------------------------------
(* The coordinator implements SingleFlight: under the mapping of Promise every
   action is one of its actions or changes nothing it sees. *)

USE DEF Promise!Flight

\* What SingleFlight sees of the slot and of the flights.
LEMMA SeesNothing ==
  ASSUME Inv, UNCHANGED <<slot, builds, flight, answer>>,
         \A f \in Over : outcome'[f] = outcome[f],
         \A c \in Caller : /\ pc'[c] = "idle" <=> pc[c] = "idle"
                           /\ pc'[c] = "deciding" <=> pc[c] = "deciding"
  PROVE  UNCHANGED Promise!vars
BY DEF Promise!vars, Over, InFlight

LEMMA SimCall == ASSUME Inv, NEW c \in Caller, Call(c) PROVE Promise!Ask(c)
<1>1. pc[c] = "idle" /\ pc' = [pc EXCEPT ![c] = "deciding"]
      /\ answer' = [answer EXCEPT ![c] = NoAnswer]
      /\ UNCHANGED <<slot, builds, outcome, flight>>
  BY DEF Call, GoTo
<1> QED BY <1>1 DEF Promise!Ask, Inv, TypeOK, NoAnswer, Over, InFlight

LEMMA SimServe == ASSUME Inv, NEW c \in Caller, Serve(c) PROVE Promise!AnswerFromCache(c)
<1>1. /\ pc[c] = "deciding" /\ slot.is = "ready"
      /\ slot.flight \in 1..builds /\ outcome[slot.flight] = "ok"
      /\ pc' = [pc EXCEPT ![c] = "idle"]
      /\ answer' = [answer EXCEPT ![c] = [flight |-> slot.flight, outcome |-> "ok"]]
      /\ UNCHANGED <<slot, builds, outcome, flight>>
  BY DEF Serve, Return, GoTo, Inv, SlotInv
<1>2. /\ pc'[c] = "idle" /\ slot.flight # 0
      /\ \A d \in Caller : d # c => pc'[d] = pc[d]
  BY <1>1 DEF Inv, TypeOK
<1>3. Over' = Over BY <1>1 DEF Over, InFlight
<1> QED BY <1>1, <1>2, <1>3 DEF Promise!AnswerFromCache

LEMMA SimJoin == ASSUME Inv, NEW c \in Caller, Join(c) PROVE Promise!Join(c)
<1>1. /\ pc[c] = "deciding" /\ slot.is = "building" /\ slot.flight \in 1..builds
      /\ pc' = [pc EXCEPT ![c] = "waiting"]
      /\ flight' = [flight EXCEPT ![c] = slot.flight]
      /\ UNCHANGED <<slot, builds, outcome, answer>>
  BY DEF Join, GoTo, Inv, SlotInv
<1>2. /\ pc'[c] = "waiting" /\ slot.flight # 0
      /\ \A d \in Caller : d # c => pc'[d] = pc[d]
  BY <1>1 DEF Inv, TypeOK
<1>3. Over' = Over BY <1>1 DEF Over, InFlight
<1> QED BY <1>1, <1>2, <1>3 DEF Promise!Join

LEMMA SimLead == ASSUME Inv, NEW c \in Caller, Lead(c) PROVE Promise!Start(c)
<1>1. /\ pc[c] = "deciding" /\ slot.is \in {"empty", "expired"} /\ builds < MaxBuilds
      /\ builds \in Nat
      /\ pc' = [pc EXCEPT ![c] = "building"]
      /\ flight' = [flight EXCEPT ![c] = builds + 1]
      /\ builds' = builds + 1
      /\ slot'.is = "building" /\ slot'.flight = builds + 1
      /\ UNCHANGED <<outcome, answer>>
  BY DEF Lead, GoTo, Inv, TypeOK
<1>2. Over' = Over BY <1>1 DEF Over, InFlight
<1> QED BY <1>1, <1>2 DEF Promise!Start, Inv, TypeOK

\* A build is over when it leaves the slot, as a success, an error or lost.
LEMMA SimLeaveSlot ==
  ASSUME Inv, NEW c \in Caller, UpdateSlot(c) \/ DropBuild(c)
  PROVE  \E r \in {"ok", "err", "lost"} : Promise!Finish(r)
<1>1. /\ slot.is = "building" /\ slot.flight = flight[c]
      /\ flight[c] \in 1..builds /\ flight[c] \in Flight /\ flight[c] # 0
  BY DEF Inv, SlotHasBuilder, Leads, CallerInv, Joined, UpdateSlot, DropBuild, TypeOK
<1>2. PICK r \in {"ok", "err", "lost"} :
         r = IF outcome[flight[c]] = "none" THEN "lost" ELSE outcome[flight[c]]
  BY <1>1 DEF Inv, TypeOK
<1>3. UNCHANGED <<builds, outcome, flight, answer>> BY DEF UpdateSlot, DropBuild
<1>4. /\ slot'.is = IF r = "ok" THEN "ready" ELSE "empty"
      /\ r = "ok" => slot'.flight = flight[c]
  BY <1>1, <1>2 DEF UpdateSlot, DropBuild, Inv, CallerInv, Empty
<1>5. Over = (1..builds) \ {flight[c]} /\ Over' = 1..builds
  BY <1>1, <1>3, <1>4 DEF Over, InFlight
<1>6. \A d \in Caller : /\ pc'[d] = "idle" <=> pc[d] = "idle"
                        /\ pc'[d] = "deciding" <=> pc[d] = "deciding"
  BY DEF UpdateSlot, DropBuild, GoTo, Inv, TypeOK
<1>7. \A f \in Flight : /\ f # flight[c] => (f \in Over' <=> f \in Over)
                        /\ f = flight[c] => f \in Over'
  BY <1>1, <1>5
<1>8. Promise!Finish(r) BY <1>1, <1>2, <1>3, <1>4, <1>6, <1>7 DEF Promise!Finish
<1> QED BY <1>8

\* A caller takes the outcome of the flight it led or joined.
LEMMA SimTake == ASSUME Inv, NEW c \in Caller, TakeOutcome(c) \/ Notify(c) PROVE Promise!Deliver(c)
<1> DEFINE f == flight[c]
<1>1. /\ f \in 1..builds /\ f \in Flight /\ f \in Over
      /\ pc[c] \in {"woken", "resolved"}
      /\ outcome[f] \in {"ok", "err"}
  BY DEF TakeOutcome, Notify, Inv, TypeOK, CallerInv, Joined, Over
<1>2. UNCHANGED <<slot, builds, outcome, flight>> BY DEF TakeOutcome, Notify
<1>3. answer' = [answer EXCEPT ![c] = [flight |-> f, outcome |-> outcome[f]]]
  BY DEF TakeOutcome, Notify, Return
<1>4. /\ pc'[c] = "idle"
      /\ \A d \in Caller : d # c => /\ pc'[d] = "idle" <=> pc[d] = "idle"
                                    /\ pc'[d] = "deciding" <=> pc[d] = "deciding"
  BY DEF TakeOutcome, Notify, Return, GoTo, Woken, Inv, TypeOK
<1>5. Over' = Over BY <1>2 DEF Over, InFlight
<1> QED BY <1>1, <1>2, <1>3, <1>4, <1>5 DEF Promise!Deliver

\* A waiter of a lost build asks again, the call that ran it is gone.
LEMMA SimLost == ASSUME Inv, NEW c \in Caller, Retry(c) \/ NotifyDropped(c) PROVE Promise!AskAgain(c)
<1> DEFINE f == flight[c]
<1>1. /\ f \in Flight /\ f \in Over
      /\ pc[c] \in {"woken", "dropped"}
      /\ outcome[f] = "none"
  BY DEF Retry, NotifyDropped, Inv, TypeOK, CallerInv, Joined, Over
<1>2. UNCHANGED <<slot, builds, outcome, flight, answer>> BY DEF Retry, NotifyDropped
<1>3. /\ pc'[c] \in {"idle", "deciding"}
      /\ \A d \in Caller : d # c => /\ pc'[d] = "idle" <=> pc[d] = "idle"
                                    /\ pc'[d] = "deciding" <=> pc[d] = "deciding"
  BY DEF Retry, NotifyDropped, GoTo, Woken, Inv, TypeOK
<1>4. Over' = Over BY <1>2 DEF Over, InFlight
<1> QED BY <1>1, <1>2, <1>3, <1>4 DEF Promise!AskAgain

LEMMA SimExpire == ASSUME Inv, Expire PROVE Promise!Expire
<1>1. /\ slot.is = "ready" /\ slot.flight \in 1..builds /\ slot'.is = "expired"
      /\ UNCHANGED <<builds, outcome, pc, flight, answer>>
  BY DEF Expire, Inv, TypeOK, SlotInv
<1> QED BY <1>1 DEF Promise!Expire, Over, InFlight

LEMMA SimStore == ASSUME Inv, NEW c \in Caller, StoreOutcome(c) PROVE UNCHANGED Promise!vars
<1>1. flight[c] \notin Over BY DEF StoreOutcome, Inv, SlotHasBuilder, Leads, Over, InFlight
<1>2. \A f \in Over : outcome'[f] = outcome[f]
  BY <1>1 DEF StoreOutcome, Inv, TypeOK, Over
<1> QED BY <1>2, SeesNothing DEF StoreOutcome, GoTo, Inv, TypeOK

\* The coordinator keeps the promise its header makes, step by step: whatever
\* the interleaving, it does what SingleFlight allows.
THEOREM CoordinatorKeepsPromise == Spec => KeepsPromise
<1>1. Init => Promise!Init
  BY DEF Init, Promise!Init, Empty, NoAnswer, Over
<1>2. ASSUME Inv, [Next]_vars PROVE [Promise!Next]_(Promise!vars)
  <2>1. CASE UNCHANGED vars BY <1>2, <2>1, SeesNothing DEF vars
  <2>2. CASE Expire BY <1>2, <2>2, SimExpire DEF Promise!Next
  <2>3. ASSUME NEW c \in Caller, Call(c) \/ Progress(c) \/ DropBuild(c)
        PROVE  [Promise!Next]_(Promise!vars)
    BY <1>2, <2>3, SimCall, SimServe, SimJoin, SimLead, SimLeaveSlot, SimTake, SimLost, SimStore
       DEF Progress, Promise!Next
  <2> QED BY <1>2, <2>1, <2>2, <2>3 DEF Next
<1> QED BY <1>1, <1>2, InvAlways, PTL DEF Spec, KeepsPromise, Promise!Spec
-----------------------------------------------------------------------------
(* The update commands *)

USE UpdaterAssumption

\* The steps that announce a state, and those that only move a call on.
Emits(c) == EmitChecking(c) \/ EmitLast(c) \/ EmitFinal(c)
Moves(c) == RefuseCheck(c) \/ RefuseDownload(c) \/ Fail(c) \/ ApplyFails(c)

\* The steps that leave the three fields of AppState alone.
Outside(c) ==
    \/ Invoke(c) \/ Moves(c) \/ Emits(c) \/ Announce(c) \/ ReadInfo(c) \/ EmitStart(c)
    \/ Chunk(c) \/ Complete(c) \/ Abort(c) \/ Hear(c) \/ EmitProgress(c) \/ Launch(c)

\* The steps that change them.
Changes(c) ==
    BeginCheck(c) \/ Answer(c) \/ BeginDownload(c) \/ FinishDownload(c) \/ Report(c) \/ Dismiss(c)

LEMMA UpdNextCases ==
    ASSUME [UpdNext]_updVars
    PROVE  UNCHANGED updVars \/ \E c \in Command : Outside(c) \/ Changes(c)
BY DEF UpdNext, Step, CheckStep, DownloadStep, ProgressStep, Outside, Changes, Moves, Emits

LEMMA OutsideKeepsState == ASSUME NEW c \in Command, Outside(c) PROVE UNCHANGED state
BY DEF Outside, Moves, Emits, Emit, Invoke, RefuseCheck, RefuseDownload, Fail, ApplyFails,
       EmitChecking, EmitLast, EmitFinal, Announce, ReadInfo, EmitStart, Chunk, Complete,
       Abort, Hear, EmitProgress, Launch

(***************************************************************************)
(* Types                                                                   *)
(***************************************************************************)

LEMMA UpdTypeInit == UpdInit => UpdTypeOK
BY DEF UpdInit, UpdTypeOK, Status, Place

LEMMA UpdTypeOutside == ASSUME UpdTypeOK, NEW c \in Command, Outside(c) PROVE UpdTypeOK'
<1> USE DEF UpdTypeOK, MoveTo, Place, state, progress
<1>1. CASE Invoke(c) BY <1>1 DEF Invoke
<1>2. CASE Moves(c) BY <1>2 DEF Moves, RefuseCheck, RefuseDownload, Fail, ApplyFails
<1>3. CASE Emits(c) BY <1>3 DEF Emits, Emit, EmitChecking, EmitLast, EmitFinal
<1>4. CASE Announce(c) BY <1>4 DEF Announce
<1>5. CASE ReadInfo(c) BY <1>5 DEF ReadInfo, Downloadable
<1>6. CASE EmitStart(c) BY <1>6 DEF EmitStart, Emit
<1>7. CASE Chunk(c) BY <1>7 DEF Chunk
<1>8. CASE Complete(c) BY <1>8 DEF Complete
<1>9. CASE Abort(c) BY <1>9 DEF Abort
<1>10. CASE Hear(c) BY <1>10 DEF Hear
<1>11. CASE EmitProgress(c) BY <1>11 DEF EmitProgress, Status
<1>12. CASE Launch(c) BY <1>12 DEF Launch
<1> QED BY <1>1, <1>2, <1>3, <1>4, <1>5, <1>6, <1>7, <1>8, <1>9, <1>10, <1>11, <1>12 DEF Outside

LEMMA UpdTypeChanges == ASSUME UpdTypeOK, NEW c \in Command, Changes(c) PROVE UpdTypeOK'
<1> USE DEF UpdTypeOK, Set, MoveTo, Place, Status, progress
<1>1. CASE BeginCheck(c) BY <1>1 DEF BeginCheck
<1>2. CASE Answer(c) BY <1>2 DEF Answer
<1>3. CASE BeginDownload(c) BY <1>3 DEF BeginDownload
<1>4. CASE FinishDownload(c) BY <1>4 DEF FinishDownload
<1>5. CASE Report(c) BY <1>5 DEF Report
<1>6. CASE Dismiss(c) BY <1>6 DEF Dismiss
<1> QED BY <1>1, <1>2, <1>3, <1>4, <1>5, <1>6 DEF Changes

LEMMA UpdTypeStep == ASSUME UpdTypeOK, [UpdNext]_updVars PROVE UpdTypeOK'
<1>1. CASE UNCHANGED updVars BY <1>1 DEF UpdTypeOK, updVars, state, progress
<1>2. CASE \E c \in Command : Outside(c) BY <1>2, UpdTypeOutside
<1>3. CASE \E c \in Command : Changes(c) BY <1>3, UpdTypeChanges
<1> QED BY <1>1, <1>2, <1>3, UpdNextCases

\* Every reachable state keeps the shape of UpdTypeOK; a download task holds an
\* installable release as long as it runs.
THEOREM UpdTypeCorrect == UpdSpec => []UpdTypeOK
BY UpdTypeInit, UpdTypeStep, PTL DEF UpdSpec

(***************************************************************************)
(* What a state is offered with                                            *)
(***************************************************************************)

LEMMA BackedStep == ASSUME UpdTypeOK, StatusBacked, [UpdNext]_updVars PROVE StatusBacked'
<1>1. CASE UNCHANGED updVars BY <1>1 DEF StatusBacked, updVars, state
<1>2. CASE \E c \in Command : Outside(c) BY <1>2, OutsideKeepsState DEF StatusBacked, state
<1>3. ASSUME NEW c \in Command, Changes(c) PROVE StatusBacked'
  <2> USE DEF StatusBacked, Set
  <2>1. CASE BeginCheck(c) BY <2>1 DEF BeginCheck
  <2>2. CASE Answer(c) BY <2>2 DEF Answer
  <2>3. CASE BeginDownload(c) BY <2>3 DEF BeginDownload
  \* The download's outcome: its release was installable when it was read.
  <2>4. CASE FinishDownload(c) BY <2>4 DEF FinishDownload, UpdTypeOK
  <2>5. CASE Report(c) BY <2>5 DEF Report
  <2>6. CASE Dismiss(c) BY <2>6 DEF Dismiss
  <2> QED BY <1>3, <2>1, <2>2, <2>3, <2>4, <2>5, <2>6 DEF Changes
<1> QED BY <1>1, <1>2, <1>3, UpdNextCases

\* An available update has its release and a ready one its file, however many
\* checks, downloads, progress reports and dismissals overlap.
THEOREM StatesAreBacked == UpdSpec => []StatusBacked
<1>1. UpdInit => StatusBacked BY DEF UpdInit, StatusBacked
<1> QED BY <1>1, BackedStep, UpdTypeCorrect, PTL DEF UpdSpec

(***************************************************************************)
(* Dismissal                                                               *)
(***************************************************************************)

LEMMA ExitedStep == ASSUME UpdTypeOK, Exited, [UpdNext]_updVars PROVE Exited'
<1>1. CASE UNCHANGED updVars BY <1>1 DEF Exited, updVars, progress
<1>2. ASSUME NEW c \in Command, Outside(c) \/ Changes(c) PROVE Exited'
  <2>1. CASE Launch(c) BY <2>1 DEF Launch, Exited
  <2>2. CASE ~Launch(c)
    \* Any other step is one of a running call or task: the program is there.
    <3>1. at[c] # "idle" \/ prog[c] # "off" \/ ~launched
      BY <1>2, <2>2 DEF Outside, Changes, Moves, Emits, Emit, Invoke, RefuseCheck,
         RefuseDownload, Fail, ApplyFails, EmitChecking, EmitLast, EmitFinal, Announce,
         ReadInfo, EmitStart, Chunk, Complete, Abort, Hear, EmitProgress, BeginCheck,
         Answer, BeginDownload, FinishDownload, Report, Dismiss
    <3>2. launched' = launched
      BY <1>2, <2>2 DEF Outside, Changes, Moves, Emits, Emit, Invoke, RefuseCheck,
         RefuseDownload, Fail, ApplyFails, EmitChecking, EmitLast, EmitFinal, Announce,
         ReadInfo, EmitStart, Chunk, Complete, Abort, Hear, EmitProgress, BeginCheck,
         Answer, BeginDownload, FinishDownload, Report, Dismiss
    <3> QED BY <3>1, <3>2 DEF Exited
  <2> QED BY <2>1, <2>2
<1> QED BY <1>1, <1>2, UpdNextCases

LEMMA DismissalStep == ASSUME UpdTypeOK, DismissalInv, [UpdNext]_updVars PROVE DismissalInv'
<1> USE DEF DismissalInv
<1>1. Exited' BY ExitedStep
<1>2. CASE UNCHANGED updVars BY <1>1, <1>2 DEF updVars, state
<1>3. ASSUME NEW c \in Command, Outside(c) PROVE DismissalInv'
  <2>1. info' = info BY <1>3, OutsideKeepsState DEF state
  <2>2. CASE Launch(c) BY <1>1, <2>1, <2>2 DEF Launch
  <2>3. CASE ~Launch(c)
    <3>1. launched' = launched /\ dismissed' = dismissed
      BY <1>3, <2>3 DEF Outside, Moves, Emits, Emit, Invoke, RefuseCheck, RefuseDownload,
         Fail, ApplyFails, EmitChecking, EmitLast, EmitFinal, Announce, ReadInfo, EmitStart,
         Chunk, Complete, Abort, Hear, EmitProgress
    <3> QED BY <1>1, <2>1, <3>1
  <2> QED BY <2>2, <2>3
<1>4. ASSUME NEW c \in Command, Changes(c) PROVE DismissalInv'
  <2> USE DEF Set
  <2>1. CASE BeginCheck(c) BY <1>1, <2>1 DEF BeginCheck
  <2>2. CASE Answer(c) BY <1>1, <2>2 DEF Answer
  <2>3. CASE BeginDownload(c) BY <1>1, <2>3 DEF BeginDownload
  <2>4. CASE FinishDownload(c) BY <1>1, <2>4 DEF FinishDownload
  <2>5. CASE Report(c) BY <1>1, <2>5 DEF Report
  \* A call still runs, so the program has not exited.
  <2>6. CASE Dismiss(c) BY <1>1, <2>6 DEF Dismiss, Exited
  <2> QED BY <1>4, <2>1, <2>2, <2>3, <2>4, <2>5, <2>6 DEF Changes
<1> QED BY <1>2, <1>3, <1>4, UpdNextCases

\* What was dismissed is not installed before a check has answered again.
THEOREM DismissalHolds == UpdSpec => []DismissedStays
<1>1. UpdInit => DismissalInv BY DEF UpdInit, DismissalInv, Exited
<1>2. DismissalInv => DismissedStays BY DEF DismissalInv, DismissedStays
<1> QED BY <1>1, <1>2, DismissalStep, UpdTypeCorrect, PTL DEF UpdSpec
=============================================================================
