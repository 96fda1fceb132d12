----------------------- MODULE CredentialLanes_proofs -----------------------
(* Theorems about CredentialLanes, for any accounts, homes, fetches, tokens.  *)
EXTENDS CredentialLanes, TLAPS

(***************************************************************************)
(* Types                                                                   *)
(***************************************************************************)

\* What a fetch may be: one that holds a lane has loaded credentials.
FetchState == [at : {"idle", "lane", "fetching", "refreshed"},
               home : Place \cup {NoHome}, copy : Place \cup {NoHome},
               cred : Auth, fresh : 0..MaxToken, tries : 0..2]

FetchOK(s) ==
    /\ s.copy # NoHome => s.home = Ambient
    /\ s.fresh # 0 <=> s.at = "refreshed"
    /\ s.at # "idle" => s.home \in Place
    /\ s.at \in {"fetching", "refreshed"} => s.cred # NoAuth

\* TypeOK is not inductive: the account given up when an answer is lost is that of
\* the credentials the fetch has loaded, and a switch has a file to switch to.
TypeInv ==
    /\ TypeOK
    /\ \A f \in Fetch : FetchOK(fetch[f])
    /\ mutation.kind = "switch" => mutation.target \in Place

LEMMA AuthFields ==
    ASSUME NEW x \in Auth
    PROVE  /\ x.account \in Account \cup {NoAccount} /\ x.token \in 0..MaxToken
           /\ x # NoAuth => x \in [account : Account, token : 1..MaxToken]
BY LanesAssumption DEF Auth, NoAuth

LEMMA TokenAuth ==
    ASSUME NEW a \in Account, NEW n \in 1..MaxToken
    PROVE  [account |-> a, token |-> n] \in Auth /\ [account |-> a, token |-> n] # NoAuth
BY LanesAssumption DEF Auth, NoAuth

LEMMA FetchSet ==
    ASSUME TypeInv, NEW f \in Fetch, NEW s \in FetchState, FetchOK(s),
           fetch' = [fetch EXCEPT ![f] = s]
    PROVE  /\ fetch' \in [Fetch -> FetchState]
           /\ \A g \in Fetch : FetchOK(fetch'[g])
BY DEF TypeInv, TypeOK, FetchState

LEMMA NoFresh == 0 \in 0..MaxToken BY LanesAssumption

LEMMA FetchUpdate ==
    ASSUME NEW s \in FetchState, NEW at \in {"idle", "lane", "fetching", "refreshed"},
           NEW cred \in Auth, NEW fresh \in 0..MaxToken, NEW tries \in 0..2
    PROVE  [s EXCEPT !.at = at, !.cred = cred, !.fresh = fresh, !.tries = tries] \in FetchState
BY DEF FetchState

LEMMA EnterState ==
    ASSUME NEW s \in FetchState, s.fresh = 0,
           NEW home \in Place, NEW copy \in Place \cup {NoHome}, copy # NoHome => home = Ambient
    PROVE  LET new == [s EXCEPT !.at = "lane", !.home = home, !.copy = copy]
           IN  new \in FetchState /\ FetchOK(new)
BY DEF FetchState, FetchOK

LEMMA FetchOf ==
    ASSUME TypeInv, NEW f \in Fetch
    PROVE  fetch[f] \in FetchState /\ FetchOK(fetch[f])
BY DEF TypeInv, TypeOK, FetchState

LEMMA TypeIntro ==
    ASSUME auth' \in [Place -> Auth], homes' \in Home, issued' \in 0..MaxToken,
           valid' \subseteq 1..issued', fetch' \in [Fetch -> FetchState],
           \A f \in Fetch : FetchOK(fetch'[f]), gone' \subseteq Account,
           relogged' \in BOOLEAN, crossed' \subseteq Fetch,
           mutation' \in [at : {"idle", "waiting", "locked", "materialized"},
                          kind : {"none", "switch", "login"}, target : Place \cup {NoHome}],
           mutation'.kind = "switch" => mutation'.target \in Place
    PROVE  TypeInv'
BY DEF TypeInv, TypeOK, FetchState, FetchOK

LEMMA SyncedTyped ==
    ASSUME auth \in [Place -> Auth], NEW home \in Place, NEW copy \in Place \cup {NoHome}
    PROVE  Synced(home, copy) \in [Place -> Auth]
BY DEF Synced

LEMMA Rotated ==
    ASSUME TypeInv, NEW token, Rotate(token)
    PROVE  /\ issued' = issued + 1 /\ issued' \in 1..MaxToken
           /\ valid' \subseteq 1..issued'
<1>1. issued' = issued + 1 /\ issued' \in 1..MaxToken
  BY LanesAssumption DEF Rotate, TypeInv, TypeOK
<1>0. issued \in Int BY LanesAssumption DEF TypeInv, TypeOK
<1>2. 1..issued \subseteq 1..issued' /\ issued' \in 1..issued' BY <1>0, <1>1
<1>3. valid \subseteq 1..issued /\ valid' \subseteq valid \cup {issued'}
  BY <1>1 DEF Rotate, TypeInv, TypeOK
<1> QED BY <1>1, <1>2, <1>3

LEMMA LoggedIn ==
    ASSUME TypeInv, LogIn
    PROVE  /\ issued' = issued + 1 /\ issued' \in 1..MaxToken
           /\ valid' \subseteq 1..issued'
BY LanesAssumption DEF LogIn, TypeInv, TypeOK

LEMMA TypeInit == Init => TypeInv
<1> SUFFICES ASSUME Init PROVE TypeInv OBVIOUS
<1>1. PICK other \in Account \ {First} :
          auth = [p \in Place |-> CASE p = Ambient -> [account |-> First, token |-> 1]
                                    [] p = 1 -> [account |-> other, token |-> 2]
                                    [] OTHER -> NoAuth]
  BY DEF Init
<1>2. /\ [account |-> First, token |-> 1] \in Auth /\ [account |-> other, token |-> 2] \in Auth
      /\ NoAuth \in Auth
  BY LanesAssumption DEF Auth
<1>3. auth \in [Place -> Auth] BY <1>1, <1>2
<1>4. homes \in Home /\ issued \in 0..MaxToken /\ valid \subseteq 1..issued
  BY LanesAssumption DEF Init, Home
<1>5. fetch \in [Fetch -> FetchState] /\ \A f \in Fetch : FetchOK(fetch[f])
  BY <1>2, LanesAssumption DEF Init, Idle, FetchState, FetchOK
<1>6. gone \subseteq Account /\ relogged \in BOOLEAN /\ crossed \subseteq Fetch BY DEF Init
<1> QED BY <1>3, <1>4, <1>5, <1>6 DEF Init, TypeInv, TypeOK, NoMutation, FetchState, FetchOK

LEMMA TypeFetch == ASSUME TypeInv, NEW f \in Fetch, FetchStep(f) PROVE TypeInv'
<1> DEFINE s == fetch[f]
<1>0. s \in FetchState /\ FetchOK(s) BY FetchOf
<1>1. /\ auth \in [Place -> Auth] /\ issued \in 0..MaxToken
      /\ UNCHANGED <<homes, mutation, relogged>> /\ crossed' \subseteq Fetch
  BY DEF TypeInv, TypeOK, FetchStep, TakeLane, SendRefresh, ReceiveRefresh, LoseRefresh,
         FinishFetch, TimeOut
<1>2. Idle \in FetchState /\ FetchOK(Idle)
  BY LanesAssumption DEF Idle, FetchState, FetchOK, Auth
<1>3. s.at # "idle" => Synced(s.home, s.copy) \in [Place -> Auth]
  BY <1>0, <1>1, SyncedTyped DEF FetchState, FetchOK
<1>4. s.at \in {"fetching", "refreshed"} => s.cred.account \in Account
  BY <1>0, AuthFields DEF FetchState, FetchOK
<1> HIDE DEF s
<1> SUFFICES /\ \E new \in FetchState : FetchOK(new) /\ fetch' = [fetch EXCEPT ![f] = new]
             /\ auth' \in [Place -> Auth] /\ gone' \subseteq Account
             /\ issued' \in 0..MaxToken /\ valid' \subseteq 1..issued'
  <2>1. fetch' \in [Fetch -> FetchState] /\ \A g \in Fetch : FetchOK(fetch'[g])
    BY FetchSet
  <2> QED BY <1>1, <2>1, TypeIntro DEF TypeInv, TypeOK
<1>5. CASE TakeLane(f)
  <2>1. auth' \in [Place -> Auth] BY <1>1, <1>3, <1>5 DEF TakeLane, Synchronize, s
  <2> DEFINE new == IF auth'[s.home] = NoAuth THEN Idle
                    ELSE [s EXCEPT !.at = "fetching", !.cred = auth'[s.home]]
  <2>2. fetch' = [fetch EXCEPT ![f] = new] BY <1>5 DEF TakeLane, s
  <2>3. new \in FetchState /\ FetchOK(new)
    <3>1. s.at = "lane" /\ s.home \in Place BY <1>0, <1>5 DEF TakeLane, s, FetchOK
    <3>2. auth'[s.home] \in Auth BY <2>1, <3>1
    <3> QED BY <1>0, <1>2, <3>1, <3>2 DEF FetchState, FetchOK
  <2> QED BY <1>5, <2>1, <2>2, <2>3 DEF TakeLane, TypeInv, TypeOK
<1>6. CASE SendRefresh(f)
  <2> DEFINE new == [s EXCEPT !.at = "refreshed", !.fresh = issued + 1, !.tries = @ + 1]
  <2>1. fetch' = [fetch EXCEPT ![f] = new] BY <1>6 DEF SendRefresh, s
  <2>2. issued' = issued + 1 /\ issued' \in 1..MaxToken /\ valid' \subseteq 1..issued'
    BY <1>6, Rotated DEF SendRefresh
  <2>3. new \in FetchState /\ FetchOK(new)
    <3>1. s.at = "fetching" /\ s.tries < 2 BY <1>6 DEF SendRefresh, s
    <3>2. s.tries + 1 \in 0..2 /\ issued + 1 \in 0..MaxToken /\ issued + 1 # 0
      BY <1>0, <2>2, <3>1, LanesAssumption DEF FetchState
    <3>3. new = [s EXCEPT !.at = "refreshed", !.cred = s.cred, !.fresh = issued + 1,
                          !.tries = s.tries + 1] /\ s.cred \in Auth
      BY <1>0 DEF FetchState
    <3>4. new \in FetchState BY <1>0, <3>2, <3>3, FetchUpdate
    <3>5. FetchOK(new) BY <1>0, <3>1, <3>2 DEF FetchState, FetchOK
    <3> QED BY <3>4, <3>5
  <2> QED BY <1>1, <1>6, <2>1, <2>2, <2>3, LanesAssumption DEF SendRefresh, TypeInv, TypeOK
<1>7. CASE ReceiveRefresh(f)
  <2> DEFINE cred == [account |-> s.cred.account, token |-> s.fresh]
             new == [s EXCEPT !.at = "fetching", !.cred = cred, !.fresh = 0]
  <2>1. s.at = "refreshed" BY <1>7 DEF ReceiveRefresh, s
  <2>2. s.fresh \in 1..MaxToken BY <1>0, <2>1, LanesAssumption DEF FetchState, FetchOK
  <2>3. cred \in Auth /\ cred # NoAuth BY <1>4, <2>1, <2>2, TokenAuth
  <2>4. fetch' = [fetch EXCEPT ![f] = new] BY <1>7 DEF ReceiveRefresh, s
  <2>5. new \in FetchState /\ FetchOK(new)
    <3>1. new = [s EXCEPT !.at = "fetching", !.cred = cred, !.fresh = 0, !.tries = s.tries]
      BY <1>0 DEF FetchState
    <3>2. s.tries \in 0..2 BY <1>0 DEF FetchState
    <3> HIDE DEF cred
    <3>3. new \in FetchState BY <1>0, <2>3, <3>1, <3>2, FetchUpdate, NoFresh
    <3>4. FetchOK(new) BY <1>0, <2>1, <2>3 DEF FetchState, FetchOK
    <3> QED BY <3>3, <3>4
  <2>6. auth' \in [Place -> Auth] BY <1>0, <1>1, <1>7, <2>3 DEF ReceiveRefresh, s
  <2>7. gone' \subseteq Account BY <1>4, <1>7, <2>1 DEF ReceiveRefresh, s, TypeInv, TypeOK
  <2> QED BY <1>1, <1>7, <2>4, <2>5, <2>6, <2>7 DEF ReceiveRefresh, TypeInv, TypeOK
<1>8. CASE LoseRefresh(f)
  <2> DEFINE new == [s EXCEPT !.at = "fetching", !.fresh = 0]
  <2>1. s.at = "refreshed" /\ fetch' = [fetch EXCEPT ![f] = new]
    BY <1>8 DEF LoseRefresh, s
  <2>2. new \in FetchState /\ FetchOK(new)
    <3>1. /\ new = [s EXCEPT !.at = "fetching", !.cred = s.cred, !.fresh = 0, !.tries = s.tries]
          /\ s.cred \in Auth /\ s.tries \in 0..2
      BY <1>0 DEF FetchState
    <3>2. FetchOK(new) BY <1>0, <2>1 DEF FetchState, FetchOK
    <3> HIDE DEF new
    <3>3. new \in FetchState BY <1>0, <3>1, FetchUpdate, NoFresh
    <3> QED BY <3>2, <3>3
  <2>3. gone' \subseteq Account BY <1>4, <1>8, <2>1 DEF LoseRefresh, s, TypeInv, TypeOK
  <2> QED BY <1>1, <1>8, <2>1, <2>2, <2>3 DEF LoseRefresh, TypeInv, TypeOK
<1>9. CASE FinishFetch(f)
  <2>1. auth' \in [Place -> Auth]
    BY <1>1, <1>3, <1>9 DEF FinishFetch, Synchronize, s
  <2> QED BY <1>2, <1>9, <2>1 DEF FinishFetch, TypeInv, TypeOK
<1>10. CASE TimeOut(f)
  <2>1. gone' \subseteq Account BY <1>4, <1>10 DEF TimeOut, s, TypeInv, TypeOK
  <2> QED BY <1>1, <1>2, <1>10, <2>1 DEF TimeOut, TypeInv, TypeOK
<1> QED BY <1>5, <1>6, <1>7, <1>8, <1>9, <1>10 DEF FetchStep

LEMMA TypeEnter == ASSUME TypeInv, NEW f \in Fetch, NEW h \in Place, EnterFetch(f, h) PROVE TypeInv'
<1> DEFINE new == [Idle EXCEPT !.at = "lane", !.home = Route(h).home, !.copy = Route(h).copy]
<1>1. fetch' = [fetch EXCEPT ![f] = new] BY DEF EnterFetch
<1>2. Ambient \in Place BY DEF Place
<1>3. new \in FetchState /\ FetchOK(new)
  <2> DEFINE home == Route(h).home
             copy == Route(h).copy
  <2>1. home \in Place /\ copy \in Place \cup {NoHome} /\ (copy # NoHome => home = Ambient)
    BY <1>2 DEF Route
  <2>2. Idle \in FetchState /\ Idle.fresh = 0
    BY NoFresh DEF Idle, FetchState, Auth
  <2> QED BY <2>1, <2>2, EnterState
<1>4. fetch' \in [Fetch -> FetchState] /\ \A g \in Fetch : FetchOK(fetch'[g])
  BY <1>1, <1>3, FetchSet
<1> QED BY <1>4, TypeIntro DEF EnterFetch, TypeInv, TypeOK

\* The steps of the commands and of Codex that leave the fetches alone.
Command ==
    \/ (\E h \in Place : BeginSwitch(h)) \/ BeginReauthenticate
    \/ MutationStep
    \/ \E a \in Account : AddAccount(a) \/ RemoveAccount(a) \/ \E p \in Place : CodexLogIn(p, a)
    \/ CodexRotates

LEMMA NextCases ==
    ASSUME [Next]_vars
    PROVE  \/ UNCHANGED vars
           \/ \E f \in Fetch : (\E h \in Place : EnterFetch(f, h)) \/ FetchStep(f)
           \/ Command
BY DEF Next, Command

LEMMA NewHomeTyped ==
    ASSUME TypeInv, NEW c \in Auth, NewHome(c)
    PROVE  auth' \in [Place -> Auth] /\ homes' \in Home /\ homes' = homes + 1
<1>1. homes + 1 \in Home /\ homes + 1 \in Place
  BY LanesAssumption DEF NewHome, TypeInv, TypeOK, Home, Place
<1> QED BY <1>1 DEF NewHome, TypeInv, TypeOK

LEMMA NewLoginTyped ==
    ASSUME NEW a \in Account, issued + 1 \in 1..MaxToken
    PROVE  NewLogin(a) \in Auth
BY TokenAuth DEF NewLogin

LEMMA AmbientTyped ==
    ASSUME TypeInv
    PROVE  /\ Ambient \in Place /\ NoAuth \in Auth
           /\ \A p \in Place : auth[p] \in Auth
           /\ \A p \in Place, x \in Auth : [auth EXCEPT ![p] = x] \in [Place -> Auth]
BY DEF TypeInv, TypeOK, Place, Auth

LEMMA TypeLogInAt ==
    ASSUME TypeInv, NEW p \in Place, NEW a \in Account, LogInAt(p, a)
    PROVE  /\ auth' \in [Place -> Auth] /\ issued' \in 0..MaxToken
           /\ valid' \subseteq 1..issued' /\ gone' \subseteq Account
<1>1. issued' = issued + 1 /\ issued' \in 1..MaxToken /\ valid' \subseteq 1..issued'
  BY LoggedIn DEF LogInAt
<1>2. auth' \in [Place -> Auth] BY <1>1, AmbientTyped, NewLoginTyped DEF LogInAt
<1>3. gone' \subseteq Account BY AmbientTyped, AuthFields DEF LogInAt, TypeInv, TypeOK
<1>4. issued' \in 0..MaxToken BY <1>1, LanesAssumption
<1> QED BY <1>1, <1>2, <1>3, <1>4

LEMMA TypeCommand == ASSUME TypeInv, Command PROVE TypeInv'
<1> USE AmbientTyped DEF TypeInv, TypeOK
<1> SUFFICES /\ auth' \in [Place -> Auth] /\ homes' \in Home /\ issued' \in 0..MaxToken
             /\ valid' \subseteq 1..issued' /\ gone' \subseteq Account
             /\ relogged' \in BOOLEAN /\ crossed' \subseteq Fetch /\ fetch' = fetch
             /\ mutation' \in [at : {"idle", "waiting", "locked", "materialized"},
                               kind : {"none", "switch", "login"},
                               target : Place \cup {NoHome}]
             /\ mutation'.kind = "switch" => mutation'.target \in Place
  BY TypeIntro, FetchOf
<1>1. CASE \E h \in Place : BeginSwitch(h) BY <1>1 DEF BeginSwitch, Begin
<1>2. CASE BeginReauthenticate BY <1>2 DEF BeginReauthenticate, Begin
<1>3. CASE LockMutation BY <1>3 DEF LockMutation
<1>4. CASE LeaveSwitch BY <1>4 DEF LeaveSwitch, EndMutation, NoMutation
<1>5. CASE Materialize BY <1>5, NewHomeTyped DEF Materialize
<1>6. CASE Replace BY <1>6 DEF Replace, EndMutation, NoMutation
<1>7. CASE FailLogin BY <1>7 DEF FailLogin, EndMutation, NoMutation
<1>8. CASE \E a \in Account : Reauthenticate(a)
  BY <1>8, TypeLogInAt DEF Reauthenticate, EndMutation, NoMutation
<1>9. CASE \E a \in Account : AddAccount(a)
  <2>1. PICK a \in Account : AddAccount(a) BY <1>9
  <2>2. issued' = issued + 1 /\ issued' \in 1..MaxToken /\ valid' \subseteq 1..issued'
    BY <2>1, LoggedIn DEF AddAccount
  <2>3. auth' \in [Place -> Auth] /\ homes' \in Home
    BY <2>1, <2>2, NewHomeTyped, NewLoginTyped DEF AddAccount
  <2>4. issued' \in 0..MaxToken BY <2>2, LanesAssumption
  <2> QED BY <2>1, <2>2, <2>3, <2>4 DEF AddAccount
<1>10. CASE \E a \in Account : RemoveAccount(a) BY <1>10 DEF RemoveAccount
<1>11. CASE \E a \in Account, p \in Place : CodexLogIn(p, a)
  BY <1>11, TypeLogInAt DEF CodexLogIn
<1>12. CASE CodexRotates
  <2>1. issued' = issued + 1 /\ issued' \in 1..MaxToken /\ valid' \subseteq 1..issued'
    BY <1>12, Rotated DEF CodexRotates
  <2>2. auth[Ambient] # NoAuth BY <1>12 DEF CodexRotates, NoAuth
  <2>3. [auth[Ambient] EXCEPT !.token = issued + 1] \in Auth
    BY <2>1, <2>2, AuthFields DEF Auth
  <2>4. auth' \in [Place -> Auth] BY <1>12, <2>3 DEF CodexRotates
  <2>5. issued' \in 0..MaxToken BY <2>1, LanesAssumption
  <2> QED BY <1>12, <2>1, <2>4, <2>5 DEF CodexRotates
<1> QED BY <1>1, <1>2, <1>3, <1>4, <1>5, <1>6, <1>7, <1>8, <1>9, <1>10, <1>11, <1>12
        DEF Command, MutationStep

LEMMA TypeStep == ASSUME TypeInv, [Next]_vars PROVE TypeInv'
<1>1. CASE UNCHANGED vars BY <1>1 DEF TypeInv, TypeOK, vars
<1> QED BY <1>1, NextCases, TypeEnter, TypeFetch, TypeCommand

\* Every reachable state keeps the shape of TypeOK.
THEOREM TypeCorrect == Spec => []TypeOK
<1>1. TypeInv => TypeOK BY DEF TypeInv
<1> QED BY <1>1, TypeInit, TypeStep, PTL DEF Spec

(***************************************************************************)
(* Managed homes                                                           *)
(***************************************************************************)

\* No two fetches hold the lane of one file.
Apart ==
    \A f, g \in Fetch :
        f # g /\ HoldsLane(f) /\ HoldsLane(g) => fetch[f].home # fetch[g].home

\* What becomes of a fetch: it ends, goes on through the home it was routed to, or
\* has just been routed.
LEMMA FetchStays ==
    ASSUME TypeInv, [Next]_vars, NEW f \in Fetch, Reading(f)'
    PROVE  \/ /\ Reading(f)
              /\ fetch'[f].home = fetch[f].home
              /\ HoldsLane(f)' =>
                    \/ HoldsLane(f) /\ fetch'[f].cred.account = fetch[f].cred.account
                    \/ TakeLane(f) /\ fetch'[f].cred = auth'[fetch[f].home]
           \/ \E p \in Place : EnterFetch(f, p) /\ fetch'[f].at = "lane"
                                 /\ fetch'[f].home = Route(p).home
<1> USE DEF HoldsLane, Reading
<1>1. CASE fetch'[f] = fetch[f] BY <1>1
<1>2. ASSUME NEW p \in Place, EnterFetch(f, p)
      PROVE  fetch'[f].at = "lane" /\ fetch'[f].home = Route(p).home
  BY <1>2 DEF EnterFetch, TypeInv, TypeOK, Idle
<1>3. CASE \E p \in Place : EnterFetch(f, p) BY <1>2, <1>3
<1>4. CASE FetchStep(f)
  <2>1. CASE TakeLane(f) BY <2>1 DEF TakeLane, TypeInv, TypeOK, Idle
  <2>2. CASE SendRefresh(f) BY <2>2 DEF SendRefresh, TypeInv, TypeOK
  <2>3. CASE ReceiveRefresh(f) BY <2>3 DEF ReceiveRefresh, TypeInv, TypeOK
  <2>4. CASE LoseRefresh(f) BY <2>4 DEF LoseRefresh, TypeInv, TypeOK
  <2>5. CASE FinishFetch(f) \/ TimeOut(f)
    BY <2>5 DEF FinishFetch, TimeOut, TypeInv, TypeOK, Idle
  <2> QED BY <1>4, <2>1, <2>2, <2>3, <2>4, <2>5 DEF FetchStep
<1>5. CASE \E g \in Fetch \ {f} : (\E p \in Place : EnterFetch(g, p)) \/ FetchStep(g)
  BY <1>1, <1>5 DEF EnterFetch, FetchStep, TakeLane, SendRefresh, ReceiveRefresh, LoseRefresh,
                    FinishFetch, TimeOut, TypeInv, TypeOK
<1>6. CASE Command
  BY <1>1, <1>6 DEF Command, MutationStep, BeginSwitch, BeginReauthenticate, Begin, LockMutation,
         LeaveSwitch, FailLogin, Materialize, Replace, Reauthenticate, CodexLogIn, AddAccount,
         RemoveAccount, CodexRotates
<1>7. CASE UNCHANGED vars BY <1>1, <1>7 DEF vars
<1> QED BY <1>3, <1>4, <1>5, <1>6, <1>7, NextCases

LEMMA ApartStep == ASSUME TypeInv, Apart, [Next]_vars PROVE Apart'
<1> SUFFICES ASSUME NEW f \in Fetch, NEW g \in Fetch, f # g, HoldsLane(f)', HoldsLane(g)',
                    fetch'[f].home = fetch'[g].home
             PROVE  FALSE
  BY DEF Apart, HoldsLane
<1>0. Reading(f)' /\ Reading(g)' BY DEF Reading, HoldsLane
<1>1. /\ fetch'[f].home = fetch[f].home /\ (HoldsLane(f) \/ TakeLane(f))
      /\ fetch'[g].home = fetch[g].home /\ (HoldsLane(g) \/ TakeLane(g))
  BY <1>0, FetchStays DEF HoldsLane
<1>2. \A a, b \in Fetch : TakeLane(a) /\ a # b => fetch'[b] = fetch[b]
  BY DEF TakeLane, TypeInv, TypeOK
<1>3. TakeLane(f) => fetch[f].at = "lane" BY DEF TakeLane
<1>4. TakeLane(g) => fetch[g].at = "lane" BY DEF TakeLane
<1>5. ~(TakeLane(f) /\ TakeLane(g)) BY <1>2, <1>4 DEF HoldsLane
<1>6. CASE HoldsLane(f) /\ HoldsLane(g) BY <1>1, <1>6 DEF Apart
<1>7. CASE TakeLane(f) /\ HoldsLane(g) BY <1>1, <1>7 DEF TakeLane, LaneFree
<1>8. CASE TakeLane(g) /\ HoldsLane(f) BY <1>1, <1>8 DEF TakeLane, LaneFree
<1> QED BY <1>1, <1>5, <1>6, <1>7, <1>8

\* Homes are made in the order of their numbers, a fetch uses one that was made,
\* and has loaded the credentials of whoever the home belongs to, if no login outside
\* the app has changed that since.
HomesOwned ==
    /\ Apart
    /\ crossed # {} => relogged
    /\ \A h \in Home : h > homes => auth[h] = NoAuth
    /\ \A f \in Fetch :
          LET h == fetch[f].home
          IN  h \in Home =>
                /\ h <= homes
                /\ HoldsLane(f) /\ f \notin crossed /\ auth[h] # NoAuth
                      => auth[h].account = fetch[f].cred.account

\* What one step does to a managed home: nothing, it is made, it is deleted, it gets
\* other credentials of the same account, or it changes hands.
SameOwner(h) ==
    \/ auth'[h] = auth[h]
    \/ h = homes + 1 /\ homes' = homes + 1
    \/ auth'[h] = NoAuth
    \/ auth[h] # NoAuth /\ auth'[h].account = auth[h].account
    \/ \E a \in Account : CodexLogIn(h, a)
    \/ CrossedAnswer(h)

LEMMA HomePlaces ==
    /\ Home \subseteq Place /\ Home \subseteq Int /\ Ambient \notin Home /\ NoHome \notin Home
    /\ Ambient \in Place
BY LanesAssumption DEF Place, Home

LEMMA SyncedOwner ==
    ASSUME TypeInv, NEW f \in Fetch, fetch[f].at # "idle", Synchronize(f), NEW h \in Home
    PROVE  SameOwner(h)
<1>1. auth[h] # NoAuth => NoAuth # auth[h] OBVIOUS
<1>2. /\ fetch[f].home \in Place
      /\ fetch[f].copy \in Place \cup {NoHome}
      /\ fetch[f].copy # NoHome => fetch[f].home = Ambient
  BY FetchOf DEF FetchState, FetchOK
<1>3. auth \in [Place -> Auth] BY DEF TypeInv, TypeOK
<1> QED BY <1>2, <1>3, HomePlaces DEF Synchronize, Synced, SameOwner

LEMMA FetchOwner ==
    ASSUME TypeInv, HomesOwned, NEW f \in Fetch, FetchStep(f), NEW h \in Home
    PROVE  SameOwner(h)
<1>1. CASE TakeLane(f) \/ FinishFetch(f)
  BY <1>1, SyncedOwner DEF TakeLane, FinishFetch
<1>2. CASE SendRefresh(f) \/ LoseRefresh(f) \/ TimeOut(f)
  BY <1>2 DEF SendRefresh, LoseRefresh, TimeOut, SameOwner
<1>3. CASE ReceiveRefresh(f)
  <2>1. CASE fetch[f].home = h /\ f \in crossed
    BY <1>3, <2>1 DEF SameOwner, CrossedAnswer
  <2>2. CASE fetch[f].home # h \/ f \notin crossed
    <3>1. /\ fetch[f].at = "refreshed" /\ auth \in [Place -> Auth] /\ h \in Place
          /\ \/ auth' = auth
             \/ /\ auth[fetch[f].home] # NoAuth
                /\ auth' = [auth EXCEPT ![fetch[f].home] =
                               [account |-> fetch[f].cred.account, token |-> fetch[f].fresh]]
      BY <1>3, HomePlaces DEF ReceiveRefresh, TypeInv, TypeOK
    <3>2. HoldsLane(f) BY <3>1 DEF HoldsLane
    <3>3. fetch[f].home = h /\ auth[h] # NoAuth => auth[h].account = fetch[f].cred.account
      BY <2>2, <3>2 DEF HomesOwned
    <3> QED BY <3>1, <3>3 DEF SameOwner
  <2> QED BY <2>1, <2>2
<1> QED BY <1>1, <1>2, <1>3 DEF FetchStep

LEMMA NewHomeOwner ==
    ASSUME TypeInv, NEW c, NewHome(c), NEW h \in Home
    PROVE  SameOwner(h)
BY HomePlaces DEF NewHome, SameOwner, TypeInv, TypeOK

LEMMA AmbientOwner ==
    ASSUME TypeInv, NEW c, auth' = [auth EXCEPT ![Ambient] = c], NEW h \in Home
    PROVE  SameOwner(h)
BY HomePlaces DEF SameOwner, TypeInv, TypeOK

LEMMA CommandOwner ==
    ASSUME TypeInv, HomesOwned, Command, NEW h \in Home
    PROVE  SameOwner(h)
<1>1. CASE \/ \E p \in Place : BeginSwitch(p)
           \/ BeginReauthenticate \/ LockMutation \/ LeaveSwitch \/ FailLogin
  BY <1>1 DEF BeginSwitch, BeginReauthenticate, Begin, LockMutation, LeaveSwitch, FailLogin,
              SameOwner
<1>2. CASE Materialize BY <1>2, NewHomeOwner DEF Materialize
<1>3. CASE Replace BY <1>3, AmbientOwner DEF Replace
<1>4. CASE \E a \in Account : Reauthenticate(a) \/ \E p \in Place : CodexLogIn(p, a)
  <2>1. CASE \E a \in Account : Reauthenticate(a)
    BY <2>1, AmbientOwner DEF Reauthenticate, LogInAt
  <2>2. ASSUME NEW a \in Account, NEW p \in Place, CodexLogIn(p, a), p # h
        PROVE  auth'[h] = auth[h]
    BY <2>2, HomePlaces DEF CodexLogIn, LogInAt, TypeInv, TypeOK
  <2> QED BY <1>4, <2>1, <2>2 DEF SameOwner
<1>5. CASE \E a \in Account : AddAccount(a) BY <1>5, NewHomeOwner DEF AddAccount
<1>6. CASE \E a \in Account : RemoveAccount(a)
  BY <1>6, HomePlaces DEF RemoveAccount, SameOwner
<1>7. CASE CodexRotates
  BY <1>7, HomePlaces DEF CodexRotates, SameOwner, TypeInv, TypeOK
<1> QED BY <1>1, <1>2, <1>3, <1>4, <1>5, <1>6, <1>7 DEF Command, MutationStep

LEMMA StepOwner ==
    ASSUME TypeInv, HomesOwned, [Next]_vars, NEW h \in Home
    PROVE  SameOwner(h)
<1>1. CASE UNCHANGED vars BY <1>1 DEF vars, SameOwner
<1>2. CASE \E f \in Fetch, p \in Place : EnterFetch(f, p)
  BY <1>2 DEF EnterFetch, SameOwner
<1> QED BY <1>1, <1>2, NextCases, FetchOwner, CommandOwner

\* What a fetch has after a step: nothing, or the home and the account it had.
LEMMA FetchKeeps ==
    ASSUME TypeInv, HomesOwned, [Next]_vars, NEW f \in Fetch,
           fetch'[f].home \in Home
    PROVE  LET h == fetch'[f].home
           IN  /\ \/ fetch[f].home = h
                  \/ auth[h] # NoAuth
               /\ HoldsLane(f)' =>
                    \/ HoldsLane(f) /\ fetch[f].home = h
                         /\ fetch'[f].cred.account = fetch[f].cred.account
                    \/ fetch'[f].cred = auth'[h]
<1> USE DEF HoldsLane
<1>1. CASE fetch'[f] = fetch[f] BY <1>1
<1>2. ASSUME NEW p \in Place, EnterFetch(f, p) PROVE fetch'[f].at = "lane" /\ fetch'[f].home \in {Ambient, p}
  BY <1>2 DEF EnterFetch, Route, TypeInv, TypeOK, Idle
<1>3. CASE \E p \in Place : EnterFetch(f, p)
  BY <1>2, <1>3, HomePlaces DEF EnterFetch
<1>4. CASE FetchStep(f)
  <2>0. NoHome \notin Home BY HomePlaces
  <2>1. CASE TakeLane(f) BY <2>0, <2>1 DEF TakeLane, TypeInv, TypeOK, Idle
  <2>2. CASE SendRefresh(f) BY <2>2 DEF SendRefresh, TypeInv, TypeOK
  <2>3. CASE ReceiveRefresh(f) BY <2>3 DEF ReceiveRefresh, TypeInv, TypeOK
  <2>4. CASE LoseRefresh(f) BY <2>4 DEF LoseRefresh, TypeInv, TypeOK
  <2>5. CASE FinishFetch(f) \/ TimeOut(f)
    BY <2>0, <2>5 DEF FinishFetch, TimeOut, TypeInv, TypeOK, Idle
  <2> QED BY <1>4, <2>1, <2>2, <2>3, <2>4, <2>5 DEF FetchStep
<1>5. CASE \E g \in Fetch \ {f} : (\E p \in Place : EnterFetch(g, p)) \/ FetchStep(g)
  BY <1>1, <1>5 DEF EnterFetch, FetchStep, TakeLane, SendRefresh, ReceiveRefresh, LoseRefresh,
                    FinishFetch, TimeOut, TypeInv, TypeOK
<1>6. CASE Command
  BY <1>1, <1>6 DEF Command, MutationStep, BeginSwitch, BeginReauthenticate, Begin, LockMutation,
         LeaveSwitch, FailLogin, Materialize, Replace, Reauthenticate, CodexLogIn, AddAccount,
         RemoveAccount, CodexRotates
<1>7. CASE UNCHANGED vars BY <1>1, <1>7 DEF vars
<1> QED BY <1>3, <1>4, <1>5, <1>6, <1>7, NextCases

LEMMA HomesGrow ==
    ASSUME TypeInv, [Next]_vars
    PROVE  homes' \in {homes, homes + 1}
<1>1. CASE UNCHANGED vars BY <1>1 DEF vars
<1>2. CASE \E f \in Fetch : (\E p \in Place : EnterFetch(f, p)) \/ FetchStep(f)
  BY <1>2 DEF EnterFetch, FetchStep, TakeLane, SendRefresh, ReceiveRefresh, LoseRefresh,
              FinishFetch, TimeOut
<1>3. CASE Command
  BY <1>3 DEF Command, MutationStep, BeginSwitch, BeginReauthenticate, Begin, LockMutation,
         LeaveSwitch, FailLogin, Materialize, Replace, Reauthenticate, CodexLogIn, AddAccount,
         RemoveAccount, CodexRotates, NewHome
<1> QED BY <1>1, <1>2, <1>3, NextCases

\* A login that crossed a fetch is remembered while the fetch holds its lane.
LEMMA CrossedStep ==
    ASSUME TypeInv, HomesOwned, [Next]_vars
    PROVE  /\ crossed' # {} => relogged'
           /\ \A f \in crossed : HoldsLane(f)' => f \in crossed'
           /\ \A a \in Account, p \in Place, f \in Fetch :
                 CodexLogIn(p, a) /\ HoldsLane(f) /\ fetch[f].home = p => f \in crossed'
<1>0. /\ crossed # {} => relogged
      /\ crossed \subseteq Fetch /\ fetch \in [Fetch -> FetchState] /\ Idle.at = "idle"
  BY FetchOf DEF HomesOwned, TypeInv, TypeOK, FetchState, Idle
<1>1. CASE crossed' = crossed /\ relogged' = relogged
  BY <1>0, <1>1 DEF CodexLogIn
<1>2. ASSUME NEW f \in Fetch, FinishFetch(f) \/ TimeOut(f)
      PROVE  /\ crossed' = crossed \ {f} /\ relogged' = relogged /\ ~HoldsLane(f)'
  BY <1>0, <1>2 DEF FinishFetch, TimeOut, HoldsLane
<1>3. CASE \E f \in Fetch : FinishFetch(f) \/ TimeOut(f)
  BY <1>0, <1>2, <1>3 DEF CodexLogIn
<1>4. CASE \E f \in Fetch : (\E p \in Place : EnterFetch(f, p)) \/ FetchStep(f)
  <2>1. ASSUME NEW f \in Fetch, (\E p \in Place : EnterFetch(f, p)) \/ FetchStep(f),
               ~(FinishFetch(f) \/ TimeOut(f))
        PROVE  crossed' = crossed /\ relogged' = relogged
    BY <2>1 DEF EnterFetch, FetchStep, TakeLane, SendRefresh, ReceiveRefresh, LoseRefresh
  <2> QED BY <1>1, <1>3, <1>4, <2>1
<1>5. ASSUME NEW a \in Account, NEW p \in Place, CodexLogIn(p, a)
      PROVE  crossed = {} /\ relogged' /\ crossed' = {f \in Fetch : HoldsLane(f) /\ fetch[f].home = p}
  BY <1>0, <1>5 DEF CodexLogIn
<1>6. CASE Command
  <2>1. CASE \E a \in Account, p \in Place : CodexLogIn(p, a)
    <3>1. \A a \in Account, p \in Place, f \in Fetch :
             CodexLogIn(p, a) /\ HoldsLane(f) /\ fetch[f].home = p => f \in crossed'
      BY <1>5
    <3> QED BY <1>5, <2>1, <3>1
  <2>2. CASE ~\E a \in Account, p \in Place : CodexLogIn(p, a)
    <3>1. crossed' = crossed /\ relogged' = relogged
      BY <1>6, <2>2 DEF Command, MutationStep, BeginSwitch, BeginReauthenticate, Begin,
             LockMutation, LeaveSwitch, FailLogin, Materialize, Replace, Reauthenticate,
             AddAccount, RemoveAccount, CodexRotates
    <3> QED BY <1>1, <3>1
  <2> QED BY <2>1, <2>2
<1>7. CASE UNCHANGED vars BY <1>1, <1>7 DEF vars
<1> QED BY <1>4, <1>6, <1>7, NextCases

LEMMA OwnedStep == ASSUME TypeInv, HomesOwned, [Next]_vars PROVE HomesOwned'
<1>0. /\ homes \in Int /\ homes' \in {homes, homes + 1} /\ Home \subseteq Int
      /\ \A h \in Home : SameOwner(h)
  BY HomesGrow, HomePlaces, StepOwner DEF TypeInv, TypeOK
<1>1. ASSUME NEW h \in Home, h > homes' PROVE auth'[h] = NoAuth
  <2>0. h \in Int /\ h > homes BY <1>0, <1>1
  <2>4. ~(h = homes + 1 /\ homes' = homes + 1) BY <1>0, <1>1, <2>0
  <2>1. auth[h] = NoAuth /\ SameOwner(h) BY <1>0, <2>0 DEF HomesOwned
  <2>2. \A a \in Account : ~CodexLogIn(h, a) BY <2>1 DEF CodexLogIn
  <2>3. ASSUME CrossedAnswer(h) PROVE auth'[h] = auth[h]
    <3>1. PICK f \in crossed : ReceiveRefresh(f) /\ fetch[f].home = h
      BY <2>3 DEF CrossedAnswer
    <3> QED BY <2>1, <3>1 DEF ReceiveRefresh
  <2> QED BY <2>1, <2>2, <2>3, <2>4 DEF SameOwner
<1>2. ASSUME NEW f \in Fetch, fetch'[f].home \in Home
      PROVE  /\ fetch'[f].home <= homes'
             /\ HoldsLane(f)' /\ f \notin crossed' /\ auth'[fetch'[f].home] # NoAuth
                  => auth'[fetch'[f].home].account = fetch'[f].cred.account
  <2> DEFINE h == fetch'[f].home
  <2>1. h <= homes
    <3>1. fetch[f].home = h \/ auth[h] # NoAuth BY <1>2, FetchKeeps
    <3>2. h \in Int /\ h \in Home BY <1>0, <1>2
    <3> HIDE DEF h
    <3>3. CASE fetch[f].home = h BY <3>2, <3>3 DEF HomesOwned
    <3>4. CASE auth[h] # NoAuth BY <1>0, <3>2, <3>4 DEF HomesOwned
    <3> QED BY <3>1, <3>3, <3>4
  <2>2. h <= homes' /\ h # homes + 1
    <3>1. h \in Int BY <1>0, <1>2
    <3> HIDE DEF h
    <3> QED BY <1>0, <2>1, <3>1
  <2>3. ASSUME HoldsLane(f)', f \notin crossed', auth'[h] # NoAuth
        PROVE  auth'[h].account = fetch'[f].cred.account
    <3>1. CASE fetch'[f].cred = auth'[h] BY <3>1
    <3>2. CASE /\ HoldsLane(f) /\ fetch[f].home = h
               /\ fetch'[f].cred.account = fetch[f].cred.account
      <4>1. f \notin crossed BY <2>3, CrossedStep
      <4>2. auth[h] # NoAuth => auth[h].account = fetch[f].cred.account
        BY <1>2, <3>2, <4>1 DEF HomesOwned
      <4>3. \A a \in Account : ~CodexLogIn(h, a)
        BY <1>2, <2>3, <3>2, CrossedStep, HomePlaces
      <4>4. ~CrossedAnswer(h)
        <5>1. ASSUME NEW g \in crossed, ReceiveRefresh(g), fetch[g].home = h PROVE FALSE
          <6>1. g \in Fetch /\ HoldsLane(g) /\ g # f
            BY <4>1, <5>1 DEF TypeInv, TypeOK, ReceiveRefresh, HoldsLane
          <6> QED BY <3>2, <5>1, <6>1 DEF HomesOwned, Apart
        <5> QED BY <5>1 DEF CrossedAnswer
      <4>5. SameOwner(h) BY <1>0, <1>2
      <4>6. \/ auth'[h] = auth[h]
            \/ auth[h] # NoAuth /\ auth'[h].account = auth[h].account
        BY <2>2, <2>3, <4>3, <4>4, <4>5 DEF SameOwner
      <4> QED BY <2>3, <3>2, <4>2, <4>6
    <3> QED BY <1>2, <2>3, <3>1, <3>2, FetchKeeps
  <2> QED BY <2>2, <2>3
<1>3. Apart' BY ApartStep DEF HomesOwned
<1>4. crossed' # {} => relogged' BY CrossedStep
<1> QED BY <1>1, <1>2, <1>3, <1>4 DEF HomesOwned, HoldsLane

LEMMA InitOwned == Init => HomesOwned
<1> SUFFICES ASSUME Init PROVE HomesOwned OBVIOUS
<1>1. ASSUME NEW h \in Home, h > homes PROVE auth[h] = NoAuth
  <2>1. homes = 1 /\ h \in Int /\ h \in Place /\ h # Ambient BY HomePlaces DEF Init
  <2>2. h # 1 BY <1>1, <2>1
  <2>3. PICK other : auth = [p \in Place |->
            CASE p = Ambient -> [account |-> First, token |-> 1]
              [] p = 1 -> [account |-> other, token |-> 2]
              [] OTHER -> NoAuth]
    BY DEF Init
  <2> QED BY <2>1, <2>2, <2>3
<1>2. \A h \in Home : h > homes => auth[h] = NoAuth BY <1>1
<1>3. \A f \in Fetch : fetch[f].home = NoHome BY DEF Init, Idle
<1>4. crossed = {} /\ Apart BY DEF Init, Idle, Apart, HoldsLane
<1> QED BY <1>2, <1>3, <1>4, HomePlaces DEF HomesOwned

LEMMA StaysRelogged == ASSUME TypeInv, [Next]_vars, ~relogged' PROVE ~relogged
<1>1. CASE UNCHANGED vars BY <1>1 DEF vars
<1>2. CASE \E f \in Fetch : (\E p \in Place : EnterFetch(f, p)) \/ FetchStep(f)
  BY <1>2 DEF EnterFetch, FetchStep, TakeLane, SendRefresh, ReceiveRefresh, LoseRefresh,
              FinishFetch, TimeOut
<1>3. CASE Command
  BY <1>3 DEF Command, MutationStep, BeginSwitch, BeginReauthenticate, Begin, LockMutation,
         LeaveSwitch, FailLogin, Materialize, Replace, Reauthenticate, CodexLogIn, AddAccount,
         RemoveAccount, CodexRotates
<1> QED BY <1>1, <1>2, <1>3, NextCases

\* Before any login outside the app a managed home that was made keeps its account.
LEMMA OwnerKept ==
    ASSUME TypeInv, HomesOwned, [Next]_vars, ~relogged', NEW h \in Home, h # homes + 1,
           auth'[h] # NoAuth
    PROVE  auth[h] # NoAuth /\ auth'[h].account = auth[h].account
<1>1. SameOwner(h) /\ (crossed' # {} => relogged') BY StepOwner, CrossedStep
<1>2. \A a \in Account : ~CodexLogIn(h, a) BY DEF CodexLogIn
<1>3. ~CrossedAnswer(h)
  <2>1. crossed = {} BY StaysRelogged DEF HomesOwned
  <2> QED BY <2>1 DEF CrossedAnswer
<1> QED BY <1>1, <1>2, <1>3 DEF SameOwner

\* A managed home changes hands by a login outside the app, or by the answer to a
\* refresh of a fetch that held its lane when that login was run, and by nothing else
\* that a fetch, a command or Codex does, whatever was under way when the active account
\* changed.
THEOREM HomesKeepTheirOwner == Spec => HomesKeepOwner
<1>1. ASSUME TypeInv, HomesOwned, [Next]_vars
      PROVE  [\A h \in Home : auth[h] # NoAuth /\ auth'[h] # NoAuth
                 /\ auth'[h].account # auth[h].account
                 => relogged' # relogged \/ CrossedAnswer(h)]_vars
  <2>1. homes \in Int BY <1>1, HomePlaces DEF TypeInv, TypeOK
  <2>2. ASSUME NEW h \in Home, auth[h] # NoAuth, auth'[h] # NoAuth,
               auth'[h].account # auth[h].account, ~CrossedAnswer(h)
        PROVE  relogged' # relogged
    <3>1. h # homes + 1 BY <1>1, <2>1, <2>2, HomePlaces DEF HomesOwned
    <3>2. PICK a \in Account : CodexLogIn(h, a)
      BY <1>1, <2>2, <3>1, StepOwner DEF SameOwner
    <3> QED BY <3>2 DEF CodexLogIn
  <2> QED BY <2>2
<1> QED BY InitOwned, <1>1, TypeInit, TypeStep, OwnedStep, PTL DEF Spec, HomesKeepOwner

(***************************************************************************)
(* Lanes                                                                   *)
(***************************************************************************)

Outside == \A f \in Fetch : Reading(f) => ~Writing

\* A fetch through a managed home is not one of the active account, a fetch through
\* the ambient home has the credentials of it: so it was when the fetch was routed.
Routed ==
    \A f \in Fetch :
        LET h == fetch[f].home
        IN  /\ Reading(f) /\ h \in Home /\ auth[h] # NoAuth
                 => auth[Ambient].account # auth[h].account
            /\ HoldsLane(f) /\ h = Ambient /\ auth[h] # NoAuth
                 => auth[h].account = fetch[f].cred.account

LaneInv == Outside /\ (relogged \/ Routed)

\* The write lock is held after a step if it was, or was granted with no one reading.
LEMMA WriteGranted ==
    ASSUME TypeInv, [Next]_vars, Writing'
    PROVE  \/ Writing /\ \A f \in Fetch, p \in Place : ~EnterFetch(f, p)
           \/ GrantsWrite /\ fetch' = fetch
<1>1. Writing => \A f \in Fetch, p \in Place : ~EnterFetch(f, p)
  BY DEF Writing, EnterFetch, GrantsRead
<1>2. CASE mutation' = mutation BY <1>1, <1>2 DEF Writing
<1>3. CASE \E f \in Fetch : (\E p \in Place : EnterFetch(f, p)) \/ FetchStep(f)
  BY <1>2, <1>3 DEF EnterFetch, FetchStep, TakeLane, SendRefresh, ReceiveRefresh, LoseRefresh,
              FinishFetch, TimeOut
<1>4. CASE Command
  <2>1. CASE LockMutation BY <2>1 DEF LockMutation
  <2>2. CASE BeginReauthenticate \/ \E p \in Place : BeginSwitch(p)
    BY <2>2 DEF BeginSwitch, BeginReauthenticate, Begin, Writing
  <2>3. CASE LeaveSwitch \/ Replace \/ FailLogin \/ \E a \in Account : Reauthenticate(a)
    BY <2>3 DEF LeaveSwitch, Replace, FailLogin, Reauthenticate, EndMutation, NoMutation, Writing
  <2>4. CASE Materialize BY <1>1, <2>4 DEF Materialize, Writing
  <2>5. CASE \/ CodexRotates
             \/ \E a \in Account : AddAccount(a) \/ RemoveAccount(a) \/ \E p \in Place : CodexLogIn(p, a)
    BY <1>2, <2>5 DEF CodexRotates, AddAccount, RemoveAccount, CodexLogIn
  <2> QED BY <1>4, <2>1, <2>2, <2>3, <2>4, <2>5 DEF Command, MutationStep
<1>5. CASE UNCHANGED vars BY <1>2, <1>5 DEF vars
<1> QED BY <1>3, <1>4, <1>5, NextCases

LEMMA SyncedAccounts ==
    ASSUME TypeInv, NEW f \in Fetch, fetch[f].at # "idle", Synchronize(f)
    PROVE  /\ auth'[Ambient].account = auth[Ambient].account
           /\ \A h \in Home : auth'[h] = auth[h] \/ auth[Ambient].account = auth[h].account
<1>1. /\ fetch[f].home \in Place
      /\ fetch[f].copy \in Place \cup {NoHome}
      /\ fetch[f].copy # NoHome => fetch[f].home = Ambient
  BY FetchOf DEF FetchState, FetchOK
<1>2. auth \in [Place -> Auth] BY DEF TypeInv, TypeOK
<1> QED BY <1>1, <1>2, HomePlaces DEF Synchronize, Synced

\* While a fetch reads nobody but a login outside the app changes the active account.
LEMMA AmbientKept ==
    ASSUME TypeInv, LaneInv, [Next]_vars, ~relogged', NEW f \in Fetch, Reading(f)
    PROVE  auth'[Ambient].account = auth[Ambient].account
<1>0. ~relogged /\ Routed /\ ~Writing /\ auth \in [Place -> Auth] /\ Ambient \in Place
  BY StaysRelogged, HomePlaces DEF LaneInv, Outside, TypeInv, TypeOK
<1>1. CASE auth' = auth BY <1>1
<1>2. CASE \E g \in Fetch, p \in Place : EnterFetch(g, p) BY <1>1, <1>2 DEF EnterFetch
<1>3. ASSUME NEW g \in Fetch, FetchStep(g) PROVE auth'[Ambient].account = auth[Ambient].account
  <2>1. CASE TakeLane(g) \/ FinishFetch(g)
    BY <2>1, SyncedAccounts DEF TakeLane, FinishFetch
  <2>2. CASE SendRefresh(g) \/ LoseRefresh(g) \/ TimeOut(g)
    BY <2>2 DEF SendRefresh, LoseRefresh, TimeOut
  <2>3. CASE ReceiveRefresh(g)
    <3>1. HoldsLane(g) BY <2>3 DEF ReceiveRefresh, HoldsLane
    <3>2. fetch[g].home = Ambient /\ auth[Ambient] # NoAuth
            => auth[Ambient].account = fetch[g].cred.account
      BY <1>0, <3>1 DEF Routed
    <3> QED BY <1>0, <2>3, <3>2 DEF ReceiveRefresh
  <2> QED BY <1>3, <2>1, <2>2, <2>3 DEF FetchStep
<1>4. CASE Command
  <2>1. CASE \/ \E p \in Place : BeginSwitch(p)
             \/ BeginReauthenticate \/ LockMutation \/ LeaveSwitch \/ FailLogin
    BY <2>1 DEF BeginSwitch, BeginReauthenticate, Begin, LockMutation, LeaveSwitch, FailLogin
  <2>2. ~Materialize /\ ~Replace /\ \A a \in Account : ~Reauthenticate(a)
    BY <1>0 DEF Materialize, Replace, Reauthenticate, Writing
  <2>3. \A a \in Account, p \in Place : ~CodexLogIn(p, a) BY DEF CodexLogIn
  <2>4. CASE \E a \in Account : AddAccount(a) \/ RemoveAccount(a)
    <3>1. homes + 1 # Ambient \/ ~(homes < MaxHome)
      BY LanesAssumption DEF Home, TypeInv, TypeOK
    <3> QED BY <1>0, <2>4, <3>1, HomePlaces DEF AddAccount, NewHome, RemoveAccount
  <2>5. CASE CodexRotates
    <3>1. auth[Ambient] # NoAuth
      BY <2>5 DEF CodexRotates, TypeInv, TypeOK, NoAuth
    <3>2. auth[Ambient] \in [account : Account, token : 1..MaxToken] BY <1>0, <3>1, AuthFields
    <3> QED BY <1>0, <2>5, <3>2 DEF CodexRotates
  <2> QED BY <1>4, <2>1, <2>2, <2>3, <2>4, <2>5 DEF Command, MutationStep
<1>5. CASE UNCHANGED vars BY <1>5 DEF vars
<1> QED BY <1>2, <1>3, <1>4, <1>5, NextCases

LEMMA LaneStep == ASSUME TypeInv, HomesOwned, LaneInv, [Next]_vars PROVE LaneInv'
<1>0. TypeInv' /\ HomesOwned' BY TypeStep, OwnedStep
<1>1. Outside'
  <2> SUFFICES ASSUME NEW f \in Fetch, Reading(f)', Writing' PROVE FALSE BY DEF Outside
  <2>1. CASE GrantsWrite /\ fetch' = fetch BY <2>1 DEF GrantsWrite, Reading
  <2>2. CASE Writing /\ \A p \in Place : ~EnterFetch(f, p)
    BY <2>2, FetchStays DEF LaneInv, Outside
  <2> QED BY <2>1, <2>2, WriteGranted
<1>2. ASSUME ~relogged' PROVE Routed'
  <2>0. Routed BY <1>2, StaysRelogged DEF LaneInv
  <2>1. ASSUME NEW f \in Fetch, Reading(f)', fetch'[f].home \in Home, auth'[fetch'[f].home] # NoAuth
        PROVE  auth'[Ambient].account # auth'[fetch'[f].home].account
    <3> DEFINE h == fetch'[f].home
    <3>1. CASE Reading(f) /\ fetch[f].home = h
      <4>1. auth'[Ambient].account = auth[Ambient].account BY <1>2, <3>1, AmbientKept
      <4>2. h # homes + 1
        <5>1. h <= homes BY <2>1, <3>1 DEF HomesOwned
        <5>2. h \in Int /\ homes \in Int BY <2>1, HomePlaces DEF TypeInv, TypeOK
        <5> HIDE DEF h
        <5> QED BY <5>1, <5>2
      <4>3. auth[h] # NoAuth /\ auth'[h].account = auth[h].account
        BY <1>2, <2>1, <4>2, OwnerKept
      <4> QED BY <2>0, <2>1, <3>1, <4>1, <4>3 DEF Routed
    <3>2. CASE \E p \in Place : EnterFetch(f, p) /\ h = Route(p).home
      <4>1. auth' = auth BY <3>2 DEF EnterFetch
      <4> QED BY <2>1, <3>2, <4>1, HomePlaces DEF Route
    <3> QED BY <2>1, <3>1, <3>2, FetchStays
  <2>2. ASSUME NEW f \in Fetch, HoldsLane(f)', fetch'[f].home = Ambient, auth'[Ambient] # NoAuth
        PROVE  auth'[Ambient].account = fetch'[f].cred.account
    <3>0. Reading(f)' /\ fetch'[f].at # "lane" BY <2>2 DEF HoldsLane, Reading
    <3>1. /\ Reading(f) /\ fetch[f].home = Ambient
          /\ \/ HoldsLane(f) /\ fetch'[f].cred.account = fetch[f].cred.account
             \/ fetch'[f].cred = auth'[Ambient]
      BY <2>2, <3>0, FetchStays
    <3>2. auth'[Ambient].account = auth[Ambient].account BY <1>2, <3>1, AmbientKept
    <3>3. auth'[Ambient].account \in Account
      BY <1>0, <2>2, AuthFields, HomePlaces DEF TypeInv, TypeOK
    <3>4. auth[Ambient] # NoAuth BY <3>2, <3>3, LanesAssumption DEF NoAuth
    <3> QED BY <2>0, <3>1, <3>2, <3>4 DEF Routed
  <2> QED BY <2>1, <2>2 DEF Routed, HoldsLane, Reading
<1> QED BY <1>1, <1>2 DEF LaneInv

\* While a fetch holds the lane of a managed home no other fetch, switch, login or
\* synchronization writes credentials there, for any number of fetches and homes.
THEOREM LanesProtectFiles == Spec => LaneProtectsFile
<1>1. Init => HomesOwned /\ LaneInv
  <2> SUFFICES ASSUME Init PROVE HomesOwned /\ LaneInv OBVIOUS
  <2>1. HomesOwned BY InitOwned
  <2>2. \A f \in Fetch : fetch[f].at = "idle" BY DEF Init, Idle
  <2> QED BY <2>1, <2>2 DEF LaneInv, Outside, Routed, Reading, HoldsLane
<1>2. ASSUME TypeInv, HomesOwned, LaneInv, [Next]_vars
      PROVE  [\A f \in Fetch :
                LET h == fetch[f].home
                IN (HoldsLane(f) /\ h \in Home /\ auth'[h] \notin {auth[h], NoAuth})
                   => fetch'[f] # fetch[f] \/ relogged']_vars
  <2> SUFFICES ASSUME NEW f \in Fetch, HoldsLane(f), fetch[f].home \in Home,
                      fetch'[f] = fetch[f], ~relogged', auth'[fetch[f].home] # NoAuth
               PROVE  auth'[fetch[f].home] = auth[fetch[f].home]
    OBVIOUS
  <2> DEFINE h == fetch[f].home
  <2>6. ~relogged BY <1>2, StaysRelogged
  <2>0. /\ Reading(f) /\ ~Writing /\ auth \in [Place -> Auth] /\ h \in Place /\ h # Ambient
        /\ homes \in Int /\ h \in Int /\ h <= homes
        /\ auth[h] # NoAuth => auth[Ambient].account # auth[h].account
    BY <1>2, <2>6, HomePlaces DEF LaneInv, Outside, Routed, HomesOwned, HoldsLane, Reading,
                                  TypeInv, TypeOK
  <2>1. h # homes + 1 /\ auth[h] # NoAuth
    <3>1. h # homes + 1 BY <2>0
    <3> QED BY <1>2, <3>1, OwnerKept
  <2>2. ASSUME NEW g \in Fetch, FetchStep(g) PROVE auth'[h] = auth[h]
    <3>1. CASE SendRefresh(g) \/ LoseRefresh(g) \/ TimeOut(g)
      BY <3>1 DEF SendRefresh, LoseRefresh, TimeOut
    <3>2. CASE TakeLane(g) \/ FinishFetch(g)
      BY <1>2, <2>0, <2>1, <3>2, SyncedAccounts DEF TakeLane, FinishFetch
    <3>3. CASE ReceiveRefresh(g)
      <4>1. g # f
        BY <1>2, <3>3 DEF ReceiveRefresh, TypeInv, TypeOK
      <4>2. HoldsLane(g) BY <3>3 DEF ReceiveRefresh, HoldsLane
      <4>3. fetch[g].home # h BY <1>2, <4>1, <4>2 DEF HomesOwned, Apart
      <4> QED BY <2>0, <3>3, <4>3 DEF ReceiveRefresh
    <3> QED BY <2>2, <3>1, <3>2, <3>3 DEF FetchStep
  <2>3. CASE Command
    <3>1. CASE \/ \E p \in Place : BeginSwitch(p)
               \/ BeginReauthenticate \/ LockMutation \/ LeaveSwitch \/ FailLogin
      BY <3>1 DEF BeginSwitch, BeginReauthenticate, Begin, LockMutation, LeaveSwitch, FailLogin
    <3>2. ~Materialize /\ ~Replace /\ \A a \in Account : ~Reauthenticate(a)
      BY <2>0 DEF Materialize, Replace, Reauthenticate, Writing
    <3>3. CASE CodexRotates BY <2>0, <3>3 DEF CodexRotates
    <3>6. \A a \in Account, p \in Place : ~CodexLogIn(p, a) BY DEF CodexLogIn
    <3>4. CASE \E a \in Account : AddAccount(a)
      BY <2>0, <2>1, <3>4 DEF AddAccount, NewHome
    <3>5. CASE \E a \in Account : RemoveAccount(a)
      BY <2>0, <3>5 DEF RemoveAccount
    <3> QED BY <2>3, <3>1, <3>2, <3>3, <3>4, <3>5, <3>6 DEF Command, MutationStep
  <2>4. CASE \E g \in Fetch, p \in Place : EnterFetch(g, p) BY <2>4 DEF EnterFetch
  <2>5. CASE UNCHANGED vars BY <2>5 DEF vars
  <2> QED BY <1>2, <2>2, <2>3, <2>4, <2>5, NextCases
<1> QED BY <1>1, <1>2, TypeInit, TypeStep, OwnedStep, LaneStep, PTL DEF Spec, LaneProtectsFile

(***************************************************************************)
(* The last good token                                                     *)
(***************************************************************************)

Refreshing(f) == fetch[f].at = "refreshed"

\* The answer that is on its way to f.
Refreshed(f) == [account |-> fetch[f].cred.account, token |-> fetch[f].fresh]

\* The credentials there are: in files, in use by a fetch, on their way to one.
Logins ==
    {auth[p] : p \in Place} \cup {fetch[f].cred : f \in Fetch}
      \cup {Refreshed(f) : f \in {g \in Fetch : Refreshing(g)}}

\* A token was handed out, to one account.
TokensOwned ==
    \A x \in Logins :
        x.token <= issued /\ \A y \in Logins : x.token = y.token => x.account = y.account

\* A token that is on its way is good, and nobody has it yet.
Private ==
    \A f \in Fetch : Refreshing(f) =>
        /\ fetch[f].fresh \in valid
        /\ \A p \in Place : auth[p].token # fetch[f].fresh
        /\ \A g \in Fetch : fetch[g].cred.token # fetch[f].fresh
        /\ \A g \in Fetch \ {f} : fetch[g].fresh # fetch[f].fresh

\* When the file of a fetch has a good token, the fetch awaits no answer, and
\* either it loaded that token or what it loaded is of no more use.
LoadedBy(f) ==
    LET file == auth[fetch[f].home] IN
    /\ file.token \in valid =>
          fetch[f].at = "fetching" /\ (fetch[f].cred = file \/ fetch[f].cred.token \notin valid)
    /\ Refreshing(f) => file.token < fetch[f].fresh
Loaded == \A f \in Fetch : HoldsLane(f) => LoadedBy(f)

\* A switch overwrites the ambient file when another file has the same credentials.
Copied == mutation.at = "materialized" => \E h \in Home : auth[h] = auth[Ambient]

\* No file of the account a has a token later than n.
Latest(a, n) == \A p \in Place : auth[p].account = a => auth[p].token <= n

\* The latest token of a is good, and in a file or on its way to a fetch.
InFile(a) ==
    \E p \in Place : auth[p].account = a /\ auth[p].token \in valid /\ Latest(a, auth[p].token)
InFlight(a) ==
    \E f \in Fetch : Refreshing(f) /\ fetch[f].cred.account = a /\ Latest(a, fetch[f].fresh)
Good(a) == InFile(a) \/ InFlight(a)

\* CredentialKept is not inductive: that a good token of an account is somewhere does
\* not keep the next synchronization or the next answer from writing over it.
KeptParts == Private /\ Loaded /\ Copied /\ \A a \in Account \ gone : Good(a)
KeptInv == relogged \/ KeptParts

Copies == issued' = issued /\ Logins' \subseteq Logins \cup {NoAuth}
Brings(x) ==
    /\ x \in Auth /\ issued' = issued + 1 /\ x.token = issued + 1
    /\ Logins' \subseteq Logins \cup {NoAuth, x}

LEMMA NoAuthFields ==
    NoAuth.token = 0 /\ NoAuth.account = NoAccount /\ NoAccount \notin Account /\ NoAuth \in Auth
BY LanesAssumption DEF NoAuth, Auth

LEMMA FetchFields ==
    ASSUME TypeInv, NEW f \in Fetch
    PROVE  /\ fetch[f].cred \in Auth /\ fetch[f].fresh \in 0..MaxToken
           /\ fetch[f].fresh # 0 <=> Refreshing(f)
           /\ HoldsLane(f) => fetch[f].cred # NoAuth /\ fetch[f].home \in Place
BY FetchOf DEF FetchState, FetchOK, Refreshing, HoldsLane

LEMMA RefreshedTyped ==
    ASSUME TypeInv, NEW f \in Fetch, Refreshing(f)
    PROVE  Refreshed(f) \in Auth /\ fetch[f].cred.account \in Account
<1>1. fetch[f].fresh \in 1..MaxToken BY FetchFields, LanesAssumption
<1>2. fetch[f].cred.account \in Account BY FetchFields, AuthFields DEF HoldsLane, Refreshing
<1> QED BY <1>1, <1>2, TokenAuth DEF Refreshed

LEMMA LoginsTyped == ASSUME TypeInv PROVE Logins \subseteq Auth
BY AmbientTyped, FetchFields, RefreshedTyped DEF Logins

LEMMA InLogins ==
    /\ \A p \in Place : auth[p] \in Logins
    /\ \A f \in Fetch : fetch[f].cred \in Logins /\ (Refreshing(f) => Refreshed(f) \in Logins)
BY DEF Logins

\* A token is a number, and was handed out.
LEMMA TokenFacts ==
    ASSUME TypeInv, TokensOwned
    PROVE  /\ issued \in Nat /\ valid \subseteq 1..issued
           /\ \A x \in Logins : /\ x.token \in 0..issued
                                /\ x.account \in Account \cup {NoAccount}
                                /\ x # NoAuth <=> x.account \in Account
                                /\ x # NoAuth <=> x.token # 0
           /\ \A f \in Fetch : fetch[f].fresh \in 0..issued
<1>1. issued \in Nat /\ valid \subseteq 1..issued BY LanesAssumption DEF TypeInv, TypeOK
<1>2. ASSUME NEW x \in Logins
      PROVE  /\ x.token \in 0..issued /\ x.account \in Account \cup {NoAccount}
             /\ x # NoAuth <=> x.account \in Account
             /\ x # NoAuth <=> x.token # 0
  <2>1. x \in Auth BY LoginsTyped
  <2>2. x.token \in 0..MaxToken /\ x.account \in Account \cup {NoAccount}
        /\ (x # NoAuth => x \in [account : Account, token : 1..MaxToken])
    BY <2>1, AuthFields
  <2>3. x # NoAuth => x.account \in Account /\ x.token \in 1..MaxToken BY <2>2
  <2>4. x.token <= issued BY DEF TokensOwned
  <2>5. x.token \in Int /\ x.token >= 0 BY <2>2, LanesAssumption
  <2> QED BY <1>1, <2>2, <2>3, <2>4, <2>5, NoAuthFields
<1>3. ASSUME NEW f \in Fetch PROVE fetch[f].fresh \in 0..issued
  <2>1. CASE Refreshing(f)
    <3>1. Refreshed(f) \in Logins /\ Refreshed(f).token = fetch[f].fresh
      BY <2>1, InLogins DEF Refreshed
    <3> QED BY <1>2, <3>1
  <2>2. CASE ~Refreshing(f) BY <1>1, <2>2, FetchFields
  <2> QED BY <2>1, <2>2
<1> QED BY <1>1, <1>2, <1>3

LEMMA TokensWith ==
    ASSUME TypeInv, TokensOwned, Copies \/ \E x \in Auth : Brings(x)
    PROVE  TokensOwned'
<1>1. /\ issued \in Nat
      /\ \A x \in Logins : x.token \in 0..issued /\ (x.token = 0 => x.account = NoAccount)
  BY TokenFacts, NoAuthFields
<1>2. CASE Copies BY <1>1, <1>2, NoAuthFields DEF Copies, TokensOwned
<1>3. ASSUME NEW x \in Auth, Brings(x) PROVE TokensOwned'
  BY <1>1, <1>3, NoAuthFields DEF Brings, TokensOwned
<1> QED BY <1>2, <1>3

\* When the fetches are left alone, new credentials can only come into a file.
LEMMA FilesCopy ==
    ASSUME fetch' = fetch, issued' = issued,
           \A p \in Place : auth'[p] = NoAuth \/ \E q \in Place : auth'[p] = auth[q]
    PROVE  Copies
BY DEF Copies, Logins, Refreshing, Refreshed

LEMMA FilesBring ==
    ASSUME NEW x \in Auth, fetch' = fetch, issued' = issued + 1, x.token = issued + 1,
           \A p \in Place : auth'[p] \in {auth[p], x}
    PROVE  Brings(x)
BY DEF Brings, Logins, Refreshing, Refreshed

LEMMA SyncedCopies ==
    ASSUME TypeInv, NEW f \in Fetch, fetch[f].at # "idle", Synchronize(f)
    PROVE  \/ auth' = auth
           \/ \E src, dst \in Place :
                /\ auth' = [auth EXCEPT ![dst] = auth[src]]
                /\ auth[src] # NoAuth /\ auth[dst] # NoAuth
                /\ auth[src].account = auth[dst].account /\ auth[dst].token <= auth[src].token
                /\ fetch[f].home = Ambient
                /\ dst = Ambient \/ (dst \in Home /\ auth[dst].account = auth[Ambient].account)
<1>1. /\ fetch[f].home \in Place
      /\ fetch[f].copy \in Place \cup {NoHome}
      /\ fetch[f].copy # NoHome => fetch[f].home = Ambient
  BY FetchOf DEF FetchState, FetchOK
<1>2. \A p \in Place : auth[p].token \in Int
  BY AmbientTyped, AuthFields, LanesAssumption
<1>3. Place = Home \cup {Ambient} BY DEF Place
<1> QED BY <1>1, <1>2, <1>3 DEF Synchronize, Synced

LEMMA FetchTokens ==
    ASSUME TypeInv, NEW f \in Fetch, FetchStep(f)
    PROVE  Copies \/ \E x \in Auth : Brings(x)
<1> USE InLogins
<1>1. fetch[f] \in FetchState /\ fetch \in [Fetch -> FetchState] /\ auth \in [Place -> Auth]
  BY FetchOf DEF TypeInv, TypeOK, FetchState
<1>2. Idle.at = "idle" /\ Idle.cred = NoAuth BY DEF Idle
<1>3. ASSUME issued' = issued,
             \A p \in Place : auth'[p] \in Logins,
             \A g \in Fetch : \/ fetch'[g] = fetch[g]
                              \/ ~Refreshing(g)' /\ fetch'[g].cred \in Logins \cup {NoAuth}
      PROVE  Copies
  BY <1>3 DEF Copies, Logins, Refreshing, Refreshed
<1>4. CASE TakeLane(f) \/ FinishFetch(f)
  <2>1. \A p \in Place : auth'[p] \in Logins
    <3>1. auth' = auth \/ \E src, dst \in Place : auth' = [auth EXCEPT ![dst] = auth[src]]
      BY <1>4, SyncedCopies DEF TakeLane, FinishFetch
    <3> QED BY <1>1, <3>1
  <2>2. CASE FinishFetch(f)
    BY <1>1, <1>2, <1>3, <2>1, <2>2 DEF FinishFetch, Refreshing
  <2>3. CASE TakeLane(f)
    <3>1. fetch[f].at = "lane" /\ fetch[f].home \in Place
      BY <2>3, FetchOf DEF TakeLane, FetchOK
    <3>2. fetch' = [fetch EXCEPT ![f] = IF auth'[fetch[f].home] = NoAuth THEN Idle
                      ELSE [fetch[f] EXCEPT !.at = "fetching", !.cred = auth'[fetch[f].home]]]
      BY <2>3 DEF TakeLane
    <3>3. fetch'[f].at # "refreshed" /\ fetch'[f].cred \in {NoAuth, auth'[fetch[f].home]}
      BY <1>1, <1>2, <3>2 DEF FetchState
    <3>4. \A g \in Fetch \ {f} : fetch'[g] = fetch[g] BY <1>1, <3>2
    <3>5. issued' = issued BY <2>3 DEF TakeLane
    <3>6. fetch'[f].cred \in Logins \cup {NoAuth} BY <2>1, <3>1, <3>3
    <3> QED BY <1>3, <2>1, <3>3, <3>4, <3>5, <3>6 DEF Refreshing
  <2> QED BY <1>4, <2>2, <2>3
<1>5. CASE SendRefresh(f)
  <2> DEFINE x == [account |-> fetch[f].cred.account, token |-> issued + 1]
  <2>1. issued' = issued + 1 /\ issued' \in 1..MaxToken BY <1>5, Rotated DEF SendRefresh
  <2>2. fetch[f].cred # NoAuth /\ fetch[f].cred \in Auth
    BY <1>5, FetchFields DEF SendRefresh, HoldsLane
  <2>3. x \in Auth BY <2>1, <2>2, AuthFields, TokenAuth
  <2>4. /\ fetch'[f].cred = fetch[f].cred /\ Refreshed(f)' = x
        /\ \A g \in Fetch \ {f} : fetch'[g] = fetch[g]
        /\ auth' = auth
    BY <1>1, <1>5 DEF SendRefresh, FetchState, Refreshed
  <2> HIDE DEF x
  <2>5. x.token = issued + 1 BY DEF x
  <2>6. Brings(x) BY <2>1, <2>3, <2>4, <2>5 DEF Brings, Logins, Refreshing, Refreshed
  <2> QED BY <2>3, <2>6
<1>6. CASE ReceiveRefresh(f)
  <2>1. /\ Refreshed(f) \in Logins /\ issued' = issued
        /\ \A p \in Place : auth'[p] \in {auth[p], Refreshed(f)}
        /\ fetch'[f].cred = Refreshed(f) /\ fetch'[f].at = "fetching"
        /\ \A g \in Fetch \ {f} : fetch'[g] = fetch[g]
    BY <1>1, <1>6 DEF ReceiveRefresh, FetchState, Refreshed, Refreshing
  <2> QED BY <1>3, <2>1 DEF Refreshing
<1>7. CASE LoseRefresh(f) \/ TimeOut(f)
  <2>1. fetch'[f].cred \in {fetch[f].cred, NoAuth} /\ fetch'[f].at # "refreshed"
    BY <1>1, <1>2, <1>7 DEF LoseRefresh, TimeOut, FetchState
  <2>2. auth' = auth /\ issued' = issued /\ \A g \in Fetch \ {f} : fetch'[g] = fetch[g]
    BY <1>1, <1>7 DEF LoseRefresh, TimeOut
  <2> QED BY <1>3, <2>1, <2>2 DEF Refreshing
<1> QED BY <1>4, <1>5, <1>6, <1>7 DEF FetchStep

LEMMA CommandTokens == ASSUME TypeInv, Command PROVE Copies \/ \E x \in Auth : Brings(x)
<1> USE AmbientTyped, HomePlaces
<1>0. auth \in [Place -> Auth] BY DEF TypeInv, TypeOK
<1>1. CASE \/ \E p \in Place : BeginSwitch(p)
           \/ BeginReauthenticate \/ LockMutation \/ LeaveSwitch \/ FailLogin
  BY <1>1, FilesCopy DEF BeginSwitch, BeginReauthenticate, Begin, LockMutation, LeaveSwitch,
                         FailLogin
<1>2. CASE Materialize
  BY <1>0, <1>2, FilesCopy DEF Materialize, NewHome
<1>3. CASE Replace
  BY <1>0, <1>3, FilesCopy DEF Replace, TypeInv
<1>4. ASSUME NEW a \in Account, NEW p \in Place, LogInAt(p, a), fetch' = fetch
      PROVE  \E x \in Auth : Brings(x)
  <2>1. issued' = issued + 1 /\ issued' \in 1..MaxToken BY <1>4, LoggedIn DEF LogInAt
  <2>2. NewLogin(a) \in Auth /\ NewLogin(a).token = issued + 1
    BY <2>1, NewLoginTyped DEF NewLogin
  <2> QED BY <1>0, <1>4, <2>1, <2>2, FilesBring DEF LogInAt
<1>5. CASE \E a \in Account : Reauthenticate(a) \/ \E p \in Place : CodexLogIn(p, a)
  BY <1>4, <1>5 DEF Reauthenticate, CodexLogIn
<1>6. ASSUME NEW a \in Account, AddAccount(a) PROVE \E x \in Auth : Brings(x)
  <2>1. issued' = issued + 1 /\ issued' \in 1..MaxToken BY <1>6, LoggedIn DEF AddAccount
  <2>2. NewLogin(a) \in Auth /\ NewLogin(a).token = issued + 1
    BY <2>1, NewLoginTyped DEF NewLogin
  <2> QED BY <1>0, <1>6, <2>1, <2>2, FilesBring DEF AddAccount, NewHome
<1>7. CASE \E a \in Account : RemoveAccount(a)
  BY <1>0, <1>7, FilesCopy DEF RemoveAccount
<1>8. CASE CodexRotates
  <2> DEFINE x == [auth[Ambient] EXCEPT !.token = issued + 1]
  <2>1. issued' = issued + 1 /\ issued' \in 1..MaxToken BY <1>8, Rotated DEF CodexRotates
  <2>2. auth[Ambient] # NoAuth BY <1>8 DEF CodexRotates, TypeInv, TypeOK, NoAuth
  <2>3. x \in Auth /\ x.token = issued + 1 BY <2>1, <2>2, AuthFields DEF Auth
  <2>4. auth' = [auth EXCEPT ![Ambient] = x] BY <1>8 DEF CodexRotates
  <2> HIDE DEF x
  <2> QED BY <1>0, <1>8, <2>1, <2>3, <2>4, FilesBring DEF CodexRotates
<1> QED BY <1>1, <1>2, <1>3, <1>5, <1>6, <1>7, <1>8 DEF Command, MutationStep

LEMMA TokensStep == ASSUME TypeInv, TokensOwned, [Next]_vars PROVE TokensOwned'
<1>1. CASE UNCHANGED vars
  BY <1>1, TokensWith DEF vars, Copies, Logins, Refreshing, Refreshed
<1>2. CASE \E f \in Fetch, h \in Place : EnterFetch(f, h)
  <2>1. PICK f \in Fetch, h \in Place : EnterFetch(f, h) BY <1>2
  <2>2. /\ auth' = auth /\ issued' = issued
        /\ \A g \in Fetch : \/ fetch'[g] = fetch[g]
                            \/ fetch'[g].at = "lane" /\ fetch'[g].cred = NoAuth
    BY <2>1 DEF EnterFetch, Idle, TypeInv, TypeOK
  <2>3. Copies BY <2>2, InLogins DEF Copies, Logins, Refreshing, Refreshed
  <2> QED BY <2>3, TokensWith
<1> QED BY <1>1, <1>2, NextCases, FetchTokens, CommandTokens, TokensWith

LEMMA TokensInit == Init => TokensOwned
<1> SUFFICES ASSUME Init PROVE TokensOwned OBVIOUS
<1>1. PICK other \in Account \ {First} :
          auth = [p \in Place |-> CASE p = Ambient -> [account |-> First, token |-> 1]
                                    [] p = 1 -> [account |-> other, token |-> 2]
                                    [] OTHER -> NoAuth]
  BY DEF Init
<1>2. \A f \in Fetch : fetch[f].at = "idle" /\ fetch[f].cred = NoAuth BY DEF Init, Idle
<1>3. issued = 2 BY DEF Init
<1>4. \A p \in Place : auth[p] \in {[account |-> First, token |-> 1],
                                    [account |-> other, token |-> 2], NoAuth}
  BY <1>1
<1>5. \A x \in Logins : x \in {[account |-> First, token |-> 1],
                               [account |-> other, token |-> 2], NoAuth}
  BY <1>2, <1>4 DEF Logins, Refreshing
<1> QED BY <1>3, <1>5 DEF TokensOwned, NoAuth

\* A good token that is still in a file, or still on its way, is the latest still when
\* no later one came into a file.
LEMMA StaysInFile ==
    ASSUME NEW a, NEW p \in Place, auth[p].account = a, auth[p].token \in valid',
           Latest(a, auth[p].token),
           NEW to \in Place, auth'[to].account = a, auth'[to].token = auth[p].token,
           \A q \in Place : auth'[q].account = a =>
                \E r \in Place : auth[r].account = a /\ auth[r].token = auth'[q].token
    PROVE  InFile(a)'
BY DEF InFile, Latest

LEMMA StaysInFlight ==
    ASSUME NEW a, NEW f \in Fetch, Refreshing(f), fetch[f].cred.account = a,
           Latest(a, fetch[f].fresh), fetch'[f] = fetch[f],
           \A q \in Place : auth'[q].account = a =>
                \E r \in Place : auth[r].account = a /\ auth[r].token = auth'[q].token
    PROVE  InFlight(a)'
BY DEF InFlight, Latest, Refreshing

\* The files stay, and the fetches that await an answer either go on to or lose it, with
\* the account given up; then nobody loads other credentials.
Calm ==
    /\ auth' = auth /\ valid' = valid /\ gone \subseteq gone'
    /\ mutation'.at = "materialized" => mutation.at = "materialized"
    /\ \A g \in Fetch :
          \/ fetch'[g] = fetch[g]
          \/ /\ fetch'[g].fresh = 0 /\ ~Refreshing(g)'
             /\ \/ fetch'[g].cred \in {fetch[g].cred, NoAuth}
                \/ Refreshing(g) /\ fetch'[g].cred = Refreshed(g)
             /\ HoldsLane(g)' => Refreshing(g) /\ fetch'[g].home = fetch[g].home
             /\ Refreshing(g) => fetch[g].cred.account \in gone'

LEMMA CalmKept ==
    ASSUME TypeInv, TokensOwned, KeptParts, Calm
    PROVE  KeptParts'
<1>1. /\ auth' = auth /\ valid' = valid /\ gone \subseteq gone'
      /\ \A g \in Fetch : Refreshing(g)' => fetch'[g] = fetch[g] /\ Refreshing(g)
      /\ valid \subseteq 1..issued /\ issued \in Nat
  BY TokenFacts DEF Calm, Refreshing
<1>2. Private'
  <2> SUFFICES ASSUME NEW f \in Fetch, Refreshing(f)'
               PROVE  /\ fetch[f].fresh \in valid
                      /\ \A p \in Place : auth[p].token # fetch[f].fresh
                      /\ \A g \in Fetch : fetch'[g].cred.token # fetch[f].fresh
                      /\ \A g \in Fetch \ {f} : fetch'[g].fresh # fetch[f].fresh
    BY <1>1 DEF Private, Refreshing
  <2>1. fetch'[f] = fetch[f] /\ Refreshing(f) BY <1>1
  <2>2. /\ fetch[f].fresh \in valid /\ fetch[f].fresh # 0
        /\ \A p \in Place : auth[p].token # fetch[f].fresh
        /\ \A g \in Fetch : fetch[g].cred.token # fetch[f].fresh
        /\ \A g \in Fetch \ {f} : fetch[g].fresh # fetch[f].fresh
    BY <1>1, <2>1 DEF KeptParts, Private
  <2>3. ASSUME NEW g \in Fetch PROVE fetch'[g].cred.token # fetch[f].fresh
    <3>1. CASE g = f BY <2>1, <2>2, <3>1
    <3>2. CASE g # f
      <4>1. fetch'[g].cred \in {fetch[g].cred, NoAuth, Refreshed(g)} BY DEF Calm
      <4>2. Refreshed(g).token # fetch[f].fresh BY <2>2, <3>2 DEF Refreshed
      <4> QED BY <2>2, <4>1, <4>2, NoAuthFields
    <3> QED BY <3>1, <3>2
  <2>4. \A g \in Fetch \ {f} : fetch'[g].fresh # fetch[f].fresh BY <2>2 DEF Calm
  <2> QED BY <2>2, <2>3, <2>4
<1>3. Loaded'
  <2> SUFFICES ASSUME NEW f \in Fetch, HoldsLane(f)' PROVE LoadedBy(f)'
    BY DEF Loaded, HoldsLane
  <2>1. CASE fetch'[f] = fetch[f]
    BY <1>1, <2>1 DEF KeptParts, Loaded, HoldsLane, LoadedBy, Refreshing
  <2>2. CASE ~Refreshing(f)' /\ Refreshing(f) /\ fetch'[f].home = fetch[f].home
    <3>1. LoadedBy(f) BY <2>2 DEF KeptParts, Loaded, HoldsLane, Refreshing
    <3>2. auth[fetch[f].home].token \notin valid BY <2>2, <3>1 DEF LoadedBy, Refreshing
    <3> QED BY <1>1, <2>2, <3>2 DEF LoadedBy, Refreshing
  <2> QED BY <2>1, <2>2 DEF Calm
<1>4. Copied' BY DEF Copied, Calm, KeptParts
<1>5. ASSUME NEW a \in Account, a \notin gone' PROVE Good(a)'
  <2>1. Good(a) BY <1>1, <1>5 DEF KeptParts
  <2>2. CASE InFile(a) BY <1>1, <2>2 DEF InFile, Latest, Good
  <2>3. CASE InFlight(a)
    <3>1. PICK f \in Fetch : Refreshing(f) /\ fetch[f].cred.account = a /\ Latest(a, fetch[f].fresh)
      BY <2>3 DEF InFlight
    <3>2. fetch'[f] = fetch[f] BY <1>5, <3>1 DEF Calm
    <3>3. InFlight(a)' BY <1>1, <3>1, <3>2, StaysInFlight
    <3> QED BY <3>3 DEF Good
  <2> QED BY <2>1, <2>2, <2>3 DEF Good
<1> QED BY <1>2, <1>3, <1>4, <1>5 DEF KeptParts

\* A fetch that enters, loses its answer, cannot save it, or times out.
LEMMA CalmFetches ==
    ASSUME TypeInv, NEW f \in Fetch,
           \/ \E h \in Place : EnterFetch(f, h)
           \/ LoseRefresh(f) \/ TimeOut(f)
           \/ ReceiveRefresh(f) /\ auth' = auth /\ gone' = gone \cup {fetch[f].cred.account}
    PROVE  Calm
<1>1. fetch[f] \in FetchState /\ fetch \in [Fetch -> FetchState]
  BY FetchOf DEF TypeInv, TypeOK, FetchState
<1>2. Idle.at = "idle" /\ Idle.cred = NoAuth /\ Idle.fresh = 0 BY DEF Idle
<1> USE DEF Calm, HoldsLane, Refreshing, Refreshed
<1>3. ASSUME NEW h \in Place, EnterFetch(f, h) PROVE Calm
  <2>1. fetch'[f].at = "lane" /\ fetch'[f].cred = NoAuth /\ fetch'[f].fresh = 0
        /\ \A g \in Fetch \ {f} : fetch'[g] = fetch[g]
    BY <1>1, <1>3 DEF EnterFetch, Idle
  <2>2. fetch[f].at = "idle" /\ UNCHANGED <<auth, valid, gone, mutation>> BY <1>3 DEF EnterFetch
  <2> QED BY <2>1, <2>2
<1>4. CASE LoseRefresh(f)
  <2>1. fetch'[f].at = "fetching" /\ fetch'[f].cred = fetch[f].cred /\ fetch'[f].fresh = 0
        /\ fetch'[f].home = fetch[f].home
        /\ \A g \in Fetch \ {f} : fetch'[g] = fetch[g]
    BY <1>1, <1>4 DEF LoseRefresh, FetchState
  <2>2. /\ fetch[f].at = "refreshed" /\ gone' = gone \cup {fetch[f].cred.account}
        /\ UNCHANGED <<auth, valid, mutation>>
    BY <1>4 DEF LoseRefresh
  <2> QED BY <2>1, <2>2
<1>5. CASE TimeOut(f)
  <2>1. fetch'[f] = Idle /\ \A g \in Fetch \ {f} : fetch'[g] = fetch[g]
    BY <1>1, <1>5 DEF TimeOut
  <2>2. /\ gone \subseteq gone' /\ (fetch[f].at = "refreshed" => fetch[f].cred.account \in gone')
        /\ UNCHANGED <<auth, valid, mutation>>
    BY <1>5 DEF TimeOut
  <2> QED BY <1>2, <2>1, <2>2
<1>6. CASE ReceiveRefresh(f) /\ auth' = auth /\ gone' = gone \cup {fetch[f].cred.account}
  <2>1. fetch'[f].at = "fetching" /\ fetch'[f].cred = Refreshed(f) /\ fetch'[f].fresh = 0
        /\ fetch'[f].home = fetch[f].home
        /\ \A g \in Fetch \ {f} : fetch'[g] = fetch[g]
    BY <1>1, <1>6 DEF ReceiveRefresh, FetchState
  <2>2. /\ fetch[f].at = "refreshed" /\ gone' = gone \cup {fetch[f].cred.account}
        /\ UNCHANGED <<auth, valid, mutation>>
    BY <1>6 DEF ReceiveRefresh
  <2> QED BY <2>1, <2>2
<1> QED BY <1>3, <1>4, <1>5, <1>6

\* Two files of one account become the later of the two.
LEMMA SyncKept ==
    ASSUME TypeInv, TokensOwned, HomesOwned, LaneInv, ~relogged, KeptParts,
           NEW f \in Fetch, TakeLane(f) \/ FinishFetch(f)
    PROVE  KeptParts'
<1>0. /\ auth \in [Place -> Auth] /\ fetch \in [Fetch -> FetchState] /\ fetch[f] \in FetchState
      /\ Routed /\ Apart /\ ~Writing /\ fetch[f].home \in Place
      /\ Idle.at = "idle" /\ Idle.cred = NoAuth /\ Idle.fresh = 0
  <2>1. Reading(f) BY DEF TakeLane, FinishFetch, Reading
  <2> QED BY <2>1, FetchOf DEF LaneInv, Outside, HomesOwned, TypeInv, TypeOK, FetchState, FetchOK, Reading,
                        Idle
<1>1. /\ issued' = issued /\ valid' = valid /\ mutation' = mutation /\ gone' = gone
      /\ valid \subseteq 1..issued
      /\ \A p \in Place : auth[p].token \in Int
  BY TokenFacts, InLogins DEF TakeLane, FinishFetch
<1>2. /\ \A g \in Fetch \ {f} : fetch'[g] = fetch[g]
      /\ \/ fetch'[f] = Idle
         \/ /\ TakeLane(f) /\ fetch'[f].at = "fetching"
            /\ fetch'[f].home = fetch[f].home /\ fetch'[f].fresh = fetch[f].fresh
            /\ fetch'[f].cred = auth'[fetch[f].home]
  <2>1. CASE FinishFetch(f) BY <1>0, <2>1 DEF FinishFetch
  <2>2. CASE TakeLane(f)
    <3>1. fetch' = [fetch EXCEPT ![f] = IF auth'[fetch[f].home] = NoAuth THEN Idle
                      ELSE [fetch[f] EXCEPT !.at = "fetching", !.cred = auth'[fetch[f].home]]]
      BY <2>2 DEF TakeLane
    <3> QED BY <1>0, <2>2, <3>1 DEF FetchState
  <2> QED BY <2>1, <2>2
<1>3. fetch[f].fresh = 0 /\ ~Refreshing(f) /\ ~Refreshing(f)'
  <2>1. fetch[f].at # "refreshed" BY DEF TakeLane, FinishFetch
  <2> QED BY <1>0, <1>2, <2>1, FetchFields DEF Refreshing
<1>4. \/ auth' = auth
      \/ \E src, dst \in Place :
           /\ auth' = [auth EXCEPT ![dst] = auth[src]]
           /\ auth[src].account = auth[dst].account /\ auth[dst].token <= auth[src].token
           /\ auth[dst] # NoAuth /\ fetch[f].home = Ambient
           /\ dst = Ambient \/ (dst \in Home /\ auth[dst].account = auth[Ambient].account)
  BY SyncedCopies DEF TakeLane, FinishFetch
<1>5. \A p \in Place : \E q \in Place : auth'[p] = auth[q]
  BY <1>0, <1>4
<1>6. ASSUME NEW g \in Fetch, g # f, HoldsLane(g)
      PROVE  auth'[fetch[g].home] = auth[fetch[g].home]
  <2>1. fetch[g].home \in Place /\ Reading(g) BY <1>6, FetchFields DEF HoldsLane, Reading
  <2>2. fetch[g].home # fetch[f].home
    BY <1>0, <1>6 DEF TakeLane, FinishFetch, LaneFree, Apart, HoldsLane
  <2>3. fetch[g].home \in Home /\ auth[fetch[g].home] # NoAuth
            => auth[Ambient].account # auth[fetch[g].home].account
    BY <1>0, <2>1 DEF Routed
  <2> QED BY <1>0, <1>4, <2>1, <2>2, <2>3
<1>7. Private'
  <2> SUFFICES ASSUME NEW g \in Fetch, Refreshing(g)'
               PROVE  /\ fetch[g].fresh \in valid
                      /\ \A p \in Place : auth'[p].token # fetch[g].fresh
                      /\ \A h \in Fetch : fetch'[h].cred.token # fetch[g].fresh
                      /\ \A h \in Fetch \ {g} : fetch'[h].fresh # fetch[g].fresh
    BY <1>1, <1>2, <1>3 DEF Private, Refreshing
  <2>1. g # f /\ Refreshing(g) BY <1>2, <1>3 DEF Refreshing
  <2>2. /\ fetch[g].fresh \in valid /\ fetch[g].fresh # 0
        /\ \A p \in Place : auth[p].token # fetch[g].fresh
        /\ \A h \in Fetch : fetch[h].cred.token # fetch[g].fresh
        /\ \A h \in Fetch \ {g} : fetch[h].fresh # fetch[g].fresh
    BY <1>1, <2>1, FetchFields DEF KeptParts, Private
  <2>3. \A p \in Place : auth'[p].token # fetch[g].fresh BY <1>5, <2>2
  <2>4. fetch'[f].cred.token # fetch[g].fresh /\ fetch'[f].fresh # fetch[g].fresh
    BY <1>0, <1>2, <1>3, <2>2, <2>3, NoAuthFields
  <2> QED BY <1>2, <2>2, <2>3, <2>4
<1>8. Loaded'
  <2> SUFFICES ASSUME NEW g \in Fetch, HoldsLane(g)' PROVE LoadedBy(g)'
    BY DEF Loaded, HoldsLane
  <2>1. CASE g = f
    BY <1>0, <1>2, <1>3, <2>1 DEF LoadedBy, HoldsLane
  <2>2. CASE g # f
    <3>1. fetch'[g] = fetch[g] /\ HoldsLane(g) BY <1>2, <2>2 DEF HoldsLane
    <3>2. LoadedBy(g) /\ auth'[fetch[g].home] = auth[fetch[g].home]
      BY <1>6, <2>2, <3>1 DEF KeptParts, Loaded
    <3> QED BY <1>1, <3>1, <3>2 DEF LoadedBy, Refreshing
  <2> QED BY <2>1, <2>2
<1>9. Copied' BY <1>0, <1>1 DEF Copied, Writing
<1>10. ASSUME NEW a \in Account, a \notin gone' PROVE Good(a)'
  <2>1. Good(a) BY <1>1, <1>10 DEF KeptParts
  <2>2. \A q \in Place : auth'[q].account = a =>
            \E r \in Place : auth[r].account = a /\ auth[r].token = auth'[q].token
    BY <1>5
  <2>3. CASE InFile(a)
    <3>1. PICK p \in Place : /\ auth[p].account = a /\ auth[p].token \in valid
                             /\ Latest(a, auth[p].token)
      BY <2>3 DEF InFile
    <3>2. \E to \in Place : auth'[to].account = a /\ auth'[to].token = auth[p].token
      <4>1. CASE auth' = auth BY <3>1, <4>1
      <4>2. ASSUME NEW src \in Place, NEW dst \in Place,
                   auth' = [auth EXCEPT ![dst] = auth[src]],
                   auth[src].account = auth[dst].account, auth[dst].token <= auth[src].token
            PROVE  \E to \in Place : auth'[to].account = a /\ auth'[to].token = auth[p].token
        <5>1. CASE p # dst BY <1>0, <3>1, <4>2, <5>1
        <5>2. CASE p = dst
          <6>1. auth[src].token <= auth[p].token BY <3>1, <4>2, <5>2 DEF Latest
          <6>2. auth[src].token = auth[p].token BY <1>1, <4>2, <5>2, <6>1
          <6>3. auth'[dst] = auth[src] BY <1>0, <4>2
          <6> QED BY <3>1, <4>2, <5>2, <6>2, <6>3
        <5> QED BY <5>1, <5>2
      <4> QED BY <1>4, <4>1, <4>2
    <3>3. InFile(a)' BY <1>1, <2>2, <3>1, <3>2, StaysInFile
    <3> QED BY <3>3 DEF Good
  <2>4. CASE InFlight(a)
    <3>1. PICK g \in Fetch : Refreshing(g) /\ fetch[g].cred.account = a /\ Latest(a, fetch[g].fresh)
      BY <2>4 DEF InFlight
    <3>2. fetch'[g] = fetch[g] BY <1>2, <1>3, <3>1
    <3>3. InFlight(a)' BY <2>2, <3>1, <3>2, StaysInFlight
    <3> QED BY <3>3 DEF Good
  <2> QED BY <2>1, <2>3, <2>4 DEF Good
<1> QED BY <1>7, <1>8, <1>9, <1>10 DEF KeptParts

\* The server takes the token of the fetch for a new one.
LEMMA SendKept ==
    ASSUME TypeInv, TokensOwned, LaneInv, ~relogged, KeptParts, NEW f \in Fetch, SendRefresh(f)
    PROVE  KeptParts'
<1> DEFINE t == fetch[f].cred.token
           a == fetch[f].cred.account
           n == issued + 1
<1>0. fetch \in [Fetch -> FetchState] /\ fetch[f] \in FetchState
  BY FetchOf DEF TypeInv, TypeOK, FetchState
<1>1. /\ fetch'[f].at = "refreshed" /\ fetch'[f].fresh = n /\ fetch'[f].cred = fetch[f].cred
      /\ fetch'[f].home = fetch[f].home
      /\ \A g \in Fetch \ {f} : fetch'[g] = fetch[g]
      /\ fetch[f].at = "fetching" /\ t \in valid
      /\ auth' = auth /\ mutation' = mutation /\ gone' = gone
      /\ valid' = (valid \ {t}) \cup {n}
  BY <1>0 DEF SendRefresh, FetchState, Rotate
<1>2. /\ issued \in Nat /\ valid \subseteq 1..issued
      /\ \A p \in Place : auth[p].token \in 0..issued
      /\ \A g \in Fetch : fetch[g].cred.token \in 0..issued /\ fetch[g].fresh \in 0..issued
  BY TokenFacts, InLogins
<1>3. /\ n \notin valid /\ \A p \in Place : auth[p].token # n /\ auth[p].token <= n
      /\ \A g \in Fetch : fetch[g].cred.token # n /\ fetch[g].fresh # n
  BY <1>2
<1>4. \A g \in Fetch : Refreshing(g)' => g = f \/ (Refreshing(g) /\ g # f /\ fetch'[g] = fetch[g])
  BY <1>1 DEF Refreshing
<1> HIDE DEF n
<1>5. Private'
  <2> SUFFICES ASSUME NEW g \in Fetch, Refreshing(g)'
               PROVE  /\ fetch'[g].fresh \in valid'
                      /\ \A p \in Place : auth[p].token # fetch'[g].fresh
                      /\ \A h \in Fetch : fetch'[h].cred.token # fetch'[g].fresh
                      /\ \A h \in Fetch \ {g} : fetch'[h].fresh # fetch'[g].fresh
    BY <1>1 DEF Private, Refreshing
  <2>1. \A h \in Fetch : fetch'[h].cred = fetch[h].cred BY <1>1
  <2>2. CASE g = f BY <1>1, <1>3, <2>1, <2>2
  <2>3. CASE g # f
    <3>1. Refreshing(g) /\ fetch'[g] = fetch[g] BY <1>4, <2>3
    <3>2. /\ fetch[g].fresh \in valid
          /\ \A p \in Place : auth[p].token # fetch[g].fresh
          /\ \A h \in Fetch : fetch[h].cred.token # fetch[g].fresh
          /\ \A h \in Fetch \ {g} : fetch[h].fresh # fetch[g].fresh
      BY <3>1 DEF KeptParts, Private
    <3>3. fetch[g].fresh \in valid' BY <1>1, <3>2
    <3>4. \A h \in Fetch \ {g} : fetch'[h].fresh # fetch[g].fresh BY <1>1, <1>3, <3>2
    <3> QED BY <2>1, <3>1, <3>2, <3>3, <3>4
  <2> QED BY <2>2, <2>3
<1>6. Loaded'
  <2> SUFFICES ASSUME NEW g \in Fetch, HoldsLane(g)' PROVE LoadedBy(g)'
    BY DEF Loaded, HoldsLane
  <2>1. HoldsLane(g) /\ fetch'[g].home = fetch[g].home BY <1>1 DEF HoldsLane
  <2>2. LoadedBy(g) /\ fetch[g].home \in Place BY <2>1, FetchFields DEF KeptParts, Loaded
  <2> DEFINE file == auth[fetch[g].home]
  <2>3. file.token # n /\ file.token \in 0..issued BY <1>2, <1>3, <2>2
  <2>4. CASE g = f
    <3>1. file.token \in valid => fetch[f].cred = file BY <1>1, <2>2, <2>4 DEF LoadedBy
    <3>2. file.token \notin valid' BY <1>1, <2>3, <3>1
    <3>3. file.token < n BY <1>2, <2>3 DEF n
    <3> QED BY <1>1, <2>1, <2>4, <3>2, <3>3 DEF LoadedBy, Refreshing
  <2>5. CASE g # f
    <3>1. fetch'[g] = fetch[g] BY <1>1, <2>5
    <3>2. file.token \in valid' => file.token \in valid BY <1>1, <2>3
    <3>3. fetch[g].cred.token \notin valid => fetch[g].cred.token \notin valid' BY <1>1, <1>3
    <3> QED BY <1>1, <2>2, <3>1, <3>2, <3>3 DEF LoadedBy, Refreshing
  <2> QED BY <2>4, <2>5
<1>7. Copied' BY <1>1 DEF Copied, KeptParts
<1>8. ASSUME NEW b \in Account, b \notin gone' PROVE Good(b)'
  <2>1. Good(b) BY <1>1, <1>8 DEF KeptParts
  <2>2. CASE b = a
    <3>1. Refreshing(f)' /\ fetch'[f].cred.account = a BY <1>1 DEF Refreshing
    <3>2. Latest(a, fetch[f].fresh)' BY <1>1, <1>3 DEF Latest
    <3>3. InFlight(b)' BY <2>2, <3>1, <3>2 DEF InFlight, Latest, Refreshing
    <3> QED BY <3>3 DEF Good
  <2>3. CASE b # a
    <3>1. \A q \in Place : auth'[q].account = b =>
              \E r \in Place : auth[r].account = b /\ auth[r].token = auth'[q].token
      BY <1>1
    <3>2. CASE InFile(b)
      <4>1. PICK p \in Place : /\ auth[p].account = b /\ auth[p].token \in valid
                               /\ Latest(b, auth[p].token)
        BY <3>2 DEF InFile
      <4>2. auth[p].token # t BY <2>3, <4>1, InLogins DEF TokensOwned
      <4>3. auth[p].token \in valid' BY <1>1, <4>1, <4>2
      <4>4. InFile(b)' BY <1>1, <3>1, <4>1, <4>3, StaysInFile
      <4> QED BY <4>4 DEF Good
    <3>3. CASE InFlight(b)
      <4>1. PICK g \in Fetch : Refreshing(g) /\ fetch[g].cred.account = b /\ Latest(b, fetch[g].fresh)
        BY <3>3 DEF InFlight
      <4>2. fetch'[g] = fetch[g] BY <1>1, <2>3, <4>1
      <4>3. InFlight(b)' BY <3>1, <4>1, <4>2, StaysInFlight
      <4> QED BY <4>3 DEF Good
    <3> QED BY <2>1, <3>2, <3>3 DEF Good
  <2> QED BY <2>2, <2>3
<1> QED BY <1>5, <1>6, <1>7, <1>8 DEF KeptParts

\* The answer is written over the file the fetch has the lane of.
LEMMA ReceiveKept ==
    ASSUME TypeInv, TokensOwned, HomesOwned, LaneInv, ~relogged, KeptParts,
           NEW f \in Fetch, ReceiveRefresh(f), auth[fetch[f].home] # NoAuth,
           auth' = [auth EXCEPT ![fetch[f].home] = Refreshed(f)], gone' = gone
    PROVE  KeptParts'
<1>a. PICK h, c, n : h = fetch[f].home /\ c = fetch[f].cred.account /\ n = fetch[f].fresh
  OBVIOUS
<1> USE <1>a
<1>0. /\ auth \in [Place -> Auth] /\ fetch \in [Fetch -> FetchState] /\ fetch[f] \in FetchState
      /\ Refreshing(f) /\ HoldsLane(f) /\ h \in Place /\ Place = Home \cup {Ambient}
  <2>1. Refreshing(f) /\ HoldsLane(f) BY DEF ReceiveRefresh, Refreshing, HoldsLane
  <2> QED BY <2>1, FetchOf, FetchFields DEF TypeInv, TypeOK, FetchState, Place
<1>1. /\ fetch'[f].at = "fetching" /\ fetch'[f].fresh = 0 /\ fetch'[f].cred = Refreshed(f)
      /\ fetch'[f].home = h
      /\ \A g \in Fetch \ {f} : fetch'[g] = fetch[g]
      /\ valid' = valid /\ mutation' = mutation
  BY <1>0 DEF ReceiveRefresh, FetchState, Refreshed
<1>2. Refreshed(f).account = c /\ Refreshed(f).token = n BY DEF Refreshed
<1>3. auth'[h] = Refreshed(f) /\ \A p \in Place \ {h} : auth'[p] = auth[p] BY <1>0
<1>4. /\ n \in valid /\ n # 0
      /\ \A p \in Place : auth[p].token # n
      /\ \A g \in Fetch : fetch[g].cred.token # n
      /\ \A g \in Fetch \ {f} : fetch[g].fresh # n
  BY <1>0, FetchFields DEF KeptParts, Private
<1>5. auth[h].account = c
  <2>1. h \in Home => auth[h].account = c BY <1>0 DEF HomesOwned
  <2>2. h = Ambient => auth[h].account = c BY <1>0 DEF LaneInv, Routed
  <2> QED BY <1>0, <2>1, <2>2
<1>6. auth[h].token < n BY <1>0 DEF KeptParts, Loaded, LoadedBy
<1>7. /\ \A p \in Place : auth[p].token \in Int
      /\ \A g \in Fetch : fetch[g].fresh \in Int
      /\ n \in Int
  BY TokenFacts, InLogins
<1>8. \A g \in Fetch : Refreshing(g)' => g # f /\ Refreshing(g) /\ fetch'[g] = fetch[g]
  BY <1>1 DEF Refreshing
<1>9. Private'
  <2> SUFFICES ASSUME NEW g \in Fetch, Refreshing(g)'
               PROVE  /\ fetch[g].fresh \in valid
                      /\ \A p \in Place : auth'[p].token # fetch[g].fresh
                      /\ \A k \in Fetch : fetch'[k].cred.token # fetch[g].fresh
                      /\ \A k \in Fetch \ {g} : fetch'[k].fresh # fetch[g].fresh
    BY <1>1, <1>8 DEF Private
  <2>1. g # f /\ Refreshing(g) BY <1>8
  <2>2. /\ fetch[g].fresh \in valid /\ fetch[g].fresh # 0 /\ fetch[g].fresh # n
        /\ \A p \in Place : auth[p].token # fetch[g].fresh
        /\ \A k \in Fetch : fetch[k].cred.token # fetch[g].fresh
        /\ \A k \in Fetch \ {g} : fetch[k].fresh # fetch[g].fresh
    BY <1>4, <2>1, FetchFields DEF KeptParts, Private
  <2>3. \A p \in Place : auth'[p].token # fetch[g].fresh BY <1>2, <1>3, <2>2
  <2>4. \A k \in Fetch : fetch'[k].cred.token # fetch[g].fresh BY <1>1, <1>2, <2>2
  <2>5. \A k \in Fetch \ {g} : fetch'[k].fresh # fetch[g].fresh BY <1>1, <2>2
  <2> QED BY <2>2, <2>3, <2>4, <2>5
<1>10. Loaded'
  <2> SUFFICES ASSUME NEW g \in Fetch, HoldsLane(g)' PROVE LoadedBy(g)'
    BY DEF Loaded, HoldsLane
  <2>1. CASE g = f BY <1>1, <1>3, <2>1 DEF LoadedBy, Refreshing
  <2>2. CASE g # f
    <3>1. fetch'[g] = fetch[g] /\ HoldsLane(g) BY <1>1, <2>2 DEF HoldsLane
    <3>2. fetch[g].home # h /\ fetch[g].home \in Place
      BY <1>0, <2>2, <3>1, FetchFields DEF HomesOwned, Apart
    <3>3. LoadedBy(g) /\ auth'[fetch[g].home] = auth[fetch[g].home]
      BY <1>3, <3>1, <3>2 DEF KeptParts, Loaded
    <3> QED BY <1>1, <3>1, <3>3 DEF LoadedBy, Refreshing
  <2> QED BY <2>1, <2>2
<1>11. Copied'
  <2>1. Reading(f) BY <1>0 DEF Reading, HoldsLane
  <2> QED BY <1>1, <2>1 DEF Copied, LaneInv, Outside, Writing
\* The file is now the latest of the account, unless another has a later token.
<1>12. ASSUME Latest(c, n) PROVE InFile(c)'
  <2>1. Latest(c, auth[h].token)' BY <1>2, <1>3, <1>7, <1>12 DEF Latest
  <2> QED BY <1>0, <1>1, <1>2, <1>3, <1>4, <2>1 DEF InFile
<1>13. ASSUME NEW p \in Place, auth[p].account = c, auth[p].token \in valid,
              Latest(c, auth[p].token)
       PROVE  InFile(c)'
  <2>1. CASE auth[p].token < n
    <3>1. Latest(c, n) BY <1>7, <1>13, <2>1 DEF Latest
    <3> QED BY <1>12, <3>1
  <2>2. CASE n < auth[p].token
    <3>1. p # h BY <1>6, <1>7, <2>2
    <3>2. auth'[p] = auth[p] BY <1>3, <3>1
    <3>3. Latest(c, auth[p].token)' BY <1>2, <1>3, <1>7, <1>13, <2>2, <3>2 DEF Latest
    <3> QED BY <1>1, <1>13, <3>2, <3>3 DEF InFile
  <2>3. auth[p].token # n BY <1>4
  <2> QED BY <1>7, <2>1, <2>2, <2>3
<1>14. ASSUME NEW g \in Fetch, Refreshing(g), fetch[g].cred.account = c, Latest(c, fetch[g].fresh)
       PROVE  Good(c)'
  <2>1. CASE g = f BY <1>12, <1>14, <2>1 DEF Good
  <2>2. CASE g # f /\ fetch[g].fresh < n
    <3>1. Latest(c, n) BY <1>7, <1>14, <2>2 DEF Latest
    <3> QED BY <1>12, <3>1 DEF Good
  <2>3. CASE g # f /\ n <= fetch[g].fresh
    <3>1. fetch'[g] = fetch[g] BY <1>1, <2>3
    <3>2. Latest(c, fetch[g].fresh)' BY <1>2, <1>3, <1>14, <2>3, <3>1 DEF Latest
    <3>3. InFlight(c)' BY <1>14, <3>1, <3>2 DEF InFlight, Refreshing
    <3> QED BY <3>3 DEF Good
  <2> QED BY <1>7, <2>1, <2>2, <2>3
<1>15. ASSUME NEW b \in Account, b \notin gone' PROVE Good(b)'
  <2>1. Good(b) BY <1>15 DEF KeptParts
  <2>2. CASE b = c BY <1>13, <1>14, <2>1, <2>2 DEF Good, InFile, InFlight
  <2>3. CASE b # c
    <3>1. \A q \in Place : auth'[q].account = b =>
              \E r \in Place : auth[r].account = b /\ auth[r].token = auth'[q].token
      BY <1>2, <1>3, <2>3
    <3>2. CASE InFile(b)
      <4>1. PICK p \in Place : /\ auth[p].account = b /\ auth[p].token \in valid
                               /\ Latest(b, auth[p].token)
        BY <3>2 DEF InFile
      <4>2. auth'[p] = auth[p] BY <1>3, <1>5, <2>3, <4>1
      <4>3. InFile(b)' BY <1>1, <3>1, <4>1, <4>2, StaysInFile
      <4> QED BY <4>3 DEF Good
    <3>3. CASE InFlight(b)
      <4>1. PICK g \in Fetch : Refreshing(g) /\ fetch[g].cred.account = b /\ Latest(b, fetch[g].fresh)
        BY <3>3 DEF InFlight
      <4>2. fetch'[g] = fetch[g] BY <1>1, <2>3, <4>1
      <4>3. InFlight(b)' BY <3>1, <4>1, <4>2, StaysInFlight
      <4> QED BY <4>3 DEF Good
    <3> QED BY <2>1, <3>2, <3>3 DEF Good
  <2> QED BY <2>2, <2>3
<1> QED BY <1>9, <1>10, <1>11, <1>15 DEF KeptParts

\* New credentials come into one file, which no fetch that awaits an answer or has
\* loaded good ones has the lane of.
LEMMA NewTokenKept ==
    ASSUME TypeInv, TokensOwned, KeptParts,
           NEW d \in Place, NEW a \in Account, NEW t,
           auth' = [auth EXCEPT ![d] = [account |-> a, token |-> issued + 1]],
           valid' = (valid \ {t}) \cup {issued + 1},
           \* the token that was taken back is that of the file, of the account a
           t \in valid => auth[d].token = t /\ auth[d].account = a,
           fetch' = fetch,
           mutation'.at # "materialized",
           gone \subseteq gone' \cup {a}, auth[d].account \in gone' \cup {a, NoAccount},
           \A f \in Fetch : HoldsLane(f) /\ fetch[f].home = d => auth[d].token = t /\ t \in valid
    PROVE  KeptParts'
<1>a. PICK n : n = issued + 1 OBVIOUS
<1>0. /\ auth \in [Place -> Auth] /\ auth'[d].account = a /\ auth'[d].token = n
      /\ \A p \in Place \ {d} : auth'[p] = auth[p]
      /\ valid' = (valid \ {t}) \cup {n}
  BY <1>a DEF TypeInv, TypeOK
<1>1. /\ issued \in Nat /\ valid \subseteq 1..issued
      /\ \A p \in Place : auth[p].token \in 0..issued
      /\ \A g \in Fetch : fetch[g].cred.token \in 0..issued /\ fetch[g].fresh \in 0..issued
  BY TokenFacts, InLogins
<1>2. /\ n \notin valid /\ \A p \in Place : auth[p].token # n /\ auth[p].token <= n
      /\ \A g \in Fetch : fetch[g].cred.token # n /\ fetch[g].fresh # n
  BY <1>1, <1>a
<1>3. Private'
  <2> SUFFICES ASSUME NEW g \in Fetch, Refreshing(g)
               PROVE  /\ fetch[g].fresh \in valid'
                      /\ \A p \in Place : auth'[p].token # fetch[g].fresh
                      /\ \A k \in Fetch : fetch[k].cred.token # fetch[g].fresh
                      /\ \A k \in Fetch \ {g} : fetch[k].fresh # fetch[g].fresh
    BY DEF Private, Refreshing
  <2>1. /\ fetch[g].fresh \in valid
        /\ \A p \in Place : auth[p].token # fetch[g].fresh
        /\ \A k \in Fetch : fetch[k].cred.token # fetch[g].fresh
        /\ \A k \in Fetch \ {g} : fetch[k].fresh # fetch[g].fresh
    BY DEF KeptParts, Private
  <2>2. fetch[g].fresh \in valid' BY <1>0, <2>1
  <2>3. \A p \in Place : auth'[p].token # fetch[g].fresh BY <1>0, <1>2, <2>1
  <2> QED BY <2>1, <2>2, <2>3
<1>4. Loaded'
  <2> SUFFICES ASSUME NEW g \in Fetch, HoldsLane(g) PROVE LoadedBy(g)'
    BY DEF Loaded, HoldsLane
  <2>1. LoadedBy(g) /\ fetch[g].home \in Place BY FetchFields DEF KeptParts, Loaded
  <2>2. fetch[g].cred.token \notin valid \/ fetch[g].cred.token = t => fetch[g].cred.token \notin valid'
    BY <1>0, <1>2
  <2>3. CASE fetch[g].home = d
    <3>1. auth[d].token = t /\ t \in valid BY <2>3
    <3>2. fetch[g].at = "fetching" /\ fetch[g].cred.token \notin valid'
      BY <2>1, <2>2, <2>3, <3>1 DEF LoadedBy
    <3> QED BY <3>2 DEF LoadedBy, Refreshing
  <2>4. CASE fetch[g].home # d
    <3>1. auth'[fetch[g].home] = auth[fetch[g].home] BY <1>0, <2>1, <2>4
    <3>2. auth[fetch[g].home].token \in valid' => auth[fetch[g].home].token \in valid
      BY <1>0, <1>2, <2>1
    <3> QED BY <2>1, <2>2, <3>1, <3>2 DEF LoadedBy, Refreshing
  <2> QED BY <2>3, <2>4
<1>5. Copied' BY DEF Copied
<1>6. ASSUME NEW b \in Account, b \notin gone' PROVE Good(b)'
  <2>1. CASE b = a
    <3>1. Latest(b, auth[d].token)' BY <1>0, <1>2, <1>1, <1>a DEF Latest
    <3>2. InFile(b)' BY <1>0, <2>1, <3>1 DEF InFile
    <3> QED BY <3>2 DEF Good
  <2>2. CASE b # a
    <3>1. Good(b) /\ auth[d].account # b
      BY <1>6, <2>2, NoAuthFields DEF KeptParts
    <3>2. \A q \in Place : auth'[q].account = b =>
              \E r \in Place : auth[r].account = b /\ auth[r].token = auth'[q].token
      BY <1>0, <2>2
    <3>3. CASE InFile(b)
      <4>1. PICK p \in Place : /\ auth[p].account = b /\ auth[p].token \in valid
                               /\ Latest(b, auth[p].token)
        BY <3>3 DEF InFile
      <4>2. auth'[p] = auth[p] BY <1>0, <3>1, <4>1
      <4>3. auth[p].token # t
        <5>1. \A q \in Place : auth[p].token = auth[q].token => auth[p].account = auth[q].account
          BY InLogins DEF TokensOwned
        <5> QED BY <2>2, <4>1, <5>1
      <4>4. InFile(b)' BY <1>0, <3>2, <4>1, <4>2, <4>3, StaysInFile
      <4> QED BY <4>4 DEF Good
    <3>4. CASE InFlight(b)
      <4>1. PICK g \in Fetch : Refreshing(g) /\ fetch[g].cred.account = b /\ Latest(b, fetch[g].fresh)
        BY <3>4 DEF InFlight
      <4>2. InFlight(b)' BY <3>2, <4>1, StaysInFlight
      <4> QED BY <4>2 DEF Good
    <3> QED BY <3>1, <3>3, <3>4 DEF Good
  <2> QED BY <2>1, <2>2
<1> QED BY <1>3, <1>4, <1>5, <1>6 DEF KeptParts

\* Files are copied over or deleted while no fetch reads, or files of an account that
\* is given up are deleted; every other good token stays in a file.
LEMMA FilesKept ==
    ASSUME TypeInv, TokensOwned, KeptParts,
           fetch' = fetch, valid' = valid, gone \subseteq gone', Copied',
           \/ \A f \in Fetch : ~HoldsLane(f)
           \/ \A p \in Place : auth'[p] \in {auth[p], NoAuth},
           \A p \in Place : auth'[p] = NoAuth \/ \E q \in Place : auth'[p] = auth[q],
           \A p \in Place : \/ auth[p].account \in gone' \cup {NoAccount}
                            \/ \E q \in Place : auth'[q] = auth[p]
    PROVE  KeptParts'
<1>1. valid \subseteq 1..issued /\ issued \in Nat BY TokenFacts
<1>2. Private'
  <2> SUFFICES ASSUME NEW g \in Fetch, Refreshing(g)
               PROVE  \A p \in Place : auth'[p].token # fetch[g].fresh
    BY DEF Private, Refreshing, KeptParts
  <2>1. fetch[g].fresh # 0 /\ \A p \in Place : auth[p].token # fetch[g].fresh
    BY FetchFields DEF KeptParts, Private
  <2> QED BY <2>1, NoAuthFields
<1>3. Loaded'
  <2> SUFFICES ASSUME NEW g \in Fetch, HoldsLane(g) PROVE LoadedBy(g)'
    BY DEF Loaded, HoldsLane
  <2>1. LoadedBy(g) /\ fetch[g].home \in Place BY FetchFields DEF KeptParts, Loaded
  <2>2. CASE auth'[fetch[g].home] = auth[fetch[g].home]
    BY <2>1, <2>2 DEF LoadedBy, Refreshing
  <2>3. CASE auth'[fetch[g].home] = NoAuth
    <3>1. Refreshing(g) => fetch[g].fresh \in valid BY DEF KeptParts, Private
    <3>2. Refreshing(g) => 0 < fetch[g].fresh
      <4>1. Refreshing(g) => fetch[g].fresh \in 1..issued BY <1>1, <3>1
      <4> QED BY <1>1, <4>1
    <3>3. auth'[fetch[g].home].token = 0 /\ 0 \notin valid BY <1>1, <2>3, NoAuthFields
    <3> QED BY <3>2, <3>3 DEF LoadedBy, Refreshing
  <2> QED BY <2>1, <2>2, <2>3
<1>4. ASSUME NEW b \in Account, b \notin gone' PROVE Good(b)'
  <2>1. Good(b) BY <1>4 DEF KeptParts
  <2>2. \A q \in Place : auth'[q].account = b =>
            \E r \in Place : auth[r].account = b /\ auth[r].token = auth'[q].token
    BY NoAuthFields
  <2>3. CASE InFile(b)
    <3>1. PICK p \in Place : /\ auth[p].account = b /\ auth[p].token \in valid
                             /\ Latest(b, auth[p].token)
      BY <2>3 DEF InFile
    <3>2. PICK to \in Place : auth'[to] = auth[p] BY <1>4, <3>1, NoAuthFields
    <3>3. InFile(b)' BY <2>2, <3>1, <3>2, StaysInFile
    <3> QED BY <3>3 DEF Good
  <2>4. CASE InFlight(b)
    <3>1. PICK g \in Fetch : Refreshing(g) /\ fetch[g].cred.account = b /\ Latest(b, fetch[g].fresh)
      BY <2>4 DEF InFlight
    <3>2. InFlight(b)' BY <2>2, <3>1, StaysInFlight
    <3> QED BY <3>2 DEF Good
  <2> QED BY <2>1, <2>3, <2>4 DEF Good
<1> QED BY <1>2, <1>3, <1>4 DEF KeptParts

LEMMA FetchKept ==
    ASSUME TypeInv, TokensOwned, HomesOwned, LaneInv, ~relogged, KeptParts,
           NEW f \in Fetch, FetchStep(f)
    PROVE  KeptParts'
<1>1. CASE TakeLane(f) \/ FinishFetch(f) BY <1>1, SyncKept
<1>2. CASE SendRefresh(f) BY <1>2, SendKept
<1>3. CASE ReceiveRefresh(f)
  <2>1. \/ /\ auth[fetch[f].home] # NoAuth /\ gone' = gone
           /\ auth' = [auth EXCEPT ![fetch[f].home] = Refreshed(f)]
        \/ auth' = auth /\ gone' = gone \cup {fetch[f].cred.account}
    BY <1>3 DEF ReceiveRefresh, Refreshed
  <2> QED BY <1>3, <2>1, ReceiveKept, CalmFetches, CalmKept
<1>4. CASE LoseRefresh(f) \/ TimeOut(f) BY <1>4, CalmFetches, CalmKept
<1> QED BY <1>1, <1>2, <1>3, <1>4 DEF FetchStep

LEMMA CommandKept ==
    ASSUME TypeInv, TokensOwned, HomesOwned, LaneInv, ~relogged, ~relogged', KeptParts, Command
    PROVE  KeptParts'
<1>0. auth \in [Place -> Auth] /\ homes \in Home /\ Outside
  BY DEF LaneInv, TypeInv, TypeOK
<1>1. Writing => \A f \in Fetch : ~HoldsLane(f)
  BY <1>0 DEF Outside, Reading, HoldsLane
<1> USE HomePlaces, NoAuthFields
<1>2. CASE \/ \E p \in Place : BeginSwitch(p)
           \/ BeginReauthenticate \/ LockMutation \/ LeaveSwitch \/ FailLogin
  <2>1. Calm
    BY <1>2 DEF Calm, BeginSwitch, BeginReauthenticate, Begin, LockMutation, LeaveSwitch,
                FailLogin, EndMutation, NoMutation, TypeInv, TypeOK
  <2> QED BY <2>1, CalmKept
\* The outgoing account gets a copy in a home made for it.
<1>3. CASE Materialize
  <2>1. /\ homes + 1 \in Home /\ auth[homes + 1] = NoAuth
        /\ auth' = [auth EXCEPT ![homes + 1] = auth[Ambient]]
    <3>1. homes + 1 \in Home
      BY <1>0, <1>3, LanesAssumption DEF Materialize, NewHome, Home
    <3>2. homes + 1 > homes BY <1>0
    <3> QED BY <1>3, <3>1, <3>2 DEF Materialize, NewHome, HomesOwned
  <2>2. Writing /\ fetch' = fetch /\ valid' = valid /\ gone' = gone
    BY <1>3 DEF Materialize, Writing
  <2>3. \A p \in Place : p # homes + 1 => auth'[p] = auth[p] BY <1>0, <2>1
  <2>4. auth'[homes + 1] = auth[Ambient] /\ auth'[Ambient] = auth[Ambient]
    BY <1>0, <2>1, <2>3
  <2>5. Copied' BY <2>1, <2>4 DEF Copied
  <2>6. \A p \in Place : \/ auth[p].account = NoAccount
                         \/ \E q \in Place : auth'[q] = auth[p]
    BY <2>1, <2>3
  <2>7. \A p \in Place : \E q \in Place : auth'[p] = auth[q] BY <2>3, <2>4
  <2> QED BY <1>1, <2>2, <2>5, <2>6, <2>7, FilesKept
\* What the target's file is written over is in a home too.
<1>4. CASE Replace
  <2>1. /\ mutation.target \in Place /\ Writing
        /\ auth' = [auth EXCEPT ![Ambient] = auth[mutation.target]]
        /\ fetch' = fetch /\ valid' = valid /\ gone' = gone /\ mutation'.at = "idle"
        /\ mutation.at = "materialized" \/ auth[Ambient] = NoAuth
    BY <1>4 DEF Replace, TypeInv, EndMutation, NoMutation, Writing
  <2>2. \A p \in Place \ {Ambient} : auth'[p] = auth[p] BY <1>0, <2>1
  <2>3. \/ auth[Ambient].account = NoAccount
        \/ \E h \in Home : auth'[h] = auth[Ambient]
    BY <2>1, <2>2 DEF KeptParts, Copied
  <2>4. \A p \in Place : \/ auth[p].account = NoAccount
                         \/ \E q \in Place : auth'[q] = auth[p]
    BY <2>2, <2>3
  <2>5. \A p \in Place : \E q \in Place : auth'[p] = auth[q] BY <1>0, <2>1
  <2>6. Copied' BY <2>1 DEF Copied
  <2> QED BY <1>1, <2>1, <2>4, <2>5, <2>6, FilesKept
<1>5. ASSUME NEW a \in Account, Reauthenticate(a) PROVE KeptParts'
  <2>1. /\ Writing /\ fetch' = fetch /\ mutation'.at = "idle"
        /\ auth' = [auth EXCEPT ![Ambient] = [account |-> a, token |-> issued + 1]]
        /\ valid' = valid \cup {issued + 1}
        /\ gone' = (gone \cup {auth[Ambient].account}) \ {a, NoAccount}
    BY <1>5 DEF Reauthenticate, LogInAt, LogIn, NewLogin, EndMutation, NoMutation, Writing
  <2>2. 0 \notin valid BY TokenFacts
  <2>3. valid' = (valid \ {0}) \cup {issued + 1} BY <2>1, <2>2
  <2>4. gone \subseteq gone' \cup {a} /\ auth[Ambient].account \in gone' \cup {a, NoAccount}
    BY <2>1 DEF TypeInv, TypeOK
  <2> QED BY <1>1, <2>1, <2>2, <2>3, <2>4, NewTokenKept
<1>6. ASSUME NEW a \in Account, AddAccount(a) PROVE KeptParts'
  <2>1. homes + 1 \in Home
    BY <1>0, <1>6, LanesAssumption DEF AddAccount, NewHome, Home
  <2>2. homes + 1 > homes /\ homes \in Int BY <1>0
  <2>3. /\ fetch' = fetch /\ mutation'.at = "idle" /\ auth[homes + 1] = NoAuth
        /\ auth' = [auth EXCEPT ![homes + 1] = [account |-> a, token |-> issued + 1]]
        /\ valid' = valid \cup {issued + 1} /\ gone' = gone \ {a}
    BY <1>6, <2>1, <2>2 DEF AddAccount, NewHome, LogIn, NewLogin, HomesOwned
  <2>4. 0 \notin valid BY TokenFacts
  <2>5. valid' = (valid \ {0}) \cup {issued + 1} BY <2>3, <2>4
  <2>6. \A f \in Fetch : fetch[f].home # homes + 1
    <3>1. \A f \in Fetch : fetch[f].home \in Home => fetch[f].home <= homes BY DEF HomesOwned
    <3>2. ~(homes + 1 <= homes) BY <2>2
    <3> QED BY <2>1, <3>1, <3>2
  <2> QED BY <2>1, <2>3, <2>4, <2>5, <2>6, NewTokenKept
<1>7. ASSUME NEW a \in Account, RemoveAccount(a) PROVE KeptParts'
  <2>1. /\ fetch' = fetch /\ valid' = valid /\ mutation' = mutation /\ mutation.at = "idle"
        /\ gone' = gone \cup {a}
        /\ \A p \in Place : auth'[p] = IF p \in Home /\ auth[p].account = a THEN NoAuth ELSE auth[p]
    BY <1>7 DEF RemoveAccount
  <2>2. Copied' BY <2>1 DEF Copied
  <2>3. \A p \in Place : auth'[p] \in {auth[p], NoAuth} BY <2>1
  <2>4. \A p \in Place : \/ auth[p].account \in gone'
                         \/ \E q \in Place : auth'[q] = auth[p]
    BY <2>1
  <2> QED BY <2>1, <2>2, <2>3, <2>4, FilesKept
<1>8. CASE CodexRotates
  <2>1. PICK a, t : a = auth[Ambient].account /\ t = auth[Ambient].token OBVIOUS
  <2>2. /\ t \in valid /\ fetch' = fetch /\ gone' = gone
        /\ mutation' = mutation /\ mutation.at # "materialized"
        /\ valid' = (valid \ {t}) \cup {issued + 1}
        /\ auth' = [auth EXCEPT ![Ambient].token = issued + 1]
    BY <1>8, <2>1 DEF CodexRotates, Rotate
  <2>3. a \in Account /\ auth[Ambient] = [account |-> a, token |-> t]
    <3>1. auth[Ambient] # NoAuth BY <2>1, <2>2 DEF NoAuth, TypeInv, TypeOK
    <3>2. auth[Ambient] \in [account : Account, token : 1..MaxToken] BY <1>0, <3>1, AuthFields
    <3> QED BY <2>1, <3>2
  <2>4. auth' = [auth EXCEPT ![Ambient] = [account |-> a, token |-> issued + 1]]
    <3>1. auth' = [auth EXCEPT ![Ambient] = [auth[Ambient] EXCEPT !.token = issued + 1]]
      BY <2>2
    <3>2. [auth[Ambient] EXCEPT !.token = issued + 1] = [account |-> a, token |-> issued + 1]
      BY <2>3
    <3> QED BY <3>1, <3>2
  <2> QED BY <2>1, <2>2, <2>3, <2>4, NewTokenKept
<1>9. \A a \in Account, p \in Place : ~CodexLogIn(p, a) BY DEF CodexLogIn
<1> QED BY <1>2, <1>3, <1>4, <1>5, <1>6, <1>7, <1>8, <1>9 DEF Command, MutationStep

LEMMA KeptStep ==
    ASSUME TypeInv, TokensOwned, HomesOwned, LaneInv, KeptInv, [Next]_vars
    PROVE  KeptInv'
<1> SUFFICES ASSUME ~relogged' PROVE KeptParts' BY DEF KeptInv
<1>1. ~relogged /\ KeptParts BY StaysRelogged DEF KeptInv
<1>2. CASE UNCHANGED vars
  <2>1. Calm BY <1>2 DEF Calm, vars
  <2> QED BY <1>1, <2>1, CalmKept
<1>3. CASE \E f \in Fetch, h \in Place : EnterFetch(f, h)
  BY <1>1, <1>3, CalmFetches, CalmKept
<1> QED BY <1>1, <1>2, <1>3, NextCases, FetchKept, CommandKept

LEMMA KeptInit == Init => KeptInv
<1> SUFFICES ASSUME Init PROVE KeptParts BY DEF KeptInv
<1>1. PICK other \in Account \ {First} :
          auth = [p \in Place |-> CASE p = Ambient -> [account |-> First, token |-> 1]
                                    [] p = 1 -> [account |-> other, token |-> 2]
                                    [] OTHER -> NoAuth]
  BY DEF Init
<1>2. \A f \in Fetch : fetch[f].at = "idle" BY DEF Init, Idle
<1>3. Private /\ Loaded BY <1>2 DEF Private, Loaded, Refreshing, HoldsLane
<1>4. Copied BY DEF Init, NoMutation, Copied
<1>5. ASSUME NEW a \in Account \ gone PROVE Good(a)
  <2>1. valid = {1, 2} /\ gone = Account \ AccountsIn(auth) BY DEF Init
  <2>2. PICK p \in Place : auth[p].account = a BY <2>1 DEF AccountsIn
  <2>3. \A q \in Place : \/ q = Ambient /\ auth[q] = [account |-> First, token |-> 1]
                         \/ auth[q] = [account |-> other, token |-> 2]
                         \/ auth[q] = NoAuth
    BY <1>1
  <2>4. auth[p] # NoAuth BY <2>2, NoAuthFields
  <2>5. auth[p].token \in {1, 2} /\ Latest(a, auth[p].token)
    BY <1>1, <2>2, <2>3, <2>4, NoAuthFields DEF Latest
  <2> QED BY <2>1, <2>2, <2>5 DEF Good, InFile
<1> QED BY <1>3, <1>4, <1>5 DEF KeptParts

\* Whatever the interleaving of fetches, switches, logins, removals and Codex's own
\* refreshes, an account that was not given up has a good token in a file or on its way
\* to one, for any number of accounts, homes, fetches and tokens.
THEOREM CredentialIsKept == Spec => []CredentialKept
<1>1. Init => HomesOwned /\ LaneInv
  <2> SUFFICES ASSUME Init PROVE HomesOwned /\ LaneInv OBVIOUS
  <2>1. HomesOwned BY InitOwned
  <2>2. \A f \in Fetch : fetch[f].at = "idle" BY DEF Init, Idle
  <2> QED BY <2>1, <2>2 DEF LaneInv, Outside, Routed, Reading, HoldsLane
<1>2. KeptInv => CredentialKept
  BY DEF KeptInv, KeptParts, CredentialKept, Reachable, Good, InFile, InFlight, Refreshing
<1> QED BY <1>1, <1>2, TypeInit, TypeStep, OwnedStep, LaneStep, TokensInit, TokensStep,
           KeptInit, KeptStep, PTL DEF Spec
=============================================================================
