------------------------ MODULE ClaudeAccounts_proofs ------------------------
(* Theorems about ClaudeAccounts, for any accounts, tokens, crashes, mishaps.  *)
EXTENDS ClaudeAccounts, TLAPS

(***************************************************************************)
(* Types                                                                   *)
(***************************************************************************)

\* TypeOK is not inductive: the accounts given up when the app crashes or an answer
\* is lost are those of a login that a fetch, or a command, does hold.
TypeInv ==
    /\ TypeOK
    /\ Fetching => fetch.cred # NoLogin
    /\ command.at = "signedIn" => command.login # NoLogin

LEMMA LoginFields ==
    ASSUME NEW x \in MaybeLogin
    PROVE  /\ x.account \in Account \cup {NoAccount}
           /\ x.token \in Nat
           /\ x # NoLogin => x.account \in Account /\ x.token \in 1..MaxToken
           /\ x = NoLogin => x.account = NoAccount /\ x.token = 0
BY ClaudeAssumption DEF MaybeLogin, Login, NoLogin

LEMMA LoginIntro ==
    ASSUME NEW a \in Account, NEW n \in 1..MaxToken
    PROVE  /\ [account |-> a, token |-> n] \in MaybeLogin
           /\ [account |-> a, token |-> n] # NoLogin
BY ClaudeAssumption DEF MaybeLogin, Login, NoLogin

LEMMA NoLoginTyped == NoLogin \in MaybeLogin BY DEF MaybeLogin

LEMMA ServerSteps ==
    ASSUME TypeInv
    PROVE  /\ Issue => /\ issued' = issued + 1 /\ issued' \in 1..MaxToken
                       /\ valid' \subseteq 1..issued'
           /\ \A token : Rotate(token) =>
                       /\ issued' = issued + 1 /\ issued' \in 1..MaxToken
                       /\ valid' \subseteq 1..issued' /\ token \in 1..issued
<1>0. issued \in 0..MaxToken /\ valid \subseteq 1..issued BY DEF TypeInv, TypeOK
<1>1. ASSUME issued < MaxToken PROVE issued + 1 \in 1..MaxToken
  BY <1>0, <1>1, ClaudeAssumption
<1>2. ASSUME NEW v, v \subseteq valid
      PROVE  v \cup {issued + 1} \subseteq 1..(issued + 1)
  <2>1. 1..issued \subseteq 1..(issued + 1) /\ issued + 1 \in 1..(issued + 1)
    BY <1>0, ClaudeAssumption
  <2> QED BY <1>0, <1>2, <2>1
<1>3. ASSUME Issue
      PROVE  issued' = issued + 1 /\ issued' \in 1..MaxToken /\ valid' \subseteq 1..issued'
  BY <1>0, <1>1, <1>2, <1>3 DEF Issue
<1>4. ASSUME NEW token, Rotate(token)
      PROVE  /\ issued' = issued + 1 /\ issued' \in 1..MaxToken
             /\ valid' \subseteq 1..issued' /\ token \in 1..issued
  BY <1>0, <1>1, <1>2, <1>4 DEF Rotate
<1> QED BY <1>3, <1>4

LEMMA MishapTyped ==
    ASSUME TypeInv, NEW kinds \in SUBSET {"torn", "overtaken", "readded", "swapped"},
           Mishap(kinds)
    PROVE  mishaps' \subseteq {"torn", "overtaken", "readded", "swapped"}
BY DEF Mishap, TypeInv, TypeOK

CommandState == [at : {"idle", "login", "signedIn", "locked", "preserved", "renamed"},
                 account : Account \cup {NoAccount}, login : MaybeLogin, old : MaybeLogin]
FetchState == [at : {"idle", "stale", "refreshing", "ready"}, cred : MaybeLogin,
               fresh : 0..MaxToken, file : Account \cup {NoAccount}]

\* The parts of TypeInv, by what a step may change.
FilesTyped == /\ {oauth, cache, slot} \subseteq MaybeLogin
              /\ identity \in Account \cup {NoAccount}
              /\ saved \in [Account -> MaybeLogin]
CliTyped == cli \in [Session -> MaybeLogin]
CommandTyped == /\ command \in CommandState
                /\ command.at = "signedIn" => command.login # NoLogin
FetchTyped == /\ fetch \in FetchState
              /\ fetch.fresh # 0 <=> fetch.at = "refreshing"
              /\ Fetching => fetch.cred # NoLogin
Exclusive == ~(Switching /\ Fetching) /\ ~(Switching /\ Probing) /\ ~(Fetching /\ Probing)
ServerTyped == issued \in 0..MaxToken /\ valid \subseteq 1..issued
HistoryTyped == /\ gone \subseteq Account
                /\ mishaps \subseteq {"torn", "overtaken", "readded", "swapped"}
                /\ crashes \in 0..MaxCrash

Parts == /\ FilesTyped /\ CliTyped /\ CommandTyped /\ FetchTyped
         /\ Exclusive /\ ServerTyped /\ HistoryTyped

LEMMA PartsOfType == TypeInv <=> Parts
BY DEF TypeInv, TypeOK, Parts, FilesTyped, CliTyped, CommandTyped, FetchTyped, Exclusive,
       ServerTyped, HistoryTyped, CommandState, FetchState

LEMMA TypeInit == Init => TypeInv
<1> SUFFICES ASSUME Init PROVE Parts BY PartsOfType
<1>1. PICK a, b \in Account :
          oauth = [account |-> a, token |-> 2] /\ identity = a
            /\ slot = [account |-> b, token |-> 1] /\ gone = Account \ {a, b}
  BY DEF Init
<1>2. 1 \in 1..MaxToken /\ 2 \in 1..MaxToken /\ 0 \in 0..MaxToken /\ 0 \in 0..MaxCrash
      /\ 2 \in 0..MaxToken /\ {1, 2} \subseteq 1..2
  BY ClaudeAssumption
<1>3. FilesTyped BY <1>1, <1>2, LoginIntro, NoLoginTyped DEF Init, FilesTyped
<1>4. CliTyped BY NoLoginTyped DEF Init, CliTyped
<1>5. CommandTyped BY NoLoginTyped DEF Init, CommandTyped, NoCommand, CommandState
<1>6. FetchTyped BY NoLoginTyped, <1>2 DEF Init, FetchTyped, NoFetch, FetchState, Fetching
<1>7. Exclusive BY DEF Init, Exclusive, Switching, Fetching, Probing, NoCommand, NoFetch, Session
<1>8. ServerTyped BY <1>2 DEF Init, ServerTyped
<1>9. HistoryTyped BY <1>1, <1>2 DEF Init, HistoryTyped
<1> QED BY <1>3, <1>4, <1>5, <1>6, <1>7, <1>8, <1>9 DEF Parts

\* The logins in files and in memory, with what the actions ask of them.
LEMMA Typed ==
    ASSUME TypeInv
    PROVE  /\ Parts
           /\ oauth \in MaybeLogin /\ cache \in MaybeLogin /\ slot \in MaybeLogin
           /\ NoLogin \in MaybeLogin
           /\ fetch.cred \in MaybeLogin
           /\ Fetching => fetch.cred.account \in Account
           /\ command.login \in MaybeLogin /\ command.old \in MaybeLogin
           /\ command.account \in Account \cup {NoAccount}
           /\ \A a \in Account : saved[a] \in MaybeLogin
           /\ \A s \in Session : cli[s] \in MaybeLogin
<1>1. Parts BY PartsOfType
<1> QED BY <1>1, NoLoginTyped, LoginFields
        DEF Parts, FilesTyped, CommandTyped, FetchTyped, CliTyped, CommandState, FetchState

LEMMA RefreshedTyped ==
    ASSUME TypeInv, fetch.at = "refreshing"
    PROVE  Refreshed \in MaybeLogin /\ Refreshed # NoLogin
<1>1. fetch.cred.account \in Account BY Typed DEF Fetching
<1>2. fetch.fresh \in 1..MaxToken
  BY Typed, ClaudeAssumption DEF Parts, FetchTyped, FetchState
<1> QED BY <1>1, <1>2, LoginIntro DEF Refreshed

LEMMA FetchIntro ==
    ASSUME fetch' \in FetchState, fetch'.fresh # 0 <=> fetch'.at = "refreshing",
           fetch'.at # "idle" => fetch'.cred # NoLogin
    PROVE  FetchTyped'
BY DEF FetchTyped, Fetching

LEMMA TypeFetch == ASSUME TypeInv, FetchStep PROVE TypeInv'
<1> USE Typed
<1>0. UNCHANGED <<identity, saved, slot, command, cli, crashes>>
  BY DEF FetchStep, BeginFetch, AdoptFromDisk, SendRefresh, Persist, FailToPersist, EndFetch,
         WriteBack, files, server
<1>1. 0 \in 0..MaxToken BY ClaudeAssumption
<1>2. fetch \in FetchState /\ (fetch.fresh # 0 <=> fetch.at = "refreshing")
  BY DEF Parts, FetchTyped
<1>3. oauth # NoLogin => oauth.account \in Account BY LoginFields
<1>4. CliTyped' /\ CommandTyped' BY <1>0 DEF Parts, CliTyped, CommandTyped
<1> SUFFICES /\ oauth' \in MaybeLogin /\ cache' \in MaybeLogin
             /\ fetch' \in FetchState /\ (fetch'.fresh # 0 <=> fetch'.at = "refreshing")
             /\ fetch'.at # "idle" => /\ fetch'.cred # NoLogin
                                      /\ Fetching \/ LockFree
             /\ ServerTyped'
             /\ gone' \subseteq Account
             /\ mishaps' \subseteq {"torn", "overtaken", "readded", "swapped"}
  <2>1. FilesTyped' BY <1>0 DEF Parts, FilesTyped
  <2>2. FetchTyped' BY FetchIntro
  <2>3. Exclusive' BY <1>0 DEF Parts, Exclusive, Switching, Fetching, Probing, LockFree
  <2>4. HistoryTyped' BY <1>0 DEF Parts, HistoryTyped
  <2>5. Parts' BY <1>4, <2>1, <2>2, <2>3, <2>4 DEF Parts
  <2> QED BY <2>5, PartsOfType, PTL
<1>5. ServerTyped /\ gone \subseteq Account
      /\ mishaps \subseteq {"torn", "overtaken", "readded", "swapped"}
  BY DEF Parts, HistoryTyped
<1>6. CASE BeginFetch
  <2>1. Fresher \in MaybeLogin /\ Fresher # NoLogin BY <1>6 DEF BeginFetch, Fresher
  <2>2. fetch' \in FetchState /\ fetch'.fresh = 0 /\ fetch'.at # "refreshing" /\ fetch'.cred # NoLogin
    BY <1>1, <1>3, <1>6, <2>1 DEF BeginFetch, FetchState
  <2> QED BY <1>5, <1>6, <2>2 DEF BeginFetch, files, server, ServerTyped
<1>7. CASE AdoptFromDisk
  <2>1. oauth # NoLogin
    <3>1. fetch.cred.token \in Nat BY LoginFields
    <3> QED BY <1>7, <3>1 DEF AdoptFromDisk, NoLogin
  <2>2. fetch' \in FetchState /\ fetch'.fresh = 0 /\ fetch'.at = "ready" /\ fetch'.cred = oauth
    BY <1>2, <1>3, <1>7, <2>1 DEF AdoptFromDisk, FetchState
  <2> QED BY <1>5, <1>7, <2>1, <2>2 DEF AdoptFromDisk, files, server, ServerTyped, Fetching
<1>8. CASE SendRefresh
  <2> DEFINE now == IF oauth = NoLogin THEN fetch.cred ELSE oauth
  <2>1. now \in MaybeLogin /\ now # NoLogin /\ now.account \in Account
    BY <1>3, <1>8 DEF SendRefresh, Fetching, Parts, FetchTyped
  <2>2. Rotate(now.token)
        /\ fetch' = [at |-> "refreshing", cred |-> now, fresh |-> issued + 1, file |-> now.account]
    BY <1>8 DEF SendRefresh
  <2> HIDE DEF now
  <2>3. issued' = issued + 1 /\ issued' \in 1..MaxToken /\ valid' \subseteq 1..issued'
    BY <2>2, ServerSteps
  <2>4. issued + 1 \in 0..MaxToken /\ issued + 1 # 0 BY <2>3, ClaudeAssumption
  <2>5. fetch' \in FetchState /\ fetch'.fresh # 0 /\ fetch'.at = "refreshing" /\ fetch'.cred # NoLogin
    BY <2>1, <2>2, <2>4 DEF FetchState
  <2>6. ServerTyped' BY <2>3, <2>4 DEF ServerTyped
  <2> QED BY <1>5, <1>8, <2>5, <2>6 DEF SendRefresh, files, Fetching
<1>9. CASE Persist \/ FailToPersist
  <2>1. fetch.at = "refreshing" BY <1>9 DEF Persist, FailToPersist
  <2>2. Refreshed \in MaybeLogin /\ Refreshed # NoLogin BY <2>1, RefreshedTyped
  <2>3. cache' = Refreshed /\ oauth' \in {oauth, Refreshed}
    BY <1>9 DEF Persist, FailToPersist, WriteBack, files
  <2>4. fetch' = [fetch EXCEPT !.at = "ready", !.cred = Refreshed, !.fresh = 0]
    BY <1>9 DEF Persist, FailToPersist
  <2>5. fetch' \in FetchState /\ fetch'.fresh = 0 /\ fetch'.at = "ready" /\ fetch'.cred = Refreshed
    BY <1>1, <1>2, <2>2, <2>4 DEF FetchState
  <2>6. mishaps' \subseteq {"torn", "overtaken", "readded", "swapped"}
    BY <1>5, <1>9, MishapTyped DEF Persist, FailToPersist, WriteBack
  <2>7. gone' \subseteq Account BY <1>5, <1>9, <2>1 DEF Persist, FailToPersist, Fetching
  <2>8. ServerTyped' BY <1>5, <1>9 DEF Persist, FailToPersist, server, ServerTyped
  <2> QED BY <2>1, <2>2, <2>3, <2>5, <2>6, <2>7, <2>8 DEF Fetching
<1>10. CASE EndFetch
  <2>1. NoFetch \in FetchState /\ NoFetch.fresh = 0 /\ NoFetch.at = "idle"
    BY <1>1 DEF NoFetch, FetchState
  <2>2. gone' \subseteq Account BY <1>5, <1>10 DEF EndFetch
  <2> QED BY <1>5, <1>10, <2>1, <2>2 DEF EndFetch, files, server, ServerTyped
<1> QED BY <1>6, <1>7, <1>8, <1>9, <1>10 DEF FetchStep

\* A step that leaves the fetch alone, and the mutual exclusion as it was.
LEMMA TypeIntro ==
    ASSUME TypeInv, UNCHANGED fetch,
           oauth' \in MaybeLogin, cache' \in MaybeLogin, slot' \in MaybeLogin,
           identity' \in Account \cup {NoAccount}, saved' \in [Account -> MaybeLogin],
           CliTyped', CommandTyped', ServerTyped', HistoryTyped',
           Switching' => Switching \/ LockFree,
           Probing' => (Probing /\ ~Switching') \/ (LockFree /\ ~Switching')
    PROVE  TypeInv'
<1>1. FilesTyped' BY DEF FilesTyped
<1>2. FetchTyped' BY Typed DEF Parts, FetchTyped, Fetching
<1>3. Exclusive' BY Typed DEF Parts, Exclusive, Switching, Fetching, Probing, LockFree
<1>4. Parts' BY <1>1, <1>2, <1>3 DEF Parts
<1> QED BY <1>4, PartsOfType, PTL

LEMMA Unchanged ==
    ASSUME TypeInv
    PROVE  /\ UNCHANGED cli => CliTyped' /\ (Probing' <=> Probing)
           /\ UNCHANGED command => CommandTyped' /\ (Switching' <=> Switching)
           /\ UNCHANGED server => ServerTyped'
           /\ UNCHANGED <<gone, mishaps, crashes>> => HistoryTyped'
           /\ identity \in Account \cup {NoAccount} /\ saved \in [Account -> MaybeLogin]
           /\ ~(Switching /\ Probing)
BY Typed DEF Parts, CliTyped, CommandTyped, ServerTyped, HistoryTyped, FilesTyped, Switching,
             Probing, server, Exclusive

LEMMA Idles ==
    ASSUME TypeInv, command' = NoCommand
    PROVE  CommandTyped' /\ ~Switching'
BY Typed DEF CommandTyped, CommandState, NoCommand, Switching

Probes == BeginProbe \/ EndProbe
Adds == BeginAdd \/ FailLogin \/ ImportLogin \/ FailToImport \/ SaveCurrent
        \/ \E a \in Account : SignIn(a) \/ Remove(a)

LEMMA TypeProbe == ASSUME TypeInv, Probes PROVE TypeInv'
<1>1. UNCHANGED <<files, cache, command, fetch, server, gone, mishaps, crashes>>
  BY DEF Probes, BeginProbe, EndProbe
<1>2. CliTyped' BY Typed DEF Probes, BeginProbe, EndProbe, Parts, CliTyped
<1>3. Probing' => LockFree
  BY Typed DEF Probes, BeginProbe, EndProbe, Parts, CliTyped, Session, Probing
<1>4. LockFree => ~Switching BY DEF LockFree
<1> QED BY <1>1, <1>2, <1>3, <1>4, Typed, Unchanged, TypeIntro DEF files

LEMMA TypeAdd == ASSUME TypeInv, Adds PROVE TypeInv'
<1> USE Typed, Unchanged
<1>1. CASE BeginAdd
  <2>1. CommandTyped' /\ ~Switching'
    BY <1>1 DEF BeginAdd, NoCommand, CommandTyped, CommandState, Switching
  <2> QED BY <1>1, <2>1, TypeIntro DEF BeginAdd, files
<1>2. CASE FailLogin \/ FailToImport BY <1>2, Idles, TypeIntro DEF FailLogin, FailToImport, files
<1>3. CASE ImportLogin
  <2>1. saved' \in [Account -> MaybeLogin] BY <1>3 DEF ImportLogin
  <2>2. mishaps' \subseteq {"torn", "overtaken", "readded", "swapped"}
    BY <1>3, MishapTyped DEF ImportLogin
  <2>3. HistoryTyped' BY <1>3, <2>2 DEF ImportLogin, Parts, HistoryTyped
  <2> QED BY <1>3, <2>1, <2>3, Idles, TypeIntro DEF ImportLogin
<1>4. CASE SaveCurrent
  <2>1. saved' \in [Account -> MaybeLogin] BY <1>4 DEF SaveCurrent
  <2> QED BY <1>4, <2>1, TypeIntro DEF SaveCurrent
<1>5. ASSUME NEW a \in Account, SignIn(a) PROVE TypeInv'
  <2> DEFINE login == [account |-> a, token |-> issued + 1]
  <2>1. issued' = issued + 1 /\ issued' \in 1..MaxToken /\ valid' \subseteq 1..issued'
    BY <1>5, ServerSteps DEF SignIn
  <2>2. ServerTyped' BY <2>1, ClaudeAssumption DEF ServerTyped
  <2>3. login \in MaybeLogin /\ login # NoLogin BY <2>1, LoginIntro
  <2>4. command' = [command EXCEPT !.at = "signedIn", !.login = login] BY <1>5 DEF SignIn
  <2> HIDE DEF login
  <2>5. CommandTyped' /\ ~Switching'
    BY <2>3, <2>4 DEF Parts, CommandTyped, CommandState, Switching
  <2>6. HistoryTyped' BY <1>5 DEF SignIn, Parts, HistoryTyped
  <2> QED BY <1>5, <2>2, <2>5, <2>6, TypeIntro DEF SignIn, files
<1>6. ASSUME NEW a \in Account, Remove(a) PROVE TypeInv'
  <2>1. saved' \in [Account -> MaybeLogin] BY <1>6 DEF Remove
  <2>2. HistoryTyped' BY <1>6 DEF Remove, Parts, HistoryTyped
  <2> QED BY <1>6, <2>1, <2>2, TypeIntro DEF Remove
<1> QED BY <1>1, <1>2, <1>3, <1>4, <1>5, <1>6 DEF Adds

LEMMA TypeSwitch ==
    ASSUME TypeInv, SwitchStep \/ \E a \in Account : BeginSwitch(a)
    PROVE  TypeInv'
<1> USE Typed, Unchanged
<1>1. ASSUME NEW a \in Account, BeginSwitch(a) PROVE TypeInv'
  <2>1. CommandTyped' BY <1>1 DEF BeginSwitch, CommandTyped, CommandState
  <2>2. ~Probing BY <1>1 DEF BeginSwitch, LockFree
  <2> QED BY <1>1, <2>1, <2>2, TypeIntro DEF BeginSwitch, files
<1>2. CASE SwitchStep
  <2>1. Switching /\ ~Probing /\ ~Probing' /\ CliTyped' /\ UNCHANGED <<fetch, slot>> /\ ServerTyped'
    BY <1>2 DEF SwitchStep, Preserve, RenameCredentials, RenameConfig, FailSwitch,
                RestoreCredentials, FailToRestore, Switching, files
  <2>2. CommandTyped'
    <3>1. CASE command' = NoCommand BY <3>1, Idles
    <3>2. CASE \E at \in {"preserved", "renamed"} : command' = [command EXCEPT !.at = at]
      BY <3>2 DEF Parts, CommandTyped, CommandState
    <3> QED BY <1>2, <3>1, <3>2 DEF SwitchStep, Preserve, RenameCredentials, RenameConfig,
               FailSwitch, RestoreCredentials, FailToRestore, Keeps
  <2>3. /\ oauth' \in MaybeLogin /\ cache' \in MaybeLogin
        /\ identity' \in Account \cup {NoAccount} /\ saved' \in [Account -> MaybeLogin]
    BY <1>2 DEF SwitchStep, Preserve, RenameCredentials, RenameConfig, FailSwitch,
                RestoreCredentials, FailToRestore, files
  <2>4. HistoryTyped'
    <3>1. CASE UNCHANGED <<gone, mishaps, crashes>> BY <3>1
    <3>2. CASE FailToRestore
      <4>1. mishaps' \subseteq {"torn", "overtaken", "readded", "swapped"}
        BY <3>2, MishapTyped DEF FailToRestore
      <4> QED BY <3>2, <4>1 DEF FailToRestore, Parts, HistoryTyped
    <3> QED BY <1>2, <3>1, <3>2 DEF SwitchStep, Preserve, RenameCredentials, RenameConfig,
               FailSwitch, RestoreCredentials
  <2> QED BY <2>1, <2>2, <2>3, <2>4, TypeIntro
<1> QED BY <1>1, <1>2

LEMMA TypeWriteBack ==
    ASSUME TypeInv, NEW login \in MaybeLogin, WriteBack(login)
    PROVE  /\ oauth' \in MaybeLogin
           /\ mishaps' \subseteq {"torn", "overtaken", "readded", "swapped"}
BY MishapTyped DEF WriteBack

LEMMA TypeCli ==
    ASSUME TypeInv, CliStep \/ SwapSwitch \/ \E a \in Account : CliLogIn(a)
    PROVE  TypeInv'
<1> USE Typed, Unchanged
<1>0. "user" \in Session /\ "probe" \in Session /\ "user" # "probe" BY DEF Session
<1>1. CASE OpenCli \/ CloseCli
  <2>1. CliTyped' BY <1>1 DEF OpenCli, CloseCli, Parts, CliTyped
  <2>2. Probing' <=> Probing BY <1>0, <1>1 DEF OpenCli, CloseCli, Parts, CliTyped, Probing
  <2> QED BY <1>1, <2>1, <2>2, TypeIntro DEF OpenCli, CloseCli, files
<1>2. ASSUME NEW s \in Session, CliRotates(s) PROVE TypeInv'
  <2> DEFINE new == [account |-> cli[s].account, token |-> issued + 1]
  <2>1. /\ issued' = issued + 1 /\ issued' \in 1..MaxToken /\ valid' \subseteq 1..issued'
        /\ cli[s].token \in 1..issued
    BY <1>2, ServerSteps DEF CliRotates
  <2>2. ServerTyped' BY <2>1, ClaudeAssumption DEF ServerTyped
  <2>3. cli[s] # NoLogin /\ cli[s].account \in Account
    <3>1. cli[s] # NoLogin BY <2>1 DEF NoLogin, Parts, ServerTyped
    <3> QED BY <3>1, LoginFields
  <2>4. new \in MaybeLogin /\ new # NoLogin BY <2>1, <2>3, LoginIntro
  <2>5. cli' = [cli EXCEPT ![s] = new] /\ WriteBack(new) BY <1>2 DEF CliRotates
  <2> HIDE DEF new
  <2>6. CliTyped' BY <2>4, <2>5 DEF Parts, CliTyped
  <2>7. Probing' <=> Probing BY <1>0, <2>3, <2>4, <2>5 DEF Parts, CliTyped, Probing
  <2>8. oauth' \in MaybeLogin /\ HistoryTyped'
    BY <1>2, <2>4, <2>5, TypeWriteBack DEF CliRotates, Parts, HistoryTyped
  <2> QED BY <1>2, <2>2, <2>6, <2>7, <2>8, TypeIntro DEF CliRotates
<1>3. CASE CliLogOut
  <2>1. CliTyped' BY <1>3 DEF CliLogOut, Parts, CliTyped
  <2>2. Probing' <=> Probing BY <1>0, <1>3 DEF CliLogOut, Parts, CliTyped, Probing
  <2>3. ServerTyped' BY <1>3 DEF CliLogOut, Parts, ServerTyped
  <2>4. HistoryTyped' BY <1>3, LoginFields DEF CliLogOut, Parts, HistoryTyped
  <2> QED BY <1>3, <2>1, <2>2, <2>3, <2>4, TypeIntro DEF CliLogOut
<1>4. CASE SwapSwitch
  <2>1. slot.account \in Account \cup {NoAccount} BY LoginFields
  <2>2. mishaps' \subseteq {"torn", "overtaken", "readded", "swapped"}
    BY <1>4, MishapTyped DEF SwapSwitch
  <2>3. HistoryTyped' BY <1>4, <2>2 DEF SwapSwitch, Parts, HistoryTyped
  <2> QED BY <1>4, <2>1, <2>3, TypeIntro DEF SwapSwitch
<1>5. ASSUME NEW a \in Account, CliLogIn(a) PROVE TypeInv'
  <2> DEFINE login == [account |-> a, token |-> issued + 1]
  <2>1. issued' = issued + 1 /\ issued' \in 1..MaxToken /\ valid' \subseteq 1..issued'
    BY <1>5, ServerSteps DEF CliLogIn
  <2>2. ServerTyped' BY <2>1, ClaudeAssumption DEF ServerTyped
  <2>3. login \in MaybeLogin BY <2>1, LoginIntro
  <2>4. oauth' = login
        /\ cli' = [cli EXCEPT !["user"] = IF @ = NoLogin THEN @ ELSE oauth']
    BY <1>5 DEF CliLogIn
  <2> HIDE DEF login
  <2>5. CliTyped' BY <2>3, <2>4 DEF Parts, CliTyped
  <2>6. Probing' <=> Probing BY <1>0, <2>4 DEF Parts, CliTyped, Probing
  <2>7. HistoryTyped' BY <1>5, LoginFields DEF CliLogIn, Parts, HistoryTyped
  <2> QED BY <1>5, <2>2, <2>3, <2>4, <2>5, <2>6, <2>7, TypeIntro DEF CliLogIn
<1> QED BY <1>1, <1>2, <1>3, <1>4, <1>5 DEF CliStep

LEMMA TypeCrash == ASSUME TypeInv, Crash PROVE TypeInv'
<1> USE Typed, Unchanged
<1>1. FetchTyped' /\ ~Fetching'
  BY ClaudeAssumption DEF Crash, NoFetch, FetchTyped, FetchState, Fetching
<1>2. CommandTyped' /\ ~Switching' BY Idles DEF Crash
<1>3. CliTyped' BY DEF Crash, Parts, CliTyped
<1>4. FilesTyped' BY DEF Crash, files, Parts, FilesTyped
<1>5. InFlight \subseteq Account BY DEF InFlight, Fetching
<1>7. mishaps' \subseteq {"torn", "overtaken", "readded", "swapped"} BY MishapTyped DEF Crash
<1>8. crashes' \in 0..MaxCrash BY ClaudeAssumption DEF Crash, Parts, HistoryTyped
<1>9. HistoryTyped' BY <1>5, <1>7, <1>8 DEF Crash, Parts, HistoryTyped
<1>10. Exclusive' BY <1>1, <1>2 DEF Exclusive
<1>11. ServerTyped' BY DEF Crash
<1>12. Parts' BY <1>1, <1>2, <1>3, <1>4, <1>9, <1>10, <1>11 DEF Parts
<1> QED BY <1>12, PartsOfType, PTL

LEMMA NextCases ==
    ASSUME [Next]_vars
    PROVE  \/ UNCHANGED vars
           \/ FetchStep
           \/ Probes
           \/ Adds
           \/ SwitchStep \/ \E a \in Account : BeginSwitch(a)
           \/ CliStep \/ SwapSwitch \/ \E a \in Account : CliLogIn(a)
           \/ Crash
BY DEF Next, Probes, Adds

LEMMA TypeStep == ASSUME TypeInv, [Next]_vars PROVE TypeInv'
<1>1. CASE UNCHANGED vars
  BY <1>1 DEF vars, files, server, TypeInv, TypeOK, Switching, Fetching, Probing
<1> QED BY <1>1, NextCases, TypeFetch, TypeProbe, TypeAdd, TypeSwitch, TypeCli, TypeCrash

\* Every reachable state keeps the shape of TypeOK; at most one of a fetch, a probe
\* and a switch holds CREDENTIAL_OPERATION.
THEOREM TypeCorrect == Spec => []TypeOK
<1>1. TypeInv => TypeOK BY DEF TypeInv
<1> QED BY <1>1, TypeInit, TypeStep, PTL DEF Spec

(***************************************************************************)
(* Credentials and identities                                              *)
(***************************************************************************)

\* The pairs of files stay pairs, and so do the logins a switch works with.
Paired ==
    \/ {"torn", "overtaken"} \cap mishaps # {}
    \/ /\ \A a \in Account : saved[a].account \in {a, NoAccount}
       /\ command.at # "renamed" => oauth.account \in {identity, NoAccount}
       /\ command.at = "renamed" => oauth.account = command.account
       /\ Switching => /\ command.login.account = command.account
                       /\ command.old.account \in {identity, NoAccount}

LEMMA MishapsGrow ==
    ASSUME [Next]_vars
    PROVE  mishaps \subseteq mishaps'
<1>1. \A kinds : Mishap(kinds) => mishaps \subseteq mishaps' BY DEF Mishap
<1>2. CASE UNCHANGED vars BY <1>2 DEF vars
<1>3. CASE FetchStep
  BY <1>1, <1>3 DEF FetchStep, BeginFetch, AdoptFromDisk, SendRefresh, Persist, FailToPersist,
                    EndFetch, WriteBack
<1>4. CASE Probes \/ Adds
  BY <1>1, <1>4 DEF Probes, BeginProbe, EndProbe, Adds, BeginAdd, FailLogin, FailToImport, ImportLogin,
                    SaveCurrent, SignIn, Remove
<1>5. CASE SwitchStep \/ \E a \in Account : BeginSwitch(a)
  BY <1>1, <1>5 DEF SwitchStep, BeginSwitch, Preserve, RenameCredentials, RenameConfig,
                    FailSwitch, RestoreCredentials, FailToRestore
<1>6. CASE CliStep \/ SwapSwitch \/ \E a \in Account : CliLogIn(a)
  BY <1>1, <1>6 DEF CliStep, OpenCli, CloseCli, CliLogOut, CliRotates, WriteBack, SwapSwitch,
                    CliLogIn
<1>7. CASE Crash BY <1>1, <1>7 DEF Crash
<1> QED BY <1>2, <1>3, <1>4, <1>5, <1>6, <1>7, NextCases

\* Tokens are written back to the login they came from, or the mishap is noted.
LEMMA WriteBackPaired ==
    ASSUME NEW login, WriteBack(login)
    PROVE  "overtaken" \in mishaps' \/ oauth'.account = oauth.account
BY DEF WriteBack, Mishap

LEMMA PairedStep == ASSUME TypeInv, Paired, [Next]_vars PROVE Paired'
<1>0. SUFFICES ASSUME "torn" \notin mishaps', "overtaken" \notin mishaps'
               PROVE  Paired'
  BY DEF Paired
<1> USE Typed
<1>1. /\ \A a \in Account : saved[a].account \in {a, NoAccount}
      /\ command.at # "renamed" => oauth.account \in {identity, NoAccount}
      /\ command.at = "renamed" => oauth.account = command.account
      /\ Switching => /\ command.login.account = command.account
                      /\ command.old.account \in {identity, NoAccount}
  BY <1>0, MishapsGrow DEF Paired
\* A step that leaves the command, the identity and the saved logins alone.
<1>2. ASSUME UNCHANGED <<command, identity, saved>>, oauth'.account = oauth.account PROVE Paired'
  BY <1>1, <1>2 DEF Paired, Switching
<1>3. CASE UNCHANGED vars BY <1>2, <1>3 DEF vars, files
<1>4. CASE FetchStep
  <2>1. CASE BeginFetch \/ AdoptFromDisk \/ SendRefresh \/ FailToPersist \/ EndFetch
    BY <1>2, <2>1 DEF BeginFetch, AdoptFromDisk, SendRefresh, FailToPersist, EndFetch, files
  <2>2. CASE Persist BY <1>0, <1>2, <2>2, WriteBackPaired DEF Persist
  <2> QED BY <1>4, <2>1, <2>2 DEF FetchStep
<1>5. CASE Probes BY <1>2, <1>5 DEF Probes, BeginProbe, EndProbe, files
<1>6. CASE Adds
  <2>0. NoCommand.at = "idle" BY DEF NoCommand
  <2>1. CASE BeginAdd \/ FailLogin \/ FailToImport
    <3>1. ~Switching' /\ command.at # "renamed" /\ command'.at # "renamed"
      BY <2>0, <2>1 DEF BeginAdd, FailLogin, FailToImport, CommandFree, NoCommand, Switching
    <3> QED BY <1>1, <2>1, <3>1 DEF BeginAdd, FailLogin, FailToImport, Paired, files
  <2>2. CASE ImportLogin
    <3>1. ~Switching' /\ command.at # "renamed" /\ command'.at # "renamed"
      BY <2>0, <2>2 DEF ImportLogin, Switching
    <3>2. \A a \in Account : saved'[a].account \in {a, NoAccount}
      BY <1>1, <2>2 DEF ImportLogin
    <3> QED BY <1>1, <2>2, <3>1, <3>2 DEF ImportLogin, Paired
  <2>3. CASE SaveCurrent
    <3>1. ~Switching /\ ~Switching' /\ command.at # "renamed" /\ command'.at # "renamed"
      BY <2>0, <2>3 DEF SaveCurrent, CommandFree, Switching
    <3>2. \A a \in Account : saved'[a].account \in {a, NoAccount}
      BY <1>1, <2>3, <3>1 DEF SaveCurrent
    <3> QED BY <1>1, <2>3, <3>1, <3>2 DEF SaveCurrent, Paired
  <2>4. ASSUME NEW a \in Account, SignIn(a) PROVE Paired'
    <3>1. command'.at = "signedIn" BY <2>4 DEF SignIn, Parts, CommandTyped, CommandState
    <3>2. ~Switching' /\ command.at # "renamed" BY <2>4, <3>1 DEF SignIn, Switching
    <3> QED BY <1>1, <2>4, <3>1, <3>2 DEF SignIn, Paired, files
  <2>5. ASSUME NEW a \in Account, Remove(a) PROVE Paired'
    <3>1. ~Switching /\ ~Switching' /\ command.at # "renamed" /\ command'.at # "renamed"
      BY <2>0, <2>5 DEF Remove, CommandFree, Switching
    <3>2. \A b \in Account : saved'[b].account \in {b, NoAccount}
      BY <1>1, <2>5 DEF Remove, NoLogin
    <3> QED BY <1>1, <2>5, <3>1, <3>2 DEF Remove, Paired
  <2> QED BY <1>6, <2>1, <2>2, <2>3, <2>4, <2>5 DEF Adds
<1>7. ASSUME NEW a \in Account, BeginSwitch(a) PROVE Paired'
  <2>1. /\ command'.at = "locked" /\ command'.account = a
        /\ command'.login = saved[a] /\ command'.old = oauth
        /\ command.at # "renamed" /\ saved[a] # NoLogin
        /\ UNCHANGED files
    BY <1>7 DEF BeginSwitch, CommandFree, NoCommand
  <2>2. saved[a].account = a
    <3>1. saved[a].account \in Account BY <2>1, LoginFields
    <3> QED BY <1>1, <3>1, ClaudeAssumption
  <2> QED BY <1>1, <2>1, <2>2 DEF Paired, files
<1>8. CASE SwitchStep
  <2>0. NoCommand.at = "idle" /\ command \in CommandState
    BY DEF NoCommand, Parts, CommandTyped
  <2>1. CASE Preserve
    <3>1. /\ command'.at = "preserved" /\ command'.account = command.account
          /\ command'.login = command.login /\ command'.old = command.old
          /\ Switching /\ command.at # "renamed"
      BY <2>0, <2>1 DEF Preserve, Switching, CommandState
    <3>2. \A a \in Account : saved'[a].account \in {a, NoAccount}
      BY <1>1, <2>1, <3>1 DEF Preserve
    <3> QED BY <1>1, <2>1, <3>1, <3>2 DEF Preserve, Paired
  <2>2. CASE RenameCredentials
    <3>1. /\ command'.at = "renamed" /\ command'.account = command.account
          /\ command'.login = command.login /\ command'.old = command.old
          /\ Switching
      BY <2>0, <2>2 DEF RenameCredentials, Switching, CommandState
    <3> QED BY <1>1, <2>2, <3>1 DEF RenameCredentials, Paired
  <2>3. CASE RenameConfig
    BY <1>1, <2>0, <2>3 DEF RenameConfig, Keeps, Paired, Switching
  <2>4. CASE FailSwitch
    <3>1. command.at # "renamed" BY <2>4 DEF FailSwitch
    <3> QED BY <1>1, <2>0, <2>4, <3>1 DEF FailSwitch, Keeps, Paired, Switching, files
  <2>5. CASE RestoreCredentials
    BY <1>1, <2>0, <2>5 DEF RestoreCredentials, Keeps, Paired, Switching
  <2>6. ~FailToRestore BY <1>0 DEF FailToRestore, Mishap
  <2> QED BY <1>8, <2>1, <2>2, <2>3, <2>4, <2>5, <2>6 DEF SwitchStep
<1>9. CASE OpenCli \/ CloseCli BY <1>2, <1>9 DEF OpenCli, CloseCli, files
<1>10. ASSUME NEW s \in Session, CliRotates(s) PROVE Paired'
  BY <1>0, <1>2, <1>10, WriteBackPaired DEF CliRotates
<1>11. CASE CliLogOut
  <2>1. ~Switching /\ ~Switching' /\ command.at # "renamed" /\ command' = command
    BY <1>11 DEF CliLogOut, Switching
  <2>2. oauth'.account = NoAccount BY <1>11 DEF CliLogOut, NoLogin
  <2> QED BY <1>1, <1>11, <2>1, <2>2 DEF CliLogOut, Paired
<1>12. CASE SwapSwitch
  <2>1. ~Switching' /\ command'.at # "renamed" BY <1>12 DEF SwapSwitch, CommandFree, NoCommand, Switching
  <2> QED BY <1>1, <1>12, <2>1 DEF SwapSwitch, Paired
<1>13. ASSUME NEW a \in Account, CliLogIn(a) PROVE Paired'
  <2>1. ~Switching' /\ command'.at # "renamed" BY <1>13 DEF CliLogIn, Switching
  <2>2. oauth'.account = a /\ identity' = a BY <1>13 DEF CliLogIn
  <2> QED BY <1>1, <1>13, <2>1, <2>2 DEF CliLogIn, Paired
<1>14. CASE Crash
  <2>1. command.at # "renamed" BY <1>0, <1>14 DEF Crash, Mishap
  <2>2. ~Switching' /\ command'.at = "idle" BY <1>14 DEF Crash, NoCommand, Switching
  <2> QED BY <1>1, <1>14, <2>1, <2>2 DEF Crash, Paired, files
<1> QED BY <1>3, <1>4, <1>5, <1>6, <1>7, <1>8, <1>9, <1>10, <1>11, <1>12, <1>13, <1>14,
           NextCases DEF CliStep

LEMMA PairedInit == Init => Paired
<1> SUFFICES ASSUME Init PROVE Paired OBVIOUS
<1>1. ~Switching /\ command.at = "idle" BY DEF Init, NoCommand, Switching
<1>2. \A a \in Account : saved[a].account = NoAccount BY DEF Init, NoLogin
<1>3. oauth.account = identity BY DEF Init
<1> QED BY <1>1, <1>2, <1>3 DEF Paired

\* Neither a switch that fails half-way nor a refresh, a save or a removal puts one
\* account's tokens beside another's identity; only a switch that could not go back
\* and a login that a refresh overtakes do.
THEOREM LoginsStayPaired == Spec => []LoginsPaired
<1>1. Paired => LoginsPaired BY DEF Paired, LoginsPaired
<1> QED BY <1>1, TypeInit, TypeStep, PairedInit, PairedStep, PTL DEF Spec

(***************************************************************************)
(* Tokens and their owners                                                 *)
(***************************************************************************)

\* Every login in a file or in memory, and what a refresh on its way will bring.
Logins ==
    {oauth, cache, slot, command.login, command.old, fetch.cred}
        \cup {saved[a] : a \in Account} \cup {cli[s] : s \in Session}
        \cup (IF fetch.at = "refreshing" THEN {Refreshed} ELSE {})

\* No token is ahead of the server's count, and each was handed out to one account.
Owned ==
    \A x \in Logins :
        /\ x.token <= issued
        /\ \A y \in Logins : x.token = y.token => x.account = y.account

\* A step copies logins, or brings one whose token is new.
Copies == issued' = issued /\ Logins' \subseteq Logins \cup {NoLogin}
Brings(login) ==
    /\ issued' = issued + 1 /\ login.token = issued + 1
    /\ Logins' \subseteq Logins \cup {NoLogin, login}

LEMMA LoginsTyped == ASSUME TypeInv PROVE Logins \subseteq MaybeLogin
BY Typed, RefreshedTyped DEF Logins

LEMMA OwnedWith ==
    ASSUME TypeInv, Owned, Copies \/ \E login \in MaybeLogin : Brings(login)
    PROVE  Owned'
<1>1. /\ issued \in Nat
      /\ \A x \in Logins : x.token \in Nat /\ (x.token = 0 => x.account = NoAccount)
  BY LoginsTyped, LoginFields, Typed, ClaudeAssumption DEF Parts, ServerTyped
<1>2. NoLogin.token = 0 /\ NoLogin.account = NoAccount BY DEF NoLogin
<1>3. CASE Copies BY <1>1, <1>2, <1>3 DEF Copies, Owned
<1>4. ASSUME NEW login \in MaybeLogin, Brings(login) PROVE Owned'
  BY <1>1, <1>2, <1>4 DEF Brings, Owned
<1> QED BY <1>3, <1>4

LEMMA LoginsStep ==
    ASSUME TypeInv, [Next]_vars
    PROVE  Copies \/ \E login \in MaybeLogin : Brings(login)
<1> USE Typed
<1>1. /\ oauth \in Logins /\ cache \in Logins /\ slot \in Logins /\ command.login \in Logins
      /\ command.old \in Logins /\ fetch.cred \in Logins
      /\ \A a \in Account : saved[a] \in Logins
      /\ \A s \in Session : cli[s] \in Logins
      /\ fetch.at = "refreshing" => Refreshed \in Logins
  BY DEF Logins
<1>2. /\ fetch \in FetchState /\ command \in CommandState
      /\ saved \in [Account -> MaybeLogin] /\ cli \in [Session -> MaybeLogin]
  BY DEF Parts, FetchTyped, CommandTyped, FilesTyped, CliTyped
<1>3. /\ NoCommand.login = NoLogin /\ NoCommand.old = NoLogin
      /\ NoFetch.cred = NoLogin /\ NoFetch.at = "idle"
  BY DEF NoCommand, NoFetch
<1>4. CASE UNCHANGED vars
  BY <1>4 DEF vars, files, server, Copies, Logins, Refreshed
<1>5. CASE FetchStep
  <2>1. CASE BeginFetch
    BY <1>1, <2>1 DEF BeginFetch, Fresher, files, server, Copies, Logins
  <2>2. CASE AdoptFromDisk
    BY <1>1, <1>2, <2>2 DEF AdoptFromDisk, FetchState, files, server, Copies, Logins
  <2>3. CASE SendRefresh
    <3> DEFINE now == IF oauth = NoLogin THEN fetch.cred ELSE oauth
               new == [account |-> now.account, token |-> issued + 1]
    <3>1. Rotate(now.token)
          /\ fetch' = [at |-> "refreshing", cred |-> now, fresh |-> issued + 1, file |-> now.account]
      BY <2>3 DEF SendRefresh
    <3>2. now \in Logins /\ now \in MaybeLogin /\ now.account \in Account
      BY <1>1, <2>3, LoginFields DEF SendRefresh, Fetching
    <3> HIDE DEF now
    <3>3. issued' = issued + 1 /\ issued' \in 1..MaxToken BY <3>1, ServerSteps
    <3>4. new \in MaybeLogin BY <3>2, <3>3, LoginIntro
    <3>5. Refreshed' = new BY <3>1 DEF Refreshed
    <3>6. Brings(new) BY <1>1, <2>3, <3>1, <3>2, <3>3, <3>5 DEF SendRefresh, Logins, Brings, files
    <3> QED BY <3>4, <3>6
  <2>4. CASE Persist \/ FailToPersist
    <3>1. /\ fetch'.at = "ready" /\ fetch'.cred = Refreshed /\ cache' = Refreshed
          /\ oauth' \in {oauth, Refreshed} /\ fetch.at = "refreshing"
          /\ UNCHANGED <<identity, saved, slot, command, cli, server>>
      BY <1>2, <2>4 DEF Persist, FailToPersist, WriteBack, FetchState, files
    <3> QED BY <1>1, <3>1 DEF Copies, Logins, server
  <2>5. CASE EndFetch BY <1>1, <1>3, <2>5 DEF EndFetch, files, server, Copies, Logins
  <2> QED BY <1>5, <2>1, <2>2, <2>3, <2>4, <2>5 DEF FetchStep
<1>6. ASSUME UNCHANGED <<fetch, issued>>,
             {oauth', cache', slot', command'.login, command'.old} \subseteq Logins \cup {NoLogin},
             \A a \in Account : saved'[a] \in Logins \cup {NoLogin},
             \A s \in Session : cli'[s] \in Logins \cup {NoLogin}
      PROVE  Copies
  BY <1>1, <1>6 DEF Copies, Logins, Refreshed
<1>7. ASSUME NEW login \in MaybeLogin, login.token = issued + 1, issued' = issued + 1,
             UNCHANGED fetch,
             {oauth', cache', slot', command'.login, command'.old}
                \subseteq Logins \cup {NoLogin, login},
             \A a \in Account : saved'[a] \in Logins \cup {NoLogin, login},
             \A s \in Session : cli'[s] \in Logins \cup {NoLogin, login}
      PROVE  Brings(login)
  BY <1>1, <1>7 DEF Brings, Logins, Refreshed
<1>8. CASE Probes
  BY <1>1, <1>2, <1>6, <1>8 DEF Probes, BeginProbe, EndProbe, files, server
<1>9. CASE Adds
  <2>1. CASE BeginAdd \/ FailLogin \/ ImportLogin \/ FailToImport \/ SaveCurrent
    <3>1. /\ UNCHANGED <<oauth, cache, slot, fetch, issued, cli>>
          /\ \A a \in Account : saved'[a] \in {saved[a], oauth, command.login}
      BY <1>2, <2>1 DEF BeginAdd, FailLogin, FailToImport, ImportLogin, SaveCurrent, files, server
    <3>2. command' = command \/ (command'.login = NoLogin /\ command'.old = NoLogin)
      BY <1>3, <2>1 DEF BeginAdd, FailLogin, FailToImport, ImportLogin, SaveCurrent, NoCommand
    <3> QED BY <1>1, <1>6, <3>1, <3>2
  <2>2. ASSUME NEW a \in Account, SignIn(a) PROVE \E login \in MaybeLogin : Brings(login)
    <3> DEFINE new == [account |-> a, token |-> issued + 1]
    <3>1. issued' = issued + 1 /\ issued' \in 1..MaxToken BY <2>2, ServerSteps DEF SignIn
    <3>2. new \in MaybeLogin /\ new.token = issued + 1 BY <3>1, LoginIntro
    <3>3. command'.login = new /\ command'.old = command.old
      BY <1>2, <2>2 DEF SignIn, CommandState
    <3> HIDE DEF new
    <3>4. UNCHANGED <<oauth, cache, slot, saved, cli, fetch>> BY <2>2 DEF SignIn, files
    <3>5. Brings(new) BY <1>1, <1>7, <3>1, <3>2, <3>3, <3>4
    <3> QED BY <3>2, <3>5
  <2>3. ASSUME NEW a \in Account, Remove(a) PROVE Copies
    BY <1>1, <1>2, <1>6, <2>3 DEF Remove, server
  <2> QED BY <1>9, <2>1, <2>2, <2>3 DEF Adds
<1>10. ASSUME NEW a \in Account, BeginSwitch(a) PROVE Copies
  <2>1. command'.login = saved[a] /\ command'.old = oauth
        /\ UNCHANGED <<oauth, cache, slot, saved, cli, fetch, issued>>
    BY <1>10 DEF BeginSwitch, files, server
  <2> QED BY <1>1, <1>6, <2>1
<1>11. CASE SwitchStep
  <2>1. /\ UNCHANGED <<slot, fetch, issued, cli>>
        /\ oauth' \in {oauth, command.login, command.old} /\ cache' \in {cache, NoLogin}
        /\ \A a \in Account : saved'[a] \in {saved[a], oauth}
    BY <1>2, <1>11 DEF SwitchStep, Preserve, RenameCredentials, RenameConfig, FailSwitch,
                RestoreCredentials, FailToRestore, files, server
  <2>2. \/ command'.login = command.login /\ command'.old = command.old
        \/ command'.login = NoLogin /\ command'.old = NoLogin
    BY <1>2, <1>3, <1>11 DEF SwitchStep, Preserve, RenameCredentials, RenameConfig, FailSwitch,
                RestoreCredentials, FailToRestore, Keeps, CommandState
  <2> QED BY <1>1, <1>6, <2>1, <2>2
<1>12. CASE OpenCli \/ CloseCli
  BY <1>1, <1>2, <1>6, <1>12 DEF OpenCli, CloseCli, files, server
<1>13. ASSUME NEW s \in Session, CliRotates(s) PROVE \E login \in MaybeLogin : Brings(login)
  <2> DEFINE new == [account |-> cli[s].account, token |-> issued + 1]
  <2>1. issued' = issued + 1 /\ issued' \in 1..MaxToken /\ cli[s].token \in 1..issued
    BY <1>13, ServerSteps DEF CliRotates
  <2>2. cli[s] # NoLogin BY <2>1 DEF NoLogin, Parts, ServerTyped
  <2>3. new \in MaybeLogin /\ new.token = issued + 1 BY <2>1, <2>2, LoginFields, LoginIntro
  <2>4. /\ oauth' = new /\ cli' = [cli EXCEPT ![s] = new]
        /\ UNCHANGED <<cache, slot, saved, command, fetch>>
    BY <1>13 DEF CliRotates, WriteBack
  <2> HIDE DEF new
  <2>5. Brings(new) BY <1>1, <1>2, <1>7, <2>1, <2>3, <2>4
  <2> QED BY <2>3, <2>5
<1>14. CASE CliLogOut BY <1>1, <1>2, <1>6, <1>14 DEF CliLogOut
<1>15. CASE SwapSwitch BY <1>1, <1>6, <1>15 DEF SwapSwitch, server
<1>16. ASSUME NEW a \in Account, CliLogIn(a) PROVE \E login \in MaybeLogin : Brings(login)
  <2> DEFINE new == [account |-> a, token |-> issued + 1]
  <2>1. issued' = issued + 1 /\ issued' \in 1..MaxToken BY <1>16, ServerSteps DEF CliLogIn
  <2>2. new \in MaybeLogin /\ new.token = issued + 1 BY <2>1, LoginIntro
  <2>3. /\ oauth' = new /\ \A s \in Session : cli'[s] \in {cli[s], new}
        /\ UNCHANGED <<cache, slot, saved, command, fetch>>
    BY <1>2, <1>16 DEF CliLogIn
  <2> HIDE DEF new
  <2>4. Brings(new) BY <1>1, <1>7, <2>1, <2>2, <2>3
  <2> QED BY <2>2, <2>4
<1>17. CASE Crash
  BY <1>1, <1>2, <1>3, <1>17 DEF Crash, files, server, Copies, Logins
<1> QED BY <1>4, <1>5, <1>8, <1>9, <1>10, <1>11, <1>12, <1>13, <1>14, <1>15, <1>16, <1>17,
           NextCases DEF CliStep

LEMMA OwnedInit == Init => Owned
<1> SUFFICES ASSUME Init PROVE Owned OBVIOUS
<1>1. PICK a, b \in Account :
          a # b /\ oauth = [account |-> a, token |-> 2] /\ slot = [account |-> b, token |-> 1]
  BY DEF Init
<1>2. Logins \subseteq {oauth, slot, NoLogin}
  BY DEF Init, Logins, NoCommand, NoFetch
<1>3. issued = 2 BY DEF Init
<1> QED BY <1>1, <1>2, <1>3 DEF Owned, NoLogin

LEMMA OwnedStep == ASSUME TypeInv, Owned, [Next]_vars PROVE Owned'
BY OwnedWith, LoginsStep

(***************************************************************************)
(* The cached token                                                        *)
(***************************************************************************)

\* A token later than the one of `login` is of the same account.
Succeeds(later, login) ==
    login # NoLogin /\ later.token > login.token => later.account = login.account

\* What the cache holds belongs to the file, and to what a switch may put back in it;
\* so does what a refresh on its way will bring.
Current ==
    /\ command.at # "renamed" => Succeeds(cache, oauth)
    /\ command.at = "renamed" => Succeeds(cache, command.old)
    /\ command.at \in {"locked", "preserved"} => command.old = oauth
    /\ Switching => cli["user"] = NoLogin
    /\ fetch.at = "refreshing" => Succeeds(Refreshed, oauth)
    /\ fetch.at \in {"refreshing", "ready"} => fetch.cred.account = fetch.file

CurrentInv == {"swapped", "torn"} \cap mishaps # {} \/ Current

\* A session's step in the middle of a switch: there is none whose token is good.
LEMMA NoSessionRotates ==
    ASSUME TypeInv, Switching => cli["user"] = NoLogin, NEW s \in Session, CliRotates(s)
    PROVE  ~Switching
<1>1. cli[s].token \in 1..issued BY ServerSteps DEF CliRotates
<1>2. cli[s] # NoLogin BY <1>1, Typed DEF NoLogin, Parts, ServerTyped
<1>3. Switching => ~Probing BY Typed DEF Parts, Exclusive
<1> QED BY <1>2, <1>3 DEF Session, Probing

LEMMA CurrentStep == ASSUME TypeInv, Owned, CurrentInv, [Next]_vars PROVE CurrentInv'
<1>0. SUFFICES ASSUME "torn" \notin mishaps', "swapped" \notin mishaps'
               PROVE  Current'
  BY DEF CurrentInv
<1> USE Typed
<1>1. Current BY <1>0, MishapsGrow DEF CurrentInv
<1>2. /\ issued \in Nat /\ oauth.token \in Nat /\ cache.token \in Nat /\ fetch.fresh \in Nat
      /\ cache.token <= issued /\ fetch.fresh <= issued
  <2>1. issued \in Nat /\ fetch.fresh \in Nat /\ (fetch.fresh # 0 => fetch.at = "refreshing")
    BY ClaudeAssumption DEF Parts, ServerTyped, FetchTyped, FetchState
  <2>2. oauth.token \in Nat /\ cache.token \in Nat BY LoginFields
  <2>3. cache.token <= issued BY DEF Owned, Logins
  <2>4. fetch.at = "refreshing" => fetch.fresh <= issued
    <3>1. fetch.at = "refreshing" => Refreshed \in Logins BY DEF Logins
    <3>2. Refreshed.token = fetch.fresh BY DEF Refreshed
    <3> QED BY <3>1, <3>2 DEF Owned
  <2> QED BY <2>1, <2>2, <2>3, <2>4
<1>3. fetch \in FetchState /\ command \in CommandState BY DEF Parts, FetchTyped, CommandTyped
<1>4. NoLogin.token = 0 /\ NoLogin.account = NoAccount /\ NoCommand.at = "idle"
      /\ NoFetch.at = "idle"
  BY DEF NoLogin, NoCommand, NoFetch
\* A step that leaves the credentials, the fetch and the cache alone, outside a switch.
<1>5. ASSUME UNCHANGED <<oauth, cache, fetch>>, ~Switching, ~Switching' PROVE Current'
  BY <1>1, <1>5 DEF Current, Switching, Succeeds, Refreshed
<1>6. ASSUME UNCHANGED <<oauth, cache, fetch, command>>, cli'["user"] = cli["user"] PROVE Current'
  BY <1>1, <1>6 DEF Current, Switching, Succeeds, Refreshed
<1>7. CASE UNCHANGED vars BY <1>6, <1>7 DEF vars, files
<1>8. CASE FetchStep
  <2>0. UNCHANGED <<command, cli>> /\ ~Switching
    BY <1>8 DEF FetchStep, BeginFetch, AdoptFromDisk, SendRefresh, Persist, FailToPersist,
                EndFetch, LockFree, Fetching, Parts, Exclusive
  <2>1. Succeeds(cache, oauth) BY <1>1, <2>0 DEF Current, Switching
  <2> SUFFICES /\ Succeeds(cache, oauth)'
               /\ fetch'.at = "refreshing" => Succeeds(Refreshed, oauth)'
               /\ fetch'.at \in {"refreshing", "ready"} => fetch'.cred.account = fetch'.file
    BY <2>0 DEF Current, Switching
  <2>2. CASE BeginFetch
    <3>1. Fresher.account = oauth.account
      BY <2>1, <2>2 DEF BeginFetch, Fresher, Succeeds
    <3>2. /\ fetch'.at \in {"stale", "ready"}
          /\ fetch'.cred = Fresher /\ fetch'.file = oauth.account
          /\ UNCHANGED <<oauth, cache>>
      BY <2>2 DEF BeginFetch, files
    <3> QED BY <2>1, <3>1, <3>2 DEF Succeeds
  <2>3. CASE AdoptFromDisk
    <3>1. cache' = oauth /\ oauth' = oauth /\ fetch'.at = "ready" /\ fetch'.cred = oauth
          /\ fetch'.file = oauth.account
      BY <1>3, <2>3 DEF AdoptFromDisk, FetchState, files
    <3> QED BY <3>1 DEF Succeeds
  <2>4. CASE SendRefresh
    <3>1. /\ fetch'.at = "refreshing" /\ fetch'.cred.account = fetch'.file
          /\ oauth # NoLogin => fetch'.cred = oauth
          /\ UNCHANGED <<oauth, cache>>
      BY <2>4 DEF SendRefresh, files
    <3> QED BY <2>1, <3>1 DEF Succeeds, Refreshed
  <2>5. CASE Persist
    <3>1. /\ cache' = Refreshed /\ oauth' = Refreshed
          /\ fetch'.at = "ready" /\ fetch'.cred = Refreshed /\ fetch'.file = fetch.file
          /\ fetch.at = "refreshing"
      BY <1>3, <2>5 DEF Persist, WriteBack, FetchState
    <3> QED BY <1>1, <3>1 DEF Succeeds, Refreshed, Current
  <2>6. CASE FailToPersist
    <3>1. /\ cache' = Refreshed /\ oauth' = oauth
          /\ fetch'.at = "ready" /\ fetch'.cred = Refreshed /\ fetch'.file = fetch.file
          /\ fetch.at = "refreshing"
      BY <1>3, <2>6 DEF FailToPersist, FetchState, files
    <3> QED BY <1>1, <3>1 DEF Succeeds, Refreshed, Current
  <2>7. CASE EndFetch BY <1>4, <2>1, <2>7 DEF EndFetch, Succeeds, files
  <2> QED BY <1>8, <2>2, <2>3, <2>4, <2>5, <2>6, <2>7 DEF FetchStep
<1>9. CASE Probes
  <2>1. cli'["user"] = cli["user"]
    BY <1>9 DEF Probes, BeginProbe, EndProbe, Parts, CliTyped, Session
  <2> QED BY <1>6, <1>9, <2>1 DEF Probes, BeginProbe, EndProbe, files
<1>10. CASE Adds
  <2>1. UNCHANGED <<oauth, cache, fetch, cli>>
    BY <1>10 DEF Adds, BeginAdd, FailLogin, FailToImport, ImportLogin, SaveCurrent, SignIn, Remove, files
  <2>2. command' = command \/ (~Switching /\ ~Switching')
    BY <1>3, <1>4, <1>10 DEF Adds, BeginAdd, FailLogin, FailToImport, ImportLogin, SaveCurrent, SignIn, Remove,
                             CommandFree, NoCommand, CommandState, Switching
  <2> QED BY <1>5, <1>6, <2>1, <2>2
<1>11. ASSUME NEW a \in Account, BeginSwitch(a) PROVE Current'
  <2>1. /\ command'.at = "locked" /\ command'.old = oauth /\ cli["user"] = NoLogin
        /\ ~Switching /\ ~Fetching
        /\ UNCHANGED <<oauth, cache, fetch, cli>>
    BY <1>11 DEF BeginSwitch, LockFree, files
  <2> QED BY <1>1, <2>1 DEF Current, Switching, Fetching, Succeeds
<1>12. CASE SwitchStep
  <2>0. fetch' = fetch /\ cli' = cli /\ Switching /\ fetch.at = "idle"
    BY <1>12 DEF SwitchStep, Preserve, RenameCredentials, RenameConfig, FailSwitch,
                 RestoreCredentials, FailToRestore, Switching, Parts, Exclusive, Fetching
  <2>1. CASE Preserve
    <3>1. command'.at = "preserved" /\ command'.old = command.old
          /\ command.at = "locked" /\ UNCHANGED <<oauth, cache>>
      BY <1>3, <2>1 DEF Preserve, CommandState
    <3> QED BY <1>1, <2>0, <3>1 DEF Current, Switching, Succeeds
  <2>2. CASE RenameCredentials
    <3>1. command'.at = "renamed" /\ command'.old = command.old
          /\ command.at = "preserved" /\ cache' = cache
      BY <1>3, <2>2 DEF RenameCredentials, CommandState
    <3> QED BY <1>1, <2>0, <3>1 DEF Current, Switching, Succeeds
  <2>3. CASE RenameConfig
    <3>1. command'.at = "idle" /\ cache'.token = 0 /\ oauth' = oauth
      BY <1>4, <2>3 DEF RenameConfig, Keeps
    <3> QED BY <1>2, <2>0, <3>1 DEF Current, Switching, Succeeds
  <2>4. CASE FailSwitch
    <3>1. command'.at = "idle" /\ command.at # "renamed" /\ UNCHANGED <<oauth, cache>>
      BY <1>4, <2>4 DEF FailSwitch, Keeps, files
    <3> QED BY <1>1, <2>0, <3>1 DEF Current, Switching, Succeeds
  <2>5. CASE RestoreCredentials
    <3>1. command'.at = "idle" /\ command.at = "renamed" /\ oauth' = command.old /\ cache' = cache
      BY <1>4, <2>5 DEF RestoreCredentials, Keeps
    <3> QED BY <1>1, <2>0, <3>1 DEF Current, Switching, Succeeds
  <2>6. ~FailToRestore BY <1>0 DEF FailToRestore, Mishap
  <2> QED BY <1>12, <2>1, <2>2, <2>3, <2>4, <2>5, <2>6 DEF SwitchStep
<1>13. CASE OpenCli
  <2>1. ~Switching /\ ~Switching' BY <1>13 DEF OpenCli, Switching
  <2> QED BY <1>5, <1>13, <2>1 DEF OpenCli, files
<1>14. CASE CloseCli
  <2>1. cli'["user"] = NoLogin BY <1>14 DEF CloseCli, Parts, CliTyped, Session
  <2>2. UNCHANGED <<oauth, cache, fetch, command>> BY <1>14 DEF CloseCli, files
  <2> QED BY <1>1, <2>1, <2>2 DEF Current, Switching, Succeeds, Refreshed
\* A new token is later than the cache's and than the one a fetch awaits.
<1>15. ASSUME oauth'.token = issued + 1, ~Switching, UNCHANGED <<cache, fetch, command>>
       PROVE  Current'
  BY <1>1, <1>2, <1>15 DEF Current, Switching, Succeeds, Refreshed
<1>16. ASSUME NEW s \in Session, CliRotates(s) PROVE Current'
  <2>1. ~Switching BY <1>1, <1>16, NoSessionRotates DEF Current
  <2> QED BY <1>15, <1>16, <2>1 DEF CliRotates, WriteBack
<1>17. CASE CliLogOut
  BY <1>1, <1>17 DEF CliLogOut, Current, Switching, Succeeds, Refreshed
<1>18. ~SwapSwitch BY <1>0 DEF SwapSwitch, Mishap
<1>19. ASSUME NEW a \in Account, CliLogIn(a) PROVE Current'
  BY <1>15, <1>19 DEF CliLogIn
<1>20. CASE Crash
  <2>1. command'.at = "idle" /\ fetch'.at = "idle" /\ cache'.token = 0 /\ oauth' = oauth
    BY <1>4, <1>20 DEF Crash, files
  <2> QED BY <1>2, <2>1 DEF Current, Switching, Succeeds
<1> QED BY <1>7, <1>8, <1>9, <1>10, <1>11, <1>12, <1>13, <1>14, <1>16, <1>17, <1>18, <1>19,
           <1>20, NextCases DEF CliStep

LEMMA CurrentInit == Init => CurrentInv
<1> SUFFICES ASSUME Init PROVE Current BY DEF CurrentInv
<1>1. cache.token = 0 /\ oauth.token = 2 /\ command.at = "idle" /\ fetch.at = "idle"
  BY DEF Init, NoLogin, NoCommand, NoFetch
<1> QED BY <1>1 DEF Current, Succeeds, Switching

\* Whatever is refreshed, switched, restored, or signed in meanwhile, a fetch shows
\* the usage of the account whose login it found in the file; only claude-swap and a
\* switch that could not go back leave another account's token in the cache.
THEOREM UsageIsActive == Spec => []UsageOfActive
<1>1. CurrentInv => UsageOfActive BY DEF CurrentInv, Current, UsageOfActive
<1> QED BY <1>1, TypeInit, TypeStep, OwnedInit, OwnedStep, CurrentInit, CurrentStep, PTL DEF Spec

(***************************************************************************)
(* The last good token                                                     *)
(***************************************************************************)

\* The logins a step may spend the token of: not the one claude-swap keeps, a new one
\* on its way to a fetch, nor that of a sign-in which has yet to be imported.
InUse ==
    {oauth, cache, command.old, fetch.cred}
        \cup {saved[a] : a \in Account} \cup {cli[s] : s \in Session}

Unused(token) == token \in valid /\ \A x \in InUse : x.token # token

Private ==
    /\ Unused(slot.token)
    /\ fetch.at = "refreshing" => Unused(fetch.fresh) /\ fetch.fresh # slot.token
    /\ command.at = "signedIn" =>
          /\ Unused(command.login.token) /\ command.login.token # slot.token
          /\ fetch.at = "refreshing" => command.login.token # fetch.fresh

\* Before a switch replaces the active login it is saved, and so is its target.
SwitchKeeps ==
    /\ command.at \in {"idle", "login"} => command.login = NoLogin
    /\ Switching => /\ command.account \in Account
                    /\ saved[command.account] = command.login
                    /\ command.old.account # command.account
    /\ command.at \in {"preserved", "renamed"} /\ command.old # NoLogin
          => saved[command.old.account] = command.old
    /\ command.at = "renamed" => oauth = command.login

\* The token of the active account is good, or a refresh brings a good one.
ActiveGood ==
    oauth.account \in Account \ gone =>
        \/ oauth.token \in valid
        \/ fetch.at = "refreshing" /\ fetch.cred.account = oauth.account

\* That of another account is good where it is saved, and no fetch is about to spend it.
StoredGood ==
    \A a \in Account \ gone :
        a # oauth.account =>
            \/ saved[a] = NoLogin /\ slot.account = a
            \/ /\ saved[a].token \in valid
               /\ Fetching => fetch.cred.token # saved[a].token

Kept == Private /\ SwitchKeeps /\ ActiveGood /\ StoredGood
KeptInv == mishaps = {} => Kept

\* What the other invariants add while nothing untoward has happened.
Calm ==
    /\ mishaps = {} /\ Kept /\ Current
    /\ \A a \in Account : saved[a].account \in {a, NoAccount}
    /\ command.at # "renamed" => oauth.account \in {identity, NoAccount}
    /\ Switching => command.login.account = command.account
    /\ \A a \in Account : saved[a] # NoLogin => saved[a].account = a
    /\ oauth # NoLogin /\ command.at # "renamed" => oauth.account = identity
    /\ oauth.account \in Account <=> oauth # NoLogin

LEMMA CalmFacts ==
    ASSUME TypeInv, Paired, CurrentInv, KeptInv, [Next]_vars, mishaps' = {}
    PROVE  Calm
<1>1. mishaps = {} BY MishapsGrow
<1>2. /\ \A a \in Account : saved[a].account \in {a, NoAccount}
      /\ command.at # "renamed" => oauth.account \in {identity, NoAccount}
      /\ Switching => command.login.account = command.account
  BY <1>1 DEF Paired
<1>3. \A x \in MaybeLogin : x # NoLogin <=> x.account \in Account
  BY LoginFields, ClaudeAssumption DEF NoLogin
<1>4. \A a \in Account : saved[a] # NoLogin => saved[a].account = a
  BY <1>2, <1>3, Typed, ClaudeAssumption
<1>5. oauth # NoLogin /\ command.at # "renamed" => oauth.account = identity
  BY <1>2, <1>3, Typed, ClaudeAssumption
<1> QED BY <1>1, <1>2, <1>3, <1>4, <1>5, Typed DEF CurrentInv, KeptInv, Calm

\* Tokens that the server accepts, of accounts other than the one spent.
LEMMA SameOwner ==
    ASSUME Owned, NEW x \in Logins, NEW y \in Logins, x.account # y.account
    PROVE  x.token # y.token
BY DEF Owned

LEMMA InUseLogins ==
    /\ InUse \subseteq Logins
    /\ slot \in Logins /\ command.login \in Logins
    /\ fetch.at = "refreshing" => Refreshed \in Logins /\ Refreshed.token = fetch.fresh
BY DEF InUse, Logins, Refreshed

\* What nobody uses stays good whatever token in use a step spends.
LEMMA UnusedStays ==
    ASSUME TypeInv, NEW t, Unused(t),
           (\A x \in InUse : x.token # t) => t \in valid',
           \A x \in InUse' : x \in InUse \/ x = NoLogin \/ x.token = issued + 1 \/ x.token # t
    PROVE  Unused(t)'
<1>1. issued \in Nat /\ valid \subseteq 1..issued
  BY Typed, ClaudeAssumption DEF Parts, ServerTyped
<1>2. t \in 1..issued BY <1>1 DEF Unused
<1>3. t # 0 /\ t # issued + 1 BY <1>1, <1>2
<1> QED BY <1>3 DEF Unused, NoLogin

LEMMA PrivateStays ==
    ASSUME TypeInv, Private, UNCHANGED slot,
           \A t \in valid : (\A x \in InUse : x.token # t) => t \in valid',
           \A x \in InUse' : x \in InUse \/ x = NoLogin \/ x.token = issued + 1,
           fetch'.at = "refreshing" => fetch.at = "refreshing" /\ fetch'.fresh = fetch.fresh,
           command'.at = "signedIn" => command.at = "signedIn" /\ command'.login = command.login
    PROVE  Private'
<1>1. \A t : Unused(t) => Unused(t)' BY UnusedStays DEF Unused
<1> QED BY <1>1 DEF Private

\* A saved login whose token is good is of the account it is saved for.
LEMMA StoredApart ==
    ASSUME TypeInv, Owned, Calm, NEW a \in Account, saved[a].token \in valid
    PROVE  /\ saved[a] # NoLogin
           /\ \A x \in Logins : x.account # a => x.token # saved[a].token
<1>1. saved[a] # NoLogin BY Typed DEF NoLogin, Parts, ServerTyped
<1>2. saved[a] \in Logins BY DEF Logins
<1> QED BY <1>1, <1>2, SameOwner DEF Calm

LEMMA KeptFetch == ASSUME TypeInv, Owned, Calm, mishaps' = {}, FetchStep PROVE Kept'
<1> USE Typed
<1>0. /\ UNCHANGED <<saved, slot, command, cli>> /\ ~Switching
      /\ command.at \notin {"locked", "preserved", "renamed"}
  BY DEF FetchStep, BeginFetch, AdoptFromDisk, SendRefresh, Persist, FailToPersist,
         EndFetch, LockFree, Fetching, Parts, Exclusive, files, WriteBack, Switching
<1>1. Private /\ SwitchKeeps /\ ActiveGood /\ StoredGood BY DEF Calm, Kept
<1>2. SwitchKeeps' BY <1>0, <1>1 DEF SwitchKeeps, Switching
<1>4. fetch \in FetchState /\ issued \in Nat /\ valid \subseteq 1..issued
  BY ClaudeAssumption DEF Parts, FetchTyped, ServerTyped
\* A fetch has loaded the login of the file, or its successor.
<1>5. ASSUME UNCHANGED <<oauth, valid, gone>>, fetch.at # "refreshing", fetch'.at # "refreshing",
             fetch'.cred \in InUse, oauth # NoLogin, fetch'.cred.account = oauth.account,
             cache' \in {cache, oauth}
      PROVE  Kept'
  <2>1. Private'
    <3>1. \A x \in InUse' : x \in InUse BY <1>0, <1>5 DEF InUse
    <3> QED BY <1>0, <1>1, <1>5, <3>1, PrivateStays
  <2>2. ActiveGood' BY <1>1, <1>5 DEF ActiveGood
  <2>3. fetch'.cred \in Logins BY <1>5, InUseLogins
  <2>4. StoredGood'
    <3> SUFFICES ASSUME NEW a \in Account \ gone, a # oauth.account,
                        saved[a].token \in valid
                 PROVE  fetch'.cred.token # saved[a].token
      BY <1>0, <1>1, <1>5 DEF StoredGood
    <3> QED BY <1>5, <2>3, StoredApart
  <2> QED BY <1>2, <2>1, <2>2, <2>4 DEF Kept
<1>6. CASE BeginFetch
  <2>1. Fresher.account = oauth.account
    BY <1>0, <1>6 DEF BeginFetch, Fresher, Succeeds, Current, Calm
  <2>2. Fresher \in InUse BY DEF Fresher, InUse
  <2> QED BY <1>5, <1>6, <2>1, <2>2 DEF BeginFetch, LockFree, Fetching, files, server
<1>7. CASE AdoptFromDisk
  <2>1. oauth # NoLogin /\ oauth \in InUse
    <3>1. fetch.cred.token \in Nat BY LoginFields
    <3> QED BY <1>7, <3>1 DEF AdoptFromDisk, NoLogin, InUse
  <2>2. fetch'.at = "ready" /\ fetch'.cred = oauth BY <1>4, <1>7 DEF AdoptFromDisk, FetchState
  <2> QED BY <1>5, <1>7, <2>1, <2>2 DEF AdoptFromDisk, files, server
<1>8. CASE SendRefresh
  <2> DEFINE now == IF oauth = NoLogin THEN fetch.cred ELSE oauth
  <2>1. Rotate(now.token)
        /\ fetch' = [at |-> "refreshing", cred |-> now, fresh |-> issued + 1, file |-> now.account]
    BY <1>8 DEF SendRefresh
  <2>2. now \in InUse /\ now \in Logins BY DEF InUse, Logins
  <2>3. oauth # NoLogin => now = oauth OBVIOUS
  <2>4. oauth = NoLogin => now = fetch.cred OBVIOUS
  <2> HIDE DEF now
  <2>5. UNCHANGED <<oauth, cache, gone>> BY <1>8 DEF SendRefresh, files
  <2>6. valid' = (valid \ {now.token}) \cup {issued + 1} BY <2>1 DEF Rotate
  <2>7. \A x \in InUse' : x \in InUse BY <1>0, <2>1, <2>2, <2>5 DEF InUse
  <2>8. \A t : Unused(t) => Unused(t)' /\ t # issued + 1
    <3> SUFFICES ASSUME NEW t, Unused(t) PROVE Unused(t)' /\ t # issued + 1 OBVIOUS
    <3>1. t \in valid' BY <2>2, <2>6 DEF Unused
    <3>2. t # issued + 1 BY <1>4 DEF Unused
    <3> QED BY <2>7, <3>1, <3>2 DEF Unused
  <2>9. issued + 1 \in valid' /\ \A x \in InUse' : x.token # issued + 1
    <3>1. \A x \in InUse : x.token # issued + 1
      BY <1>4, InUseLogins, LoginsTyped, LoginFields DEF Owned
    <3> QED BY <2>6, <2>7, <3>1
  <2>10. Private'
    <3>1. fetch'.fresh = issued + 1 BY <2>1
    <3>2. Unused(fetch.fresh)' BY <2>9, <3>1 DEF Unused
    <3> QED BY <1>0, <1>1, <2>8, <3>1, <3>2 DEF Private
  <2>11. ActiveGood'
    <3>1. fetch'.at = "refreshing" /\ fetch'.cred = now BY <2>1
    <3>2. oauth.account \in Account => now = oauth BY <2>3 DEF Calm
    <3> QED BY <2>5, <3>1, <3>2 DEF ActiveGood
  <2>12. StoredGood'
    <3> SUFFICES ASSUME NEW a \in Account \ gone, a # oauth.account,
                        saved[a].token \in valid, Fetching => fetch.cred.token # saved[a].token
                 PROVE  now.token # saved[a].token
      BY <1>0, <1>1, <2>1, <2>5, <2>6 DEF StoredGood
    <3>1. CASE oauth = NoLogin BY <1>8, <2>4, <3>1 DEF SendRefresh, Fetching
    <3>2. CASE oauth # NoLogin BY <2>2, <2>3, <3>2, StoredApart
    <3> QED BY <3>1, <3>2
  <2> QED BY <1>2, <2>10, <2>11, <2>12 DEF Kept
<1>9. CASE Persist \/ FailToPersist
  <2>1. /\ fetch.at = "refreshing" /\ cache' = Refreshed /\ oauth' \in {oauth, Refreshed}
        /\ valid' = valid /\ fetch'.at = "ready" /\ fetch'.cred = Refreshed
    BY <1>4, <1>9 DEF Persist, FailToPersist, WriteBack, FetchState, files, server
  <2>2. Refreshed.token = fetch.fresh /\ Refreshed.account = fetch.cred.account BY DEF Refreshed
  <2>3. oauth'.account = oauth.account
    BY <1>9 DEF Persist, FailToPersist, WriteBack, Mishap, files
  <2>4. Unused(fetch.fresh) /\ fetch.fresh # slot.token BY <1>1, <2>1 DEF Private
  <2>5. \A x \in InUse' : x \in InUse \/ x = Refreshed BY <1>0, <2>1 DEF InUse
  <2>6. \A t : Unused(t) /\ t # fetch.fresh => Unused(t)' BY <2>1, <2>2, <2>5 DEF Unused
  <2>7. Private' BY <1>0, <1>1, <2>1, <2>4, <2>6 DEF Private
  <2>8. ActiveGood'
    <3>1. CASE Persist
      BY <2>1, <2>2, <2>4, <3>1 DEF Persist, WriteBack, ActiveGood, Unused
    <3>2. CASE FailToPersist
      BY <1>1, <2>1, <3>2 DEF FailToPersist, ActiveGood, files
    <3> QED BY <1>9, <3>1, <3>2
  <2>9. gone \subseteq gone' BY <1>9 DEF Persist, FailToPersist
  <2>10. StoredGood'
    <3> SUFFICES ASSUME NEW a \in Account \ gone PROVE fetch.fresh # saved[a].token
      BY <1>0, <1>1, <2>1, <2>2, <2>3, <2>9 DEF StoredGood
    <3> QED BY <2>4 DEF Unused, InUse
  <2> QED BY <1>2, <2>7, <2>8, <2>10 DEF Kept
<1>10. CASE EndFetch
  <2>1. fetch'.at = "idle" /\ fetch'.cred = NoLogin /\ UNCHANGED <<oauth, cache, valid>>
    BY <1>10 DEF EndFetch, NoFetch, files, server
  <2>2. \A x \in InUse' : x \in InUse \/ x = NoLogin BY <1>0, <2>1 DEF InUse
  <2>3. Private' BY <1>0, <1>1, <2>1, <2>2, PrivateStays
  <2>4. gone \subseteq gone' /\ (fetch.at = "refreshing" => fetch.cred.account \in gone')
    BY <1>10 DEF EndFetch
  <2>5. ActiveGood' BY <1>1, <2>1, <2>4 DEF ActiveGood
  <2>6. StoredGood' BY <1>0, <1>1, <2>1, <2>4 DEF StoredGood, Fetching
  <2> QED BY <1>2, <2>3, <2>5, <2>6 DEF Kept
<1> QED BY <1>6, <1>7, <1>8, <1>9, <1>10 DEF FetchStep

\* A session that is opened or closed, and a probe, spend nothing.
LEMMA KeptQuiet ==
    ASSUME TypeInv, Calm, UNCHANGED <<oauth, saved, slot, cache, command, fetch, valid, gone>>,
           \A s \in Session : cli'[s] \in {cli[s], oauth, NoLogin}
    PROVE  Kept'
<1>1. \A x \in InUse' : x \in InUse \/ x = NoLogin BY DEF InUse
<1>2. Private' BY <1>1, PrivateStays DEF Calm, Kept
<1> QED BY <1>2 DEF Calm, Kept, SwitchKeeps, ActiveGood, StoredGood, Switching, Fetching

LEMMA KeptAdds == ASSUME TypeInv, Owned, Calm, mishaps' = {}, Adds PROVE Kept'
<1> USE Typed
<1>1. Private /\ SwitchKeeps /\ ActiveGood /\ StoredGood BY DEF Calm, Kept
<1>2. UNCHANGED <<oauth, slot, cache, fetch, cli>>
  BY DEF Adds, BeginAdd, FailLogin, FailToImport, ImportLogin, SaveCurrent, SignIn, Remove, files
<1>3. NoCommand.at = "idle" /\ NoCommand.login = NoLogin /\ NoCommand.old = NoLogin
  BY DEF NoCommand
<1>4. command \in CommandState /\ saved \in [Account -> MaybeLogin]
      /\ issued \in Nat /\ valid \subseteq 1..issued
  BY ClaudeAssumption DEF Parts, CommandTyped, FilesTyped, ServerTyped
\* The command ends or begins, and saves the active login, or drops a saved one.
<1>5. ASSUME UNCHANGED valid, command' = command \/ (command'.login = NoLogin /\ command'.old = NoLogin),
             command'.at \in {"idle", "login"},
             \A a \in Account : saved'[a] = saved[a] \/ a = oauth.account \/ a \in gone',
             \A a \in Account : saved'[a] \in {saved[a], oauth, NoLogin},
             gone \subseteq gone'
      PROVE  Kept'
  <2>1. \A x \in InUse' : x \in InUse \/ x = NoLogin BY <1>2, <1>5 DEF InUse
  <2>2. Private' BY <1>1, <1>2, <1>5, <2>1, PrivateStays
  <2>3. SwitchKeeps' BY <1>1, <1>5 DEF SwitchKeeps, Switching
  <2>5. ActiveGood' BY <1>1, <1>2, <1>5 DEF ActiveGood
  <2>6. StoredGood' BY <1>1, <1>2, <1>5 DEF StoredGood, Fetching
  <2> QED BY <2>2, <2>3, <2>5, <2>6 DEF Kept
<1>6. CASE BeginAdd
  <2>1. command'.at = "login" /\ command'.login = NoLogin /\ command'.old = NoLogin
    BY <1>6 DEF BeginAdd, NoCommand
  <2> QED BY <1>3, <1>5, <1>6, <2>1 DEF BeginAdd, CommandFree, files, server
<1>7. CASE FailLogin \/ FailToImport
  BY <1>3, <1>5, <1>7 DEF FailLogin, FailToImport, files, server
<1>8. CASE SaveCurrent
  <2>1. command = NoCommand /\ oauth # NoLogin /\ identity = oauth.account
    BY <1>3, <1>8 DEF SaveCurrent, CommandFree, CanPair, Calm
  <2>2. \A a \in Account : saved'[a] = IF a = oauth.account THEN oauth ELSE saved[a]
    BY <1>4, <1>8, <2>1 DEF SaveCurrent
  <2> QED BY <1>3, <1>5, <1>8, <2>1, <2>2 DEF SaveCurrent, server
<1>9. ASSUME NEW a \in Account, Remove(a) PROVE Kept'
  <2>1. command = NoCommand BY <1>9 DEF Remove, CommandFree
  <2>2. \A b \in Account : saved'[b] = IF b = a THEN NoLogin ELSE saved[b]
    BY <1>4, <1>9 DEF Remove
  <2>3. a = oauth.account \/ a \in gone'
    BY <1>3, <1>9, <2>1 DEF Remove, Calm
  <2> QED BY <1>3, <1>5, <1>9, <2>1, <2>2, <2>3 DEF Remove, server
<1>10. ASSUME NEW a \in Account, SignIn(a) PROVE Kept'
  <2>1. command.at = "login" /\ command'.at = "signedIn"
        /\ command'.login = [account |-> a, token |-> issued + 1] /\ command'.old = command.old
    BY <1>4, <1>10 DEF SignIn, CommandState
  <2>2. valid' = valid \cup {issued + 1} /\ saved' = saved /\ gone' = gone
    BY <1>10 DEF SignIn, Issue, files
  <2>3. \A x \in InUse' : x \in InUse BY <1>2, <2>1, <2>2 DEF InUse
  <2>4. \A t : Unused(t) => Unused(t)' /\ t # issued + 1
    <3> SUFFICES ASSUME NEW t, Unused(t) PROVE Unused(t)' /\ t # issued + 1 OBVIOUS
    <3>1. t # issued + 1 BY <1>4 DEF Unused
    <3> QED BY <2>2, <2>3, <3>1 DEF Unused
  <2>5. Unused(command.login.token)'
    <3>1. \A x \in InUse : x.token # issued + 1
      BY <1>4, InUseLogins, LoginsTyped, LoginFields DEF Owned
    <3> QED BY <2>1, <2>2, <2>3, <3>1 DEF Unused
  <2>6. Private' BY <1>1, <1>2, <2>1, <2>4, <2>5 DEF Private
  <2>7. SwitchKeeps' BY <2>1 DEF SwitchKeeps, Switching
  <2>9. ActiveGood' BY <1>1, <1>2, <2>2 DEF ActiveGood
  <2>10. StoredGood' BY <1>1, <1>2, <2>2 DEF StoredGood, Fetching
  <2> QED BY <2>6, <2>7, <2>9, <2>10 DEF Kept
<1>11. CASE ImportLogin
  <2> DEFINE a == command.login.account
  <2>1. /\ command.at = "signedIn" /\ LockFree /\ command' = NoCommand
        /\ saved' = [saved EXCEPT ![a] = command.login]
        /\ UNCHANGED valid /\ gone' = gone \ {a}
    BY <1>11 DEF ImportLogin, server
  <2>2. a \in Account BY <2>1, LoginFields DEF Parts, CommandTyped
  <2>3. a # identity BY <1>11 DEF ImportLogin, Mishap
  <2>4. fetch.at = "idle" /\ command.at # "renamed" BY <2>1 DEF LockFree, Fetching
  <2>7. a # oauth.account BY <2>2, <2>3, <2>4 DEF Calm
  <2> HIDE DEF a
  <2>8. \A b \in Account : saved'[b] = IF b = a THEN command.login ELSE saved[b]
    BY <1>4, <2>1, <2>2
  <2>9. Unused(command.login.token) /\ command.login.token # slot.token
    BY <1>1, <2>1 DEF Private
  <2>10. Unused(slot.token)'
    <3>1. \A x \in InUse' : x \in InUse \/ x = NoLogin \/ x = command.login
      BY <1>2, <1>3, <2>1, <2>8 DEF InUse
    <3>2. Unused(slot.token) /\ valid' = valid /\ slot' = slot BY <1>1, <1>2, <2>1 DEF Private
    <3>3. slot.token # 0 BY <1>4, <3>2 DEF Unused
    <3> QED BY <2>9, <3>1, <3>2, <3>3 DEF Unused, NoLogin
  <2>11. Private' BY <1>2, <1>3, <2>1, <2>4, <2>10 DEF Private
  <2>12. SwitchKeeps' BY <1>3, <2>1 DEF SwitchKeeps, Switching
  <2>13. ActiveGood' BY <1>1, <1>2, <2>1, <2>7 DEF ActiveGood
  <2>14. StoredGood'
    BY <1>1, <1>2, <2>1, <2>4, <2>8, <2>9 DEF StoredGood, Fetching, Unused
  <2> QED BY <2>11, <2>12, <2>13, <2>14 DEF Kept
<1> QED BY <1>6, <1>7, <1>8, <1>9, <1>10, <1>11 DEF Adds

LEMMA KeptSwitch ==
    ASSUME TypeInv, Owned, Calm, mishaps' = {}, SwitchStep \/ \E a \in Account : BeginSwitch(a)
    PROVE  Kept'
<1> USE Typed
<1>1. Private /\ SwitchKeeps /\ ActiveGood /\ StoredGood BY DEF Calm, Kept
<1>2. NoCommand.at = "idle" /\ NoCommand.login = NoLogin /\ NoCommand.old = NoLogin
  BY DEF NoCommand
<1>3. command \in CommandState /\ saved \in [Account -> MaybeLogin]
      /\ valid \subseteq 1..issued /\ NoLogin.token = 0 /\ issued \in Nat
  BY ClaudeAssumption DEF Parts, CommandTyped, FilesTyped, ServerTyped, NoLogin
<1>4. /\ UNCHANGED <<slot, fetch, cli, valid, gone>>
      /\ fetch.at = "idle" /\ command.at # "signedIn" /\ command'.at # "signedIn"
  BY <1>2, <1>3 DEF SwitchStep, BeginSwitch, Preserve, RenameCredentials, RenameConfig, FailSwitch,
          RestoreCredentials, FailToRestore, Keeps, CommandFree, files, server, LockFree,
          Fetching, Parts, Exclusive, Switching, CommandState
<1>6. /\ oauth.account \in Account \ gone => oauth.token \in valid
      /\ \A a \in Account \ gone : a # oauth.account =>
            (saved[a] = NoLogin /\ slot.account = a) \/ saved[a].token \in valid
  BY <1>1, <1>4 DEF ActiveGood, StoredGood
<1>7. ASSUME SwitchKeeps', \A x \in InUse' : x \in InUse \/ x = NoLogin,
             oauth'.account \in Account \ gone => oauth'.token \in valid,
             \A a \in Account \ gone : a # oauth'.account =>
                (saved'[a] = NoLogin /\ slot.account = a) \/ saved'[a].token \in valid
      PROVE  Kept'
  <2>1. Private' BY <1>1, <1>4, <1>7, PrivateStays
  <2>2. ActiveGood' BY <1>4, <1>7 DEF ActiveGood
  <2>3. StoredGood' BY <1>4, <1>7 DEF StoredGood, Fetching
  <2> QED BY <1>7, <2>1, <2>2, <2>3 DEF Kept
<1>8. ASSUME NEW a \in Account, BeginSwitch(a) PROVE Kept'
  <2>1. /\ command'.at = "locked" /\ command'.account = a /\ command'.login = saved[a]
        /\ command'.old = oauth /\ UNCHANGED <<oauth, saved, cache>>
    BY <1>8 DEF BeginSwitch, files
  <2>2. oauth.account # a
    BY <1>2, <1>8, ClaudeAssumption DEF BeginSwitch, CommandFree, Calm, NoLogin
  <2>3. SwitchKeeps' BY <2>1, <2>2 DEF SwitchKeeps, Switching
  <2>4. \A x \in InUse' : x \in InUse BY <1>4, <2>1 DEF InUse
  <2> QED BY <1>6, <1>7, <2>1, <2>3, <2>4
<1>9. CASE Preserve
  <2>1. /\ command.at = "locked" /\ command'.at = "preserved"
        /\ command'.account = command.account /\ command'.login = command.login
        /\ command'.old = command.old /\ UNCHANGED <<oauth, cache>>
    BY <1>3, <1>9 DEF Preserve, CommandState
  <2>2. command.old = oauth BY <2>1 DEF Calm, Current
  <2>3. oauth # NoLogin => identity = oauth.account BY <2>1 DEF Calm
  <2>4. \A a \in Account : saved'[a] = IF oauth # NoLogin /\ a = oauth.account THEN oauth ELSE saved[a]
    BY <1>3, <1>9, <2>3 DEF Preserve
  <2>5. Switching /\ command.account \in Account /\ saved[command.account] = command.login
        /\ oauth.account # command.account
    BY <1>1, <2>1, <2>2 DEF SwitchKeeps, Switching
  <2>6. oauth # NoLogin => oauth.account \in Account BY DEF Calm
  <2>7. SwitchKeeps' BY <2>1, <2>2, <2>4, <2>5, <2>6 DEF SwitchKeeps, Switching
  <2>8. \A x \in InUse' : x \in InUse BY <1>4, <2>1, <2>4 DEF InUse
  <2> QED BY <1>6, <1>7, <2>1, <2>4, <2>7, <2>8
<1>10. CASE RenameCredentials
  <2>1. /\ command.at = "preserved" /\ command'.at = "renamed" /\ oauth' = command.login
        /\ command'.account = command.account /\ command'.login = command.login
        /\ command'.old = command.old /\ UNCHANGED <<saved, cache>>
    BY <1>3, <1>10 DEF RenameCredentials, CommandState
  <2>2. command.old = oauth BY <2>1 DEF Calm, Current
  <2>3. Switching /\ command.account \in Account /\ saved[command.account] = command.login
        /\ oauth.account # command.account /\ command.login.account = command.account
        /\ (oauth # NoLogin => saved[oauth.account] = oauth)
    BY <1>1, <2>1, <2>2 DEF SwitchKeeps, Switching, Calm
  <2>4. SwitchKeeps' BY <2>1, <2>2, <2>3 DEF SwitchKeeps, Switching
  <2>5. \A x \in InUse' : x \in InUse BY <1>4, <2>1, <2>3 DEF InUse
  <2>6. command.login # NoLogin BY <2>3, ClaudeAssumption DEF NoLogin
  <2>7. oauth.account \in Account => oauth # NoLogin BY DEF Calm
  <2> QED BY <1>6, <1>7, <2>1, <2>3, <2>4, <2>5, <2>6, <2>7
<1>11. CASE RenameConfig \/ FailSwitch
  <2>1. command' = NoCommand /\ UNCHANGED <<oauth, saved>> /\ cache' \in {cache, NoLogin}
    BY <1>11 DEF RenameConfig, FailSwitch, Keeps, files
  <2>2. SwitchKeeps' BY <1>2, <2>1 DEF SwitchKeeps, Switching
  <2>3. \A x \in InUse' : x \in InUse \/ x = NoLogin BY <1>2, <1>4, <2>1 DEF InUse
  <2> QED BY <1>6, <1>7, <2>1, <2>2, <2>3
<1>12. CASE RestoreCredentials
  <2>1. command' = NoCommand /\ oauth' = command.old /\ UNCHANGED <<saved, cache>>
        /\ command.at = "renamed"
    BY <1>12 DEF RestoreCredentials, Keeps
  <2>2. SwitchKeeps' BY <1>2, <2>1 DEF SwitchKeeps, Switching
  <2>3. \A x \in InUse' : x \in InUse \/ x = NoLogin BY <1>2, <1>4, <2>1 DEF InUse
  <2>4. /\ command.account \in Account /\ saved[command.account] = oauth
        /\ oauth.account = command.account /\ command.old.account # command.account
        /\ command.old # NoLogin => saved[command.old.account] = command.old
    BY <1>1, <2>1 DEF SwitchKeeps, Switching, Calm
  <2>5. command.old.account \in Account => command.old # NoLogin
    BY ClaudeAssumption DEF NoLogin
  <2> QED BY <1>6, <1>7, <2>1, <2>2, <2>3, <2>4, <2>5
<1>13. ~FailToRestore BY DEF FailToRestore, Mishap
<1> QED BY <1>8, <1>9, <1>10, <1>11, <1>12, <1>13 DEF SwitchStep

LEMMA KeptCli ==
    ASSUME TypeInv, Owned, Calm, mishaps' = {},
           CliStep \/ SwapSwitch \/ \E a \in Account : CliLogIn(a)
    PROVE  Kept'
<1> USE Typed
<1>1. Private /\ SwitchKeeps /\ ActiveGood /\ StoredGood BY DEF Calm, Kept
<1>2. issued \in Nat /\ cli \in [Session -> MaybeLogin] /\ oauth \in InUse
      /\ \A s \in Session : cli[s] \in InUse /\ cli[s] \in Logins
  BY ClaudeAssumption DEF Parts, ServerTyped, CliTyped, InUse, Logins
<1>3. CASE OpenCli \/ CloseCli
  BY <1>2, <1>3, KeptQuiet DEF OpenCli, CloseCli, files, server
\* A token in use is spent, or a new login replaces the active one.
<1>4. ASSUME NEW spent \in InUse, UNCHANGED <<saved, slot, cache, command, fetch>>, ~Switching,
             valid \ {spent.token} \subseteq valid',
             \A s \in Session : cli'[s] \in {cli[s], oauth', NoLogin},
             oauth' = NoLogin \/ (oauth'.token = issued + 1 /\ issued + 1 \in valid'),
             \A a \in Account \ gone' : a # oauth'.account =>
                a \notin gone /\ a # oauth.account /\ a # spent.account
      PROVE  Kept'
  <2>1. \A x \in InUse' : x \in InUse \/ x = NoLogin \/ x.token = issued + 1
    BY <1>4 DEF InUse
  <2>2. Private' BY <1>1, <1>4, <2>1, PrivateStays
  <2>3. SwitchKeeps' BY <1>1, <1>4 DEF SwitchKeeps, Switching
  <2>4. ActiveGood' BY <1>4, ClaudeAssumption DEF ActiveGood, NoLogin
  <2>6. \A a \in Account : saved[a].token \in valid /\ a # spent.account
            => saved[a].token \in valid'
    BY <1>4, StoredApart, InUseLogins
  <2>7. StoredGood' BY <1>1, <1>4, <2>6 DEF StoredGood, Fetching
  <2> QED BY <2>2, <2>3, <2>4, <2>7 DEF Kept
<1>5. ASSUME NEW s \in Session, CliRotates(s) PROVE Kept'
  <2>1. ~Switching BY <1>5, NoSessionRotates DEF Calm, Current
  <2>2. oauth'.token = issued + 1 /\ oauth'.account = cli[s].account
        /\ cli' = [cli EXCEPT ![s] = oauth']
    BY <1>5 DEF CliRotates, WriteBack
  <2>3. oauth.account = cli[s].account BY <1>5 DEF CliRotates, WriteBack, Mishap
  <2>4. issued + 1 \in valid' /\ valid \ {cli[s].token} \subseteq valid'
    BY <1>5 DEF CliRotates, Rotate
  <2> QED BY <1>2, <1>4, <1>5, <2>1, <2>2, <2>3, <2>4 DEF CliRotates
<1>6. CASE CliLogOut
  BY <1>2, <1>4, <1>6 DEF CliLogOut
<1>7. ASSUME NEW a \in Account, CliLogIn(a) PROVE Kept'
  <2>1. oauth'.token = issued + 1 /\ oauth'.account = a /\ issued + 1 \in valid'
        /\ valid \subseteq valid'
    BY <1>7 DEF CliLogIn, Issue
  <2>2. \A b \in Account \ gone' : b # a => b \notin gone /\ b # oauth.account
    BY <1>7, ClaudeAssumption DEF CliLogIn
  <2>3. \A s \in Session : cli'[s] \in {cli[s], oauth'} BY <1>2, <1>7 DEF CliLogIn
  <2> QED BY <1>2, <1>4, <1>7, <2>1, <2>2, <2>3 DEF CliLogIn
<1>8. ~SwapSwitch BY DEF SwapSwitch, Mishap
<1> QED BY <1>3, <1>5, <1>6, <1>7, <1>8 DEF CliStep

LEMMA KeptCrash == ASSUME TypeInv, Calm, mishaps' = {}, Crash PROVE Kept'
<1> USE Typed
<1>1. /\ UNCHANGED <<oauth, saved, slot, valid>> /\ gone' = gone \cup InFlight
      /\ command'.at = "idle" /\ command'.login = NoLogin /\ command'.old = NoLogin
      /\ cache' = NoLogin /\ fetch'.at = "idle" /\ fetch'.cred = NoLogin
      /\ \A s \in Session : cli'[s] \in {cli[s], NoLogin}
  BY DEF Crash, NoCommand, NoFetch, files, server, Parts, CliTyped
<1>2. \A x \in InUse' : x \in InUse \/ x = NoLogin BY <1>1 DEF InUse
<1>3. Private' BY <1>1, <1>2, PrivateStays DEF Calm, Kept
<1>4. SwitchKeeps' BY <1>1 DEF SwitchKeeps, Switching
<1>6. ActiveGood' BY <1>1 DEF Calm, Kept, ActiveGood, InFlight
<1>7. StoredGood' BY <1>1 DEF Calm, Kept, StoredGood, Fetching
<1> QED BY <1>3, <1>4, <1>6, <1>7 DEF Kept

LEMMA KeptStep ==
    ASSUME TypeInv, Owned, Paired, CurrentInv, KeptInv, [Next]_vars
    PROVE  KeptInv'
<1> SUFFICES ASSUME mishaps' = {} PROVE Kept' BY DEF KeptInv
<1>1. Calm BY CalmFacts
<1>2. CASE UNCHANGED vars BY <1>1, <1>2, KeptQuiet DEF vars, files, server
<1>3. CASE Probes
  BY <1>1, <1>3, KeptQuiet, Typed DEF Probes, BeginProbe, EndProbe, files, server, Parts, CliTyped
<1> QED BY <1>1, <1>2, <1>3, NextCases, KeptFetch, KeptAdds, KeptSwitch, KeptCli, KeptCrash

\* While there was no mishap, no interleaving of switches, refreshes, imported sign-ins,
\* saves, removals, failed steps and crashes loses the last good token of an account
\* nobody gave up, save for an answer to a refresh that reached no file.
THEOREM LoginIsKept == Spec => []LoginKept
<1>1. Init => KeptInv
  <2> SUFFICES ASSUME Init PROVE Kept BY DEF KeptInv
  <2>1. PICK a, b \in Account :
            /\ a # b
            /\ oauth = [account |-> a, token |-> 2] /\ slot = [account |-> b, token |-> 1]
            /\ gone = Account \ {a, b}
    BY DEF Init
  <2>2. /\ valid = {1, 2} /\ command.at = "idle" /\ fetch.at = "idle" /\ command.login = NoLogin
        /\ \A c \in Account : saved[c] = NoLogin
    BY DEF Init, NoCommand, NoFetch
  <2>3. InUse \subseteq {oauth, NoLogin} BY DEF Init, InUse, NoCommand, NoFetch
  <2>4. Private BY <2>1, <2>2, <2>3 DEF Private, Unused, NoLogin
  <2>5. SwitchKeeps BY <2>2 DEF SwitchKeeps, Switching
  <2>6. ActiveGood BY <2>1, <2>2 DEF ActiveGood
  <2>7. StoredGood BY <2>1, <2>2 DEF StoredGood
  <2> QED BY <2>4, <2>5, <2>6, <2>7 DEF Kept
<1>2. TypeInv /\ Paired /\ KeptInv => LoginKept
  <2> SUFFICES ASSUME TypeInv, Paired, mishaps = {}, Kept, NEW a \in Account \ gone
               PROVE  Reachable(a)
    BY DEF KeptInv, LoginKept
  <2>1. Private /\ ActiveGood /\ StoredGood BY DEF Kept
  <2>3. CASE a = oauth.account
    BY <2>1, <2>3 DEF ActiveGood, Reachable, Held
  <2>4. CASE a # oauth.account
    <3>1. CASE slot.account = a BY <2>1, <3>1 DEF Private, Unused, Reachable, Held
    <3>2. CASE saved[a].token \in valid
      <4>1. saved[a] # NoLogin /\ saved[a].account \in {a, NoAccount}
        BY <3>2, Typed DEF Paired, NoLogin, Parts, ServerTyped
      <4>2. saved[a].account = a BY <4>1, LoginFields, Typed, ClaudeAssumption
      <4> QED BY <3>2, <4>2 DEF Reachable, Held
    <3> QED BY <2>1, <2>4, <3>1, <3>2 DEF StoredGood
  <2> QED BY <2>3, <2>4
<1> QED BY <1>1, <1>2, TypeInit, TypeStep, OwnedInit, OwnedStep, PairedInit, PairedStep,
           CurrentInit, CurrentStep, KeptStep, PTL DEF Spec
=============================================================================
