------------------------------ MODULE Updater -------------------------------
(***************************************************************************)
(* The update lifecycle: apps/desktop-tauri/src-tauri/src/commands/         *)
(* updater.rs over the three fields of AppState it keeps.                   *)
(*                                                                         *)
(* Commands check, download, dismiss and apply run concurrently.  A download *)
(* is a task that outlives its command and has a second task beside it,      *)
(* which turns the transfer's progress into state.  Every change is locked,  *)
(* but the payload that announces it is emitted after the lock is released.  *)
(***************************************************************************)
EXTENDS Naturals

CONSTANTS
    Command,     \* concurrent calls of the commands
    Version,     \* releases a check can find
    NoVersion,   \* None
    Installable, \* the releases with an installer and a digest (supports_auto_download)
    MaxCalls     \* bound: commands invoked

ASSUME UpdaterAssumption ==
    /\ NoVersion \notin Version
    /\ Installable \subseteq Version
    /\ MaxCalls \in Nat

VARIABLES
    \* AppState
    status,    \* update_state
    info,      \* update_info
    installer, \* installer_path
    \* calls
    at,        \* where the call, or the download task it spawned, is
    got,       \* the release it downloads
    payload,   \* the status it has yet to emit
    \* the progress task of a download
    prog,      \* where it is
    unseen,    \* what the watch channel holds that it has not seen
    \* surroundings
    shown,     \* the status the surfaces received last
    launched,  \* the installer was started and the program has exited
    \* history and bound
    dismissed, \* dismissed, and no check has answered since
    calls      \* commands invoked

state    == <<status, info, installer>>
progress == <<prog, unseen>>
updVars  == <<state, at, got, payload, progress, shown, launched, dismissed, calls>>

Status == {"Idle", "Checking", "Available", "Downloading", "Ready", "Error"}

UpdInit ==
    /\ status = "Idle" /\ info = NoVersion /\ installer = NoVersion
    /\ at = [c \in Command |-> "idle"]
    /\ got = [c \in Command |-> NoVersion]
    /\ payload = [c \in Command |-> "Idle"]
    /\ prog = [c \in Command |-> "off"]
    /\ unseen = [c \in Command |-> "nothing"]
    /\ shown = "Idle"
    /\ launched = FALSE
    /\ dismissed = FALSE
    /\ calls = 0

MoveTo(c, where) == at' = [at EXCEPT ![c] = where]

\* Under the lock: the new state, and the payload made from it.
Set(c, s, i, path) ==
    /\ status' = s /\ info' = i /\ installer' = path
    /\ payload' = [payload EXCEPT ![c] = s]

\* What the surfaces offer: a check also runs when a window opens, and quitting
\* applies what is ready.
Offers(command) ==
    CASE command = "check"    -> TRUE
      [] command = "download" -> shown = "Available"
      [] command = "dismiss"  -> shown \in {"Available", "Ready", "Error"}
      [] command = "apply"    -> TRUE

Invoke(c) ==
    /\ ~launched
    /\ at[c] = "idle" /\ prog[c] = "off"
    /\ calls < MaxCalls
    /\ calls' = calls + 1
    /\ \E command \in {"check", "download", "dismiss", "apply"} :
          Offers(command) /\ MoveTo(c, command)
    /\ UNCHANGED <<state, got, payload, progress, shown, launched, dismissed>>

\* emit_update_state_changed, outside the lock
Emit(c, from, to) ==
    /\ at[c] = from
    /\ shown' = payload[c]
    /\ MoveTo(c, to)
    /\ UNCHANGED <<state, got, payload, launched, dismissed, calls>>
-----------------------------------------------------------------------------
(* check_for_updates *)

BeginCheck(c) ==
    /\ at[c] = "check"
    /\ status \notin {"Checking", "Downloading"}
    /\ Set(c, "Checking", NoVersion, NoVersion)
    /\ MoveTo(c, "announce")
    /\ UNCHANGED <<got, progress, shown, launched, dismissed, calls>>

RefuseCheck(c) ==
    /\ at[c] = "check"
    /\ status \in {"Checking", "Downloading"}
    /\ MoveTo(c, "idle")
    /\ UNCHANGED <<state, got, payload, progress, shown, launched, dismissed, calls>>

\* The payload is made under a second lock.
Announce(c) ==
    /\ at[c] = "announce"
    /\ payload' = [payload EXCEPT ![c] = status]
    /\ MoveTo(c, "emitChecking")
    /\ UNCHANGED <<state, got, progress, shown, launched, dismissed, calls>>

EmitChecking(c) == Emit(c, "emitChecking", "network") /\ UNCHANGED progress

\* Mutant: the command returns the timeout as its own error.
AnswerOrReturn(c) ==
    /\ at[c] = "network"
    /\ \/ /\ \E v \in Version : Set(c, "Available", v, installer)
          /\ MoveTo(c, "emit")
       \/ MoveTo(c, "idle") /\ UNCHANGED <<state, payload>>
    /\ dismissed' = FALSE
    /\ UNCHANGED <<got, progress, shown, launched, calls>>

\* A newer release, none (or no answer that can be read), or the timeout;
\* installer_path is left alone.
Answer(c) ==
    /\ at[c] = "network"
    /\ \/ \E v \in Version : Set(c, "Available", v, installer)
       \/ \E s \in {"Idle", "Error"} : Set(c, s, NoVersion, installer)
    /\ MoveTo(c, "emit")
    /\ dismissed' = FALSE
    /\ UNCHANGED <<got, progress, shown, launched, calls>>

\* The last event of a check or a dismissal
EmitLast(c) == Emit(c, "emit", "idle") /\ UNCHANGED progress
-----------------------------------------------------------------------------
(* download_update and the tasks it spawns *)

Downloadable == status \in {"Available", "Error"} /\ info \in Installable

\* update_info_for_download
ReadInfo(c) ==
    /\ at[c] = "download"
    /\ Downloadable
    /\ got' = [got EXCEPT ![c] = info]
    /\ MoveTo(c, "begin")
    /\ UNCHANGED <<state, payload, progress, shown, launched, dismissed, calls>>

\* Already downloading, nothing to download, or a release without an installer
RefuseDownload(c) ==
    /\ at[c] = "download"
    /\ ~Downloadable
    /\ MoveTo(c, "idle")
    /\ UNCHANGED <<state, got, payload, progress, shown, launched, dismissed, calls>>

\* set_downloading_state, which does not look at the state again
BeginDownload(c) ==
    /\ at[c] = "begin"
    /\ Set(c, "Downloading", info, installer)
    /\ MoveTo(c, "emitStart")
    /\ UNCHANGED <<got, progress, shown, launched, dismissed, calls>>

\* The command's event; then it spawns the download and its progress task.
EmitStart(c) ==
    /\ Emit(c, "emitStart", "transfer")
    /\ prog' = [prog EXCEPT ![c] = "listen"]
    /\ unseen' = [unseen EXCEPT ![c] = "nothing"]

\* A chunk was written: the channel keeps the latest value only.
Chunk(c) ==
    /\ at[c] = "transfer"
    /\ unseen' = [unseen EXCEPT ![c] = "progress"]
    /\ UNCHANGED <<state, at, got, payload, prog, shown, launched, dismissed, calls>>

\* The file is complete and has its digest.
Complete(c) ==
    /\ at[c] = "transfer"
    /\ unseen' = [unseen EXCEPT ![c] = "ready"]
    /\ MoveTo(c, "succeeded")
    /\ UNCHANGED <<state, got, payload, prog, shown, launched, dismissed, calls>>

\* The connection, the disk or the digest fails.
Fail(c) ==
    /\ at[c] = "transfer"
    /\ MoveTo(c, "failed")
    /\ UNCHANGED <<state, got, payload, progress, shown, launched, dismissed, calls>>

\* finish_download
FinishDownload(c) ==
    /\ \/ at[c] = "succeeded" /\ Set(c, "Ready", info, got[c])
       \/ at[c] = "failed" /\ Set(c, "Error", info, NoVersion)
    /\ MoveTo(c, "emitFinal")
    /\ UNCHANGED <<got, progress, shown, launched, dismissed, calls>>

EmitFinal(c) == Emit(c, "emitFinal", "abort") /\ UNCHANGED progress

\* progress_handle.abort() stops the progress task where it awaits.
Abort(c) ==
    /\ at[c] = "abort"
    /\ prog' = [prog EXCEPT ![c] = IF @ = "listen" THEN "off" ELSE @]
    /\ unseen' = [unseen EXCEPT ![c] = "nothing"]
    /\ got' = [got EXCEPT ![c] = NoVersion]
    /\ MoveTo(c, "idle")
    /\ UNCHANGED <<state, payload, shown, launched, dismissed, calls>>

\* The progress task wakes for a value it has not seen.
Hear(c) ==
    /\ prog[c] = "listen" /\ unseen[c] # "nothing"
    /\ prog' = [prog EXCEPT ![c] = IF unseen[c] = "progress" THEN "report" ELSE "listen"]
    /\ unseen' = [unseen EXCEPT ![c] = "nothing"]
    /\ UNCHANGED <<state, at, got, payload, shown, launched, dismissed, calls>>

\* emit_download_progress: the state, then the event
Report(c) ==
    /\ prog[c] = "report"
    /\ status' = "Downloading"
    /\ prog' = [prog EXCEPT ![c] = "emit"]
    /\ UNCHANGED <<info, installer, at, got, payload, unseen, shown, launched, dismissed, calls>>

\* The task awaits the channel again, unless it was aborted in the meantime.
EmitProgress(c) ==
    /\ prog[c] = "emit"
    /\ shown' = "Downloading"
    /\ prog' = [prog EXCEPT ![c] = IF at[c] = "idle" THEN "off" ELSE "listen"]
    /\ UNCHANGED <<state, at, got, payload, unseen, launched, dismissed, calls>>
-----------------------------------------------------------------------------
(* dismiss_update and apply_update, which run to their end on the main thread *)

\* Mutant: the state is reset and what belongs to it is kept.
DismissKeepingFile(c) ==
    /\ at[c] = "dismiss"
    /\ Set(c, "Idle", info, installer)
    /\ dismissed' = TRUE
    /\ MoveTo(c, "emit")
    /\ UNCHANGED <<got, progress, shown, launched, calls>>

\* Mutant: what belongs to the state is dropped and the state is kept.
DismissKeepingStatus(c) ==
    /\ at[c] = "dismiss"
    /\ Set(c, status, NoVersion, NoVersion)
    /\ dismissed' = TRUE
    /\ MoveTo(c, "emit")
    /\ UNCHANGED <<got, progress, shown, launched, calls>>

Dismiss(c) ==
    /\ at[c] = "dismiss"
    /\ Set(c, "Idle", NoVersion, NoVersion)
    /\ dismissed' = TRUE
    /\ MoveTo(c, "emit")
    /\ UNCHANGED <<got, progress, shown, launched, calls>>

\* The file is checked against the digest of update_info once more, the installer
\* started and the program exits, with all that runs in it.
Launch(c) ==
    /\ at[c] = "apply"
    /\ installer # NoVersion /\ installer = info
    /\ launched' = TRUE
    /\ at' = [d \in Command |-> "idle"]
    /\ got' = [d \in Command |-> NoVersion]
    /\ prog' = [d \in Command |-> "off"]
    /\ unseen' = [d \in Command |-> "nothing"]
    /\ UNCHANGED <<state, payload, shown, dismissed, calls>>

\* There is nothing to apply, or checking or starting the file fails.
ApplyFails(c) ==
    /\ at[c] = "apply"
    /\ MoveTo(c, "idle")
    /\ UNCHANGED <<state, got, payload, progress, shown, launched, dismissed, calls>>
-----------------------------------------------------------------------------
CheckStep(c) ==
    BeginCheck(c) \/ RefuseCheck(c) \/ Announce(c) \/ EmitChecking(c) \/ Answer(c) \/ EmitLast(c)

DownloadStep(c) ==
    \/ ReadInfo(c) \/ RefuseDownload(c) \/ BeginDownload(c) \/ EmitStart(c) \/ Complete(c)
    \/ Fail(c) \/ FinishDownload(c) \/ EmitFinal(c) \/ Abort(c)

ProgressStep(c) == Hear(c) \/ Report(c) \/ EmitProgress(c)

Step(c) == CheckStep(c) \/ DownloadStep(c) \/ Dismiss(c) \/ Launch(c) \/ ApplyFails(c)

UpdNext == \E c \in Command : Invoke(c) \/ Step(c) \/ Chunk(c) \/ ProgressStep(c)

UpdSpec == UpdInit /\ [][UpdNext]_updVars

\* Commands and tasks run on; a transfer ends.
FairUpdSpec == UpdSpec /\ \A c \in Command : WF_updVars(Step(c))
-----------------------------------------------------------------------------
(* Properties *)

Place == {"idle", "check", "announce", "emitChecking", "network", "emit", "download",
          "begin", "emitStart", "transfer", "succeeded", "failed", "emitFinal", "abort",
          "dismiss", "apply"}

\* Every variable keeps the shape the code gives it; a task that runs holds the
\* installable release it was started for.
UpdTypeOK ==
    /\ status \in Status
    /\ info \in Version \cup {NoVersion}
    /\ installer \in Installable \cup {NoVersion}
    /\ at \in [Command -> Place]
    /\ got \in [Command -> Installable \cup {NoVersion}]
    /\ \A c \in Command : at[c] \in {"begin", "emitStart", "transfer", "succeeded"} =>
          got[c] \in Installable
    /\ payload \in [Command -> Status]
    /\ prog \in [Command -> {"off", "listen", "report", "emit"}]
    /\ unseen \in [Command -> {"nothing", "progress", "ready"}]
    /\ shown \in Status
    /\ launched \in BOOLEAN
    /\ dismissed \in BOOLEAN

\* A state always has what the surfaces offer on it: the release of an available
\* update, the file of a ready one, whatever checks, downloads and dismissals
\* overlap (the three fields are set together, and only some of them by each).
StatusBacked ==
    /\ status = "Available" => info \in Version
    /\ status = "Ready" => installer \in Installable

\* What was dismissed is not installed, not even on quit and not when its
\* download ends after the dismissal, until a check has found it again.
DismissedStays == dismissed => ~launched

\* A check ends, whatever the network does and whoever dismisses meanwhile; the
\* buttons are disabled until it has.
CheckEnds == (status = "Checking") ~> (status # "Checking" \/ launched)

\* Nothing runs any more.
Quiet == ~launched /\ \A c \in Command : at[c] = "idle" /\ prog[c] = "off"

\* "Currently downloading with progress" (rust/src/updater.rs): while the state
\* says so, a command or a task is there to change it.
DownloadRuns == status = "Downloading" => ~Quiet

-----------------------------------------------------------------------------
(* What the proofs rest on *)

\* With the program its calls and tasks are gone.
Exited == launched => \A c \in Command : at[c] = "idle" /\ prog[c] = "off"

\* Until a check answers there is no release to hold a digest for the file.
DismissalInv == Exited /\ (dismissed => info = NoVersion /\ ~launched)
=============================================================================
