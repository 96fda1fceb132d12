------------------------------ MODULE CodexScan ------------------------------
(***************************************************************************)
(* The incremental scan of the Codex session logs:                          *)
(* rust/src/cost_scanner/codex.rs with its submodules, and the cache and    *)
(* the bounded reader of rust/src/core/jsonl_scanner.                       *)
(*                                                                         *)
(* Codex appends records to session files while several callers (the spend  *)
(* view, the charts, the exporter, the command line) scan them for a week   *)
(* or a month.  They share one cache on disk: what was counted of each file *)
(* and how far it was read.  A refresh reads a bounded amount; what is left *)
(* is queued, and until the queue is empty the last complete report is      *)
(* shown.  A scan is the walk, the size and the contents of one file after   *)
(* another, and the save: Codex and other scans come in between.            *)
(***************************************************************************)
EXTENDS Integers, FiniteSets

CONSTANTS
    Files,      \* session files
    Old,        \* those whose day directory only a month's scan visits
    Parent,     \* the session that a fork of a file continues
    Scans,      \* concurrent callers
    MaxLen,     \* bound: records of each file
    ReadLimit,  \* records a refresh may newly read
    MaxScans,   \* bound: scans
    MaxFaults,  \* bound: cancellations, and losses of the cache, a file, or the sessions root
    None

Windows == {"week", "month"}
NoFork == -1

\* What the cache holds of a file.  The size stands for the modification time and the
\* identity of the file too.
EntryType == [size : Nat, parsed : Nat, target : Nat,
              count : Int, forked : BOOLEAN, unresolved : BOOLEAN]
ReportType == [window : Windows, count : [Files -> Int]]

ASSUME ScanAssumption ==
    /\ IsFiniteSet(Files) /\ Old \subseteq Files
    /\ Parent \in [Files -> Files]
    /\ MaxLen \in [Files -> Nat \ {0}] /\ ReadLimit \in Nat \ {0}
    /\ MaxScans \in Nat /\ MaxFaults \in Nat
    /\ None \notin Windows /\ None \notin EntryType /\ None \notin ReportType

VARIABLES
    log,       \* the session files
    mounted,   \* the sessions root can be read
    disk,      \* the cache file
    scan,      \* the scans under way
    started,   \* scans so far
    faults,    \* faults so far
    \* history, read by the properties only
    good       \* the last complete cache saved: its report, what its scan found,
               \* and whether the sessions root was away at the save

scanVars == <<log, mounted, disk, scan, started, faults, good>>
-----------------------------------------------------------------------------
(* Session files: records of two bytes, the last of which may be torn *)

Unwritten == [at |-> "absent", len |-> 0, torn |-> FALSE, fork |-> NoFork]

LogType == [at : {"absent", "there", "gone"}, len : Nat, torn : BOOLEAN,
            fork : Nat \cup {NoFork}]

Readable(f) == mounted /\ log[f].at = "there"
Bytes(f) == 2 * log[f].len + (IF log[f].torn THEN 1 ELSE 0)

\* read_codex_session_metadata: the first record says what the session continues.
IsFork(f) == log[f].fork # NoFork

InWindow(w) == IF w = "month" THEN Files ELSE Files \ Old
-----------------------------------------------------------------------------
(* CostUsageCache *)

CacheType == [files : [Files -> EntryType \cup {None}],
              since : Windows \cup {None},      \* scan_since_key
              pending : Windows \cup {None},    \* codex_pending_scan_since_key
              queue : SUBSET Files,             \* codex_pending_paths
              incomplete : BOOLEAN,
              report : ReportType \cup {None},  \* previous_report
              pause : {"none", "NoProgress", "Error"}]

EmptyCache == [files |-> [f \in Files |-> None], since |-> None, pending |-> None,
               queue |-> {}, incomplete |-> FALSE, report |-> None, pause |-> "none"]

Cached(c) == {f \in Files : c.files[f] # None}

\* cache_covers_range
Covers(c, w) ==
    IF c.since # None THEN c.since = "month" \/ w = "week" ELSE Cached(c) # {}

NoReport == [report |-> None, seen |-> [f \in Files |-> 0], away |-> FALSE]

Count(c, f) == IF c.files[f] = None THEN 0 ELSE c.files[f].count

ReportOf(c, w) ==
    [window |-> w, count |-> [f \in Files |-> IF f \in InWindow(w) THEN Count(c, f) ELSE 0]]

Unchanged(e, f) == e.size = Bytes(f)

\* All of the file, as it is now, has been read.
Settled(c, f) ==
    LET e == c.files[f] IN
    /\ e # None /\ Readable(f) /\ ~e.unresolved
    /\ Unchanged(e, f) /\ e.parsed >= e.size

\* Mutant: a parent that went on after the fork is a baseline too.
AnyBaseline(c, f) == Settled(c, Parent[f]) /\ Count(c, Parent[f]) > 0

\* codex_parent_baseline: the parent's totals, when all of it has been counted
\* and its last record is not later than the fork.
Baseline(c, f) == Settled(c, Parent[f]) /\ Count(c, Parent[f]) \in 1..log[f].fork

\* Mutant: a file whose size is known is taken for counted, however far it was read.
FreshBySize(c, f, w) ==
    LET e == c.files[f] IN
    /\ Covers(c, w) /\ Readable(f) /\ e # None
    /\ Unchanged(e, f) /\ ~e.unresolved /\ (e.forked => Baseline(c, f))

\* cached_codex_file_is_fresh, cached_codex_file_is_complete_for_range
Fresh(c, f, w) ==
    /\ Covers(c, w) /\ Settled(c, f)
    /\ c.files[f].target = c.files[f].size
    /\ c.files[f].forked => Baseline(c, f)
-----------------------------------------------------------------------------
IdleScan == [at |-> "idle", window |-> "week", range |-> "week", app |-> FALSE,
         cache |-> EmptyCache, found |-> FALSE, todo |-> {}, next |-> {},
         read |-> 0, file |-> None, size |-> 0,
         cancelled |-> FALSE, current |-> FALSE, seen |-> NoReport.seen]

\* Some sessions have a record, or Codex was never run; the cache counts them for a
\* window, or is missing.
ScanInit ==
    /\ \E there \in SUBSET Files :
          /\ log = [f \in Files |->
                      IF f \in there THEN [Unwritten EXCEPT !.at = "there", !.len = 1] ELSE Unwritten]
          /\ \/ disk = EmptyCache /\ good = NoReport
             \/ \E w \in Windows :
                   /\ disk = [EmptyCache EXCEPT !.since = w, !.files =
                                [f \in Files |-> IF f \in there \cap InWindow(w)
                                                 THEN [size |-> 2, parsed |-> 2, target |-> 2,
                                                       count |-> 1, forked |-> FALSE,
                                                       unresolved |-> FALSE]
                                                 ELSE None]]
                   /\ good = [report |-> ReportOf(disk, w),
                              seen |-> [f \in Files |-> IF f \in there THEN 1 ELSE 0],
                              away |-> FALSE]
    /\ mounted \in BOOLEAN
    /\ ~mounted => disk = EmptyCache /\ \A f \in Files : log[f] = Unwritten
    /\ scan = [s \in Scans |-> IdleScan]
    /\ started = 0
    /\ faults = 0
-----------------------------------------------------------------------------
(* Codex and the user's disk, which the scans do not coordinate with *)

Write(f, to) ==
    /\ log' = [log EXCEPT ![f] = to]
    /\ UNCHANGED <<mounted, disk, scan, started, good>>

\* A session starts, on its own or as a fork.
Create(f) ==
    /\ mounted /\ log[f] = Unwritten /\ UNCHANGED faults
    /\ \E fork \in {NoFork} \cup
                   {log[p].len : p \in {q \in {Parent[f]} \ {f} :
                                          log[q].len > 0 /\ log[q].fork = NoFork}} :
          Write(f, [Unwritten EXCEPT !.at = "there", !.fork = fork, !.len = 1])

\* A record is appended at once, or torn off and finished later.
Append(f) ==
    /\ Readable(f) /\ log[f].len < MaxLen[f] /\ UNCHANGED faults
    /\ \/ Write(f, [log[f] EXCEPT !.len = @ + 1, !.torn = FALSE])
       \/ ~log[f].torn /\ Write(f, [log[f] EXCEPT !.torn = TRUE])

\* Archived by Codex or deleted by the user.
Lose(f) ==
    /\ Readable(f) /\ faults < MaxFaults /\ faults' = faults + 1
    /\ Write(f, [log[f] EXCEPT !.at = "gone"])

\* The drive or the WSL root that holds the sessions goes away and comes back.  A
\* scan that found the root before takes its files for deleted.
Unmount ==
    /\ mounted /\ faults < MaxFaults /\ faults' = faults + 1
    /\ mounted' = FALSE
    /\ UNCHANGED <<log, disk, scan, started, good>>

Mount ==
    /\ ~mounted /\ mounted' = TRUE
    /\ UNCHANGED <<log, disk, scan, started, faults, good>>

\* A crash in the middle of the copy, or another schema: the cache is not decoded.
LoseCache ==
    /\ disk # EmptyCache /\ faults < MaxFaults /\ faults' = faults + 1
    /\ disk' = EmptyCache
    /\ good' = NoReport
    /\ scan' = [s \in Scans |-> [scan[s] EXCEPT !.current = FALSE]]
    /\ UNCHANGED <<log, mounted, started>>
-----------------------------------------------------------------------------
(* scan_codex_detailed_with_cache *)

Step(s, to) ==
    /\ scan' = [scan EXCEPT ![s] = to]
    /\ UNCHANGED <<log, mounted, started, faults>>

KeepDisk == UNCHANGED <<disk, good>>

\* The scan range of a background scan includes that of the catch-up it continues.
ScanRange(c, w, app) ==
    IF ~app /\ c.incomplete /\ c.pending # None /\ "month" \in {c.pending, w} THEN "month" ELSE w

\* Mutant: the report is taken again at every pass of a catch-up.
EstablishedAgain(c) == IF c.since = None THEN c.report ELSE ReportOf(c, c.since)

\* Mutant: a cache that was never completed has a report too.
EstablishedEarly(c) ==
    IF c.incomplete \/ c.report # None THEN c.report ELSE ReportOf(c, c.since)

\* completed_report_range: the report to show while catching up, established before
\* the first bounded pass.
Established(c) ==
    IF c.incomplete \/ c.report # None \/ c.since = None THEN c.report
    ELSE ReportOf(c, c.since)

\* Within a minute of the last scan a caller is shown the cache as it is.
ShownFromCache(w) == ~disk.incomplete /\ Covers(disk, w) /\ Cached(disk) # {}

\* A caller asks for a window.  Shortly after the last scan, and in the background
\* while the catch-up has paused, it is shown what the cache holds;
\* otherwise the sessions are walked for files that are not complete.  Without the
\* sessions root the walk fails: the range was made pending before it, so a cache
\* that never held a session counts as a validated one too.
StartWalk(s, w, app) ==
    LET range == ScanRange(disk, w, app) IN
    /\ scan[s].at = "idle" /\ started < MaxScans
    /\ app \/ ~(disk.incomplete /\ disk.pause # "none")
    /\ started' = started + 1
    /\ scan' = [scan EXCEPT ![s] =
          [IdleScan EXCEPT !.at = "walking", !.window = w, !.range = range, !.app = app,
                       !.current = TRUE, !.found = mounted,
                       !.cache = [disk EXCEPT !.report = Established(disk),
                                              !.pending = range,
                                              !.pause = IF app THEN "none" ELSE @],
                       !.todo = {f \in InWindow(range) : Readable(f) /\ ~Fresh(disk, f, w)},
                       !.next = IF mounted THEN {f \in disk.queue : ~Fresh(disk, f, w)}
                                ELSE disk.queue,
                       !.seen = [f \in Files |-> IF Readable(f) THEN log[f].len ELSE 0]]]
    /\ UNCHANGED <<log, mounted, disk, faults, good>>

Cancel(s) ==
    /\ scan[s].at \in {"walking", "reading"} /\ ~scan[s].cancelled
    /\ faults < MaxFaults /\ faults' = faults + 1
    /\ scan' = [scan EXCEPT ![s].cancelled = TRUE]
    /\ UNCHANGED <<log, mounted, disk, started, good>>

\* prioritize_codex_pending_candidates: queued files first; the newest first among
\* equals, which is any order here.
Turn(s) ==
    LET queued == scan[s].todo \cap scan[s].cache.queue IN
    IF queued # {} THEN queued ELSE scan[s].todo

OutOfBudget(s) ==
    scan[s].read >= ReadLimit \/ scan[s].cancelled

\* The file leaves this pass, and stays in the queue unless it was completed.
Pass(s, f, complete) ==
    [scan[s] EXCEPT !.at = "walking", !.file = None, !.size = 0,
                    !.todo = @ \ {f},
                    !.next = IF complete THEN @ \ {f} ELSE @ \cup {f}]

\* parse_codex_file_bounded, up to the metadata of the file: it may be gone by now;
\* a file that was dirty at the walk has not become complete, since it only grows.
Inspect(s, f) ==
    /\ scan[s].at = "walking" /\ ~OutOfBudget(s) /\ f \in Turn(s)
    /\ Step(s, IF Readable(f)
               THEN [scan[s] EXCEPT !.at = "reading", !.file = f, !.size = Bytes(f)]
               ELSE Pass(s, f, FALSE))
    /\ KeepDisk

\* Mutant: the part of a torn record is taken for read.
ParseTornRead(from, target, limit, n, cut) ==
    LET spent == n = limit /\ from + 2 * n < target
    IN  [parsed |-> IF spent \/ cut THEN from + 2 * n ELSE target,
         target |-> target, read |-> n, complete |-> ~spent /\ ~cut]

\* parse_codex_file_with_state_bounded_internal: n records from an offset, up to the
\* target, or the limit, or cut short.  A torn record at the target is left unread,
\* and the target is moved before it.
Parse(from, target, limit, n, cut) ==
    LET parsed == from + 2 * n
        spent == n = limit /\ parsed < target
        complete == ~spent /\ ~cut
    IN  [parsed |-> parsed, target |-> IF complete THEN parsed ELSE target,
         read |-> n, complete |-> complete]

Unresolved(size) ==
    [size |-> size, parsed |-> 0, target |-> size, count |-> 0,
     forked |-> TRUE, unresolved |-> TRUE]

\* is_line_boundary_offset
AtBoundary(f, offset) == offset >= Bytes(f) \/ offset % 2 = 0

\* The part that was read before is still there and can be continued.
Resumable(s, f) ==
    LET e == scan[s].cache.files[f] IN
    /\ ~IsFork(f) /\ e # None /\ Covers(scan[s].cache, scan[s].window)
    /\ \/ e.size = scan[s].size /\ e.parsed < scan[s].size
       \/ e.size < scan[s].size
    /\ e.parsed > 0 /\ e.parsed <= scan[s].size /\ AtBoundary(f, e.parsed)

\* codex_resumable_scan_target_size, or the file as it is opened.
Target(e, size, f) ==
    IF e # None /\ e.parsed < e.target /\ e.target <= size
    THEN e.target ELSE Bytes(f)

CapAt(n, limit) == IF n <= limit THEN n ELSE limit

\* Where a reading starts, and what was counted before; where it ends.
StartOffset(s, f) == IF Resumable(s, f) THEN scan[s].cache.files[f].parsed ELSE 0
CountedBefore(s, f) == IF Resumable(s, f) THEN scan[s].cache.files[f].count ELSE 0
ScanTarget(s, f) ==
    IF Resumable(s, f) \/ IsFork(f)
    THEN Target(scan[s].cache.files[f], scan[s].size, f) ELSE Bytes(f)

Allowance(s) == ReadLimit - scan[s].read
Most(s, f) ==
    CapAt((ScanTarget(s, f) \div 2) - (StartOffset(s, f) \div 2), Allowance(s))

ParseResult(s, f, n, cut) ==
    Parse(StartOffset(s, f), ScanTarget(s, f), Allowance(s), n, cut)

\* Totals are cumulative: what the baseline is short of at the fork is counted for the
\* fork.
Drift(s, f, n) ==
    IF IsFork(f) /\ n > 0 THEN log[f].fork - Count(scan[s].cache, Parent[f]) ELSE 0

EntryOf(s, f, n, cut) ==
    LET p == ParseResult(s, f, n, cut) IN
    [size |-> scan[s].size, parsed |-> p.parsed, target |-> p.target,
     count |-> CountedBefore(s, f) + n + Drift(s, f, n),
     forked |-> IsFork(f), unresolved |-> FALSE]

\* The entry of the file is replaced; it was completed if it has not grown meanwhile.
Keep(s, f, entry, n, complete) ==
    LET whole == complete /\ entry.parsed >= Bytes(f) /\ entry.target >= Bytes(f)
    IN  Step(s, [Pass(s, f, whole) EXCEPT !.cache.files[f] = entry, !.read = @ + n])

\* The rest of parse_codex_file_bounded: the file may have grown since Inspect, or
\* be gone.
ReadFile(s) ==
    LET f == scan[s].file IN
    /\ scan[s].at = "reading"
    /\ \/ ~Readable(f) /\ Step(s, Pass(s, f, FALSE))
       \/ /\ Readable(f) /\ IsFork(f) /\ ~Baseline(scan[s].cache, f)
          /\ Keep(s, f, Unresolved(scan[s].size), 0, FALSE)
       \/ /\ Readable(f) /\ (IsFork(f) => Baseline(scan[s].cache, f))
          /\ \E n \in 0..Most(s, f), cut \in BOOLEAN :
                /\ cut => scan[s].cancelled
                /\ ~cut => n = Most(s, f)
                /\ Keep(s, f, EntryOf(s, f, n, cut), ParseResult(s, f, n, cut).read,
                        ParseResult(s, f, n, cut).complete)
    /\ KeepDisk

\* Every candidate has had its turn or the budget is spent.
Through(s) == scan[s].at = "walking" /\ (scan[s].todo = {} \/ OutOfBudget(s))

\* The sessions root was found, and the walk went through it.
Sure(s) == scan[s].found /\ ~scan[s].cancelled

\* missing_codex_cache_paths
Missing(s) ==
    {f \in InWindow(scan[s].range) \cap Cached(scan[s].cache) : Sure(s) /\ ~Readable(f)}

\* A scan that the user asked for forgets the files that are gone.
Dropped(s) ==
    IF Sure(s) /\ scan[s].app
    THEN Missing(s) \cup {f \in scan[s].cache.queue : ~Readable(f)} ELSE {}

Queue(s) ==
    LET left == scan[s].next \cup scan[s].todo \cup (Missing(s) \ Dropped(s))
    IN  {f \in left : \/ ~Sure(s)
                      \/ f \in Missing(s) /\ ~scan[s].app
                      \/ Readable(f) /\ f \in InWindow(scan[s].range)}

Pause(s) ==
    IF scan[s].cancelled THEN scan[s].cache.pause
    ELSE IF ~scan[s].found THEN "Error"
    ELSE IF Missing(s) # {} \/ scan[s].read = 0 THEN "NoProgress" ELSE "none"

\* What is left is queued, and the cache is complete when nothing is.
Result(s) ==
    LET files == [f \in Files |-> IF f \in Dropped(s) THEN None ELSE scan[s].cache.files[f]]
    IN  IF Sure(s) /\ Queue(s) = {}
        THEN [EmptyCache EXCEPT !.files = files, !.since = scan[s].range]
        ELSE [scan[s].cache EXCEPT !.files = files, !.queue = Queue(s),
                                   !.incomplete = TRUE, !.pause = Pause(s)]

\* Mutant: the cache is saved over one that another scan saved meanwhile.
FinishAnyway(s) ==
    LET c == Result(s) IN
    /\ Through(s)
    /\ disk' = c
    /\ good' = IF c.incomplete THEN good
               ELSE [report |-> ReportOf(c, c.since), seen |-> scan[s].seen,
                     away |-> ~mounted]
    /\ scan' = [scan EXCEPT ![s] = IdleScan]
    /\ UNCHANGED <<log, mounted, started, faults>>

\* save_cache replaces the cache unless another scan did so since it was loaded.
FinishScan(s) ==
    LET c == Result(s) IN
    /\ Through(s)
    /\ disk' = IF scan[s].current THEN c ELSE disk
    /\ good' = IF scan[s].current /\ ~c.incomplete
               THEN [report |-> ReportOf(c, c.since), seen |-> scan[s].seen,
                     away |-> ~mounted]
               ELSE good
    /\ scan' = [t \in Scans |->
          IF t = s THEN IdleScan
          ELSE [scan[t] EXCEPT !.current = @ /\ ~scan[s].current]]
    /\ UNCHANGED <<log, mounted, started, faults>>

ScanStep(s) ==
    \/ \E w \in Windows, app \in BOOLEAN : StartWalk(s, w, app)
    \/ \E f \in Files : Inspect(s, f)
    \/ ReadFile(s) \/ FinishScan(s) \/ Cancel(s)

ScanNext ==
    \/ \E f \in Files : Create(f) \/ Append(f) \/ Lose(f)
    \/ Unmount \/ Mount \/ LoseCache
    \/ \E s \in Scans : ScanStep(s)

ScanSpec == ScanInit /\ [][ScanNext]_scanVars
-----------------------------------------------------------------------------
ScanType ==
    [at : {"idle", "walking", "reading"}, window : Windows, range : Windows, app : BOOLEAN,
     cache : CacheType, found : BOOLEAN, todo : SUBSET Files, next : SUBSET Files,
     read : Nat, file : Files \cup {None}, size : Nat,
     cancelled : BOOLEAN, current : BOOLEAN, seen : [Files -> Nat]]

ScanTypeOK ==
    /\ log \in [Files -> LogType] /\ \A f \in Files : log[f].len <= MaxLen[f]
    /\ mounted \in BOOLEAN
    /\ disk \in CacheType
    /\ scan \in [Scans -> ScanType]
    /\ started \in 0..MaxScans
    /\ faults \in 0..MaxFaults
    /\ good \in [report : ReportType \cup {None}, seen : [Files -> Nat], away : BOOLEAN]

\* What a cache says of a file is what its records up to the cursor say: none is
\* counted twice and none is skipped, whatever grew, was torn or was lost between
\* two refreshes, and a fork counts what it added to its parent.
ExactEntries(c) == \A f \in Cached(c) : 2 * c.files[f].count = c.files[f].parsed

EntriesExact == ExactEntries(disk) /\ \A s \in Scans : ExactEntries(scan[s].cache)

\* What a cache of a window counts of it: every record that was there, and none that
\* was not written since.
Honest(c, w, seen) ==
    ~c.incomplete => \A f \in InWindow(w) : Readable(f) => Count(c, f) \in seen[f]..log[f].len

\* What the last complete cache has to count.  One that was saved while the sessions
\* root was away owes nothing: the scan had found the root, took the files that it
\* could not read any more for deleted (codex.rs:391) and saved the window without
\* them as complete (codex.rs:436), until a later scan finds them again.
Owed == IF good.away THEN NoReport.seen ELSE good.seen

\* A summary that claims to cover a window counts every record of it that was there
\* when its scan began, and none that was not written since: one shown from the
\* cache, unless it was saved while the sessions root was away, and one that a scan
\* is about to return, saved or not.
CoverageIsReal ==
    /\ \A w \in Windows : ShownFromCache(w) => Honest(disk, w, Owed)
    /\ \A s \in Scans : Through(s) => Honest(Result(s), scan[s].range, scan[s].seen)

\* While the history is being caught up, the report kept for the user is the last
\* complete one, whichever scans were started, cancelled or overtaken meanwhile.
KeepsLastReport == disk.incomplete => disk.report = good.report

\* A paused catch-up is taken up only by a scan the user asked for.
PauseHolds ==
    [][disk.pause # "none" /\ disk' # disk /\ disk' # EmptyCache =>
          \E s \in Scans : Through(s) /\ scan[s].app /\ scan'[s] = IdleScan]_scanVars
=============================================================================
