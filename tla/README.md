# MnemonicOS: TLA+ models

MnemonicOS is a memory system for coding agents: sessions and files are captured
under `brain/raw`, turned into candidates by language-model subprocesses,
promoted into notes under `brain/wiki`, indexed in one SQLite database, and
found again by searches on behalf of agents. A daemon runs the work as jobs; a
small game shows the vault as a library. This directory holds TLA+ modules of
the parts of that system that keep state, the TLC runs that check them, and
proofs that TLAPS checks.

Paths below are relative to the repository; file names without a directory are
in `src/second_brain/`.

## 1. Inventory

| Component | State | Operations | Hard part | Modules |
|---|---|---|---|---|
| Extraction queue and lanes (`extraction/queue.py`, `worker.py`, `_subprocess_entry.py`, `daemon_processes.py`) | table `extraction_queue`, lane threads, subprocesses | enqueue, claim, spawn, join with deadline, outcomes, reaper, retry job, start-up reset, shutdown | several runs, threads and processes write one row; subprocesses outlive their parents | ExtractionTickets, ExtractionQueue |
| Attempts at one item (`worker.py::_process_item`, `store.py`) | candidates, snippets, `completed_window_count` | describe artifacts, extract batches of windows, last transaction | an attempt may be killed anywhere and is resumed by another | ExtractionItem |
| Daemon control (`daemon.py`, `cli.py`, `daemon_status.py`) | pid file, socket path, process groups | daemon start, stop, signals, crash | unlinks and truncations by processes that do not know of each other | DaemonControl |
| Scheduler (`daemon.py`, `daemon_jobs.py`, `pipeline.py`) | job locks, `_running`, progress, events | tick, start_job, run_job_now, shutdown | three kinds of threads; jobs that hang | Scheduler |
| Promotion (`promotion/`, `bridge.py`) | note files, ledger `promotion_decisions`, candidates' states | requeue, gate, decide, render, rename, record, relate, sync | files and database are not one transaction; the notes table lags behind the files | Promotion, NoteLife |
| Review (`promotion/review_ops.py`, `auto_resolver.py`, `review_tui.py`) | files in `wiki/review`, ledger | approve, reject, auto-resolve | three steps without a transaction; two callers | ReviewQueue |
| Session capture (`session_capture.py`, `jobs.py`) | `events.jsonl`, two manifests, `raw_episodes` | begin, append, end, close idle episodes | only the events file is written under a lock | SessionCapture |
| Ingest and identity (`ingest.py`, `artifact_identity.py`) | `archive`, files of the vault | ingest, reprocess, dedup | duplicate search outside the transaction, crash before the enqueue | Ingest |
| Connectors and projection (`connectors/`, `projection/`) | windows of a text, projections with leases | chunk, assemble, open, renew, sweep | sizes at the edge of a window; repeated text | Projection |
| Vault sync and graph (`sync.py`, `graph.py`, `parser.py`) | `notes`, `sync_state`, graph tables | incremental upsert and delete; edge and node upkeep | moved and duplicated files, unparsable ones, ids that change | VaultSync, NoteGraph |
| Maintenance jobs (`jobs.py`, `maintenance.py`, `trust.py`) | `job_runs`, derived scores, lifecycle states | audit, rebuild, backfill, discovery, feedback, trust, importance | each decides on rows read earlier | NoteLife, NoteGraph, Signals |
| Retrieval (`retrieval.py`, `recall.py`, `reranker.py`, `assessor.py`, ...) | query log, hits, feedback | search, rerank, record outcome | channels read at different times; caps that cut one list together | Recall, Signals |
| Task runtime (`runtime.py`, `orchestrator.py`) | packet, directive | begin, trace, assess, emit, retry | slots, caps and branches cut the same list | TaskPacket |
| Game (`src/mnemonicos_game/`) | loop memory, bookmarks and state files | keys, reload, save, quit | files written in place; one slot for nested overlays | Game |
| Providers and validation | none | model calls, checks of their output | outcomes only | - |
| Interfaces, configuration, scripts | none of their own | routing | - | - |

Interaction: intake (capture, ingest) enqueues a row and triggers the extraction
job; lanes claim rows and spawn one subprocess per item, which writes candidates
and the row's outcome; promotion reads `promotion_ready` candidates, writes note
files and the ledger, and calls sync, which mirrors files into `notes`, where the
next promotion looks. Hourly jobs derive graph, trust and lifecycle states from
notes and from what searches record; searches and the task runtime read all of
it. Parts meet through the database, the file system, the job locks of one daemon
and the daemon's socket; no lock spans two processes but the `flock` of an
episode's events and SQLite's own. What makes each part correct is listed in
`PROJECT.json` as hazards, each at the line where it bites.

## 2. Modules and runs

A run that holds several components gives each behaviour one of them: the
variable `part` is chosen at first, the variables of the other parts rest. The
parts of such a run do not interact in it; where components do interact, their
state is in one module (promotion, audit and sync in NoteLife; editors, sync and
jobs in NoteGraph; queue sweeps, lanes and shutdown in ExtractionQueue).

### ExtractionTickets and ExtractionQueue

ExtractionQueue has one row per item, one record per lane thread, and the sets of
attempts whose subprocess has not yet written its outcome (`running`) or not yet
exited (`exiting`). An action is one committed transaction or one step of a
thread between two of them. What code remembers across transactions is state: a
lane's list of candidates (`todo`, `seen`), the rows `retry_failed_extractions`
selected (`plan`), the attempt a lane watches. `last_error` is kept by its class
(none, timeout, tombstone, plain), times by the two thresholds the code compares
them with. `TimePasses` does not age a claim past the stale threshold while a
lane watches it: the lane kills its subprocess far earlier. `stolen` and
`abandoned` are history.

ExtractionTickets is what the queue promises: each claim of a pending row issues
one ticket, numbered by the row's attempt count; the holder reports one outcome;
the watchdog of the ticket may overrule it once; everything else only gives the
row another chance or gives up on it. `ImplementsTickets` is the refinement: a
ticket is open while its attempt is being spawned or runs, may be overruled while
a lane watches it, and every step of lanes, sweeps, crashes and processes is a
step of the tickets or a stutter.

- `MCQueueContested`: one item, a daemon lane and a foreground lane, two faults,
  three claims. Two runners are what contention needs; thresholds of two
  attempts let every tombstone rule fire within the claims allowed.
- `MCQueueLanes`: the quick and slow lane of one daemon with an item each, four
  claims, no fault; progress of both.
- `MCQueueLive`: one lane, three faults, eight claims. The bound of eight is not
  reached by the code's own retries after three faults, so the property does not
  hold because of it.
- `MCQueueDoubleDispatch` refutes the docstring of `mark_processing`: after a
  daemon crash the start-up reset requeues a row whose subprocess lives.

Fairness: threads of a live process run on, a watched subprocess is killed at
its deadline, due jobs start, time passes, and the service manager starts the
daemon. Nothing is assumed of intake, of faults, of foreground runs, nor of
subprocesses that nobody watches.

### ExtractionItem and DaemonControl: `MCProcesses`

ExtractionItem is the inside of an attempt and what it leaves to the next: visual
snippets and the window checkpoint are committed as work goes on, candidates at
the end. A candidate stands for all of a window; the source has versions with
numbers of windows. `Requeue` and `EnqueueExtraction` stand for what
ExtractionQueue says of requeueing. `overlap` and `interrupted` are history and
delimit what is promised.

DaemonControl has a record per daemon process (its main thread, its socket
thread, its extraction subprocess), the pid file, the socket path and one record
per shell with the command it runs. Opening and writing the pid file are two
steps, as are probing, unlinking and binding the socket. `raced`, `crossed` and
`missed` mark starts that met, a start that came into the work of a stop, and a
subprocess that came after the stop's last look. `held` is `SocketServer._bound`,
which nothing resets: the socket thread and the main thread each close the server,
and the second unlinks the path again, whoever has bound it by then. In one daemon
the main thread joins the socket thread in between; that its two seconds suffice is
assumed, and the mutant `ReadPidUnjoined` shows that more would go wrong otherwise.
Such a join may also raise, for a job thread not yet started: then the rest of the
shutdown is skipped (`failing`).

In `MCProcesses` three attempts by two subprocesses meet windows in batches of
two, three windows that become five, and two artifacts under a cap of one:
resumes, changed content, a short last batch and a reached cap all occur. Two
daemons, two shells, of which one stops too, and one mishap (crash, SIGKILL,
signal) are enough for a dying, a dead and a serving daemon to stand around one
path. `MCItemResume` is a disagreement: a kill after a checkpoint loses candidates.

### Scheduler: `MCSchedulerThreads`

Ticks, push triggers (`start_job`) and synchronous clients (`run_job_now`) over
the per-job try-locks; `_running` and `_job_progress`; the shutdown of
`Daemon.run`. A step ends where another thread may run. `work` is what a job has
not yet looked at; it makes "busy, dropped" observable. A thread's entry in
`_running` and its start are two steps: a shutdown that makes its list in between
joins a thread that has not been started, `join` raises, and marking the rows and
removing the pid file are skipped. `dropped` and `fate` are history: which entries
the end of an earlier run removed, and what the shutdown met and did. That
`Thread.start` itself succeeds is assumed. To the queue such an end is a crash, which
is in its model. `ShutdownCompletes` says that the end is reached, and in order but
for the case above. Two jobs, one of which
may hang for good and one that clients may run on their own thread, two threads
alive at once. Deadlock is not checked: after the shutdown the daemon is down.

Fairness is weak for threads, the main thread and the clock; strong for the
scheduler's step, since only the bound on thread identities ever disables it
again. The body of the one job of `EndingJobs` ends; the other need not.

### Promotion: `MCPromotionRuns`

Files, ledger, candidate states and the notes table as four separate pieces of
state (`file`, `ledger`, `state`, `synced`), and per process the place in
`process_promotion_queue` with the text rendered but not yet written. A note's
text is the set of candidates whose body it has, its references and its count.
Notes are named by type and title, as in the code; `Similar` gives the other
notes a text may match. Which of confirm or update `decide()` chooses, and
whether a weak match loses to "new", is left open.

A page written with lifecycle stale is refused by the parser and loses its row:
`Indexed` is what the table is after a sync, and a later run finds no row and decides
"new" over that page.

Two processes, three candidates (one in review since an older release that `decide`
refuses, one that resembles two notes, one for a title whose page there is already),
three notes, of which two have pages that were ingested. One crash, one failed
rendering, or an overlap of the two processes: the constraint `OneKindOfFault` leaves
out a crash and an overlap in one behaviour, of which the properties promise nothing;
the proofs do without it. The processes are alike, hence the symmetry.

### What comes into the vault: `MCVault`

- **Ingest**: rows of `archive` with their identity class, the files in the vault,
  the queue's intake, and per process its place between copy, duplicate search,
  insert and enqueue. Texts are values with a head, a likeness and an overlap;
  the rules of `artifact_identity.py` are translated on these numbers. Three
  files (a paper, a scan whose text comes late, a memo that resembles the paper),
  two processes, one crash, three rows, and a session name that two processes may
  pick in one second. The processes are alike, hence the symmetry.
- **Projection**: the chunker's loop over all texts of up to six paragraphs of
  1, 2, 3 or 7 tokens against a target of 5 and an overlap of 2 (below the
  target, at it and beyond it, the slack of `target * 1.2` included); the
  assembler's loop over all sequences of three events with texts of up to three
  of two letters; and the lease of a projection against idle and hard limits.
- **SessionCapture**: an episode's lines, the lock, both manifests, the index row,
  the last hash enqueued, and per thread its place in `begin_episode`,
  `append_event` or `end_episode` with the copies it has read. A hash is the
  length of the file it was taken of, which is sound for a file that only grows.
  A crash may leave the beginning of a line; the next event is then glued to it.
  Two parts. In one, a client and the job that closes idle episodes meet on one
  episode, with one crash and requests up to three lines (a begin, a message and an
  end). In the other there are two episodes, no crash and four lines in each: while
  the job works through the list it has read, the client writes at the other episode
  and ends those listed. `EpisodeRecordsAgree` excepts an episode at which two
  threads have met (`met`), and only that one.
- **NoteLife**: the page and the row of a note, the audit with the snapshot it
  decides on, the renderer's corroboration, an operator at the file, and sync.
  One note among others, thresholds 2 and 4 (the configuration's defaults), four
  corroborations, one change by hand. `VerifiedAt` and `CanonicalAt` are the
  configuration's; the renderer has numbers of its own, and counts a page with a
  counter of 0 or none as observed once before (`Observations`).

`MCNoteLost` is a disagreement: a promotion that resolves a conflict writes a
lifecycle state the parser does not know, and the next sync drops the note.
Deadlock is not checked in the composed runs: a text is chunked and a search
answered once.

### The tables that catch up: `MCIndex`

- **VaultSync**: `vaultFile` is the disk, `db` the tables, and a syncer works
  through its paths in order within one transaction, hashing and parsing at
  different times, while editors write, move and delete files. Two paths, two
  texts of one note, a note that links to it, a text that does not parse and one
  that fails in an unforeseen way; three edits. Fairness: a scan runs on (weak),
  and a sync of the whole vault is started again and again (strong; the hourly
  job and every promotion do). An edit is never fair.
- **NoteGraph**: pages, rows, nodes and edges; rebuild, neighbour backfill, pattern
  discovery and duplicate report, each of which takes the write lock with its
  `job_runs` row. Two notes and an entity, three edits, one job that dies.
- **Signals**: queries with their hits, outcomes, feedback rows, trust, importance
  and the reranker's samples. One query with up to two hits, one outcome, one
  note that vanishes: its trust goes with its row, its importance stays, for that
  table refers to nothing. An answer is any ranking of distinct notes; Recall says why
  that is all the recorder may rely on. Fairness: the two hourly jobs run.

### Those who work with the vault: `MCWork`

- **Recall**: one search, channel by channel, while the tables change between the
  SELECTs; the merge, the expansion along edges, the gate, the dynamic top-k and
  the cap on hits of a chain. What is ordered by score may come in any order. Four
  pages, three of one chain, of which one may change.
- **TaskPacket**: from hits to a packet with slots and caps, completion along the
  graph, dedupe, assessment, branches and emission, and the one retry. All hit
  lists of at most two of six notes whose kinds, states and relations cover the
  rules, five intents, two budgets. Any of the hits with relations may have come by
  the graph channel alone; such a memory has neither chain nor lifecycle. The intent
  is `_trace_purpose`'s; the assessor reads the request again with words of its own,
  and what it takes it for (`factual`) is left open but for an implementation.
- **ReviewQueue**: approve and reject in the order of their file and ledger
  operations, by an operator and by `auto_resolve`. Three items, two for one note,
  one that is refused now, one death.
- **Game**: the loop's memory, the vault, the loaded snapshot, and the files under
  `brain/game`. One action per key in each overlay; a kill may come between
  truncation and text. Two notes that lead to each other, two sessions, one start
  after a run that left nothing, or all its files, or a torn bookmarks file beside
  an older state file; in the last case the vault changes once.

## 3. Proofs

The theorems hold for every value of the constants that the modules' named
assumptions allow: numbers are natural, sets whose members are counted or looped
over are finite. A few theorems have a hypothesis besides, named below. In each
module the invariant comes first, then its lemmas, one lemma or one step per
action, then the theorems. The composed modules run one of their parts in each
behaviour; their invariants (`ProcessesInv`, `VaultInv`, `IndexInv`, `WorkInv`) are
those of the parts together, a step of one part leaves the variables of the others
alone, and so the type invariant and each safety property of such a run is a theorem
of the very specification TLC explores: `ProcessesTypeCorrect`, `ProcessesAreSound`,
`VaultTypeCorrect`, `VaultIsSound`, `IndexTypeCorrect`, `IndexIsSound`,
`WorkTypeCorrect`, `WorkIsSound`. What the invariant of a part adds to the property
it is for:

**ExtractionQueueProofs**
- `TypeCorrect` carries `WatchedType`: a lane between claim and join watches an
  attempt, not `NoAttempt`. `ErrorsExplained` (`ErrorFieldConsistent`) follows.
- `NoDoubleDispatchWithoutTheft` (`DoubleDispatchOnlyAfterTheft`). The claim of a
  second lane is excluded only because the row is in `processing` while an
  attempt is in flight. `DispatchInv` adds that for an item nobody stole an
  attempt being spawned or running is the row's current one and its row is in
  `processing`. Each action keeps the row, or records the theft in `stolen`, or
  ends the attempt.
- `QueueImplementsTickets` (`ImplementsTickets`), the refinement. `Report` and
  `Overrule` spend one ticket, so the mapped sets must lose exactly one when a
  lane or a subprocess ends: `TicketInv` says that a claim is guarded by at most
  one lane, that its number is not beyond its row's count (so the next one is
  new), and that a lane in `join` watches the subprocess of its own claim, one in
  `late` a claim without a subprocess. One lemma per abstract action says when a
  step of the queue is that action; every action of the queue is then shown to be
  one of them.
- `SubprocessesAreWatched` (`NoSubprocessOutlivesItsLane`), inductive as it
  stands; `OneDaemonReapsNoLiveAttempt` (`OneDaemonNeverReapsItsOwn`) follows: the
  reaper runs with all lanes off, so nothing is watched and nothing runs.
- `TombstonesAreFinal` (`TombstoneFinal`), by one step per action.

**ProcessesProofs** (ExtractionItem, DaemonControl, MCProcesses)
- `CandidatesAreKept` (`CandidatesStay`). `ResumeInv` follows the checkpoint: what
  is stored has left `completed_window_count` above zero, a worker that read a
  zero finds no candidates to delete, and one whose windows are done has written a
  checkpoint.
- `AttemptsAreOne` (`AttemptsAddUp`). `SumInv` says, while attempts do not
  overlap: candidates come only from versions whose batches all end at or before
  the checkpoint, so that no later attempt meets their windows (`CandsSound`); an
  attempt agrees with the tables on where it resumes, how many candidates there
  are and what is described (`InStep`); and of an item whose source never changed
  either nothing is stored and the attempt holds all the windows before the
  checkpoint, or everything is (`Whole`).
- `Bounded` completes the types: no checkpoint, place or window lies beyond the
  longest version of the source, and no claim beyond the bound.
- `WordKept` (`CommandsKeepWord`) and `ControlTypeCorrect`. `ControlInv` joins what
  pid file, socket path and commands say of each other: of daemons that come or
  serve there is one and the pid file names it (`PidGuards`), a serving daemon has
  the path or is about to bind it, and has not closed its server (`SocketHeld`), which
  is why no second unlink of its own can take it away; a stop command works on the one
  daemon there is (`StopsAim`) and knows of its subprocess (`StopsKnow`).

**SchedulerProofs** (Scheduler)
- `JobsAreExclusive` (`JobsExclusive`) and `SchedulerTypeCorrect`. The lock is
  released before the tables are cleared, so neither half is inductive alone:
  `SchedulerInv` says that a thread from acquire to release is the one its job's
  lock names, that a table names a thread only while it has the job in hand, and
  that `_running` never names a thread of `run_job_now`.
- `NoLockIsLeft` is the other direction, on which `WorkServed` rests: a lock that is
  taken is held by a thread at work on its job (`LocksInUse`), and shutdown joins
  only threads that have not ended (`JoinsTheLiving`).
- `ShutdownKeepsOrder` (`ShutdownInOrder`), the half of `ShutdownCompletes` that is
  not liveness: the list has every thread at work whose entry is not `dropped`, and
  only a thread not yet started lets the shutdown end without marking rows and
  removing the pid file.

**PromotionProofs**
- `PromotionTypeCorrect`, `DecidedOnce` (a candidate waits for promotion exactly
  while it has no decision, whatever happens).
- `CountedOnce` (`CandidatesCountOnce`), for sets of review items of which no two
  share a note (`OneItemPerNote`). Without it the property is false: TLC finds it
  violated in eight steps, as section 4 says. `CountsRight`: each candidate a note
  refers to is promoted, or about to be recorded so by the run that has just
  written the note.
- `TextKept` (`OnlyUnlistedNotesLoseText`) and `TableSynced`
  (`RunLeavesNotesSynced`) from `TableBehind`: a note that the table does not have
  as the parser takes its file, is one a run has promoted, is about to record, or has
  related. A page made stale has no row, so a run that decides "new" may write over
  it: `TextsGrow` excepts it, as it does what the run itself has promoted.

**VaultProofs** (Ingest, Projection, NoteLife, SessionCapture, MCVault)
- `DuplicatesEnd` (`RedirectsEnd`) and `IngestsAreKept` (`NoIngestLost`).
  `IngestInv` adds that a row without a hash refers to one with the same bytes,
  that each row with a hash has been queued, will be or is stranded (`RowsKept`),
  and that a session's name is one process's from picking it to its row
  (`NamesKept`).
- `LifecyclesAgree` (`LifecycleConsistent`), for `CanonicalAt <= 4`
  (`RendererAgrees`): the renderer has its four in its text, and with 5 in the
  configuration TLC finds a page made canonical too early. `LifeInv` adds what the
  row keeps of the file the sync saw, and that counts only grow (a page without a
  counter has one after its first corroboration, and it is 2), so that what the
  audit decided on old rows still holds of the page. Only the part about seen often
  enough (`Corroborated`) needs the hypothesis: that rows say what their pages do
  and that the audit settles is `RowsFollowPages`, without it.
- `EventsAreKept` (`NoEventLost`). Two writers may be about, one of them torn:
  `FileInv` counts. Readable lines and junk lines together are at least the
  appends that returned and those between write and return, and the lines that
  cannot be read are no more than the writers that died.
- `NoTextIsCut` (`ProjectionKeepsText`) and `ProjectionTypeCorrect`. `WindowInv` says
  that the windows emitted go through the text from its first paragraph on and that
  the parts collected go on from the last of them, so that one more window keeps the
  chain; `EventInv` that the text to continue is the last event's. `TokensGrow` and
  `FlattenMore` say what a paragraph adds to a sum and a piece to a text. No limit on
  sizes, target or overlap enters, only that an estimate of tokens is a number.
- `RecordsAgree` (`EpisodeRecordsAgree`). `Progress` says at each place of a thread
  alone at its episode which of manifest, index and queue it has brought up to
  date; the property is what is left when it is gone.

**WorkProofs** (ReviewQueue, Game, Recall, TaskPacket, MCWork)
- `VerdictsAreKept` (`VerdictsKept`). `ItemSound` says of an item that is the only
  one of its note what its file, its ledger row and its page are at each stage of
  the caller that has it; `OneWorks` that callers which have not met have it alone.
- `NothingCarriedIsLost` (`GameConsistent`), `GameTypeCorrect` and
  `EscapeAlwaysLeaves` (`EscapesLeave`). `GameInv` bounds what an overlay and the
  slot behind it can hold; the number of escapes needed falls because no overlay
  that returns to another has itself in the slot: each Escape goes one step back, or
  brings up the overlay in the slot and empties it.
- `SearchesAnswer` (`SearchAnswers`). `SoFar` follows the loop over the ranking: what
  has been put away waits for a chain that was full, what is left out is left out
  for room, and no chain has more than its cap. `RecallInv` adds that each page
  found was current in the SELECT that found it. The loop is a fold over the
  places of the ranking, taken apart with `FoldDefined`.
- `ReuseIsCurrent` (`ReuseOnlyCurrent`), `NothingUnnamed` (`ShownOrDeferred`) and
  `TaskTypeCorrect`. `TaskInv` says of the packet that each memory has the freshness
  of its note unless it came along from the same episode and its lifecycle unless the
  graph channel alone found it, that no slot has a note
  twice, that the trace has added no more than its limit, and that a directive is
  the assessment of the packet it stands beside, whose slots have no note in
  common. The loops that fill, filter and join the slots are taken apart with
  `FoldDefined` and `RunDefined`. No order of branches enters: that the branches
  listed are the first of one list is enough.

**IndexProofs** (VaultSync, NoteGraph, Signals, MCIndex)
- `NotesStayBacked` (`NodesBacked`). The loops over vanished paths and over links
  are folds. A row is ousted by another note's only at a path that has had both
  ids, which is what makes them `tangled` (`HistoryKept`). `Sound` is asked of the
  tables and of the transaction in progress alike.
- `GraphStaysConsistent` (`GraphConsistent`). `GraphInv` says that a rebuild holds
  the lock from its rows to its writes and that what it has parsed of a note is
  not older than the row (`RebuildOK`), and that the edges of a note whose row is
  up to date are those of its page (`DrawnOK`). That a rebuild is safe to rerun is
  a fact of the loop, shown without the invariant (`RebuiltOnce`).
- `TrustCatchesUp`, for `HitLimit # 0`: the half of `OutcomeReachesTrust` that is not
  liveness. The job recomputes trust only if it has written a row; a query has no
  session (`QueryRow`), no row covers a hit without one and no key with a NULL is
  taken, so each hit looked at writes one (`PostHocTyped`). That a hit is of a note
  with a row (`HitsKnown`) keeps the trust of vanished notes empty
  (`SignalsTypeCorrect`).

**OrderLemmas** has what these share: a least or greatest member, bounded finite
sets, and two ways to reason about a loop without induction over data.
`MinimalSubset` takes a smallest set for which a fold would go wrong;
`FoldDefined` shows that the recursive function behind a fold satisfies its own
equation, `SetLoopStays` that what holds of every step holds of the whole, and
`RunDefined` treats any function that each place of a sequence takes on from the
place before.

Only model-checked: liveness (`EventuallySettled`, `PendingServed`, `WorkServed`,
`ShutdownCompletes`, `SyncConverges`, `OutcomeReachesTrust`), which the prover does
not do (the halves of the last and of `ShutdownCompletes` that are not liveness are
proved), and the disagreements (section 4), which are shown by counterexamples.

## 4. What the code does not promise

Met while modelling; the properties except them by an antecedent or a history
variable that names the case, or leave them out:

- Extraction: `completed_window_count` survives a change of content, so that
  windows of a new version are skipped. An attempt that dies for ever without a
  verdict may cycle for ever.
- Daemon: the comment at `daemon.py:321` (a dying sibling never takes a live
  daemon's socket) does not hold for two daemons of which one bound earlier;
  `docs/daemon-and-socket.md:44` calls daemon_stopped a guarantee, which a
  subprocess orphaned by an earlier crash escapes; a shutdown that joins a job thread
  not yet started leaves rows in `processing` and the pid file, as a crash does; the stop command's removal of
  a stale socket may hit a daemon started meanwhile.
- Promotion and review: of two candidates with one title in one run the second
  overwrites the first; a crash between rename and ledger lets a candidate
  corroborate itself; two review items of one note id share one UPDATE: the
  rejection of one rejects the other's candidate too, which may come up again
  while its own file is still in review, be approved from there and corroborate
  itself. The run has one review item. A note made stale loses its row, and a later
  run whose candidate has its title writes a new page over it.
- Capture: the job that closes idle episodes closes ones that have been worked on
  since it listed them; two requests at once lose manifest updates.
- Ingest: a crash before the enqueue strands an artifact; two sessions of one
  second may pick one name; artifacts whose text cannot be extracted become
  duplicates of each other, which `docs/http-api.md` does not expect.
- Sync: one file with an unforeseen error stops every sync; a file changed
  between hash and parse and changed back passes for up to date; a file whose id
  changes leaves its old node.
- Search and tasks: hits found through the graph alone have no chain
  (`recall.py:245`) and escape the chain cap, and no lifecycle either
  (`recall.py:246`): a contested or archived note reached by an edge alone raises no
  warning and may be in a packet recommended for reuse; branches beyond
  `TRACE_MAX_BRANCHES` are neither shown nor named. Feedback without a session is
  inserted again and again. The importance of a note that has vanished stays in its
  table.
- Game: the intake's error page says Enter retries, but Enter closes it.

## 5. Not modelled

Model providers and validation are HTTP calls and a table of checks on one
candidate: their outcomes are choices in ExtractionQueue and ExtractionItem.
Interfaces, configuration, status reports and hook scripts parse, print and
route. Of the modelled components the following is left out: dry runs, logging,
progress figures, cron arithmetic; scores and weights (floating point), hence the
order they give is left open; the archive channel of searches; relations and
archetypes stored beside candidates; procedures' subdirectories; transcripts and
artifact counts of episodes; figures and attachments of artifacts; format
conversion; aliases, search rows and vectors that go with a row of notes; cluster
validation and the revisit of old candidates, which the daemon runs without a
model and which then only count; relearn tasks, contradiction scores, retention
and reports; rendering of packets; drawing and movement in the game.

A crash loses its process's threads and memory and nothing committed: the
atomicity of SQLite's transactions and of `os.rename` is assumed. So is that the
hard deadline of a lane and the kill after it end before the reaper's threshold
(the two are the same number of seconds, and the kill takes a few more).

Why small instances are enough: the properties speak of one item, episode, note
or path and of two who meet at it; a third actor would repeat what one of the two
does. Bounds on claims, edits and faults are chosen so that each action fires and
each threshold is passed. All bounds are constants of their modules and named so.

## 6. Plan

Next, in this order: relearn tasks and retention of the maintenance jobs, with the
invariants that say which rows they leave; Ingest's intake composed with
ExtractionQueue, and for it a theorem that what was ingested is extracted or is
failed for a reason.
