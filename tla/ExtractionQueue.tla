--------------------------- MODULE ExtractionQueue ---------------------------
(***************************************************************************)
(* The extraction queue of MnemonicOS and everything that writes it: the   *)
(* rows of table extraction_queue (extraction/queue.py), the quick and     *)
(* slow lane threads that claim them and watch one subprocess each         *)
(* (extraction/worker.py), the subprocesses (_subprocess_entry.py), the    *)
(* retry_failed_extractions job (jobs.py), the daemon's start, shutdown    *)
(* and crash (daemon.py) and the operator's retry-extraction (cli.py).     *)
(*                                                                         *)
(* Every writer is a separate process or thread with its own SQLite        *)
(* connection; one committed transaction is one step.  What a writer       *)
(* remembers between two transactions (a list of candidates, the rows a    *)
(* sweep has selected) is state of its own and may be stale when used.     *)
(***************************************************************************)
EXTENDS Naturals, FiniteSets

CONSTANTS
    Items,          \* rows of extraction_queue, named by their source
    Lanes,          \* lane threads of all runs of process_extraction_queue
    DaemonLanes,    \* those of the daemon's run; the others belong to one
                    \* run in a foreground process (CLI, inline pipeline)
    QuickLanes,     \* lanes that refill while their run's slow lane works
    Serves,         \* lane -> the items whose source kind it selects
    NoAttempt,      \* value of a lane's "watched" field when it watches none
    TombstoneAfterAttempts,      \* _TOMBSTONE_AFTER_ATTEMPTS
    StaleTombstoneAttempts,      \* _STALE_PROCESSING_TOMBSTONE_ATTEMPTS
    MaxPendingSilentAttempts,    \* _MAX_PENDING_SILENT_ATTEMPTS
    MaxTimeoutAttempts,          \* _MAX_TIMEOUT_ATTEMPTS
    AttemptBound,   \* bound: a row is claimed at most this often
    FaultBound      \* bound: crashes, deaths, shutdowns, repeated enqueues
                    \* and manual retries, all together

ASSUME LaneAssumption ==
    /\ DaemonLanes \subseteq Lanes
    /\ QuickLanes \subseteq Lanes
    /\ Serves \in [Lanes -> SUBSET Items]

ASSUME ThresholdAssumption ==
    /\ TombstoneAfterAttempts \in Nat
    /\ StaleTombstoneAttempts \in Nat
    /\ MaxPendingSilentAttempts \in Nat
    /\ MaxTimeoutAttempts \in Nat
    /\ AttemptBound \in Nat
    /\ FaultBound \in Nat

\* One claim of a row: n is the attempt_count the claim produced, read the
\* attempt_count its subprocess found in the row (0 until it is spawned).
Attempt == [item : Items, n : Nat, read : Nat]

ASSUME NoAttemptAssumption == NoAttempt \notin Attempt

VARIABLES
    row,        \* the table: status, attempt_count, class of last_error, and
                \* the age of started_at (processing) or finished_at (error)
    lane,       \* per lane thread: where it is, its candidates, its seen_ids
                \* and the attempt whose subprocess it watches
    running,    \* attempts whose subprocess has not yet written its outcome
    exiting,    \* attempts whose subprocess has, and has not exited
    daemon,     \* life cycle of the daemon process
    plan,       \* rows retry_failed_extractions selected and will update
    faults,     \* faults and interventions so far
    stolen,     \* history: items taken out of "processing" by somebody else
                \* while an attempt at them was in flight
    abandoned   \* history: a process has ended before a subprocess it watched

vars == <<row, lane, running, exiting, daemon, plan, faults, stolen, abandoned>>

-----------------------------------------------------------------------------
(* The row and the UPDATE statements.                                      *)

Statuses == {"absent", "pending", "processing", "processed", "skipped", "error"}
\* last_error: NULL, "timeout: ...", "tombstoned: ...", any other text
Errors == {"none", "timeout", "tombstone", "plain"}
\* 0: recent.  1: older than max_extraction_item_seconds (processing) or
\* past its retry delay (timeout error).  2: past the stale threshold.
Ages == 0..2

Row == [status : Statuses, attempts : Nat, err : Errors, age : Ages]

Absent == [status |-> "absent", attempts |-> 0, err |-> "none", age |-> 0]

\* The UPDATEs set all but the attempt count, which only a claim advances.
SetRow(r, status, err) ==
    [status |-> status, attempts |-> r.attempts, err |-> err, age |-> 0]

\* Mutant: another chance starts the count from scratch.
RequeuedFromScratch(r) == [status |-> "pending", attempts |-> 0, err |-> "none", age |-> 0]

Requeued(r) == SetRow(r, "pending", "none")

\* The reaper's UPDATE alone does not touch last_error.
Reaped(r) == SetRow(r, "pending", r.err)

\* Mutant: a status the schema does not know.
FailedUnknownStatus(r, e) == SetRow(r, "failed", e)

Failed(r, e) == SetRow(r, "error", e)

Finished(r, s) == SetRow(r, s, "none")

Claimed(r) ==
    [status |-> "processing", attempts |-> r.attempts + 1, err |-> "none", age |-> 0]

Older(r) ==
    [status |-> r.status, attempts |-> r.attempts, err |-> r.err, age |-> r.age + 1]

\* Mutant: the upsert requeues without last_error = NULL.
ReenqueuedKeepsError(r, changed) ==
    IF r.status = "processing" \/ (r.status = "processed" /\ ~changed) THEN r
    ELSE [r EXCEPT !.status = "pending", !.age = 0]

\* ON CONFLICT DO UPDATE: a row in flight keeps its status, a processed one
\* keeps it unless the content hash changed, every other goes to pending.
Reenqueued(r, changed) ==
    IF \/ r.status = "processing"
       \/ r.status = "processed" /\ ~changed
    THEN [status |-> r.status, attempts |-> r.attempts, err |-> "none", age |-> r.age]
    ELSE Requeued(r)

-----------------------------------------------------------------------------
Pcs == {"off", "pick", "spawn", "join", "late"}

Lane == [pc : Pcs, todo : SUBSET Items, seen : SUBSET Items,
         watched : Attempt \cup {NoAttempt}]

LaneAt(pc, todo, seen, watched) ==
    [pc |-> pc, todo |-> todo, seen |-> seen, watched |-> watched]

Off == LaneAt("off", {}, {}, NoAttempt)

Pick(s) == LaneAt("pick", s.todo, s.seen, NoAttempt)

\* What retry_failed_extractions decided for a row when it read it.
Verdicts == {"keep", "requeue", "timeout_tombstone", "stale_reset",
             "stale_tombstone", "silent_tombstone"}

DaemonStates == {"down", "up", "stopping", "marking", "exiting"}

TypeOK ==
    /\ row \in [Items -> Row]
    /\ lane \in [Lanes -> Lane]
    /\ running \subseteq Attempt
    /\ exiting \subseteq Attempt
    /\ daemon \in DaemonStates
    /\ plan \in [Items -> Verdicts]
    /\ faults \in Nat
    /\ stolen \subseteq Items
    /\ abandoned \in BOOLEAN

Status(i) == row[i].status

RowsWith(s) == {i \in Items : Status(i) = s}

\* Lanes of the run l belongs to.
RunOf(l) == IF l \in DaemonLanes THEN DaemonLanes ELSE Lanes \ DaemonLanes

Spawning(i) == {l \in Lanes : lane[l].pc = "spawn" /\ lane[l].watched.item = i}

\* Somebody is about to start, or is running, an extraction of i.
InFlight(i) == Spawning(i) # {} \/ \E a \in running : a.item = i

Watched(ls) == {lane[l].watched : l \in {m \in ls : lane[m].pc = "join"}}

\* Apply an UPDATE to the rows of S; those it takes from an attempt in
\* flight are stolen.
Sweep(S, Update(_)) ==
    /\ row' = [i \in Items |-> IF i \in S THEN Update(row[i]) ELSE row[i]]
    /\ stolen' = stolen \cup {i \in S : Status(i) = "processing" /\ InFlight(i)}

NoPlan == [i \in Items |-> "keep"]

Fault == faults < FaultBound /\ faults' = faults + 1

Init ==
    /\ row = [i \in Items |-> Absent]
    /\ lane = [l \in Lanes |-> Off]
    /\ running = {}
    /\ exiting = {}
    /\ daemon = "down"
    /\ plan = NoPlan
    /\ faults = 0
    /\ stolen = {}
    /\ abandoned = FALSE

-----------------------------------------------------------------------------
(* Intake and the operator.                                                *)

\* enqueue_extraction for a source that has no row yet.
EnqueueNew(i) ==
    /\ Status(i) = "absent"
    /\ row' = [row EXCEPT ![i] = Requeued(@)]
    /\ UNCHANGED <<lane, running, exiting, daemon, plan, faults, stolen, abandoned>>

\* enqueue_extraction again: the source was re-ingested, reopened or retried.
EnqueueAgain(i) ==
    /\ Status(i) # "absent"
    /\ Fault
    /\ \E changed \in BOOLEAN : row' = [row EXCEPT ![i] = Reenqueued(@, changed)]
    /\ UNCHANGED <<lane, running, exiting, daemon, plan, stolen, abandoned>>

\* retry-extraction --id: refuses a row that is not in error, and asks no
\* question about tombstones.
RetryExtraction(i) ==
    /\ Status(i) = "error"
    /\ Fault
    /\ row' = [row EXCEPT ![i] = Requeued(@)]
    /\ UNCHANGED <<lane, running, exiting, daemon, plan, stolen, abandoned>>

-----------------------------------------------------------------------------
(* A run of process_extraction_queue: reap, snapshot the candidates, start *)
(* the lanes.  The daemon's job lock admits one run at a time; a run in a  *)
(* foreground process takes no lock the daemon knows of.                   *)

Orphaned == {i \in Items : Status(i) = "processing" /\ row[i].age >= 1}

\* Quick lanes start when any lane of the run has work, slow ones when they do.
Launched(ls, pending) ==
    [l \in ls |->
        IF \/ pending \cap Serves[l] # {}
           \/ l \in QuickLanes /\ \E m \in ls : pending \cap Serves[m] # {}
        THEN LaneAt("pick", pending \cap Serves[l], pending \cap Serves[l], NoAttempt)
        ELSE Off]

\* Mutant: the job lock is released before all lanes have returned.
LockReleasedEarly(ls) ==
    /\ \E l \in ls : lane[l].pc = "off"
    /\ ls = DaemonLanes => daemon = "up"
    /\ Sweep(Orphaned, Reaped)
    /\ LET launched == Launched(ls, RowsWith("pending") \cup Orphaned)
       IN  lane' = [l \in Lanes |-> IF l \in ls /\ lane[l].pc = "off"
                                    THEN launched[l] ELSE lane[l]]
    /\ UNCHANGED <<running, exiting, daemon, plan, faults, abandoned>>

ProcessExtractionQueue(ls) ==
    /\ ls # {} /\ \A l \in ls : lane[l].pc = "off"
    /\ ls = DaemonLanes => daemon = "up"
    /\ Sweep(Orphaned, Reaped)
    /\ LET launched == Launched(ls, RowsWith("pending") \cup Orphaned)
       IN  lane' = [l \in Lanes |-> IF l \in ls THEN launched[l] ELSE lane[l]]
    /\ UNCHANGED <<running, exiting, daemon, plan, faults, abandoned>>

\* Mutant: the UPDATE without AND status = 'pending' it once was.
UnguardedClaim(l, i) ==
    /\ lane[l].pc = "pick" /\ i \in lane[l].todo
    /\ row[i].attempts < AttemptBound
    /\ row' = [row EXCEPT ![i] = Claimed(@)]
    /\ LET a == [item |-> i, n |-> row[i].attempts + 1, read |-> 0]
       IN  lane' = [lane EXCEPT ![l] = LaneAt("spawn", @.todo \ {i}, @.seen, a)]
    /\ UNCHANGED <<running, exiting, daemon, plan, faults, stolen, abandoned>>

\* mark_processing, called for a candidate that may be long out of date.
MarkProcessing(l, i) ==
    /\ lane[l].pc = "pick" /\ i \in lane[l].todo
    /\ Status(i) = "pending"
    /\ row[i].attempts < AttemptBound
    /\ row' = [row EXCEPT ![i] = Claimed(@)]
    /\ LET a == [item |-> i, n |-> row[i].attempts + 1, read |-> 0]
       IN  lane' = [lane EXCEPT ![l] = LaneAt("spawn", @.todo \ {i}, @.seen, a)]
    /\ UNCHANGED <<running, exiting, daemon, plan, faults, stolen, abandoned>>

\* The claim's WHERE clause matched nothing: skip the candidate.
SkipCandidate(l, i) ==
    /\ lane[l].pc = "pick" /\ i \in lane[l].todo
    /\ Status(i) # "pending"
    /\ lane' = [lane EXCEPT ![l] = LaneAt("pick", @.todo \ {i}, @.seen, NoAttempt)]
    /\ UNCHANGED <<row, running, exiting, daemon, plan, faults, stolen, abandoned>>

\* Mutant: the slow lane ends without slow_done.set().
SlowDoneNeverSet(l) == TRUE

SlowLaneWorking(l) == \E m \in RunOf(l) \ QuickLanes : lane[m].pc # "off"

Fresh(l) == (RowsWith("pending") \cap Serves[l]) \ lane[l].seen

Refill(l) ==
    /\ lane[l].pc = "pick" /\ lane[l].todo = {}
    /\ l \in QuickLanes /\ SlowLaneWorking(l)
    /\ Fresh(l) # {}
    /\ lane' = [lane EXCEPT ![l] = LaneAt("pick", Fresh(l), @.seen \cup Fresh(l), NoAttempt)]
    /\ UNCHANGED <<row, running, exiting, daemon, plan, faults, stolen, abandoned>>

LaneDone(l) ==
    /\ lane[l].pc = "pick" /\ lane[l].todo = {}
    /\ ~(l \in QuickLanes /\ SlowLaneWorking(l))
    /\ lane' = [lane EXCEPT ![l] = Off]
    /\ UNCHANGED <<row, running, exiting, daemon, plan, faults, stolen, abandoned>>

\* Popen, up to the SELECT by which the subprocess reads its row.
SpawnItemSubprocess(l) ==
    /\ lane[l].pc = "spawn"
    /\ LET w == lane[l].watched
           a == [item |-> w.item, n |-> w.n, read |-> row[w.item].attempts]
       IN  /\ lane' = [lane EXCEPT ![l] = LaneAt("join", @.todo, @.seen, a)]
           /\ running' = running \cup {a}
    /\ UNCHANGED <<row, exiting, daemon, plan, faults, stolen, abandoned>>

\* join() sees the subprocess gone; the outcome it left is only counted.
JoinExited(l) ==
    /\ lane[l].pc = "join"
    /\ lane[l].watched \notin running \cup exiting
    /\ lane' = [lane EXCEPT ![l] = Pick(@)]
    /\ UNCHANGED <<row, running, exiting, daemon, plan, faults, stolen, abandoned>>

\* join() sees no progress, or the deadline passed, and kills the process
\* group: a subprocess that has just committed is killed all the same.
TerminateProcessGroup(l) ==
    /\ lane[l].pc = "join"
    /\ lane[l].watched \in running \cup exiting
    /\ running' = running \ {lane[l].watched}
    /\ exiting' = exiting \ {lane[l].watched}
    /\ lane' = [lane EXCEPT ![l] = LaneAt("late", @.todo, @.seen, @.watched)]
    /\ UNCHANGED <<row, daemon, plan, faults, stolen, abandoned>>

\* mark_error("timeout: ...") after the kill, by id, whatever the row is by now.
MarkTimeout(l) ==
    /\ lane[l].pc = "late"
    /\ LET Update(r) == Failed(r, "timeout")
       IN  Sweep({lane[l].watched.item}, Update)
    /\ lane' = [lane EXCEPT ![l] = Pick(@)]
    /\ UNCHANGED <<running, exiting, daemon, plan, faults, abandoned>>

\* Mutant: join() without the safety net of its finally clause.
LaneDiesUnreaped(l) ==
    /\ lane[l].pc # "off"
    /\ Fault
    /\ lane' = [lane EXCEPT ![l] = Off]
    /\ UNCHANGED <<row, running, exiting, daemon, plan, stolen, abandoned>>

\* An exception (Popen failing, database locked) ends the lane thread; the
\* finally clause of join() takes the subprocess with it.
LaneDies(l) ==
    /\ lane[l].pc # "off"
    /\ Fault
    /\ running' = running \ Watched({l})
    /\ exiting' = exiting \ Watched({l})
    /\ lane' = [lane EXCEPT ![l] = Off]
    /\ UNCHANGED <<row, daemon, plan, stolen, abandoned>>

-----------------------------------------------------------------------------
(* The subprocess.  Its writes are by id, whatever the row is by then.     *)

WriteOutcome(a, r) ==
    /\ a \in running
    /\ row' = [row EXCEPT ![a.item] = r]
    /\ running' = running \ {a}
    /\ exiting' = exiting \cup {a}
    /\ stolen' = IF \/ Spawning(a.item) # {}
                    \/ \E b \in running \ {a} : b.item = a.item
                 THEN stolen \cup {a.item} ELSE stolen
    /\ UNCHANGED <<lane, daemon, plan, faults, abandoned>>

MarkFinished(a) ==
    \E s \in {"processed", "skipped"} : WriteOutcome(a, Finished(row[a.item], s))

InferenceTimeout(a) == WriteOutcome(a, Failed(row[a.item], "timeout"))

ExtractionError(a) ==
    WriteOutcome(a, Failed(row[a.item],
                     IF a.read >= TombstoneAfterAttempts THEN "tombstone" ELSE "plain"))

\* Killed from outside (OOM, SIGKILL) or unable to write: the row keeps
\* "processing" and no error.
SubprocessDies(a) ==
    /\ a \in running
    /\ Fault
    /\ running' = running \ {a}
    /\ UNCHANGED <<row, lane, exiting, daemon, plan, stolen, abandoned>>

SubprocessExits(a) ==
    /\ a \in exiting
    /\ exiting' = exiting \ {a}
    /\ UNCHANGED <<row, lane, running, daemon, plan, faults, stolen, abandoned>>

-----------------------------------------------------------------------------
(* retry_failed_extractions: the SELECTs run before the write transaction  *)
(* begins, and the UPDATEs name rows by id alone.                          *)

\* Mutant: the SELECT without NOT LIKE 'tombstoned:%'.
RetryVerdictAllErrors(r) ==
    IF r.status = "error" /\ r.err # "timeout" THEN "requeue" ELSE "keep"

\* Mutant: the query for timeouts is left out.
RetryVerdictNoTimeouts(r) ==
    CASE r.status = "error" /\ r.err \in {"none", "plain"} -> "requeue"
      [] r.status = "processing" /\ r.age = 2 -> "stale_reset"
      [] OTHER -> "keep"

RetryVerdict(r) ==
    CASE r.status = "error" /\ r.err \in {"none", "plain"} -> "requeue"
      [] r.status = "error" /\ r.err = "timeout" /\ r.attempts >= MaxTimeoutAttempts
           -> "timeout_tombstone"
      [] r.status = "error" /\ r.err = "timeout" /\ r.attempts < MaxTimeoutAttempts
           /\ r.age >= 1 -> "requeue"
      [] r.status = "processing" /\ r.age = 2 /\ r.attempts >= StaleTombstoneAttempts
           -> "stale_tombstone"
      [] r.status = "processing" /\ r.age = 2 /\ r.attempts < StaleTombstoneAttempts
           -> "stale_reset"
      [] r.status = "pending" /\ r.err = "none" /\ r.attempts >= MaxPendingSilentAttempts
           -> "silent_tombstone"
      [] OTHER -> "keep"

RetryFailedRead ==
    /\ daemon # "down"
    /\ plan = NoPlan
    /\ plan' = [i \in Items |-> RetryVerdict(row[i])]
    /\ UNCHANGED <<row, lane, running, exiting, daemon, faults, stolen, abandoned>>

\* 'tombstoned: ... Last: ' || last_error is NULL when last_error is, and
\* this UPDATE alone leaves the status as it finds it.
RetryUpdate(r, verdict) ==
    CASE verdict \in {"requeue", "stale_reset"} -> Requeued(r)
      [] verdict \in {"stale_tombstone", "silent_tombstone"} -> Failed(r, "tombstone")
      [] verdict = "timeout_tombstone" ->
           IF r.err = "none" THEN r ELSE SetRow(r, r.status, "tombstone")
      [] OTHER -> r

RetryFailedWrite ==
    /\ plan # NoPlan
    /\ row' = [i \in Items |-> RetryUpdate(row[i], plan[i])]
    /\ stolen' = stolen \cup {i \in Items : /\ Status(i) = "processing" /\ InFlight(i)
                                            /\ row'[i].status # "processing"}
    /\ plan' = NoPlan
    /\ UNCHANGED <<lane, running, exiting, daemon, faults, abandoned>>

-----------------------------------------------------------------------------
(* The daemon process.                                                     *)

\* run(): _reset_stale_processing_items before any thread starts.
StartDaemon ==
    /\ daemon = "down"
    /\ daemon' = "up"
    /\ Sweep(RowsWith("processing"), Requeued)
    /\ UNCHANGED <<lane, running, exiting, plan, faults, abandoned>>

\* stop_all() kills the subprocesses registered now; the lane threads live on
\* and may spawn the next one.
StopAll ==
    /\ running' = running \ Watched(DaemonLanes)
    /\ exiting' = exiting \ Watched(DaemonLanes)
    /\ UNCHANGED <<row, lane, plan, stolen, abandoned>>

BeginShutdown ==
    /\ daemon = "up"
    /\ Fault
    /\ daemon' = "stopping"
    /\ StopAll

\* join_running_jobs() returned: the lanes are done or its 30 seconds are over.
StopAllAgain ==
    /\ daemon = "stopping"
    /\ daemon' = "marking"
    /\ StopAll
    /\ UNCHANGED faults

MarkProcessingItemsAsError ==
    /\ daemon = "marking"
    /\ daemon' = "exiting"
    /\ LET Update(r) == Failed(r, "plain") IN Sweep(RowsWith("processing"), Update)
    /\ UNCHANGED <<lane, running, exiting, plan, faults, abandoned>>

\* The threads of a process that ends are gone; its subprocesses lead
\* sessions of their own and are not.
ThreadsEnd(ls) ==
    /\ lane' = [l \in Lanes |-> IF l \in ls THEN Off ELSE lane[l]]
    /\ abandoned' = (abandoned \/ Watched(ls) \cap (running \cup exiting) # {})

DaemonExits ==
    /\ daemon = "exiting"
    /\ daemon' = "down"
    /\ ThreadsEnd(DaemonLanes)
    /\ plan' = NoPlan
    /\ UNCHANGED <<row, running, exiting, faults, stolen>>

DaemonCrashes ==
    /\ daemon # "down"
    /\ Fault
    /\ daemon' = "down"
    /\ ThreadsEnd(DaemonLanes)
    /\ plan' = NoPlan
    /\ UNCHANGED <<row, running, exiting, stolen>>

ForegroundCrashes ==
    /\ \E l \in Lanes \ DaemonLanes : lane[l].pc # "off"
    /\ Fault
    /\ ThreadsEnd(Lanes \ DaemonLanes)
    /\ UNCHANGED <<row, running, exiting, daemon, plan, stolen>>

-----------------------------------------------------------------------------
(* Time.  A lane that watches the current claim kills its subprocess       *)
(* within seconds of max_extraction_item_seconds, half an hour before the  *)
(* claim is stale; a claim nobody watches may grow as old as it likes.     *)

WatchedClaim(i) ==
    \E l \in Lanes : /\ lane[l].pc \in {"spawn", "join", "late"}
                     /\ lane[l].watched.item = i
                     /\ lane[l].watched.n = row[i].attempts

TimePasses(i) ==
    /\ \/ Status(i) = "processing" /\ row[i].age < 2
          /\ (row[i].age = 1 => ~WatchedClaim(i))
       \/ Status(i) = "error" /\ row[i].age < 1
    /\ row' = [row EXCEPT ![i] = Older(@)]
    /\ UNCHANGED <<lane, running, exiting, daemon, plan, faults, stolen, abandoned>>

-----------------------------------------------------------------------------
LaneStep(l) ==
    \/ \E i \in Items : MarkProcessing(l, i) \/ SkipCandidate(l, i)
    \/ Refill(l) \/ LaneDone(l)
    \/ SpawnItemSubprocess(l) \/ JoinExited(l)
    \/ TerminateProcessGroup(l) \/ MarkTimeout(l)

SubprocessStep ==
    \/ \E a \in running : \/ MarkFinished(a) \/ InferenceTimeout(a)
                          \/ ExtractionError(a) \/ SubprocessDies(a)
    \/ \E a \in exiting : SubprocessExits(a)

ShutdownStep == StopAllAgain \/ MarkProcessingItemsAsError \/ DaemonExits

Next ==
    \/ \E i \in Items : \/ EnqueueNew(i) \/ EnqueueAgain(i)
                        \/ RetryExtraction(i) \/ TimePasses(i)
    \/ \E ls \in {DaemonLanes, Lanes \ DaemonLanes} : ProcessExtractionQueue(ls)
    \/ \E l \in Lanes : LaneStep(l) \/ LaneDies(l)
    \/ SubprocessStep
    \/ RetryFailedRead \/ RetryFailedWrite
    \/ StartDaemon \/ BeginShutdown \/ ShutdownStep
    \/ DaemonCrashes \/ ForegroundCrashes

Spec == Init /\ [][Next]_vars

-----------------------------------------------------------------------------
(* Safety.                                                                 *)

\* last_error is set exactly on the rows in error: a row given another chance
\* carries no verdict of an earlier one, and no failed row lacks its reason
\* (retry_failed_extractions and the tombstones read nothing else).
ErrorFieldConsistent == \A i \in Items : Status(i) = "error" <=> row[i].err # "none"

\* No two subprocesses extract the same item at once: the guarantee the
\* docstring of mark_processing gives.
AtMostOneInFlight == \A a, b \in running : a.item = b.item => a = b

\* The guarded claim alone never dispatches an item twice: two attempts in
\* flight imply that somebody first took the row out of "processing" from
\* under a live attempt (a sweep, a start, a shutdown or a late write).
DoubleDispatchOnlyAfterTheft ==
    \A i \in Items \ stolen :
        /\ \A a, b \in running : a.item = i /\ b.item = i => a = b
        /\ \A l, m \in Spawning(i) : l = m
        /\ Spawning(i) # {} => \A a \in running : a.item # i

\* join() leaves no subprocess behind: while no process has ended before its
\* children, a live subprocess is watched by a lane of a run that goes on.
NoSubprocessOutlivesItsLane ==
    ~abandoned => running \cup exiting \subseteq Watched(Lanes)

\* The reaper of a run never takes a row from a live attempt when the daemon
\* is the only runner and has abandoned none: its job lock is released only
\* after every lane has reaped its subprocess.
OneDaemonNeverReapsItsOwn ==
    [][ (Lanes = DaemonLanes /\ ~abandoned /\ ProcessExtractionQueue(DaemonLanes))
          => stolen' = stolen ]_vars

Tombstoned(i) == row[i].status = "error" /\ row[i].err = "tombstone"

\* Nobody holds an attempt at i or a decision about it.
Quiet(i) ==
    /\ \A a \in running : a.item # i
    /\ \A l \in Lanes : lane[l].pc \in {"spawn", "join", "late"} => lane[l].watched.item # i
    /\ plan[i] = "keep"

Buried(i) == Tombstoned(i) /\ Quiet(i)

\* A tombstone nobody still holds a claim or a decision against is final for
\* everything automatic: no sweep selects it, no lane claims it, and only a
\* new enqueue of its source or the operator's retry brings the item back.
TombstoneFinal ==
    [][ \A i \in Items : Buried(i) /\ ~Buried(i)'
          => EnqueueAgain(i) \/ RetryExtraction(i) ]_vars

-----------------------------------------------------------------------------
(* Fairness: every thread goes on, a subprocess ends or is killed at its   *)
(* deadline, the scheduler starts due jobs and the service manager starts  *)
(* the daemon.  Faults, intake and foreground runs need never happen, and  *)
(* an orphan nobody watches need never end.                                *)

Fairness ==
    /\ \A l \in Lanes : WF_vars(LaneStep(l))
    /\ \A l \in Lanes : WF_vars(TerminateProcessGroup(l))
    /\ WF_vars(ProcessExtractionQueue(DaemonLanes))
    /\ WF_vars(RetryFailedRead) /\ WF_vars(RetryFailedWrite)
    /\ WF_vars(StartDaemon) /\ WF_vars(ShutdownStep)
    /\ \A i \in Items : WF_vars(TimePasses(i))

FairSpec == Spec /\ Fairness

Settled(i) == Status(i) \in {"absent", "processed", "skipped"} \/ Tombstoned(i)

\* Every queued item is dealt with: faults being finitely many, the retries
\* end, and each item is processed, skipped or tombstoned for good.
EventuallySettled == <>[](\A i \in Items : Settled(i))

\* No pending item is forgotten, whichever lane it belongs to.
PendingServed == \A i \in Items : Status(i) = "pending" ~> Status(i) # "pending"

-----------------------------------------------------------------------------
(* The queue implements ExtractionTickets.                                 *)

TicketOf(a) == [job |-> a.item, n |-> a.n]

\* A lane's claim is work from the moment it is made, the process comes later.
Unspawned == {l \in Lanes : lane[l].pc = "spawn"}
Guarding == {l \in Lanes : lane[l].pc \in {"spawn", "join", "late"}}

Tickets == INSTANCE ExtractionTickets WITH
    Jobs <- Items,
    status <- [i \in Items |-> row[i].status],
    count <- [i \in Items |-> row[i].attempts],
    working <- {TicketOf(a) : a \in running}
                 \cup {TicketOf(lane[l].watched) : l \in Unspawned},
    guarded <- {TicketOf(lane[l].watched) : l \in Guarding},
    docket <- {i \in Items : plan[i] # "keep"}

\* Whatever lanes, sweeps, crashes and retries do, a job is started only by a
\* claim of a pending row, finished only by the one report of that claim's
\* worker, overruled at most once by its watchdog, and otherwise only given
\* another chance or given up.
ImplementsTickets == Tickets!TicketSpec

=============================================================================
