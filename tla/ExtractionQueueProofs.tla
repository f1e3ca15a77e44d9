------------------------ MODULE ExtractionQueueProofs ------------------------
(***************************************************************************)
(* Proofs about ExtractionQueue, for every set of items and lanes, every   *)
(* assignment of lanes to the daemon and every value of the thresholds.    *)
(***************************************************************************)
EXTENDS ExtractionQueue, TLAPS

-----------------------------------------------------------------------------
(* The UPDATE statements.                                                  *)

\* Every UPDATE maps a row to a row, and says what becomes of the status, the
\* attempt count and the error.
LEMMA RequeuedRow ==
    ASSUME NEW r \in Row
    PROVE  /\ Requeued(r) \in Row
           /\ Requeued(r).status = "pending"
           /\ Requeued(r).attempts = r.attempts
           /\ Requeued(r).err = "none"
BY DEF Requeued, SetRow, Row, Statuses, Errors, Ages

LEMMA ReapedRow ==
    ASSUME NEW r \in Row
    PROVE  /\ Reaped(r) \in Row
           /\ Reaped(r).status = "pending"
           /\ Reaped(r).attempts = r.attempts
           /\ Reaped(r).err = r.err
BY DEF Reaped, SetRow, Row, Statuses, Errors, Ages

LEMMA FailedRow ==
    ASSUME NEW r \in Row, NEW e \in Errors
    PROVE  /\ Failed(r, e) \in Row
           /\ Failed(r, e).status = "error"
           /\ Failed(r, e).attempts = r.attempts
           /\ Failed(r, e).err = e
BY DEF Failed, SetRow, Row, Statuses, Errors, Ages

LEMMA FinishedRow ==
    ASSUME NEW r \in Row, NEW s \in {"processed", "skipped"}
    PROVE  /\ Finished(r, s) \in Row
           /\ Finished(r, s).status = s
           /\ Finished(r, s).attempts = r.attempts
           /\ Finished(r, s).err = "none"
BY DEF Finished, SetRow, Row, Statuses, Errors, Ages

LEMMA ClaimedRow ==
    ASSUME NEW r \in Row
    PROVE  /\ Claimed(r) \in Row
           /\ Claimed(r).status = "processing"
           /\ Claimed(r).attempts = r.attempts + 1
           /\ Claimed(r).err = "none"
BY DEF Claimed, Row, Statuses, Errors, Ages

\* A row in flight stays in flight through a re-enqueue.
LEMMA ReenqueuedRow ==
    ASSUME NEW r \in Row, NEW changed \in BOOLEAN
    PROVE  /\ Reenqueued(r, changed) \in Row
           /\ Reenqueued(r, changed).attempts = r.attempts
           /\ Reenqueued(r, changed).err = "none"
           /\ Reenqueued(r, changed).status \in {"pending", r.status}
           /\ r.status \in {"pending", "processing"} =>
                Reenqueued(r, changed).status = r.status
           /\ r.status = "error" => Reenqueued(r, changed).status = "pending"
BY DEF Reenqueued, Requeued, SetRow, Row, Statuses, Errors, Ages

\* The retry job's UPDATE keeps the count, and an error exactly on a row in error.
LEMMA RetryUpdateRow ==
    ASSUME NEW r \in Row, NEW v \in Verdicts
    PROVE  /\ RetryUpdate(r, v) \in Row
           /\ RetryUpdate(r, v).attempts = r.attempts
           /\ (r.status = "error" <=> r.err # "none") =>
                (RetryUpdate(r, v).status = "error" <=> RetryUpdate(r, v).err # "none")
<1>1. CASE v \in {"requeue", "stale_reset"}
  <2>1. RetryUpdate(r, v) = Requeued(r)
    BY <1>1 DEF RetryUpdate
  <2>2. QED  BY <2>1, RequeuedRow
<1>2. CASE v \in {"stale_tombstone", "silent_tombstone"}
  <2>1. RetryUpdate(r, v) = Failed(r, "tombstone")
    BY <1>2 DEF RetryUpdate
  <2>2. "tombstone" \in Errors /\ "tombstone" # "none"
    BY DEF Errors
  <2>3. QED  BY <2>1, <2>2, FailedRow
<1>3. CASE v = "timeout_tombstone"
  <2>1. RetryUpdate(r, v) = IF r.err = "none" THEN r ELSE SetRow(r, r.status, "tombstone")
    BY <1>3 DEF RetryUpdate
  <2>2. QED  BY <2>1 DEF SetRow, Row, Errors, Statuses, Ages
<1>4. CASE v = "keep"
  <2>1. RetryUpdate(r, v) = r
    BY <1>4 DEF RetryUpdate
  <2>2. QED  BY <2>1 DEF Row
<1>5. QED  BY <1>1, <1>2, <1>3, <1>4 DEF Verdicts

LEMMA RetryVerdictType ==
    ASSUME NEW r \in Row
    PROVE  RetryVerdict(r) \in Verdicts
BY DEF RetryVerdict, Verdicts

LEMMA OlderRow ==
    ASSUME NEW r \in Row, r.age < 2
    PROVE  /\ Older(r) \in Row
           /\ Older(r).status = r.status
           /\ Older(r).attempts = r.attempts
           /\ Older(r).err = r.err
BY DEF Older, Row, Ages

-----------------------------------------------------------------------------
(* Type correctness.                                                       *)

LEMMA LaneAtType ==
    ASSUME NEW pc \in Pcs, NEW todo \in SUBSET Items, NEW seen \in SUBSET Items,
           NEW w \in Attempt \cup {NoAttempt}
    PROVE  LaneAt(pc, todo, seen, w) \in Lane
BY DEF LaneAt, Lane

LEMMA OffType == Off \in Lane
BY LaneAtType DEF Off, Pcs

\* The attempt a lane watches is one from the moment of its claim.
WatchedType ==
    \A l \in Lanes : lane[l].pc \in {"spawn", "join", "late"} => lane[l].watched \in Attempt

LEMMA InitTypeOK == Init => TypeOK /\ WatchedType
<1>. SUFFICES ASSUME Init PROVE TypeOK /\ WatchedType
  OBVIOUS
<1>1. row \in [Items -> Row]
  <2>1. Absent \in Row
    BY DEF Absent, Row, Statuses, Errors, Ages
  <2>2. QED  BY <2>1 DEF Init
<1>2. lane \in [Lanes -> Lane]
  BY OffType DEF Init
<1>3. plan \in [Items -> Verdicts]
  BY DEF Init, NoPlan, Verdicts
<1>4. WatchedType
  BY DEF Init, WatchedType, Off, LaneAt
<1>5. QED
  BY <1>1, <1>2, <1>3, <1>4 DEF Init, TypeOK, DaemonStates

LEMMA RowStepType ==
    ASSUME TypeOK, NEW i \in Items, NEW r \in Row, row' = [row EXCEPT ![i] = r]
    PROVE  row' \in [Items -> Row]
BY DEF TypeOK

LEMMA LaneStepType ==
    ASSUME TypeOK, WatchedType, NEW l \in Lanes, NEW s \in Lane,
           s.pc \in {"spawn", "join", "late"} => s.watched \in Attempt,
           lane' = [lane EXCEPT ![l] = s]
    PROVE  lane' \in [Lanes -> Lane] /\ WatchedType'
BY DEF TypeOK, WatchedType, Lane

LEMMA LaneFields ==
    ASSUME TypeOK, NEW l \in Lanes
    PROVE  /\ lane[l] \in Lane /\ lane[l].pc \in Pcs
           /\ lane[l].todo \in SUBSET Items /\ lane[l].seen \in SUBSET Items
           /\ lane[l].watched \in Attempt \cup {NoAttempt}
BY DEF TypeOK, Lane

LEMMA NextTypeOK == TypeOK /\ WatchedType /\ [Next]_vars => TypeOK' /\ WatchedType'
<1>. SUFFICES ASSUME TypeOK, WatchedType, [Next]_vars
              PROVE  TypeOK' /\ WatchedType'
  OBVIOUS
<1>r. ASSUME NEW i \in Items PROVE row[i] \in Row
  BY DEF TypeOK
<1>1. ASSUME NEW i \in Items, EnqueueNew(i) PROVE TypeOK' /\ WatchedType'
  BY <1>1, <1>r, RequeuedRow, RowStepType DEF EnqueueNew, TypeOK, WatchedType
<1>2. ASSUME NEW i \in Items, EnqueueAgain(i) PROVE TypeOK' /\ WatchedType'
  BY <1>2, <1>r, ReenqueuedRow, RowStepType DEF EnqueueAgain, Fault, TypeOK, WatchedType
<1>3. ASSUME NEW i \in Items, RetryExtraction(i) PROVE TypeOK' /\ WatchedType'
  BY <1>3, <1>r, RequeuedRow, RowStepType DEF RetryExtraction, Fault, TypeOK, WatchedType
<1>4. ASSUME NEW i \in Items, TimePasses(i) PROVE TypeOK' /\ WatchedType'
  <2>1. row[i] \in Row /\ row[i].age < 2
    BY <1>4, <1>r DEF TimePasses, Row, Ages
  <2>2. Older(row[i]) \in Row
    BY <2>1, OlderRow
  <2>3. QED
    BY <1>4, <2>2, RowStepType DEF TimePasses, TypeOK, WatchedType
<1>5. ASSUME NEW ls \in SUBSET Lanes, ProcessExtractionQueue(ls) PROVE TypeOK' /\ WatchedType'
  <2>1. row' \in [Items -> Row]
    BY <1>5, <1>r, ReapedRow DEF ProcessExtractionQueue, Sweep, TypeOK
  <2>2. stolen' \subseteq Items
    BY <1>5 DEF ProcessExtractionQueue, Sweep, TypeOK, Orphaned
  <2>3. ASSUME NEW l \in ls
        PROVE  /\ Launched(ls, RowsWith("pending") \cup Orphaned)[l] \in Lane
               /\ Launched(ls, RowsWith("pending") \cup Orphaned)[l].pc \in {"off", "pick"}
    <3>. DEFINE w == (RowsWith("pending") \cup Orphaned) \cap Serves[l]
    <3>1. w \in SUBSET Items
      BY DEF RowsWith, Orphaned
    <3>2. LaneAt("pick", w, w, NoAttempt) \in Lane /\ LaneAt("pick", w, w, NoAttempt).pc = "pick"
      BY <3>1, LaneAtType DEF Pcs, LaneAt
    <3>3. Off \in Lane /\ Off.pc = "off"
      BY OffType DEF Off, LaneAt
    <3>4. QED
      BY <3>2, <3>3 DEF Launched
  <2>4. lane' \in [Lanes -> Lane] /\ WatchedType'
    BY <1>5, <2>3 DEF ProcessExtractionQueue, TypeOK, WatchedType
  <2>5. QED
    BY <1>5, <2>1, <2>2, <2>4 DEF ProcessExtractionQueue, TypeOK
<1>6. ASSUME NEW l \in Lanes, LaneStep(l) PROVE TypeOK' /\ WatchedType'
  <2>f. /\ lane[l].todo \in SUBSET Items /\ lane[l].seen \in SUBSET Items
        /\ lane[l].watched \in Attempt \cup {NoAttempt}
        /\ Off \in Lane /\ Off.pc = "off"
    BY LaneFields, OffType DEF Off, LaneAt
  <2>p. Pick(lane[l]) \in Lane /\ Pick(lane[l]).pc = "pick"
    BY <2>f, LaneAtType DEF Pick, Pcs, LaneAt
  <2>1. ASSUME NEW i \in Items, MarkProcessing(l, i) PROVE TypeOK' /\ WatchedType'
    <3>. DEFINE a == [item |-> i, n |-> row[i].attempts + 1, read |-> 0]
                s == LaneAt("spawn", lane[l].todo \ {i}, lane[l].seen, a)
    <3>1. a \in Attempt
      BY <1>r DEF Row, Attempt
    <3>2. s \in Lane /\ s.watched = a
      BY <2>f, <3>1, LaneAtType DEF Pcs, LaneAt
    <3>3. lane' = [lane EXCEPT ![l] = s]
      BY <2>1 DEF MarkProcessing
    <3>4. lane' \in [Lanes -> Lane] /\ WatchedType'
      BY <3>1, <3>2, <3>3, LaneStepType
    <3>5. row' \in [Items -> Row]
      BY <2>1, <1>r, ClaimedRow, RowStepType DEF MarkProcessing
    <3>6. QED
      BY <2>1, <3>4, <3>5 DEF MarkProcessing, TypeOK
  <2>2. ASSUME NEW i \in Items, SkipCandidate(l, i) PROVE TypeOK' /\ WatchedType'
    <3>. DEFINE s == LaneAt("pick", lane[l].todo \ {i}, lane[l].seen, NoAttempt)
    <3>1. s \in Lane /\ s.pc = "pick"
      BY <2>f, LaneAtType DEF Pcs, LaneAt
    <3>2. lane' = [lane EXCEPT ![l] = s]
      BY <2>2 DEF SkipCandidate
    <3>3. QED
      BY <2>2, <3>1, <3>2, LaneStepType DEF SkipCandidate, TypeOK
  <2>3. CASE Refill(l)
    <3>. DEFINE s == LaneAt("pick", Fresh(l), lane[l].seen \cup Fresh(l), NoAttempt)
    <3>1. Fresh(l) \in SUBSET Items
      BY DEF Fresh, RowsWith
    <3>2. s \in Lane /\ s.pc = "pick"
      BY <2>f, <3>1, LaneAtType DEF Pcs, LaneAt
    <3>3. lane' = [lane EXCEPT ![l] = s]
      BY <2>3 DEF Refill
    <3>4. QED
      BY <2>3, <3>2, <3>3, LaneStepType DEF Refill, TypeOK
  <2>4. CASE LaneDone(l)
    BY <2>4, <2>f, LaneStepType DEF LaneDone, TypeOK
  <2>5. CASE SpawnItemSubprocess(l)
    <3>. DEFINE w == lane[l].watched
                a == [item |-> w.item, n |-> w.n, read |-> row[w.item].attempts]
                s == LaneAt("join", lane[l].todo, lane[l].seen, a)
    <3>1. w \in Attempt
      BY <2>5 DEF SpawnItemSubprocess, WatchedType
    <3>2. a \in Attempt
      BY <3>1, <1>r DEF Attempt, Row
    <3>3. s \in Lane /\ s.watched = a
      BY <2>f, <3>2, LaneAtType DEF Pcs, LaneAt
    <3>4. lane' = [lane EXCEPT ![l] = s] /\ running' = running \cup {a}
      BY <2>5 DEF SpawnItemSubprocess
    <3>5. QED
      BY <2>5, <3>2, <3>3, <3>4, LaneStepType DEF SpawnItemSubprocess, TypeOK
  <2>6. CASE JoinExited(l)
    BY <2>6, <2>p, LaneStepType DEF JoinExited, TypeOK
  <2>7. CASE TerminateProcessGroup(l)
    <3>. DEFINE s == LaneAt("late", lane[l].todo, lane[l].seen, lane[l].watched)
    <3>1. lane[l].watched \in Attempt
      BY <2>7 DEF TerminateProcessGroup, WatchedType
    <3>2. s \in Lane /\ s.watched = lane[l].watched
      BY <2>f, LaneAtType DEF Pcs, LaneAt
    <3>3. lane' = [lane EXCEPT ![l] = s]
      BY <2>7 DEF TerminateProcessGroup
    <3>4. QED
      BY <2>7, <3>1, <3>2, <3>3, LaneStepType DEF TerminateProcessGroup, TypeOK
  <2>8. CASE MarkTimeout(l)
    <3>1. lane[l].watched.item \in Items
      BY <2>8 DEF MarkTimeout, WatchedType, Attempt
    <3>2. "timeout" \in Errors
      BY DEF Errors
    <3>3. row' \in [Items -> Row]
      BY <2>8, <3>2, <1>r, FailedRow DEF MarkTimeout, Sweep, TypeOK
    <3>4. stolen' \subseteq Items
      BY <2>8, <3>1 DEF MarkTimeout, Sweep, TypeOK
    <3>5. lane' \in [Lanes -> Lane] /\ WatchedType'
      BY <2>8, <2>p, LaneStepType DEF MarkTimeout
    <3>6. QED
      BY <2>8, <3>3, <3>4, <3>5 DEF MarkTimeout, TypeOK
  <2>9. QED
    BY <1>6, <2>1, <2>2, <2>3, <2>4, <2>5, <2>6, <2>7, <2>8 DEF LaneStep
<1>7. ASSUME NEW l \in Lanes, LaneDies(l) PROVE TypeOK' /\ WatchedType'
  <2>1. Off \in Lane /\ Off.pc = "off"
    BY OffType DEF Off, LaneAt
  <2>2. lane' \in [Lanes -> Lane] /\ WatchedType'
    BY <1>7, <2>1, LaneStepType DEF LaneDies
  <2>3. QED
    BY <1>7, <2>2 DEF LaneDies, Fault, TypeOK
<1>8. ASSUME NEW a \in running, NEW r \in Row, WriteOutcome(a, r)
      PROVE  TypeOK' /\ WatchedType'
  <2>1. a \in Attempt /\ a.item \in Items
    BY DEF TypeOK, Attempt
  <2>2. row' \in [Items -> Row]
    BY <1>8, <2>1, RowStepType DEF WriteOutcome
  <2>3. stolen' \subseteq Items
    BY <1>8, <2>1 DEF WriteOutcome, TypeOK
  <2>4. QED
    BY <1>8, <2>1, <2>2, <2>3 DEF WriteOutcome, TypeOK, WatchedType
<1>9. CASE SubprocessStep
  <2>1. ASSUME NEW a \in running, MarkFinished(a) PROVE TypeOK' /\ WatchedType'
    <3>1. PICK s \in {"processed", "skipped"} : WriteOutcome(a, Finished(row[a.item], s))
      BY <2>1 DEF MarkFinished
    <3>2. a.item \in Items
      BY DEF TypeOK, Attempt
    <3>3. Finished(row[a.item], s) \in Row
      BY <1>r, <3>2, FinishedRow
    <3>4. QED
      BY <1>8, <3>1, <3>3
  <2>2. ASSUME NEW a \in running, NEW e \in Errors, WriteOutcome(a, Failed(row[a.item], e))
        PROVE  TypeOK' /\ WatchedType'
    <3>1. a.item \in Items
      BY DEF TypeOK, Attempt
    <3>2. Failed(row[a.item], e) \in Row
      BY <1>r, <3>1, FailedRow
    <3>3. QED
      BY <1>8, <2>2, <3>2
  <2>3. ASSUME NEW a \in running, InferenceTimeout(a) PROVE TypeOK' /\ WatchedType'
    BY <2>2, <2>3 DEF InferenceTimeout, Errors
  <2>4. ASSUME NEW a \in running, ExtractionError(a) PROVE TypeOK' /\ WatchedType'
    BY <2>2, <2>4 DEF ExtractionError, Errors
  <2>5. ASSUME NEW a \in running, SubprocessDies(a) PROVE TypeOK' /\ WatchedType'
    BY <2>5 DEF SubprocessDies, Fault, TypeOK, WatchedType
  <2>6. ASSUME NEW a \in exiting, SubprocessExits(a) PROVE TypeOK' /\ WatchedType'
    BY <2>6 DEF SubprocessExits, TypeOK, WatchedType
  <2>7. QED
    BY <1>9, <2>1, <2>3, <2>4, <2>5, <2>6 DEF SubprocessStep
<1>10. CASE RetryFailedRead
  BY <1>10, <1>r, RetryVerdictType DEF RetryFailedRead, TypeOK, WatchedType
<1>11. CASE RetryFailedWrite
  <2>1. \A i \in Items : plan[i] \in Verdicts
    BY DEF TypeOK
  <2>2. row' \in [Items -> Row]
    BY <1>11, <1>r, <2>1, RetryUpdateRow DEF RetryFailedWrite
  <2>3. plan' \in [Items -> Verdicts]
    BY <1>11 DEF RetryFailedWrite, NoPlan, Verdicts
  <2>4. stolen' \subseteq Items
    BY <1>11 DEF RetryFailedWrite, TypeOK
  <2>5. QED
    BY <1>11, <2>2, <2>3, <2>4 DEF RetryFailedWrite, TypeOK, WatchedType
<1>12. CASE StartDaemon
  <2>1. row' \in [Items -> Row]
    BY <1>12, <1>r, RequeuedRow DEF StartDaemon, Sweep
  <2>2. stolen' \subseteq Items
    BY <1>12 DEF StartDaemon, Sweep, TypeOK, RowsWith
  <2>3. QED
    BY <1>12, <2>1, <2>2 DEF StartDaemon, TypeOK, WatchedType, DaemonStates
<1>13. CASE BeginShutdown
  BY <1>13 DEF BeginShutdown, StopAll, Fault, TypeOK, WatchedType, DaemonStates
<1>14. ASSUME NEW ls \in SUBSET Lanes, ThreadsEnd(ls)
       PROVE  lane' \in [Lanes -> Lane] /\ WatchedType' /\ abandoned' \in BOOLEAN
  <2>1. Off \in Lane /\ Off.pc = "off"
    BY OffType DEF Off, LaneAt
  <2>2. QED
    BY <1>14, <2>1 DEF ThreadsEnd, TypeOK, WatchedType
<1>15. DaemonLanes \in SUBSET Lanes /\ Lanes \ DaemonLanes \in SUBSET Lanes
  BY LaneAssumption
<1>16. NoPlan \in [Items -> Verdicts]
  BY DEF NoPlan, Verdicts
<1>17. CASE ShutdownStep
  <2>1. CASE StopAllAgain
    BY <2>1 DEF StopAllAgain, StopAll, TypeOK, WatchedType, DaemonStates
  <2>2. CASE MarkProcessingItemsAsError
    <3>1. "plain" \in Errors
      BY DEF Errors
    <3>2. row' \in [Items -> Row]
      BY <2>2, <3>1, <1>r, FailedRow DEF MarkProcessingItemsAsError, Sweep
    <3>3. stolen' \subseteq Items
      BY <2>2 DEF MarkProcessingItemsAsError, Sweep, TypeOK, RowsWith
    <3>4. QED
      BY <2>2, <3>2, <3>3 DEF MarkProcessingItemsAsError, TypeOK, WatchedType, DaemonStates
  <2>3. CASE DaemonExits
    BY <2>3, <1>14, <1>15, <1>16 DEF DaemonExits, TypeOK, DaemonStates
  <2>4. QED
    BY <1>17, <2>1, <2>2, <2>3 DEF ShutdownStep
<1>18. CASE DaemonCrashes
  BY <1>18, <1>14, <1>15, <1>16 DEF DaemonCrashes, Fault, TypeOK, DaemonStates
<1>19. CASE ForegroundCrashes
  BY <1>19, <1>14, <1>15 DEF ForegroundCrashes, Fault, TypeOK
<1>20. CASE UNCHANGED vars
  BY <1>20 DEF vars, TypeOK, WatchedType
<1>21. QED
  BY <1>1, <1>2, <1>3, <1>4, <1>5, <1>6, <1>7, <1>9, <1>10, <1>11, <1>12, <1>13,
     <1>15, <1>17, <1>18, <1>19, <1>20 DEF Next

LEMMA Typing == Spec => [](TypeOK /\ WatchedType)
BY InitTypeOK, NextTypeOK, PTL DEF Spec

\* Type correctness: every UPDATE, every lane and every sweep leaves the table,
\* the threads and the subprocesses in states their declarations allow.
THEOREM TypeCorrect == Spec => []TypeOK
BY Typing, PTL

-----------------------------------------------------------------------------
(* last_error is set exactly on the rows in error.                         *)

Explained(r) == r.status = "error" <=> r.err # "none"

LEMMA InitExplained == Init => ErrorFieldConsistent
BY DEF Init, ErrorFieldConsistent, Absent, Status

LEMMA ErrorFieldStep ==
    TypeOK /\ WatchedType /\ ErrorFieldConsistent /\ [Next]_vars => ErrorFieldConsistent'
<1>. SUFFICES ASSUME TypeOK, WatchedType, ErrorFieldConsistent, [Next]_vars
              PROVE  ErrorFieldConsistent'
  OBVIOUS
<1>r. ASSUME NEW i \in Items PROVE row[i] \in Row /\ Explained(row[i])
  BY DEF TypeOK, ErrorFieldConsistent, Status, Explained
<1>e. /\ "plain" \in Errors /\ "timeout" \in Errors /\ "tombstone" \in Errors
      /\ "plain" # "none" /\ "timeout" # "none" /\ "tombstone" # "none"
  BY DEF Errors
\* One row is written, or each row is kept, requeued or failed.
<1>s. ASSUME NEW i \in Items, NEW r \in Row, Explained(r), row' = [row EXCEPT ![i] = r]
      PROVE  ErrorFieldConsistent'
  BY <1>s, <1>r DEF ErrorFieldConsistent, Status, Explained, TypeOK
<1>u. ASSUME \A i \in Items : Explained(row'[i])
      PROVE  ErrorFieldConsistent'
  BY <1>u DEF ErrorFieldConsistent, Status, Explained
<1>q. ASSUME NEW i \in Items PROVE Requeued(row[i]) \in Row /\ Explained(Requeued(row[i]))
  BY <1>r, RequeuedRow DEF Explained
<1>f. ASSUME NEW i \in Items, NEW e \in Errors \ {"none"}
      PROVE  Failed(row[i], e) \in Row /\ Explained(Failed(row[i], e))
  BY <1>r, FailedRow DEF Explained
<1>k. row' = row => ErrorFieldConsistent'
  BY DEF ErrorFieldConsistent, Status
<1>1. ASSUME NEW i \in Items, EnqueueNew(i) \/ RetryExtraction(i) PROVE ErrorFieldConsistent'
  <2>1. row' = [row EXCEPT ![i] = Requeued(row[i])]
    BY <1>1 DEF EnqueueNew, RetryExtraction
  <2>2. QED  BY <2>1, <1>q, <1>s
<1>2. ASSUME NEW i \in Items, EnqueueAgain(i) PROVE ErrorFieldConsistent'
  <2>1. PICK changed \in BOOLEAN : row' = [row EXCEPT ![i] = Reenqueued(row[i], changed)]
    BY <1>2 DEF EnqueueAgain
  <2>2. Reenqueued(row[i], changed) \in Row /\ Explained(Reenqueued(row[i], changed))
    <3>1. row[i] \in Row /\ row[i].status \in Statuses
      BY <1>r DEF Row
    <3>2. QED  BY <3>1, ReenqueuedRow DEF Explained, Statuses
  <2>3. QED  BY <2>1, <2>2, <1>s
<1>3. ASSUME NEW i \in Items, TimePasses(i) PROVE ErrorFieldConsistent'
  <2>1. row[i] \in Row /\ row[i].age < 2 /\ row' = [row EXCEPT ![i] = Older(row[i])]
    BY <1>3, <1>r DEF TimePasses, Row, Ages
  <2>2. Older(row[i]) \in Row /\ Explained(Older(row[i]))
    BY <2>1, <1>r, OlderRow DEF Explained
  <2>3. QED  BY <2>1, <2>2, <1>s
<1>4. ASSUME NEW ls, ProcessExtractionQueue(ls) PROVE ErrorFieldConsistent'
  <2>1. ASSUME NEW i \in Orphaned PROVE Explained(Reaped(row[i]))
    BY <1>r, ReapedRow DEF Orphaned, Status, Explained
  <2>2. Orphaned \in SUBSET Items
    BY DEF Orphaned
  <2>3. \A i \in Items : Explained(row'[i])
    BY <1>4, <1>r, <2>1, <2>2 DEF ProcessExtractionQueue, Sweep
  <2>4. QED  BY <2>3, <1>u
<1>5. ASSUME NEW l \in Lanes, LaneStep(l) PROVE ErrorFieldConsistent'
  <2>1. ASSUME NEW i \in Items, MarkProcessing(l, i) PROVE ErrorFieldConsistent'
    <3>1. row' = [row EXCEPT ![i] = Claimed(row[i])]
      BY <2>1 DEF MarkProcessing
    <3>2. Claimed(row[i]) \in Row /\ Explained(Claimed(row[i]))
      BY <1>r, ClaimedRow DEF Explained
    <3>3. QED  BY <3>1, <3>2, <1>s
  <2>2. CASE MarkTimeout(l)
    <3>1. \A i \in Items : Explained(row'[i])
      BY <2>2, <1>e, <1>f, <1>r DEF MarkTimeout, Sweep
    <3>2. QED  BY <3>1, <1>u
  <2>3. QED
    BY <1>5, <2>1, <2>2, <1>k DEF LaneStep, SkipCandidate, Refill, LaneDone,
       SpawnItemSubprocess, JoinExited, TerminateProcessGroup
<1>6. ASSUME NEW l \in Lanes, LaneDies(l) PROVE ErrorFieldConsistent'
  BY <1>6, <1>k DEF LaneDies
<1>7. CASE SubprocessStep
  <2>i. ASSUME NEW a \in running PROVE a.item \in Items
    BY DEF TypeOK, Attempt
  <2>1. ASSUME NEW a \in running, NEW r \in Row, Explained(r), WriteOutcome(a, r)
        PROVE  ErrorFieldConsistent'
    BY <2>1, <2>i, <1>s DEF WriteOutcome
  <2>2. ASSUME NEW a \in running, MarkFinished(a) PROVE ErrorFieldConsistent'
    <3>1. PICK s \in {"processed", "skipped"} : WriteOutcome(a, Finished(row[a.item], s))
      BY <2>2 DEF MarkFinished
    <3>2. row[a.item] \in Row
      BY <2>i, <1>r
    <3>3. Finished(row[a.item], s) \in Row /\ Explained(Finished(row[a.item], s))
      BY <3>2, FinishedRow DEF Explained
    <3>4. QED  BY <3>1, <3>3, <2>1
  <2>3. ASSUME NEW a \in running, InferenceTimeout(a) PROVE ErrorFieldConsistent'
    BY <2>3, <2>1, <2>i, <1>e, <1>f DEF InferenceTimeout
  <2>4. ASSUME NEW a \in running, ExtractionError(a) PROVE ErrorFieldConsistent'
    BY <2>4, <2>1, <2>i, <1>e, <1>f DEF ExtractionError
  <2>5. QED
    BY <1>7, <2>2, <2>3, <2>4, <1>k DEF SubprocessStep, SubprocessDies, SubprocessExits
<1>8. CASE RetryFailedWrite
  <2>1. ASSUME NEW i \in Items PROVE Explained(row'[i])
    <3>1. row'[i] = RetryUpdate(row[i], plan[i]) /\ plan[i] \in Verdicts
      BY <1>8 DEF RetryFailedWrite, TypeOK
    <3>2. QED  BY <3>1, <1>r, RetryUpdateRow DEF Explained
  <2>2. QED  BY <2>1, <1>u
<1>9. CASE StartDaemon
  BY <1>9, <1>r, <1>q, <1>u DEF StartDaemon, Sweep
<1>10. CASE ShutdownStep
  <2>1. CASE MarkProcessingItemsAsError
    <3>1. \A i \in Items : Explained(row'[i])
      BY <2>1, <1>e, <1>f, <1>r DEF MarkProcessingItemsAsError, Sweep
    <3>2. QED  BY <3>1, <1>u
  <2>2. QED
    BY <1>10, <2>1, <1>k DEF ShutdownStep, StopAllAgain, StopAll, DaemonExits
<1>11. QED
  BY <1>1, <1>2, <1>3, <1>4, <1>5, <1>6, <1>7, <1>8, <1>9, <1>10, <1>k
     DEF Next, RetryFailedRead, BeginShutdown, StopAll, DaemonCrashes, ForegroundCrashes, vars

\* A row in error says why, and no other row carries an error: across every
\* claim, sweep, late write and re-enqueue, in whatever order they come.
THEOREM ErrorsExplained == Spec => []ErrorFieldConsistent
BY InitExplained, Typing, ErrorFieldStep, PTL DEF Spec

-----------------------------------------------------------------------------
(* Double dispatch.  What the guarded claim of mark_processing really      *)
(* guarantees: an item is dispatched twice only after its row was taken    *)
(* out of "processing" from under a live attempt.                          *)

IsSpawning(l) == lane[l].pc = "spawn"

SameClaim(a, b) == a.item = b.item /\ a.n = b.n

\* No attempt is numbered beyond the count its row has reached.
CountedAttempts ==
    /\ \A l \in Lanes : IsSpawning(l) => lane[l].watched.n <= row[lane[l].watched.item].attempts
    /\ \A a \in running : a.n <= row[a.item].attempts

\* A claim is somebody's: two lanes, two subprocesses or one of each never
\* hold the same attempt at the same item.
DistinctClaims ==
    /\ \A a, b \in running : SameClaim(a, b) => a = b
    /\ \A l \in Lanes, a \in running : IsSpawning(l) => ~SameClaim(lane[l].watched, a)
    /\ \A l, m \in Lanes :
          IsSpawning(l) /\ IsSpawning(m) /\ SameClaim(lane[l].watched, lane[m].watched) => l = m

\* An item nobody has stolen is in flight only as the latest claim of a row
\* that is still "processing".
CurrentClaims ==
    \A i \in Items \ stolen :
        /\ \A a \in running :
              a.item = i => row[i].status = "processing" /\ a.n = row[i].attempts
        /\ \A l \in Lanes :
              IsSpawning(l) /\ lane[l].watched.item = i
                => row[i].status = "processing" /\ lane[l].watched.n = row[i].attempts

DispatchInv == CountedAttempts /\ DistinctClaims /\ CurrentClaims

-----------------------------------------------------------------------------
LEMMA InitDispatch == Init => DispatchInv
BY DEF Init, DispatchInv, CountedAttempts, DistinctClaims, CurrentClaims, IsSpawning, Off, LaneAt

\* Frame: a step that starts no lane and no subprocess, keeps every attempt
\* count, and moves out of "processing" only rows nobody has in flight or rows
\* it marks as stolen, preserves the invariant.
LEMMA DispatchFrame ==
    ASSUME TypeOK, WatchedType, DispatchInv,
           \A l \in Lanes : IsSpawning(l)' => IsSpawning(l) /\ lane'[l].watched = lane[l].watched,
           running' \subseteq running,
           stolen \subseteq stolen',
           \A i \in Items : row'[i].attempts = row[i].attempts,
           \A i \in Items \ stolen' :
              \/ row'[i].status = row[i].status
              \/ row[i].status # "processing"
              \/ ~InFlight(i)
              \/ ~InFlight(i)'
    PROVE  DispatchInv'
<1>w. ASSUME NEW l \in Lanes, IsSpawning(l)
      PROVE  lane[l].watched \in Attempt /\ lane[l].watched.item \in Items
  BY <1>w DEF WatchedType, Attempt, IsSpawning
<1>a. \A a \in running : a \in Attempt /\ a.item \in Items
  BY DEF TypeOK, Attempt
<1>1. CountedAttempts'
  BY <1>w, <1>a DEF DispatchInv, CountedAttempts
<1>2. DistinctClaims'
  BY DEF DispatchInv, DistinctClaims
<1>3. CurrentClaims'
  <2>. SUFFICES ASSUME NEW i \in Items \ stolen'
       PROVE  /\ \A a \in running' :
                    a.item = i => row'[i].status = "processing" /\ a.n = row'[i].attempts
              /\ \A l \in Lanes :
                    IsSpawning(l)' /\ lane'[l].watched.item = i
                      => row'[i].status = "processing" /\ lane'[l].watched.n = row'[i].attempts
    BY DEF CurrentClaims
  <2>1. i \in Items \ stolen
    OBVIOUS
  <2>2. /\ \A a \in running :
              a.item = i => row[i].status = "processing" /\ a.n = row[i].attempts
        /\ \A l \in Lanes :
              IsSpawning(l) /\ lane[l].watched.item = i
                => row[i].status = "processing" /\ lane[l].watched.n = row[i].attempts
    BY <2>1 DEF DispatchInv, CurrentClaims
  <2>3. CASE row'[i].status = row[i].status
    BY <2>2, <2>3
  <2>4. CASE row[i].status # "processing"
    BY <2>2, <2>4
  <2>5. CASE ~InFlight(i)
    BY <2>5 DEF InFlight, Spawning, IsSpawning
  <2>6. CASE ~InFlight(i)'
    BY <2>6 DEF InFlight, Spawning, IsSpawning
  <2>7. QED  BY <2>3, <2>4, <2>5, <2>6
<1>4. QED  BY <1>1, <1>2, <1>3 DEF DispatchInv

\* A sweep keeps what DispatchFrame asks for: what it takes from a live
\* attempt it marks as stolen.
LEMMA DispatchSweep ==
    ASSUME TypeOK, WatchedType, DispatchInv, NEW S \in SUBSET Items,
           NEW U, \A i \in S : U[i].attempts = row[i].attempts,
           row' = [i \in Items |-> IF i \in S THEN U[i] ELSE row[i]],
           stolen' = stolen \cup {i \in S : Status(i) = "processing" /\ InFlight(i)},
           \A l \in Lanes : IsSpawning(l)' => IsSpawning(l) /\ lane'[l].watched = lane[l].watched,
           running' \subseteq running
    PROVE  DispatchInv'
<1>1. \A i \in Items : row'[i].attempts = row[i].attempts
  OBVIOUS
<1>2. \A i \in Items \ stolen' : \/ row'[i].status = row[i].status
                                 \/ row[i].status # "processing"
                                 \/ ~InFlight(i)
  BY DEF Status
<1>3. stolen \subseteq stolen'
  OBVIOUS
<1>4. QED  BY <1>1, <1>2, <1>3, DispatchFrame

\* One row is written that is in no live attempt's way.
LEMMA DispatchRow ==
    ASSUME TypeOK, WatchedType, DispatchInv, NEW i \in Items, NEW r \in Row,
           r.attempts = row[i].attempts,
           r.status = row[i].status \/ row[i].status # "processing",
           row' = [row EXCEPT ![i] = r], UNCHANGED <<lane, running, stolen>>
    PROVE  DispatchInv'
<1>1. \A j \in Items : row'[j].attempts = row[j].attempts
  BY DEF TypeOK
<1>2. \A j \in Items : row'[j].status = row[j].status \/ row[j].status # "processing"
  BY DEF TypeOK
<1>3. \A l \in Lanes : IsSpawning(l)' => IsSpawning(l) /\ lane'[l].watched = lane[l].watched
  BY DEF IsSpawning
<1>4. QED  BY <1>1, <1>2, <1>3, DispatchFrame

\* Nothing the invariant speaks of changes, but lanes may leave "spawn" and
\* subprocesses may end.
LEMMA DispatchShrink ==
    ASSUME TypeOK, WatchedType, DispatchInv,
           \A l \in Lanes : lane'[l] = lane[l] \/ lane'[l].pc # "spawn",
           running' \subseteq running, UNCHANGED <<row, stolen>>
    PROVE  DispatchInv'
BY DispatchFrame DEF IsSpawning

-----------------------------------------------------------------------------
(* The two steps by which attempts come about.                             *)

\* The claim: the row was pending, so unless it is stolen nobody has it in
\* flight, and its new number is beyond every number in use.
LEMMA DispatchClaim ==
    ASSUME TypeOK, WatchedType, DispatchInv, NEW c \in Lanes, NEW i \in Items,
           MarkProcessing(c, i)
    PROVE  DispatchInv'
<1>. DEFINE a == [item |-> i, n |-> row[i].attempts + 1, read |-> 0]
<1>r. row[i] \in Row /\ row[i].attempts \in Nat
  BY DEF TypeOK, Row
<1>1. /\ row' = [row EXCEPT ![i] = Claimed(row[i])] /\ row[i].status = "pending"
      /\ lane' = [lane EXCEPT ![c] = LaneAt("spawn", lane[c].todo \ {i}, lane[c].seen, a)]
      /\ lane[c].pc = "pick" /\ running' = running /\ stolen' = stolen
  BY DEF MarkProcessing, Status
<1>2. /\ lane'[c].pc = "spawn" /\ lane'[c].watched = a
      /\ \A l \in Lanes \ {c} : lane'[l] = lane[l]
  BY <1>1 DEF TypeOK, LaneAt
<1>3. /\ row'[i].status = "processing" /\ row'[i].attempts = row[i].attempts + 1
      /\ \A j \in Items \ {i} : row'[j] = row[j]
  BY <1>1, <1>r, ClaimedRow DEF TypeOK
<1>w. ASSUME NEW l \in Lanes, IsSpawning(l)
      PROVE  lane[l].watched \in Attempt /\ lane[l].watched.item \in Items /\ lane[l].watched.n \in Nat
  BY <1>w DEF WatchedType, Attempt, IsSpawning
<1>a. \A b \in running : b \in Attempt /\ b.item \in Items /\ b.n \in Nat
  BY DEF TypeOK, Attempt
<1>4. ASSUME NEW l \in Lanes \ {c}, IsSpawning(l) PROVE ~SameClaim(lane[l].watched, a)
  BY <1>4, <1>w, <1>r DEF DispatchInv, CountedAttempts, SameClaim
<1>5. ASSUME NEW b \in running PROVE ~SameClaim(a, b)
  BY <1>a, <1>r DEF DispatchInv, CountedAttempts, SameClaim
<1>6. CountedAttempts'
  <2>1. ASSUME NEW j \in Items PROVE row'[j].attempts \in Nat /\ row[j].attempts \in Nat
                                     /\ row[j].attempts <= row'[j].attempts
    BY <1>3, <1>r DEF TypeOK, Row
  <2>2. ASSUME NEW b \in running' PROVE b.n <= row'[b.item].attempts
    <3>1. b.n <= row[b.item].attempts /\ b.n \in Nat /\ b.item \in Items
      BY <1>1, <1>a DEF DispatchInv, CountedAttempts
    <3>2. QED  BY <3>1, <2>1
  <2>3. ASSUME NEW l \in Lanes, IsSpawning(l)'
        PROVE  lane'[l].watched.n <= row'[lane'[l].watched.item].attempts
    <3>1. CASE l = c
      BY <3>1, <1>2, <1>3, <1>r
    <3>2. CASE l # c
      <4>1. IsSpawning(l) /\ lane'[l] = lane[l]
        BY <2>3, <3>2, <1>2 DEF IsSpawning
      <4>2. lane[l].watched.n <= row[lane[l].watched.item].attempts
        BY <4>1 DEF DispatchInv, CountedAttempts
      <4>3. QED  BY <4>1, <4>2, <2>1, <1>w
    <3>3. QED  BY <3>1, <3>2
  <2>4. QED  BY <2>2, <2>3 DEF CountedAttempts
<1>7. DistinctClaims'
  <2>1. \A b, d \in running' : SameClaim(b, d) => b = d
    BY <1>1 DEF DispatchInv, DistinctClaims
  <2>2. ASSUME NEW l \in Lanes, NEW b \in running', IsSpawning(l)'
        PROVE  ~SameClaim(lane'[l].watched, b)
    BY <2>2, <1>1, <1>2, <1>5 DEF DispatchInv, DistinctClaims, IsSpawning
  <2>3. ASSUME NEW l \in Lanes, NEW m \in Lanes, IsSpawning(l)', IsSpawning(m)',
               SameClaim(lane'[l].watched, lane'[m].watched)
        PROVE  l = m
    <3>1. CASE l # c /\ m # c
      BY <3>1, <2>3, <1>2 DEF DispatchInv, DistinctClaims, IsSpawning
    <3>2. CASE l = c /\ m # c
      BY <3>2, <2>3, <1>2, <1>4 DEF IsSpawning, SameClaim
    <3>3. CASE l # c /\ m = c
      BY <3>3, <2>3, <1>2, <1>4 DEF IsSpawning, SameClaim
    <3>4. QED  BY <3>1, <3>2, <3>3
  <2>4. \A b, d \in running : SameClaim(b, d)' <=> SameClaim(b, d)
    BY DEF SameClaim
  <2>5. QED  BY <2>1, <2>2, <2>3 DEF DistinctClaims, SameClaim
<1>8. CurrentClaims'
  <2>. SUFFICES ASSUME NEW j \in Items \ stolen
       PROVE  /\ \A b \in running' :
                    b.item = j => row'[j].status = "processing" /\ b.n = row'[j].attempts
              /\ \A l \in Lanes :
                    IsSpawning(l)' /\ lane'[l].watched.item = j
                      => row'[j].status = "processing" /\ lane'[l].watched.n = row'[j].attempts
    BY <1>1 DEF CurrentClaims
  <2>1. /\ \A b \in running :
              b.item = j => row[j].status = "processing" /\ b.n = row[j].attempts
        /\ \A l \in Lanes :
              IsSpawning(l) /\ lane[l].watched.item = j
                => row[j].status = "processing" /\ lane[l].watched.n = row[j].attempts
    BY DEF DispatchInv, CurrentClaims
  <2>2. ASSUME NEW b \in running', b.item = j
        PROVE  row'[j].status = "processing" /\ b.n = row'[j].attempts
    <3>1. row[j].status = "processing" /\ b.n = row[j].attempts
      BY <2>1, <2>2, <1>1
    <3>2. j # i
      BY <3>1, <1>1
    <3>3. QED  BY <3>1, <3>2, <1>3
  <2>3. ASSUME NEW l \in Lanes, IsSpawning(l)', lane'[l].watched.item = j
        PROVE  row'[j].status = "processing" /\ lane'[l].watched.n = row'[j].attempts
    <3>1. CASE l = c
      <4>1. lane'[l].watched = a /\ j = i
        BY <3>1, <2>3, <1>2
      <4>2. QED  BY <4>1, <1>3
    <3>2. CASE l # c
      <4>1. IsSpawning(l) /\ lane'[l] = lane[l]
        BY <3>2, <2>3, <1>2 DEF IsSpawning
      <4>2. row[j].status = "processing" /\ lane[l].watched.n = row[j].attempts
        BY <4>1, <2>1, <2>3
      <4>3. j # i
        BY <4>2, <1>1
      <4>4. QED  BY <4>1, <4>2, <4>3, <1>3
    <3>3. QED  BY <3>1, <3>2
  <2>4. QED  BY <2>2, <2>3
<1>9. QED  BY <1>6, <1>7, <1>8 DEF DispatchInv

\* The spawn: the claim a lane held passes to its subprocess.
LEMMA DispatchSpawn ==
    ASSUME TypeOK, WatchedType, DispatchInv, NEW c \in Lanes, SpawnItemSubprocess(c)
    PROVE  DispatchInv'
<1>. DEFINE w == lane[c].watched
            a == [item |-> w.item, n |-> w.n, read |-> row[w.item].attempts]
<1>1. /\ IsSpawning(c) /\ running' = running \cup {a} /\ UNCHANGED <<row, stolen>>
      /\ lane' = [lane EXCEPT ![c] = LaneAt("join", lane[c].todo, lane[c].seen, a)]
  BY DEF SpawnItemSubprocess, IsSpawning
<1>2. ~IsSpawning(c)' /\ \A l \in Lanes \ {c} : lane'[l] = lane[l]
  BY <1>1 DEF TypeOK, LaneAt, IsSpawning
<1>3. a.item = w.item /\ a.n = w.n
  OBVIOUS
<1>4. CountedAttempts'
  BY <1>1, <1>2, <1>3 DEF DispatchInv, CountedAttempts, IsSpawning
<1>5. DistinctClaims'
  <2>1. ASSUME NEW b \in running', NEW d \in running', SameClaim(b, d) PROVE b = d
    BY <2>1, <1>1, <1>3 DEF DispatchInv, DistinctClaims, SameClaim
  <2>2. ASSUME NEW l \in Lanes, NEW b \in running', IsSpawning(l)'
        PROVE  ~SameClaim(lane'[l].watched, b)
    <3>1. l # c /\ IsSpawning(l) /\ lane'[l] = lane[l]
      BY <2>2, <1>2 DEF IsSpawning
    <3>2. CASE b \in running
      BY <3>1, <3>2 DEF DispatchInv, DistinctClaims
    <3>3. CASE b = a
      BY <3>1, <3>3, <1>1, <1>3 DEF DispatchInv, DistinctClaims, SameClaim
    <3>4. QED  BY <3>2, <3>3, <1>1
  <2>3. ASSUME NEW l \in Lanes, NEW m \in Lanes, IsSpawning(l)', IsSpawning(m)',
               SameClaim(lane'[l].watched, lane'[m].watched)
        PROVE  l = m
    BY <2>3, <1>2 DEF DispatchInv, DistinctClaims, IsSpawning
  <2>4. QED  BY <2>1, <2>2, <2>3 DEF DistinctClaims, SameClaim
<1>6. CurrentClaims'
  BY <1>1, <1>2, <1>3 DEF DispatchInv, CurrentClaims, IsSpawning
<1>7. QED  BY <1>4, <1>5, <1>6 DEF DispatchInv

\* A subprocess writes its outcome: alone at its item it is gone with this
\* step, else the item is stolen from the others.
LEMMA DispatchOutcome ==
    ASSUME TypeOK, WatchedType, DispatchInv, NEW a \in running, NEW r \in Row,
           r.attempts = row[a.item].attempts, WriteOutcome(a, r)
    PROVE  DispatchInv'
<1>1. a.item \in Items
  BY DEF TypeOK, Attempt
<1>2. /\ row' = [row EXCEPT ![a.item] = r] /\ running' = running \ {a} /\ lane' = lane
      /\ stolen \subseteq stolen'
  BY DEF WriteOutcome
<1>3. \A i \in Items : row'[i].attempts = row[i].attempts
  BY <1>1, <1>2 DEF TypeOK
<1>4. a.item \notin stolen' => ~InFlight(a.item)'
  <2>. SUFFICES ASSUME a.item \notin stolen' PROVE ~InFlight(a.item)'
    OBVIOUS
  <2>1. Spawning(a.item) = {} /\ \A b \in running \ {a} : b.item # a.item
    BY DEF WriteOutcome
  <2>2. QED  BY <2>1, <1>2 DEF InFlight, Spawning
<1>5. \A i \in Items \ stolen' : row'[i].status = row[i].status \/ ~InFlight(i)'
  BY <1>1, <1>2, <1>4 DEF TypeOK
<1>6. QED  BY <1>2, <1>3, <1>5, DispatchFrame DEF IsSpawning

-----------------------------------------------------------------------------
LEMMA DispatchStep ==
    TypeOK /\ WatchedType /\ DispatchInv /\ [Next]_vars => DispatchInv'
<1>. SUFFICES ASSUME TypeOK, WatchedType, DispatchInv, [Next]_vars
              PROVE  DispatchInv'
  OBVIOUS
<1>r. ASSUME NEW i \in Items PROVE row[i] \in Row /\ row[i].status \in Statuses
  BY DEF TypeOK, Row
<1>o. Off.pc = "off"
  BY DEF Off, LaneAt
<1>e. "plain" \in Errors /\ "timeout" \in Errors /\ "tombstone" \in Errors
  BY DEF Errors
<1>1. ASSUME NEW i \in Items, EnqueueNew(i) \/ RetryExtraction(i) PROVE DispatchInv'
  <2>1. /\ row' = [row EXCEPT ![i] = Requeued(row[i])] /\ row[i].status # "processing"
        /\ UNCHANGED <<lane, running, stolen>>
    BY <1>1 DEF EnqueueNew, RetryExtraction, Status
  <2>2. Requeued(row[i]) \in Row /\ Requeued(row[i]).attempts = row[i].attempts
    BY <1>r, RequeuedRow
  <2>3. QED  BY <2>1, <2>2, DispatchRow
<1>2. ASSUME NEW i \in Items, EnqueueAgain(i) PROVE DispatchInv'
  <2>1. PICK changed \in BOOLEAN : row' = [row EXCEPT ![i] = Reenqueued(row[i], changed)]
    BY <1>2 DEF EnqueueAgain
  <2>. DEFINE q == Reenqueued(row[i], changed)
  <2>2. /\ q \in Row /\ q.attempts = row[i].attempts
        /\ q.status = row[i].status \/ row[i].status # "processing"
    <3>. HIDE DEF q
    <3>1. row[i] \in Row /\ changed \in BOOLEAN
      BY <1>r, <2>1
    <3>2. /\ q \in Row /\ q.attempts = row[i].attempts
          /\ row[i].status \in {"pending", "processing"} => q.status = row[i].status
      BY <3>1, ReenqueuedRow DEF q
    <3>3. QED  BY <3>2
  <2>3. UNCHANGED <<lane, running, stolen>>
    BY <1>2 DEF EnqueueAgain
  <2>4. QED  BY <2>1, <2>2, <2>3, DispatchRow
<1>3. ASSUME NEW i \in Items, TimePasses(i) PROVE DispatchInv'
  <2>1. row[i] \in Row /\ row[i].age < 2 /\ row' = [row EXCEPT ![i] = Older(row[i])]
    BY <1>3, <1>r DEF TimePasses, Row, Ages
  <2>2. /\ Older(row[i]) \in Row /\ Older(row[i]).attempts = row[i].attempts
        /\ Older(row[i]).status = row[i].status
    BY <2>1, OlderRow
  <2>3. UNCHANGED <<lane, running, stolen>>
    BY <1>3 DEF TimePasses
  <2>4. QED  BY <2>1, <2>2, <2>3, DispatchRow
\* A sweep that requeues or fails rows while no lane starts anything.
<1>s. ASSUME NEW S \in SUBSET Items, NEW U, \A i \in S : U[i].attempts = row[i].attempts,
             row' = [i \in Items |-> IF i \in S THEN U[i] ELSE row[i]],
             stolen' = stolen \cup {i \in S : Status(i) = "processing" /\ InFlight(i)},
             \A l \in Lanes : lane'[l] = lane[l] \/ lane'[l].pc # "spawn",
             running' = running
      PROVE  DispatchInv'
  BY <1>s, DispatchSweep DEF IsSpawning
<1>q. ASSUME NEW S \in SUBSET Items, Sweep(S, Requeued),
             \A l \in Lanes : lane'[l] = lane[l] \/ lane'[l].pc # "spawn",
             running' = running
      PROVE  DispatchInv'
  <2>. DEFINE U == [i \in Items |-> Requeued(row[i])]
  <2>1. \A i \in S : U[i].attempts = row[i].attempts /\ U[i] = Requeued(row[i])
    BY <1>r, RequeuedRow
  <2>2. row' = [i \in Items |-> IF i \in S THEN U[i] ELSE row[i]]
    BY <1>q DEF Sweep
  <2>3. stolen' = stolen \cup {i \in S : Status(i) = "processing" /\ InFlight(i)}
    BY <1>q DEF Sweep
  <2>4. (\A l \in Lanes : lane'[l] = lane[l] \/ lane'[l].pc # "spawn") /\ running' = running
    BY <1>q
  <2>. HIDE DEF U
  <2>5. QED  BY <2>1, <2>2, <2>3, <2>4, <1>s
<1>f. ASSUME NEW S \in SUBSET Items, NEW e \in Errors,
             row' = [i \in Items |-> IF i \in S THEN Failed(row[i], e) ELSE row[i]],
             stolen' = stolen \cup {i \in S : Status(i) = "processing" /\ InFlight(i)},
             \A l \in Lanes : lane'[l] = lane[l] \/ lane'[l].pc # "spawn",
             running' = running
      PROVE  DispatchInv'
  <2>. DEFINE U == [i \in Items |-> Failed(row[i], e)]
  <2>1. \A i \in S : U[i].attempts = row[i].attempts /\ U[i] = Failed(row[i], e)
    BY <1>r, FailedRow
  <2>2. row' = [i \in Items |-> IF i \in S THEN U[i] ELSE row[i]]
    BY <1>f
  <2>. HIDE DEF U
  <2>3. QED  BY <2>1, <2>2, <1>f, <1>s
<1>4. ASSUME NEW ls \in SUBSET Lanes, ProcessExtractionQueue(ls) PROVE DispatchInv'
  <2>. DEFINE U == [i \in Items |-> Reaped(row[i])]
  <2>1. \A i \in Orphaned : U[i].attempts = row[i].attempts /\ U[i] = Reaped(row[i])
    BY <1>r, ReapedRow DEF Orphaned
  <2>2. /\ row' = [i \in Items |-> IF i \in Orphaned THEN U[i] ELSE row[i]]
        /\ stolen' = stolen \cup {i \in Orphaned : Status(i) = "processing" /\ InFlight(i)}
        /\ running' = running
    BY <1>4 DEF ProcessExtractionQueue, Sweep
  <2>3. ASSUME NEW l \in Lanes PROVE lane'[l] = lane[l] \/ lane'[l].pc # "spawn"
    BY <1>4, <1>o DEF ProcessExtractionQueue, Launched, LaneAt
  <2>4. Orphaned \in SUBSET Items
    BY DEF Orphaned
  <2>. HIDE DEF U
  <2>5. QED  BY <2>1, <2>2, <2>3, <2>4, <1>s
<1>5. ASSUME NEW l \in Lanes, LaneStep(l) PROVE DispatchInv'
  <2>t. ASSUME NEW s, s.pc # "spawn", lane' = [lane EXCEPT ![l] = s], NEW m \in Lanes
        PROVE  lane'[m] = lane[m] \/ lane'[m].pc # "spawn"
    BY <2>t DEF TypeOK
  <2>1. ASSUME NEW i \in Items, MarkProcessing(l, i) PROVE DispatchInv'
    BY <2>1, DispatchClaim
  <2>2. CASE SpawnItemSubprocess(l)
    BY <2>2, DispatchSpawn
  <2>3. CASE MarkTimeout(l)
    <3>1. lane[l].watched.item \in Items
      BY <2>3 DEF MarkTimeout, WatchedType, Attempt
    <3>2. /\ lane' = [lane EXCEPT ![l] = Pick(lane[l])] /\ Pick(lane[l]).pc # "spawn"
          /\ running' = running
      BY <2>3 DEF MarkTimeout, Pick, LaneAt
    <3>3. \A m \in Lanes : lane'[m] = lane[m] \/ lane'[m].pc # "spawn"
      BY <3>2, <2>t
    <3>. DEFINE S == {lane[l].watched.item}
    <3>4. /\ row' = [i \in Items |-> IF i \in S THEN Failed(row[i], "timeout") ELSE row[i]]
          /\ stolen' = stolen \cup {i \in S : Status(i) = "processing" /\ InFlight(i)}
      BY <2>3 DEF MarkTimeout, Sweep
    <3>5. S \in SUBSET Items
      BY <3>1
    <3>. HIDE DEF S
    <3>6. QED  BY <3>2, <3>3, <3>4, <3>5, <1>e, <1>f
  <2>4. ASSUME NEW i \in Items, SkipCandidate(l, i) PROVE DispatchInv'
    BY <2>4, <2>t, DispatchShrink DEF SkipCandidate, LaneAt
  <2>5. CASE Refill(l)
    BY <2>5, <2>t, DispatchShrink DEF Refill, LaneAt
  <2>6. CASE LaneDone(l)
    BY <2>6, <2>t, <1>o, DispatchShrink DEF LaneDone
  <2>7. CASE JoinExited(l)
    BY <2>7, <2>t, DispatchShrink DEF JoinExited, Pick, LaneAt
  <2>8. CASE TerminateProcessGroup(l)
    BY <2>8, <2>t, DispatchShrink DEF TerminateProcessGroup, LaneAt
  <2>9. QED
    BY <1>5, <2>1, <2>2, <2>3, <2>4, <2>5, <2>6, <2>7, <2>8 DEF LaneStep
<1>6. ASSUME NEW l \in Lanes, LaneDies(l) PROVE DispatchInv'
  <2>1. \A m \in Lanes : lane'[m] = lane[m] \/ lane'[m].pc # "spawn"
    BY <1>6, <1>o DEF LaneDies, TypeOK
  <2>2. QED  BY <1>6, <2>1, DispatchShrink DEF LaneDies
<1>7. CASE SubprocessStep
  <2>i. ASSUME NEW a \in running PROVE row[a.item] \in Row
    BY <1>r DEF TypeOK, Attempt
  <2>1. ASSUME NEW a \in running, MarkFinished(a) PROVE DispatchInv'
    <3>1. PICK s \in {"processed", "skipped"} : WriteOutcome(a, Finished(row[a.item], s))
      BY <2>1 DEF MarkFinished
    <3>2. /\ Finished(row[a.item], s) \in Row
          /\ Finished(row[a.item], s).attempts = row[a.item].attempts
      BY <2>i, FinishedRow
    <3>3. QED  BY <3>1, <3>2, DispatchOutcome
  <2>2. ASSUME NEW a \in running, NEW e \in Errors, WriteOutcome(a, Failed(row[a.item], e))
        PROVE  DispatchInv'
    <3>1. /\ Failed(row[a.item], e) \in Row
          /\ Failed(row[a.item], e).attempts = row[a.item].attempts
      BY <2>i, FailedRow
    <3>2. QED  BY <2>2, <3>1, DispatchOutcome
  <2>3. ASSUME NEW a \in running, InferenceTimeout(a) PROVE DispatchInv'
    BY <2>3, <2>2, <1>e DEF InferenceTimeout
  <2>4. ASSUME NEW a \in running, ExtractionError(a) PROVE DispatchInv'
    BY <2>4, <2>2, <1>e DEF ExtractionError
  <2>5. ASSUME NEW a \in running, SubprocessDies(a) PROVE DispatchInv'
    BY <2>5, DispatchShrink DEF SubprocessDies
  <2>6. ASSUME NEW a \in exiting, SubprocessExits(a) PROVE DispatchInv'
    BY <2>6, DispatchShrink DEF SubprocessExits
  <2>7. QED  BY <1>7, <2>1, <2>3, <2>4, <2>5, <2>6 DEF SubprocessStep
<1>8. CASE RetryFailedRead
  BY <1>8, DispatchShrink DEF RetryFailedRead
<1>9. CASE RetryFailedWrite
  <2>1. ASSUME NEW i \in Items PROVE row'[i].attempts = row[i].attempts
    <3>1. row'[i] = RetryUpdate(row[i], plan[i]) /\ plan[i] \in Verdicts
      BY <1>9 DEF RetryFailedWrite, TypeOK
    <3>2. QED  BY <3>1, <1>r, RetryUpdateRow
  <2>2. stolen \subseteq stolen' /\ UNCHANGED <<lane, running>>
    BY <1>9 DEF RetryFailedWrite
  <2>3. ASSUME NEW i \in Items \ stolen'
        PROVE  \/ row'[i].status = row[i].status
               \/ row[i].status # "processing"
               \/ ~InFlight(i)
    BY <1>9 DEF RetryFailedWrite, Status
  <2>4. QED  BY <2>1, <2>2, <2>3, DispatchFrame DEF IsSpawning
<1>10. CASE StartDaemon
  <2>1. RowsWith("processing") \in SUBSET Items
    BY DEF RowsWith
  <2>2. Sweep(RowsWith("processing"), Requeued) /\ UNCHANGED <<lane, running>>
    BY <1>10 DEF StartDaemon
  <2>3. QED  BY <2>1, <2>2, <1>q
<1>11. ASSUME StopAll PROVE DispatchInv'
  BY <1>11, DispatchShrink DEF StopAll
<1>12. ASSUME NEW ls \in SUBSET Lanes, ThreadsEnd(ls), UNCHANGED <<row, running, stolen>>
       PROVE  DispatchInv'
  BY <1>12, <1>o, DispatchShrink DEF ThreadsEnd
<1>13. DaemonLanes \in SUBSET Lanes /\ Lanes \ DaemonLanes \in SUBSET Lanes
  BY LaneAssumption
<1>14. CASE ShutdownStep
  <2>1. CASE StopAllAgain
    BY <2>1, <1>11 DEF StopAllAgain
  <2>2. CASE MarkProcessingItemsAsError
    <3>1. RowsWith("processing") \in SUBSET Items
      BY DEF RowsWith
    <3>. DEFINE S == RowsWith("processing")
    <3>2. /\ row' = [i \in Items |-> IF i \in S THEN Failed(row[i], "plain") ELSE row[i]]
          /\ stolen' = stolen \cup {i \in S : Status(i) = "processing" /\ InFlight(i)}
          /\ UNCHANGED <<lane, running>>
      BY <2>2 DEF MarkProcessingItemsAsError, Sweep
    <3>. HIDE DEF S
    <3>3. S \in SUBSET Items
      BY <3>1 DEF S
    <3>4. QED  BY <3>2, <3>3, <1>e, <1>f
  <2>3. CASE DaemonExits
    BY <2>3, <1>12, <1>13 DEF DaemonExits
  <2>4. QED  BY <1>14, <2>1, <2>2, <2>3 DEF ShutdownStep
<1>15. CASE BeginShutdown
  BY <1>15, <1>11 DEF BeginShutdown
<1>16. CASE DaemonCrashes
  BY <1>16, <1>12, <1>13 DEF DaemonCrashes
<1>17. CASE ForegroundCrashes
  BY <1>17, <1>12, <1>13 DEF ForegroundCrashes
<1>18. CASE UNCHANGED vars
  BY <1>18, DispatchShrink DEF vars
<1>19. QED
  BY <1>1, <1>2, <1>3, <1>4, <1>5, <1>6, <1>7, <1>8, <1>9, <1>10, <1>13, <1>14,
     <1>15, <1>16, <1>17, <1>18 DEF Next

LEMMA DispatchSafe == DispatchInv => DoubleDispatchOnlyAfterTheft
<1>. SUFFICES ASSUME DispatchInv, NEW i \in Items \ stolen
     PROVE  /\ \A a, b \in running : a.item = i /\ b.item = i => a = b
            /\ \A l, m \in Spawning(i) : l = m
            /\ Spawning(i) # {} => \A a \in running : a.item # i
  BY DEF DoubleDispatchOnlyAfterTheft
<1>1. \A a, b \in running : a.item = i /\ b.item = i => SameClaim(a, b)
  BY DEF DispatchInv, CurrentClaims, SameClaim
<1>2. \A l, m \in Spawning(i) : SameClaim(lane[l].watched, lane[m].watched)
  BY DEF DispatchInv, CurrentClaims, SameClaim, Spawning, IsSpawning
<1>3. \A l \in Spawning(i), a \in running : a.item = i => SameClaim(lane[l].watched, a)
  BY DEF DispatchInv, CurrentClaims, SameClaim, Spawning, IsSpawning
<1>4. QED
  BY <1>1, <1>2, <1>3 DEF DispatchInv, DistinctClaims, Spawning, IsSpawning

\* Whatever the sweeps, crashes, late writes and re-enqueues, and however many
\* lanes and processes run: two attempts at one item are in flight only if its
\* row was first taken out of "processing" from under a live attempt.
THEOREM NoDoubleDispatchWithoutTheft == Spec => []DoubleDispatchOnlyAfterTheft
<1>1. Spec => []DispatchInv
  BY InitDispatch, Typing, DispatchStep, PTL DEF Spec
<1>2. QED  BY <1>1, DispatchSafe, PTL

-----------------------------------------------------------------------------
(* What is left behind, by extraction/worker.py and jobs.py: no subprocess *)
(* without its lane, no tombstone without effect.                          *)

LEMMA InitReaped == Init => NoSubprocessOutlivesItsLane
BY DEF Init, NoSubprocessOutlivesItsLane

\* Frame: subprocesses only end, and a lane that stops watching one either saw
\* it end or takes it along.
LEMMA ReapedFrame ==
    ASSUME NoSubprocessOutlivesItsLane, abandoned \in BOOLEAN, abandoned' = abandoned,
           running' \cup exiting' \subseteq running \cup exiting,
           \A l \in Lanes : lane[l].pc = "join" /\ lane[l].watched \in running' \cup exiting'
                              => lane'[l].pc = "join" /\ lane'[l].watched = lane[l].watched
    PROVE  NoSubprocessOutlivesItsLane'
<1>. SUFFICES ASSUME ~abandoned, NEW a \in running' \cup exiting'
              PROVE  \E l \in Lanes : lane'[l].pc = "join" /\ lane'[l].watched = a
  BY DEF NoSubprocessOutlivesItsLane, Watched
<1>1. PICK l \in Lanes : lane[l].pc = "join" /\ lane[l].watched = a
  BY DEF NoSubprocessOutlivesItsLane, Watched
<1>2. QED  BY <1>1

LEMMA ReapedStep == TypeOK /\ NoSubprocessOutlivesItsLane /\ [Next]_vars => NoSubprocessOutlivesItsLane'
<1>. SUFFICES ASSUME TypeOK, NoSubprocessOutlivesItsLane, [Next]_vars
              PROVE  NoSubprocessOutlivesItsLane'
  OBVIOUS
<1>b. abandoned \in BOOLEAN
  BY DEF TypeOK
\* Neither lanes nor subprocesses are touched.
<1>k. ASSUME UNCHANGED <<lane, running, exiting, abandoned>>
      PROVE  NoSubprocessOutlivesItsLane'
  BY <1>k, <1>b, ReapedFrame
\* One lane that watches nothing changes.
<1>t. ASSUME NEW l \in Lanes, lane[l].pc # "join" \/ lane[l].watched \notin running' \cup exiting',
             NEW s, lane' = [lane EXCEPT ![l] = s],
             running' \cup exiting' \subseteq running \cup exiting, abandoned' = abandoned
      PROVE  NoSubprocessOutlivesItsLane'
  <2>1. \A m \in Lanes : m # l => lane'[m] = lane[m]
    BY <1>t DEF TypeOK
  <2>2. QED  BY <1>t, <1>b, <2>1, ReapedFrame
<1>1. ASSUME NEW i \in Items,
             EnqueueNew(i) \/ EnqueueAgain(i) \/ RetryExtraction(i) \/ TimePasses(i)
      PROVE  NoSubprocessOutlivesItsLane'
  BY <1>1, <1>k DEF EnqueueNew, EnqueueAgain, RetryExtraction, TimePasses
<1>2. ASSUME NEW ls \in SUBSET Lanes, ProcessExtractionQueue(ls)
      PROVE  NoSubprocessOutlivesItsLane'
  <2>1. \A l \in Lanes : lane[l].pc = "join" => lane'[l] = lane[l]
    BY <1>2 DEF ProcessExtractionQueue
  <2>2. QED  BY <1>2, <1>b, <2>1, ReapedFrame DEF ProcessExtractionQueue
<1>3. ASSUME NEW l \in Lanes, LaneStep(l) PROVE NoSubprocessOutlivesItsLane'
  <2>1. ASSUME NEW i \in Items, MarkProcessing(l, i) \/ SkipCandidate(l, i)
        PROVE  NoSubprocessOutlivesItsLane'
    BY <2>1, <1>t DEF MarkProcessing, SkipCandidate
  <2>2. CASE Refill(l) \/ LaneDone(l) \/ MarkTimeout(l)
    BY <2>2, <1>t DEF Refill, LaneDone, MarkTimeout
  <2>3. CASE JoinExited(l)
    BY <2>3, <1>t DEF JoinExited
  <2>4. CASE TerminateProcessGroup(l)
    BY <2>4, <1>t DEF TerminateProcessGroup
  <2>5. CASE SpawnItemSubprocess(l)
    <3>. DEFINE w == lane[l].watched
                a == [item |-> w.item, n |-> w.n, read |-> row[w.item].attempts]
    <3>1. /\ lane[l].pc = "spawn" /\ running' = running \cup {a}
          /\ lane' = [lane EXCEPT ![l] = LaneAt("join", lane[l].todo, lane[l].seen, a)]
          /\ UNCHANGED <<exiting, abandoned>>
      BY <2>5 DEF SpawnItemSubprocess
    <3>2. lane'[l].pc = "join" /\ lane'[l].watched = a
      BY <3>1 DEF TypeOK, LaneAt
    <3>3. \A m \in Lanes : lane[m].pc = "join" => lane'[m] = lane[m]
      BY <3>1 DEF TypeOK
    <3>. HIDE DEF a
    <3>4. QED  BY <3>1, <3>2, <3>3 DEF NoSubprocessOutlivesItsLane, Watched
  <2>6. QED  BY <1>3, <2>1, <2>2, <2>3, <2>4, <2>5 DEF LaneStep
<1>4. ASSUME NEW l \in Lanes, LaneDies(l) PROVE NoSubprocessOutlivesItsLane'
  BY <1>4, <1>t DEF LaneDies, Watched
<1>5. CASE SubprocessStep
  <2>1. /\ running' \cup exiting' \subseteq running \cup exiting
        /\ UNCHANGED <<lane, abandoned>>
    BY <1>5 DEF SubprocessStep, MarkFinished, InferenceTimeout, ExtractionError,
                WriteOutcome, SubprocessDies, SubprocessExits
  <2>2. QED  BY <2>1, <1>b, ReapedFrame
<1>6. CASE RetryFailedRead \/ RetryFailedWrite \/ StartDaemon
  BY <1>6, <1>k DEF RetryFailedRead, RetryFailedWrite, StartDaemon
<1>7. ASSUME StopAll PROVE NoSubprocessOutlivesItsLane'
  BY <1>7, <1>b, ReapedFrame DEF StopAll
\* A process that ends leaves subprocesses behind only if it is recorded.
<1>8. ASSUME NEW ls \in SUBSET Lanes, ThreadsEnd(ls), UNCHANGED <<running, exiting>>
      PROVE  NoSubprocessOutlivesItsLane'
  BY <1>8, <1>b DEF ThreadsEnd, NoSubprocessOutlivesItsLane, Watched
<1>9. DaemonLanes \in SUBSET Lanes /\ Lanes \ DaemonLanes \in SUBSET Lanes
  BY LaneAssumption
<1>10. CASE ShutdownStep \/ BeginShutdown
  BY <1>10, <1>7, <1>8, <1>9, <1>k
     DEF ShutdownStep, BeginShutdown, StopAllAgain, MarkProcessingItemsAsError, DaemonExits
<1>11. CASE DaemonCrashes \/ ForegroundCrashes
  BY <1>11, <1>8, <1>9 DEF DaemonCrashes, ForegroundCrashes
<1>12. CASE UNCHANGED vars
  BY <1>12, <1>k DEF vars
<1>13. QED
  BY <1>1, <1>2, <1>3, <1>4, <1>5, <1>6, <1>9, <1>10, <1>11, <1>12 DEF Next

\* While no process has ended before its children, every live subprocess of
\* the extraction worker is watched by a lane that will reap or kill it.
THEOREM SubprocessesAreWatched == Spec => []NoSubprocessOutlivesItsLane
BY InitReaped, Typing, ReapedStep, PTL DEF Spec

\* The reaper of the only runner, all lanes of which have returned, finds no
\* attempt to take a row from, however old its rows in flight are.
THEOREM OneDaemonReapsNoLiveAttempt == Spec => OneDaemonNeverReapsItsOwn
<1>1. NoSubprocessOutlivesItsLane /\ [Next]_vars
        => [(Lanes = DaemonLanes /\ ~abandoned /\ ProcessExtractionQueue(DaemonLanes))
              => stolen' = stolen]_vars
  <2>. SUFFICES ASSUME NoSubprocessOutlivesItsLane, Lanes = DaemonLanes, ~abandoned,
                       ProcessExtractionQueue(DaemonLanes)
                PROVE  stolen' = stolen
    OBVIOUS
  <2>1. \A l \in Lanes : lane[l].pc = "off"
    BY DEF ProcessExtractionQueue
  <2>2. running = {}
    BY <2>1 DEF NoSubprocessOutlivesItsLane, Watched
  <2>3. \A i \in Items : ~InFlight(i)
    BY <2>1, <2>2 DEF InFlight, Spawning
  <2>4. stolen' = stolen \cup {i \in Orphaned : Status(i) = "processing" /\ InFlight(i)}
    BY DEF ProcessExtractionQueue, Sweep
  <2>5. QED  BY <2>3, <2>4 DEF Orphaned
<1>2. QED  BY <1>1, SubprocessesAreWatched, PTL DEF Spec, OneDaemonNeverReapsItsOwn

-----------------------------------------------------------------------------
(* A tombstone without a claim or a decision against it.                   *)

\* Frame: the tombstone, the attempts and claims at it and the decision on it
\* are as they were, or fewer.
LEMMA BuriedFrame ==
    ASSUME NEW i \in Items, Buried(i), row'[i] = row[i],
           \A a \in running' : a.item = i => a \in running,
           \A l \in Lanes : lane'[l].pc \in {"spawn", "join", "late"} =>
              \/ lane'[l].watched.item # i
              \/ lane[l].pc \in {"spawn", "join", "late"} /\ lane'[l].watched = lane[l].watched,
           plan'[i] = "keep"
    PROVE  Buried(i)'
<1>1. i \notin {a.item : a \in running'}
  BY DEF Buried, Quiet
<1>2. \A l \in Lanes : lane'[l].pc \in {"spawn", "join", "late"} => lane'[l].watched.item # i
  BY DEF Buried, Quiet
<1>3. QED  BY <1>1, <1>2 DEF Buried, Tombstoned, Quiet

LEMMA BuriedStep ==
    ASSUME TypeOK, WatchedType, [Next]_vars, NEW i \in Items, Buried(i),
           ~EnqueueAgain(i), ~RetryExtraction(i)
    PROVE  Buried(i)'
<1>e. row[i].status = "error" /\ row[i].err = "tombstone" /\ plan[i] = "keep"
  BY DEF Buried, Tombstoned, Quiet
<1>q. /\ \A a \in running : a.item # i
      /\ \A l \in Lanes : lane[l].pc \in {"spawn", "join", "late"} => lane[l].watched.item # i
  BY DEF Buried, Quiet
<1>o. Off.pc = "off"
  BY DEF Off, LaneAt
\* Nothing of i is written, no subprocess starts, lanes stop watching.
<1>k. ASSUME row'[i] = row[i], running' \subseteq running, plan'[i] = "keep",
             \A l \in Lanes : lane'[l] = lane[l] \/ lane'[l].pc \in {"off", "pick"}
      PROVE  Buried(i)'
  BY <1>k, BuriedFrame
<1>w. ASSUME NEW j \in Items, j # i, NEW r, row' = [row EXCEPT ![j] = r]
      PROVE  row'[i] = row[i]
  BY <1>w DEF TypeOK
<1>1. ASSUME NEW j \in Items, EnqueueNew(j) \/ EnqueueAgain(j) \/ RetryExtraction(j)
      PROVE  Buried(i)'
  <2>1. j # i
    BY <1>1, <1>e DEF EnqueueNew, Status
  <2>2. row'[i] = row[i]
    BY <1>1, <2>1, <1>w DEF EnqueueNew, EnqueueAgain, RetryExtraction
  <2>3. QED  BY <1>1, <2>2, <1>e, <1>k DEF EnqueueNew, EnqueueAgain, RetryExtraction
<1>2. ASSUME NEW j \in Items, TimePasses(j) PROVE Buried(i)'
  <2>1. /\ row' = [row EXCEPT ![j] = Older(row[j])]
        /\ UNCHANGED <<lane, running, plan>>
    BY <1>2 DEF TimePasses
  <2>2. row'[i].status = "error" /\ row'[i].err = "tombstone"
    BY <2>1, <1>e DEF TypeOK, Older
  <2>3. QED  BY <2>1, <2>2, <1>e, <1>q DEF Buried, Tombstoned, Quiet
<1>3. ASSUME NEW ls \in SUBSET Lanes, ProcessExtractionQueue(ls) PROVE Buried(i)'
  <2>1. row'[i] = row[i]
    BY <1>3, <1>e DEF ProcessExtractionQueue, Sweep, Orphaned, Status
  <2>2. \A l \in Lanes : lane'[l] = lane[l] \/ lane'[l].pc \in {"off", "pick"}
    BY <1>3, <1>o DEF ProcessExtractionQueue, Launched, LaneAt
  <2>3. QED  BY <1>3, <2>1, <2>2, <1>e, <1>k DEF ProcessExtractionQueue
<1>4. ASSUME NEW l \in Lanes, LaneStep(l) PROVE Buried(i)'
  <2>t. ASSUME NEW s, s.pc \in {"off", "pick"}, lane' = [lane EXCEPT ![l] = s], NEW m \in Lanes
        PROVE  lane'[m] = lane[m] \/ lane'[m].pc \in {"off", "pick"}
    BY <2>t DEF TypeOK
  <2>1. ASSUME NEW j \in Items, MarkProcessing(l, j) PROVE Buried(i)'
    <3>. DEFINE a == [item |-> j, n |-> row[j].attempts + 1, read |-> 0]
    <3>1. /\ lane' = [lane EXCEPT ![l] = LaneAt("spawn", lane[l].todo \ {j}, lane[l].seen, a)]
          /\ row' = [row EXCEPT ![j] = Claimed(row[j])] /\ Status(j) = "pending"
          /\ UNCHANGED <<running, plan>>
      BY <2>1 DEF MarkProcessing
    <3>2. j # i
      BY <3>1, <1>e DEF Status
    <3>3. row'[i] = row[i]
      BY <3>1, <3>2, <1>w
    <3>4. \A m \in Lanes : m # l => lane'[m] = lane[m]
      BY <3>1 DEF TypeOK
    <3>5. lane'[l].watched = a /\ a.item = j
      BY <3>1 DEF TypeOK, LaneAt
    <3>6. QED  BY <3>1, <3>2, <3>3, <3>4, <3>5, <1>e, BuriedFrame
  <2>2. CASE SpawnItemSubprocess(l)
    <3>. DEFINE w == lane[l].watched
                a == [item |-> w.item, n |-> w.n, read |-> row[w.item].attempts]
    <3>1. /\ lane[l].pc = "spawn" /\ running' = running \cup {a}
          /\ lane' = [lane EXCEPT ![l] = LaneAt("join", lane[l].todo, lane[l].seen, a)]
          /\ UNCHANGED <<row, plan>>
      BY <2>2 DEF SpawnItemSubprocess
    <3>2. a.item # i
      BY <3>1, <1>q
    <3>3. lane'[l].watched = a /\ \A m \in Lanes : m # l => lane'[m] = lane[m]
      BY <3>1 DEF TypeOK, LaneAt
    <3>. HIDE DEF a
    <3>4. QED  BY <3>1, <3>2, <3>3, <1>e, BuriedFrame
  <2>3. CASE TerminateProcessGroup(l)
    <3>1. /\ lane[l].pc = "join" /\ running' \subseteq running /\ UNCHANGED <<row, plan>>
          /\ lane' = [lane EXCEPT ![l] = LaneAt("late", lane[l].todo, lane[l].seen,
                                                lane[l].watched)]
      BY <2>3 DEF TerminateProcessGroup
    <3>2. \A m \in Lanes : lane'[m].watched = lane[m].watched /\ (m # l => lane'[m] = lane[m])
      BY <3>1 DEF TypeOK, LaneAt
    <3>3. QED  BY <3>1, <3>2, <1>e, BuriedFrame
  <2>4. CASE MarkTimeout(l)
    <3>1. row'[i] = row[i]
      BY <2>4, <1>q DEF MarkTimeout, Sweep
    <3>2. QED  BY <2>4, <2>t, <3>1, <1>e, <1>k DEF MarkTimeout, Pick, LaneAt
  <2>5. ASSUME NEW j \in Items, SkipCandidate(l, j) PROVE Buried(i)'
    BY <2>5, <2>t, <1>e, <1>k DEF SkipCandidate, LaneAt
  <2>6. CASE Refill(l)
    BY <2>6, <2>t, <1>e, <1>k DEF Refill, LaneAt
  <2>7. CASE LaneDone(l)
    BY <2>7, <2>t, <1>o, <1>e, <1>k DEF LaneDone
  <2>8. CASE JoinExited(l)
    BY <2>8, <2>t, <1>e, <1>k DEF JoinExited, Pick, LaneAt
  <2>9. QED
    BY <1>4, <2>1, <2>2, <2>3, <2>4, <2>5, <2>6, <2>7, <2>8 DEF LaneStep
<1>5. ASSUME NEW l \in Lanes, LaneDies(l) PROVE Buried(i)'
  <2>1. \A m \in Lanes : lane'[m] = lane[m] \/ lane'[m].pc \in {"off", "pick"}
    BY <1>5, <1>o DEF LaneDies, TypeOK
  <2>2. QED  BY <1>5, <2>1, <1>e, <1>k DEF LaneDies
<1>6. CASE SubprocessStep
  <2>1. ASSUME NEW a \in running, NEW r, WriteOutcome(a, r) PROVE Buried(i)'
    <3>1. a.item \in Items /\ a.item # i
      BY <1>q DEF TypeOK, Attempt
    <3>2. row'[i] = row[i]
      BY <2>1, <3>1, <1>w DEF WriteOutcome
    <3>3. QED  BY <2>1, <3>2, <1>e, <1>k DEF WriteOutcome
  <2>2. ASSUME NEW a \in running, SubprocessDies(a) PROVE Buried(i)'
    BY <2>2, <1>e, <1>k DEF SubprocessDies
  <2>3. ASSUME NEW a \in exiting, SubprocessExits(a) PROVE Buried(i)'
    BY <2>3, <1>e, <1>k DEF SubprocessExits
  <2>4. QED
    BY <1>6, <2>1, <2>2, <2>3 DEF SubprocessStep, MarkFinished, InferenceTimeout, ExtractionError
<1>7. CASE RetryFailedRead
  <2>1. plan'[i] = "keep"
    BY <1>7, <1>e DEF RetryFailedRead, RetryVerdict
  <2>2. QED  BY <1>7, <2>1, <1>k DEF RetryFailedRead
<1>8. CASE RetryFailedWrite
  <2>1. row'[i] = row[i] /\ plan'[i] = "keep"
    BY <1>8, <1>e DEF RetryFailedWrite, RetryUpdate, NoPlan
  <2>2. QED  BY <1>8, <2>1, <1>k DEF RetryFailedWrite
<1>9. CASE StartDaemon
  <2>1. row'[i] = row[i]
    BY <1>9, <1>e DEF StartDaemon, Sweep, RowsWith, Status
  <2>2. QED  BY <1>9, <2>1, <1>e, <1>k DEF StartDaemon
<1>10. ASSUME StopAll PROVE Buried(i)'
  BY <1>10, <1>e, <1>k DEF StopAll
<1>11. ASSUME NEW ls \in SUBSET Lanes, ThreadsEnd(ls), UNCHANGED <<row, running>>,
              plan' = plan \/ plan' = NoPlan
       PROVE  Buried(i)'
  <2>1. \A l \in Lanes : lane'[l] = lane[l] \/ lane'[l].pc \in {"off", "pick"}
    BY <1>11, <1>o DEF ThreadsEnd
  <2>2. plan'[i] = "keep"
    BY <1>11, <1>e DEF NoPlan
  <2>3. QED  BY <1>11, <2>1, <2>2, <1>k
<1>12. DaemonLanes \in SUBSET Lanes /\ Lanes \ DaemonLanes \in SUBSET Lanes
  BY LaneAssumption
<1>13. CASE MarkProcessingItemsAsError
  <2>1. row'[i] = row[i]
    BY <1>13, <1>e DEF MarkProcessingItemsAsError, Sweep, RowsWith, Status
  <2>2. QED  BY <1>13, <2>1, <1>e, <1>k DEF MarkProcessingItemsAsError
<1>14. CASE StopAllAgain \/ BeginShutdown
  BY <1>14, <1>10 DEF StopAllAgain, BeginShutdown
<1>15. CASE DaemonExits \/ DaemonCrashes \/ ForegroundCrashes
  BY <1>15, <1>11, <1>12 DEF DaemonExits, DaemonCrashes, ForegroundCrashes
<1>16. CASE UNCHANGED vars
  BY <1>16, <1>e, <1>k DEF vars
<1>17. QED
  BY <1>1, <1>2, <1>3, <1>4, <1>5, <1>6, <1>7, <1>8, <1>9, <1>12, <1>13, <1>14,
     <1>15, <1>16 DEF Next, ShutdownStep

\* A tombstone nobody still holds a claim or a decision against stays until its
\* source is enqueued again or the operator retries it, for every number of
\* runs, lanes and attempts.
THEOREM TombstonesAreFinal == Spec => TombstoneFinal
<1>1. TypeOK /\ WatchedType /\ [Next]_vars
        => [\A i \in Items : Buried(i) /\ ~Buried(i)'
              => EnqueueAgain(i) \/ RetryExtraction(i)]_vars
  BY BuriedStep
<1>2. QED  BY <1>1, Typing, PTL DEF Spec, TombstoneFinal

-----------------------------------------------------------------------------
(* The queue implements ExtractionTickets: every step of lanes, sweeps,    *)
(* crashes and subprocesses is a step of the tickets, or none.             *)


IsGuarding(l) == lane[l].pc \in {"spawn", "join", "late"}

\* A claim is guarded by one lane, and its number is one its row has reached.
GuardsDistinct ==
    /\ \A l \in Lanes : IsGuarding(l) => lane[l].watched.n <= row[lane[l].watched.item].attempts
    /\ \A l, m \in Lanes :
          IsGuarding(l) /\ IsGuarding(m) /\ SameClaim(lane[l].watched, lane[m].watched) => l = m

\* The subprocess of a joined claim is the one the lane watches, and that of a
\* late one is gone.
GuardsOwn ==
    \A l \in Lanes, a \in running :
        SameClaim(lane[l].watched, a) =>
            /\ lane[l].pc = "join" => a = lane[l].watched
            /\ lane[l].pc # "late"

TicketInv == GuardsDistinct /\ GuardsOwn

LEMMA InitTickets == Init => TicketInv
BY DEF Init, TicketInv, GuardsDistinct, GuardsOwn, IsGuarding, Off, LaneAt

\* Frame: lanes keep what they watch or stop watching, subprocesses end, and
\* every attempt count stays.
LEMMA TicketFrame ==
    ASSUME TypeOK, WatchedType, TicketInv,
           \A l \in Lanes : lane'[l] = lane[l] \/ lane'[l].pc \in {"off", "pick"},
           running' \subseteq running,
           \A i \in Items : row'[i].attempts = row[i].attempts
    PROVE  TicketInv'
<1>1. GuardsDistinct'
  <2>1. ASSUME NEW l \in Lanes, IsGuarding(l)'
        PROVE  IsGuarding(l) /\ lane'[l] = lane[l] /\ lane[l].watched.item \in Items
    BY <2>1 DEF IsGuarding, WatchedType, Attempt
  <2>2. QED  BY <2>1 DEF TicketInv, GuardsDistinct, SameClaim
<1>2. GuardsOwn'
  BY DEF TicketInv, GuardsOwn, SameClaim
<1>3. QED  BY <1>1, <1>2 DEF TicketInv

\* The claim: its number is beyond every number in use.
LEMMA TicketClaim ==
    ASSUME TypeOK, WatchedType, DispatchInv, TicketInv, NEW c \in Lanes, NEW i \in Items,
           MarkProcessing(c, i)
    PROVE  /\ TicketInv'
           /\ \A l \in Lanes : IsGuarding(l) =>
                 ~(lane[l].watched.item = i /\ lane[l].watched.n = row[i].attempts + 1)
           /\ \A a \in running : ~(a.item = i /\ a.n = row[i].attempts + 1)
<1>. DEFINE a == [item |-> i, n |-> row[i].attempts + 1, read |-> 0]
<1>r. \A j \in Items : row[j] \in Row /\ row[j].attempts \in Nat
  BY DEF TypeOK, Row
<1>1. /\ row' = [row EXCEPT ![i] = Claimed(row[i])] /\ running' = running
      /\ lane' = [lane EXCEPT ![c] = LaneAt("spawn", lane[c].todo \ {i}, lane[c].seen, a)]
      /\ lane[c].pc = "pick"
  BY DEF MarkProcessing
<1>2. /\ lane'[c].pc = "spawn" /\ lane'[c].watched = a
      /\ \A l \in Lanes \ {c} : lane'[l] = lane[l]
  BY <1>1 DEF TypeOK, LaneAt
<1>3. \A j \in Items : row'[j].attempts \in Nat /\ row[j].attempts <= row'[j].attempts
  BY <1>1, <1>r, ClaimedRow DEF TypeOK
<1>4. row'[i].attempts = row[i].attempts + 1
  BY <1>1, <1>r, ClaimedRow DEF TypeOK
<1>w. ASSUME NEW l \in Lanes, IsGuarding(l)
      PROVE  lane[l].watched.item \in Items /\ lane[l].watched.n \in Nat
  BY <1>w DEF WatchedType, Attempt, IsGuarding
<1>5. \A l \in Lanes : IsGuarding(l) =>
          ~(lane[l].watched.item = i /\ lane[l].watched.n = row[i].attempts + 1)
  BY <1>w, <1>r DEF TicketInv, GuardsDistinct
<1>6. \A b \in running : ~(b.item = i /\ b.n = row[i].attempts + 1)
  BY <1>r DEF DispatchInv, CountedAttempts, TypeOK, Attempt
<1>7. GuardsDistinct'
  <2>1. ASSUME NEW l \in Lanes, IsGuarding(l)'
        PROVE  lane'[l].watched.n <= row'[lane'[l].watched.item].attempts
    <3>1. CASE l = c
      BY <3>1, <1>2, <1>4, <1>r
    <3>2. CASE l # c
      <4>1. lane'[l] = lane[l] /\ IsGuarding(l)
        BY <2>1, <3>2, <1>2 DEF IsGuarding
      <4>2. lane[l].watched.n <= row[lane[l].watched.item].attempts
        BY <4>1 DEF TicketInv, GuardsDistinct
      <4>3. QED  BY <4>1, <4>2, <1>w, <1>r, <1>3
    <3>3. QED  BY <3>1, <3>2
  <2>2. ASSUME NEW l \in Lanes, NEW m \in Lanes, IsGuarding(l)', IsGuarding(m)',
               SameClaim(lane'[l].watched, lane'[m].watched)
        PROVE  l = m
    <3>1. CASE l # c /\ m # c
      BY <3>1, <2>2, <1>2 DEF TicketInv, GuardsDistinct, IsGuarding
    <3>2. CASE l = c /\ m # c
      BY <3>2, <2>2, <1>2, <1>5 DEF IsGuarding, SameClaim
    <3>3. CASE l # c /\ m = c
      BY <3>3, <2>2, <1>2, <1>5 DEF IsGuarding, SameClaim
    <3>4. QED  BY <3>1, <3>2, <3>3
  <2>3. QED  BY <2>1, <2>2 DEF GuardsDistinct, SameClaim
<1>8. GuardsOwn'
  BY <1>1, <1>2 DEF TicketInv, GuardsOwn, SameClaim
<1>9. QED  BY <1>5, <1>6, <1>7, <1>8 DEF TicketInv

\* The spawn: the subprocess takes over the claim of its lane, and no other.
LEMMA TicketSpawn ==
    ASSUME TypeOK, WatchedType, DispatchInv, TicketInv, NEW c \in Lanes, SpawnItemSubprocess(c)
    PROVE  TicketInv'
<1>. DEFINE w == lane[c].watched
            a == [item |-> w.item, n |-> w.n, read |-> row[w.item].attempts]
<1>1. /\ lane[c].pc = "spawn" /\ running' = running \cup {a} /\ row' = row
      /\ lane' = [lane EXCEPT ![c] = LaneAt("join", lane[c].todo, lane[c].seen, a)]
  BY DEF SpawnItemSubprocess
<1>2. /\ lane'[c].pc = "join" /\ lane'[c].watched = a
      /\ \A l \in Lanes \ {c} : lane'[l] = lane[l]
  BY <1>1 DEF TypeOK, LaneAt
<1>3. SameClaim(w, a) /\ a.item = w.item /\ a.n = w.n
  BY DEF SameClaim
<1>4. GuardsDistinct'
  <2>1. ASSUME NEW l \in Lanes, IsGuarding(l)'
        PROVE  IsGuarding(l) /\ SameClaim(lane'[l].watched, lane[l].watched)
    BY <2>1, <1>1, <1>2, <1>3 DEF IsGuarding, SameClaim
  <2>2. QED  BY <2>1, <1>1 DEF TicketInv, GuardsDistinct, SameClaim
<1>5. GuardsOwn'
  <2>. SUFFICES ASSUME NEW l \in Lanes, NEW b \in running', SameClaim(lane'[l].watched, b)
                PROVE  /\ lane'[l].pc = "join" => b = lane'[l].watched
                       /\ lane'[l].pc # "late"
    BY DEF GuardsOwn, SameClaim
  <2>1. CASE l = c
    <3>1. b \in running => ~SameClaim(w, b)
      BY <1>1 DEF DispatchInv, DistinctClaims, IsSpawning
    <3>2. b = a
      BY <2>1, <3>1, <1>1, <1>2, <1>3 DEF SameClaim
    <3>3. QED  BY <2>1, <3>2, <1>2
  <2>2. CASE l # c /\ b = a
    <3>1. SameClaim(lane[l].watched, w) /\ lane'[l] = lane[l]
      BY <2>2, <1>2, <1>3 DEF SameClaim
    <3>2. ~IsGuarding(l)
      BY <2>2, <3>1, <1>1 DEF TicketInv, GuardsDistinct, IsGuarding
    <3>3. QED  BY <3>1, <3>2 DEF IsGuarding
  <2>3. CASE l # c /\ b \in running
    BY <2>3, <1>2 DEF TicketInv, GuardsOwn, SameClaim
  <2>4. QED  BY <2>1, <2>2, <2>3, <1>1
<1>6. QED  BY <1>4, <1>5 DEF TicketInv

\* The kill: the lane goes on guarding the claim, whose subprocess is gone.
LEMMA TicketKill ==
    ASSUME TypeOK, WatchedType, TicketInv, NEW c \in Lanes, TerminateProcessGroup(c)
    PROVE  TicketInv'
<1>1. /\ lane[c].pc = "join" /\ running' = running \ {lane[c].watched} /\ row' = row
      /\ lane' = [lane EXCEPT ![c] = LaneAt("late", lane[c].todo, lane[c].seen, lane[c].watched)]
  BY DEF TerminateProcessGroup
<1>2. /\ lane'[c].pc = "late" /\ lane'[c].watched = lane[c].watched
      /\ \A l \in Lanes \ {c} : lane'[l] = lane[l]
  BY <1>1 DEF TypeOK, LaneAt
<1>3. GuardsDistinct'
  <2>1. ASSUME NEW l \in Lanes, IsGuarding(l)'
        PROVE  IsGuarding(l) /\ lane'[l].watched = lane[l].watched
    BY <2>1, <1>1, <1>2 DEF IsGuarding
  <2>2. QED  BY <2>1, <1>1 DEF TicketInv, GuardsDistinct, SameClaim
<1>4. GuardsOwn'
  BY <1>1, <1>2 DEF TicketInv, GuardsOwn, SameClaim
<1>5. QED  BY <1>3, <1>4 DEF TicketInv

\* The invariant is kept by every step.
LEMMA TicketInvStep ==
    TypeOK /\ WatchedType /\ DispatchInv /\ TicketInv /\ [Next]_vars => TicketInv'
<1>. SUFFICES ASSUME TypeOK, WatchedType, DispatchInv, TicketInv, [Next]_vars
              PROVE  TicketInv'
  OBVIOUS
<1>r. ASSUME NEW i \in Items PROVE row[i] \in Row /\ row[i].status \in Statuses
  BY DEF TypeOK, Row
<1>o. Off.pc = "off"
  BY DEF Off, LaneAt
<1>e. "plain" \in Errors /\ "timeout" \in Errors /\ "tombstone" \in Errors
  BY DEF Errors
\* One row is written, its count kept, and nothing else that matters.
<1>w. ASSUME NEW i \in Items, NEW r, r.attempts = row[i].attempts,
             row' = [row EXCEPT ![i] = r], lane' = lane, running' \subseteq running
      PROVE  TicketInv'
  BY <1>w, TicketFrame DEF TypeOK
<1>k. ASSUME row' = row, running' \subseteq running,
             \A l \in Lanes : lane'[l] = lane[l] \/ lane'[l].pc \in {"off", "pick"}
      PROVE  TicketInv'
  BY <1>k, TicketFrame
<1>1. ASSUME NEW i \in Items, EnqueueNew(i) \/ RetryExtraction(i) PROVE TicketInv'
  <2>1. row' = [row EXCEPT ![i] = Requeued(row[i])] /\ UNCHANGED <<lane, running>>
    BY <1>1 DEF EnqueueNew, RetryExtraction
  <2>2. QED  BY <2>1, <1>r, <1>w, RequeuedRow
<1>2. ASSUME NEW i \in Items, EnqueueAgain(i) PROVE TicketInv'
  <2>1. PICK changed \in BOOLEAN : row' = [row EXCEPT ![i] = Reenqueued(row[i], changed)]
    BY <1>2 DEF EnqueueAgain
  <2>2. Reenqueued(row[i], changed).attempts = row[i].attempts
    BY <1>r, ReenqueuedRow
  <2>3. UNCHANGED <<lane, running>>
    BY <1>2 DEF EnqueueAgain
  <2>4. QED  BY <2>1, <2>2, <2>3, <1>w
<1>3. ASSUME NEW i \in Items, TimePasses(i) PROVE TicketInv'
  <2>1. row[i] \in Row /\ row[i].age < 2 /\ row' = [row EXCEPT ![i] = Older(row[i])]
    BY <1>3, <1>r DEF TimePasses, Row, Ages
  <2>2. UNCHANGED <<lane, running>>
    BY <1>3 DEF TimePasses
  <2>3. QED  BY <2>1, <2>2, <1>w, OlderRow
<1>4. ASSUME NEW ls \in SUBSET Lanes, ProcessExtractionQueue(ls) PROVE TicketInv'
  <2>1. ASSUME NEW i \in Items PROVE row'[i].attempts = row[i].attempts
    BY <1>4, <1>r, ReapedRow DEF ProcessExtractionQueue, Sweep
  <2>2. ASSUME NEW l \in Lanes PROVE lane'[l] = lane[l] \/ lane'[l].pc \in {"off", "pick"}
    BY <1>4, <1>o DEF ProcessExtractionQueue, Launched, LaneAt
  <2>3. running' \subseteq running
    BY <1>4 DEF ProcessExtractionQueue
  <2>4. QED  BY <2>1, <2>2, <2>3, TicketFrame
<1>5. ASSUME NEW l \in Lanes, LaneStep(l) PROVE TicketInv'
  <2>t. ASSUME NEW s, s.pc \in {"off", "pick"}, lane' = [lane EXCEPT ![l] = s], NEW m \in Lanes
        PROVE  lane'[m] = lane[m] \/ lane'[m].pc \in {"off", "pick"}
    BY <2>t DEF TypeOK
  <2>1. ASSUME NEW i \in Items, MarkProcessing(l, i) PROVE TicketInv'
    BY <2>1, TicketClaim
  <2>2. CASE SpawnItemSubprocess(l)
    BY <2>2, TicketSpawn
  <2>3. CASE TerminateProcessGroup(l)
    BY <2>3, TicketKill
  <2>4. CASE MarkTimeout(l)
    <3>1. /\ lane' = [lane EXCEPT ![l] = Pick(lane[l])] /\ Pick(lane[l]).pc = "pick"
          /\ running' = running
      BY <2>4 DEF MarkTimeout, Pick, LaneAt
    <3>2. ASSUME NEW i \in Items PROVE row'[i].attempts = row[i].attempts
      BY <2>4, <1>r, <1>e, FailedRow DEF MarkTimeout, Sweep
    <3>3. QED  BY <3>1, <3>2, <2>t, TicketFrame
  <2>5. ASSUME NEW i \in Items, SkipCandidate(l, i) PROVE TicketInv'
    BY <2>5, <2>t, <1>k DEF SkipCandidate, LaneAt
  <2>6. CASE Refill(l)
    BY <2>6, <2>t, <1>k DEF Refill, LaneAt
  <2>7. CASE LaneDone(l)
    BY <2>7, <2>t, <1>o, <1>k DEF LaneDone
  <2>8. CASE JoinExited(l)
    BY <2>8, <2>t, <1>k DEF JoinExited, Pick, LaneAt
  <2>9. QED
    BY <1>5, <2>1, <2>2, <2>3, <2>4, <2>5, <2>6, <2>7, <2>8 DEF LaneStep
<1>6. ASSUME NEW l \in Lanes, LaneDies(l) PROVE TicketInv'
  <2>1. \A m \in Lanes : lane'[m] = lane[m] \/ lane'[m].pc \in {"off", "pick"}
    BY <1>6, <1>o DEF LaneDies, TypeOK
  <2>2. QED  BY <1>6, <2>1, <1>k DEF LaneDies
<1>7. CASE SubprocessStep
  <2>i. ASSUME NEW a \in running PROVE a.item \in Items /\ row[a.item] \in Row
    BY <1>r DEF TypeOK, Attempt
  <2>1. ASSUME NEW a \in running, NEW r, r.attempts = row[a.item].attempts, WriteOutcome(a, r)
        PROVE  TicketInv'
    <3>1. row' = [row EXCEPT ![a.item] = r] /\ lane' = lane /\ running' \subseteq running
      BY <2>1 DEF WriteOutcome
    <3>2. QED  BY <3>1, <2>1, <2>i, <1>w
  <2>2. ASSUME NEW a \in running, MarkFinished(a) PROVE TicketInv'
    <3>1. PICK s \in {"processed", "skipped"} : WriteOutcome(a, Finished(row[a.item], s))
      BY <2>2 DEF MarkFinished
    <3>2. Finished(row[a.item], s).attempts = row[a.item].attempts
      BY <2>i, FinishedRow
    <3>3. QED  BY <3>1, <3>2, <2>1
  <2>3. ASSUME NEW a \in running, NEW e \in Errors, WriteOutcome(a, Failed(row[a.item], e))
        PROVE  TicketInv'
    <3>1. Failed(row[a.item], e).attempts = row[a.item].attempts
      BY <2>i, FailedRow
    <3>2. QED  BY <2>3, <3>1, <2>1
  <2>4. ASSUME NEW a \in running, InferenceTimeout(a) \/ ExtractionError(a) PROVE TicketInv'
    BY <2>4, <2>3, <1>e DEF InferenceTimeout, ExtractionError
  <2>5. ASSUME NEW a \in running, SubprocessDies(a) PROVE TicketInv'
    BY <2>5, <1>k DEF SubprocessDies
  <2>6. ASSUME NEW a \in exiting, SubprocessExits(a) PROVE TicketInv'
    BY <2>6, <1>k DEF SubprocessExits
  <2>7. QED  BY <1>7, <2>2, <2>4, <2>5, <2>6 DEF SubprocessStep
<1>8. CASE RetryFailedRead
  BY <1>8, <1>k DEF RetryFailedRead
<1>9. CASE RetryFailedWrite
  <2>1. ASSUME NEW i \in Items PROVE row'[i].attempts = row[i].attempts
    <3>1. row'[i] = RetryUpdate(row[i], plan[i]) /\ plan[i] \in Verdicts
      BY <1>9 DEF RetryFailedWrite, TypeOK
    <3>2. QED  BY <3>1, <1>r, RetryUpdateRow
  <2>2. UNCHANGED <<lane, running>>
    BY <1>9 DEF RetryFailedWrite
  <2>3. QED  BY <2>1, <2>2, TicketFrame
<1>10. CASE StartDaemon
  <2>1. ASSUME NEW i \in Items PROVE row'[i].attempts = row[i].attempts
    BY <1>10, <1>r, RequeuedRow DEF StartDaemon, Sweep
  <2>2. QED  BY <1>10, <2>1, TicketFrame DEF StartDaemon
<1>11. ASSUME StopAll PROVE TicketInv'
  BY <1>11, <1>k DEF StopAll
<1>12. ASSUME NEW ls \in SUBSET Lanes, ThreadsEnd(ls), UNCHANGED <<row, running>>
       PROVE  TicketInv'
  BY <1>12, <1>o, <1>k DEF ThreadsEnd
<1>13. DaemonLanes \in SUBSET Lanes /\ Lanes \ DaemonLanes \in SUBSET Lanes
  BY LaneAssumption
<1>14. CASE ShutdownStep
  <2>1. CASE StopAllAgain
    BY <2>1, <1>11 DEF StopAllAgain
  <2>2. CASE MarkProcessingItemsAsError
    <3>1. ASSUME NEW i \in Items PROVE row'[i].attempts = row[i].attempts
      BY <2>2, <1>r, <1>e, FailedRow DEF MarkProcessingItemsAsError, Sweep
    <3>2. QED  BY <2>2, <3>1, TicketFrame DEF MarkProcessingItemsAsError
  <2>3. CASE DaemonExits
    BY <2>3, <1>12, <1>13 DEF DaemonExits
  <2>4. QED  BY <1>14, <2>1, <2>2, <2>3 DEF ShutdownStep
<1>15. CASE BeginShutdown
  BY <1>15, <1>11 DEF BeginShutdown
<1>16. CASE DaemonCrashes
  BY <1>16, <1>12, <1>13 DEF DaemonCrashes
<1>17. CASE ForegroundCrashes
  BY <1>17, <1>12, <1>13 DEF ForegroundCrashes
<1>18. CASE UNCHANGED vars
  BY <1>18, <1>k DEF vars
<1>19. QED
  BY <1>1, <1>2, <1>3, <1>4, <1>5, <1>6, <1>7, <1>8, <1>9, <1>10, <1>13, <1>14,
     <1>15, <1>16, <1>17, <1>18 DEF Next

-----------------------------------------------------------------------------
(* The mapped variables.                                                   *)

RowStatus == [i \in Items |-> row[i].status]
RowCount == [i \in Items |-> row[i].attempts]
Working == {TicketOf(a) : a \in running} \cup {TicketOf(lane[l].watched) : l \in Unspawned}
Guarded == {TicketOf(lane[l].watched) : l \in Guarding}
Docket == {i \in Items : plan[i] # "keep"}

LEMMA InitTicketInit == Init => Tickets!TicketInit
<1>. SUFFICES ASSUME Init PROVE Tickets!TicketInit
  OBVIOUS
<1>1. Unspawned = {} /\ Guarding = {}
  BY DEF Init, Unspawned, Guarding, Off, LaneAt
<1>2. \A i \in Items : row[i].status = "absent" /\ row[i].attempts = 0 /\ plan[i] = "keep"
  BY DEF Init, Absent, NoPlan
<1>3. running = {}
  BY DEF Init
<1>4. QED  BY <1>1, <1>2, <1>3 DEF Tickets!TicketInit

\* Lanes that stop, and subprocesses that end, lose tickets and gain none.
LEMMA TicketsLost ==
    ASSUME \A l \in Lanes : lane'[l] = lane[l] \/ lane'[l].pc \in {"off", "pick"},
           running' \subseteq running
    PROVE  Working' \subseteq Working /\ Guarded' \subseteq Guarded
<1>1. /\ \A l \in Unspawned' : l \in Unspawned /\ lane'[l] = lane[l]
      /\ \A l \in Guarding' : l \in Guarding /\ lane'[l] = lane[l]
  BY DEF Unspawned, Guarding
<1>2. QED  BY <1>1 DEF Working, Guarded, TicketOf

LEMMA TicketsKept ==
    ASSUME \A l \in Lanes : \/ lane'[l] = lane[l]
                            \/ lane'[l].pc \in {"off", "pick"} /\ lane[l].pc \in {"off", "pick"},
           running' = running
    PROVE  Working' = Working /\ Guarded' = Guarded
<1>1. /\ Unspawned' = Unspawned /\ \A l \in Unspawned : lane'[l] = lane[l]
      /\ Guarding' = Guarding /\ \A l \in Guarding : lane'[l] = lane[l]
  BY DEF Unspawned, Guarding
<1>2. QED  BY <1>1 DEF Working, Guarded, TicketOf

\* A row is queued, again or for the first time.
LEMMA QueueStep ==
    ASSUME NEW i \in Items, row[i].status # "processing",
           RowStatus' = [RowStatus EXCEPT ![i] = "pending"],
           UNCHANGED <<RowCount, Working, Guarded, Docket>>
    PROVE  Tickets!TicketNext
<1>1. Tickets!Queue(i)
  BY DEF Tickets!Queue, RowStatus, RowCount, Working, Guarded, Docket
<1>2. QED  BY <1>1 DEF Tickets!TicketNext

\* Nothing is written, and processes or threads may end.
LEMMA LoseStep ==
    ASSUME UNCHANGED <<RowStatus, RowCount>>, Working' \subseteq Working,
           Guarded' \subseteq Guarded, Docket' = Docket \/ Docket' = {}
    PROVE  Tickets!TicketNext
<1>1. Tickets!Lose
  BY DEF Tickets!Lose, RowStatus, RowCount, Working, Guarded, Docket
<1>2. QED  BY <1>1 DEF Tickets!TicketNext

\* Rows in flight are given another chance, or up.
LEMMA TakeStep ==
    ASSUME NEW S \in SUBSET Items, \A i \in S : row[i].status = "processing",
           NEW v \in {"pending", "error"},
           RowStatus' = [i \in Items |-> IF i \in S THEN v ELSE row[i].status],
           UNCHANGED <<RowCount, Working, Guarded, Docket>>
    PROVE  Tickets!TicketNext
<1>1. Tickets!Take(S)
  BY DEF Tickets!Take, RowStatus, RowCount, Working, Guarded, Docket
<1>2. QED  BY <1>1 DEF Tickets!TicketNext

LEMMA IssueStep ==
    ASSUME NEW i \in Items, row[i].status = "pending", NEW t,
           t = [job |-> i, n |-> row[i].attempts + 1], t \notin Working \cup Guarded,
           RowStatus' = [RowStatus EXCEPT ![i] = "processing"],
           RowCount' = [RowCount EXCEPT ![i] = @ + 1],
           Working' = Working \cup {t}, Guarded' = Guarded \cup {t}, Docket' = Docket
    PROVE  Tickets!TicketNext
<1>1. RowCount'[i] = row[i].attempts + 1
  BY DEF RowCount
<1>2. Tickets!Issue(i)
  BY <1>1 DEF Tickets!Issue, RowStatus, RowCount, Working, Guarded, Docket
<1>3. QED  BY <1>2 DEF Tickets!TicketNext

LEMMA ReportStep ==
    ASSUME NEW t \in Working, NEW s \in {"processed", "skipped", "error"},
           RowStatus' = [RowStatus EXCEPT ![t.job] = s], Working' = Working \ {t},
           UNCHANGED <<RowCount, Guarded, Docket>>
    PROVE  Tickets!TicketNext
<1>1. Tickets!Report(t)
  BY DEF Tickets!Report, RowStatus, RowCount, Working, Guarded, Docket
<1>2. QED  BY <1>1 DEF Tickets!TicketNext, Working

LEMMA OverruleStep ==
    ASSUME NEW t \in Guarded \ Working,
           RowStatus' = [RowStatus EXCEPT ![t.job] = "error"], Guarded' = Guarded \ {t},
           UNCHANGED <<RowCount, Working, Docket>>
    PROVE  Tickets!TicketNext
<1>1. Tickets!Overrule(t)
  BY DEF Tickets!Overrule, RowStatus, RowCount, Working, Guarded, Docket
<1>2. QED  BY <1>1 DEF Tickets!TicketNext, Guarded

LEMMA JudgeStep ==
    ASSUME Docket = {}, NEW S \in SUBSET Items, Docket' = S,
           \A i \in S : row[i].status \in {"pending", "processing", "error"},
           UNCHANGED <<RowStatus, RowCount, Working, Guarded>>
    PROVE  Tickets!TicketNext
<1>1. Tickets!Judge(S)
  BY DEF Tickets!Judge, RowStatus, RowCount, Working, Guarded, Docket
<1>2. QED  BY <1>1 DEF Tickets!TicketNext

LEMMA SentenceStep ==
    ASSUME NEW v \in [Docket -> {"pending", "error", "unchanged"}],
           RowStatus' = [i \in Items |-> IF i \in Docket /\ v[i] # "unchanged"
                                         THEN v[i] ELSE row[i].status],
           Docket' = {}, UNCHANGED <<RowCount, Working, Guarded>>
    PROVE  Tickets!TicketNext
<1>1. Tickets!Sentence
  BY DEF Tickets!Sentence, RowStatus, RowCount, Working, Guarded, Docket
<1>2. QED  BY <1>1 DEF Tickets!TicketNext

-----------------------------------------------------------------------------
(* Every step of the queue is one of these.                                *)

LEMMA RowWritten ==
    ASSUME TypeOK, NEW i \in Items, NEW r, r.attempts = row[i].attempts,
           row' = [row EXCEPT ![i] = r]
    PROVE  RowStatus' = [RowStatus EXCEPT ![i] = r.status] /\ RowCount' = RowCount
BY DEF TypeOK, RowStatus, RowCount

LEMMA ClaimIssues ==
    ASSUME TypeOK, WatchedType, DispatchInv, TicketInv, NEW c \in Lanes, NEW i \in Items,
           MarkProcessing(c, i)
    PROVE  Tickets!TicketNext
<1>. DEFINE a == [item |-> i, n |-> row[i].attempts + 1, read |-> 0]
            t == [job |-> i, n |-> row[i].attempts + 1]
<1>1. /\ row' = [row EXCEPT ![i] = Claimed(row[i])] /\ row[i].status = "pending"
      /\ lane' = [lane EXCEPT ![c] = LaneAt("spawn", lane[c].todo \ {i}, lane[c].seen, a)]
      /\ lane[c].pc = "pick" /\ running' = running /\ plan' = plan
  BY DEF MarkProcessing, Status
<1>2. /\ lane'[c].pc = "spawn" /\ lane'[c].watched = a
      /\ \A l \in Lanes \ {c} : lane'[l] = lane[l]
  BY <1>1 DEF TypeOK, LaneAt
<1>3. row[i] \in Row
  BY DEF TypeOK
<1>4. /\ RowStatus' = [RowStatus EXCEPT ![i] = "processing"]
      /\ RowCount' = [RowCount EXCEPT ![i] = @ + 1]
  BY <1>1, <1>3, ClaimedRow DEF TypeOK, RowStatus, RowCount
<1>5. TicketOf(a) = t
  BY DEF TicketOf
<1>6. Unspawned' = Unspawned \cup {c} /\ Guarding' = Guarding \cup {c}
      /\ c \notin Unspawned \cup Guarding
  BY <1>1, <1>2 DEF Unspawned, Guarding
<1>7. Working' = Working \cup {t} /\ Guarded' = Guarded \cup {t}
  <2>. HIDE DEF a, t
  <2>1. {TicketOf(lane'[l].watched) : l \in Unspawned'} =
          {TicketOf(lane[l].watched) : l \in Unspawned} \cup {t}
    BY <1>2, <1>5, <1>6 DEF TicketOf, Unspawned
  <2>2. {TicketOf(lane'[l].watched) : l \in Guarding'} =
          {TicketOf(lane[l].watched) : l \in Guarding} \cup {t}
    BY <1>2, <1>5, <1>6 DEF TicketOf, Guarding
  <2>3. QED  BY <2>1, <2>2, <1>1 DEF Working, Guarded, TicketOf
<1>8. t \notin Working \cup Guarded
  <2>1. /\ \A l \in Lanes : IsGuarding(l) =>
              ~(lane[l].watched.item = i /\ lane[l].watched.n = row[i].attempts + 1)
        /\ \A b \in running : ~(b.item = i /\ b.n = row[i].attempts + 1)
    BY TicketClaim
  <2>2. QED  BY <2>1 DEF Working, Guarded, TicketOf, Unspawned, Guarding, IsGuarding
<1>9. Docket' = Docket
  BY <1>1 DEF Docket
<1>10. QED  BY <1>1, <1>4, <1>7, <1>8, <1>9, IssueStep

\* The ticket passes from the lane to the subprocess.
LEMMA SpawnStutters ==
    ASSUME TypeOK, NEW c \in Lanes, SpawnItemSubprocess(c)
    PROVE  Tickets!TicketNext
<1>. DEFINE w == lane[c].watched
            a == [item |-> w.item, n |-> w.n, read |-> row[w.item].attempts]
<1>1. /\ lane[c].pc = "spawn" /\ running' = running \cup {a} /\ UNCHANGED <<row, plan>>
      /\ lane' = [lane EXCEPT ![c] = LaneAt("join", lane[c].todo, lane[c].seen, a)]
  BY DEF SpawnItemSubprocess
<1>2. /\ lane'[c].pc = "join" /\ lane'[c].watched = a
      /\ \A l \in Lanes \ {c} : lane'[l] = lane[l]
  BY <1>1 DEF TypeOK, LaneAt
<1>3. TicketOf(a) = TicketOf(w)
  BY DEF TicketOf
<1>4. Unspawned' = Unspawned \ {c} /\ Guarding' = Guarding /\ c \in Unspawned
  BY <1>1, <1>2 DEF Unspawned, Guarding
<1>5. /\ \A l \in Guarding : TicketOf(lane'[l].watched) = TicketOf(lane[l].watched)
      /\ \A l \in Unspawned \ {c} : TicketOf(lane'[l].watched) = TicketOf(lane[l].watched)
  BY <1>2, <1>3 DEF Guarding, Unspawned
<1>6. Guarded' \subseteq Guarded
  BY <1>4, <1>5 DEF Guarded, TicketOf
<1>7. Working' \subseteq Working
  <2>1. \A l \in Unspawned : TicketOf(lane[l].watched) \in Working
    BY DEF Working
  <2>2. ASSUME NEW b \in running' PROVE TicketOf(b) \in Working
    <3>1. CASE b \in running
      BY <3>1 DEF Working
    <3>2. CASE b = a
      BY <3>2, <2>1, <1>3, <1>4
    <3>3. QED  BY <3>1, <3>2, <1>1
  <2>3. ASSUME NEW l \in Unspawned' PROVE TicketOf(lane'[l].watched) \in Working
    BY <2>1, <1>4, <1>5
  <2>. HIDE DEF a, w
  <2>4. QED  BY <2>2, <2>3 DEF Working, TicketOf
<1>8. UNCHANGED <<RowStatus, RowCount, Docket>>
  BY <1>1 DEF RowStatus, RowCount, Docket
<1>9. QED  BY <1>6, <1>7, <1>8, LoseStep

\* The killed subprocess loses its ticket; the lane keeps its guard.
LEMMA KillLoses ==
    ASSUME TypeOK, NEW c \in Lanes, TerminateProcessGroup(c)
    PROVE  Tickets!TicketNext
<1>1. /\ lane[c].pc = "join" /\ running' \subseteq running /\ UNCHANGED <<row, plan>>
      /\ lane' = [lane EXCEPT ![c] = LaneAt("late", lane[c].todo, lane[c].seen, lane[c].watched)]
  BY DEF TerminateProcessGroup
<1>2. /\ lane'[c].pc = "late" /\ \A l \in Lanes : lane'[l].watched = lane[l].watched
      /\ \A l \in Lanes \ {c} : lane'[l] = lane[l]
  BY <1>1 DEF TypeOK, LaneAt
<1>3. Unspawned' = Unspawned /\ Guarding' = Guarding
  BY <1>1, <1>2 DEF Unspawned, Guarding
<1>4. Working' \subseteq Working /\ Guarded' \subseteq Guarded
  BY <1>1, <1>2, <1>3 DEF Working, Guarded, TicketOf, Unspawned, Guarding
<1>5. UNCHANGED <<RowStatus, RowCount, Docket>>
  BY <1>1 DEF RowStatus, RowCount, Docket
<1>6. QED  BY <1>4, <1>5, LoseStep

\* The timeout is written for a claim nobody works at any more.
LEMMA TimeoutOverrules ==
    ASSUME TypeOK, WatchedType, TicketInv, NEW c \in Lanes, MarkTimeout(c)
    PROVE  Tickets!TicketNext
<1>. DEFINE w == lane[c].watched
            t == TicketOf(w)
<1>1. /\ lane[c].pc = "late" /\ running' = running /\ plan' = plan
      /\ lane' = [lane EXCEPT ![c] = Pick(lane[c])]
      /\ row' = [i \in Items |-> IF i \in {w.item} THEN Failed(row[i], "timeout") ELSE row[i]]
  BY DEF MarkTimeout, Sweep
<1>2. lane'[c].pc = "pick" /\ \A l \in Lanes \ {c} : lane'[l] = lane[l]
  BY <1>1 DEF TypeOK, Pick, LaneAt
<1>3. w.item \in Items /\ t.job = w.item
  BY <1>1 DEF WatchedType, Attempt, TicketOf
<1>4. "timeout" \in Errors /\ \A i \in Items : row[i] \in Row
  BY DEF Errors, TypeOK
<1>5. RowStatus' = [RowStatus EXCEPT ![t.job] = "error"] /\ RowCount' = RowCount
  <2>. HIDE DEF w, t
  <2>1. ASSUME NEW i \in Items
        PROVE  /\ row'[i].attempts = row[i].attempts
               /\ row'[i].status = IF i = t.job THEN "error" ELSE row[i].status
    BY <1>1, <1>3, <1>4, FailedRow
  <2>2. QED  BY <2>1 DEF RowStatus, RowCount
<1>6. Unspawned' = Unspawned /\ Guarding' = Guarding \ {c} /\ c \in Guarding
      /\ c \notin Unspawned
  BY <1>1, <1>2 DEF Unspawned, Guarding
<1>7. \A l \in Guarding \ {c} : TicketOf(lane[l].watched) # t
  BY <1>1 DEF TicketInv, GuardsDistinct, TicketOf, SameClaim, Guarding, IsGuarding
<1>8. Guarded' = Guarded \ {t} /\ t \in Guarded
  <2>. HIDE DEF t
  <2>1. \A l \in Guarding \ {c} : lane'[l] = lane[l]
    BY <1>2 DEF Guarding
  <2>2. TicketOf(lane[c].watched) = t
    BY DEF t
  <2>3. QED  BY <2>1, <2>2, <1>6, <1>7 DEF Guarded, TicketOf
<1>9. Working' = Working
  <2>1. \A l \in Unspawned : lane'[l] = lane[l]
    BY <1>2, <1>6 DEF Unspawned
  <2>2. QED  BY <2>1, <1>1, <1>6 DEF Working, TicketOf
<1>10. t \notin Working
  <2>1. \A a \in running : TicketOf(a) # t
    BY <1>1 DEF TicketInv, GuardsOwn, TicketOf, SameClaim
  <2>2. \A l \in Unspawned : TicketOf(lane[l].watched) # t
    BY <1>6, <1>7 DEF Unspawned, Guarding
  <2>3. QED  BY <2>1, <2>2 DEF Working
<1>11. Docket' = Docket
  BY <1>1 DEF Docket
<1>. HIDE DEF t
<1>12. QED  BY <1>5, <1>8, <1>9, <1>10, <1>11, OverruleStep

\* The outcome spends the ticket of its claim, and of no other.
LEMMA OutcomeReports ==
    ASSUME TypeOK, DispatchInv, NEW a \in running, NEW r \in Row,
           r.attempts = row[a.item].attempts, r.status \in {"processed", "skipped", "error"},
           WriteOutcome(a, r)
    PROVE  Tickets!TicketNext
<1>. DEFINE t == TicketOf(a)
<1>1. /\ row' = [row EXCEPT ![a.item] = r] /\ running' = running \ {a}
      /\ UNCHANGED <<lane, plan>>
  BY DEF WriteOutcome
<1>2. a.item \in Items /\ t.job = a.item
  BY DEF TypeOK, Attempt, TicketOf
<1>3. RowStatus' = [RowStatus EXCEPT ![t.job] = r.status] /\ RowCount' = RowCount
  BY <1>1, <1>2, RowWritten
<1>4. \A b \in running \ {a} : TicketOf(b) # t
  BY DEF DispatchInv, DistinctClaims, TicketOf, SameClaim
<1>5. \A l \in Unspawned : TicketOf(lane[l].watched) # t
  BY DEF DispatchInv, DistinctClaims, TicketOf, SameClaim, Unspawned, IsSpawning
<1>6. t \in Working /\ Working' = Working \ {t}
  <2>. HIDE DEF t
  <2>1. TicketOf(a) = t
    BY DEF t
  <2>2. QED  BY <2>1, <1>1, <1>4, <1>5 DEF Working, TicketOf, Unspawned
<1>7. UNCHANGED <<Guarded, Docket>>
  BY <1>1 DEF Guarded, Guarding, TicketOf, Docket
<1>. HIDE DEF t
<1>8. QED  BY <1>3, <1>6, <1>7, ReportStep
\* Lanes stop, processes end, and the table is as it was.
LEMMA NothingWritten ==
    ASSUME row' = row, plan' = plan \/ plan' = NoPlan, running' \subseteq running,
           \A l \in Lanes : lane'[l] = lane[l] \/ lane'[l].pc \in {"off", "pick"}
    PROVE  Tickets!TicketNext
<1>1. UNCHANGED <<RowStatus, RowCount>>
  BY DEF RowStatus, RowCount
<1>2. Docket' = Docket \/ Docket' = {}
  BY DEF Docket, NoPlan
<1>3. QED  BY <1>1, <1>2, TicketsLost, LoseStep

\* A sweep rewrites rows in flight and leaves the claims as they are.
LEMMA SweepTakes ==
    ASSUME NEW S \in SUBSET Items, \A i \in S : row[i].status = "processing",
           NEW v \in {"pending", "error"},
           \A i \in Items : /\ row'[i].status = IF i \in S THEN v ELSE row[i].status
                            /\ row'[i].attempts = row[i].attempts,
           running' = running, plan' = plan,
           \A l \in Lanes : \/ lane'[l] = lane[l]
                            \/ lane'[l].pc \in {"off", "pick"} /\ lane[l].pc \in {"off", "pick"}
    PROVE  Tickets!TicketNext
<1>1. /\ RowStatus' = [i \in Items |-> IF i \in S THEN v ELSE row[i].status]
      /\ RowCount' = RowCount
  BY DEF RowStatus, RowCount
<1>2. Docket' = Docket
  BY DEF Docket
<1>3. QED  BY <1>1, <1>2, TicketsKept, TakeStep

\* What the retry job reads is unfinished.
LEMMA RetryReadJudges ==
    ASSUME RetryFailedRead
    PROVE  Tickets!TicketNext
<1>1. /\ plan = NoPlan /\ plan' = [i \in Items |-> RetryVerdict(row[i])]
      /\ UNCHANGED <<row, lane, running>>
  BY DEF RetryFailedRead
<1>2. Docket = {}
  BY <1>1 DEF Docket, NoPlan
<1>3. \A i \in Docket' : row[i].status \in {"pending", "processing", "error"}
  BY <1>1 DEF Docket, RetryVerdict
<1>4. UNCHANGED <<RowStatus, RowCount, Working, Guarded>>
  BY <1>1 DEF RowStatus, RowCount, Working, Guarded, Unspawned, Guarding, TicketOf
<1>5. Docket' \in SUBSET Items
  BY DEF Docket
<1>6. QED  BY <1>2, <1>3, <1>4, <1>5, JudgeStep

\* What it writes is another chance, a tombstone, or nothing.
LEMMA RetryWriteSentences ==
    ASSUME TypeOK, RetryFailedWrite
    PROVE  Tickets!TicketNext
<1>. DEFINE v == [i \in Docket |->
                    IF plan[i] \in {"requeue", "stale_reset"} THEN "pending"
                    ELSE IF plan[i] \in {"stale_tombstone", "silent_tombstone"} THEN "error"
                    ELSE "unchanged"]
<1>1. /\ row' = [i \in Items |-> RetryUpdate(row[i], plan[i])] /\ plan' = NoPlan
      /\ UNCHANGED <<lane, running>>
  BY DEF RetryFailedWrite
<1>2. v \in [Docket -> {"pending", "error", "unchanged"}]
  OBVIOUS
<1>3. ASSUME NEW i \in Items
      PROVE  /\ row'[i].status = IF i \in Docket /\ v[i] # "unchanged" THEN v[i]
                                 ELSE row[i].status
             /\ row'[i].attempts = row[i].attempts
  <2>1. row[i] \in Row /\ plan[i] \in Verdicts /\ row'[i] = RetryUpdate(row[i], plan[i])
    BY <1>1 DEF TypeOK
  <2>2. row'[i].attempts = row[i].attempts
    BY <2>1, RetryUpdateRow
  <2>3. CASE plan[i] = "keep"
    <3>1. i \notin Docket
      BY <2>3 DEF Docket
    <3>2. row'[i] = row[i]
      BY <2>1, <2>3 DEF RetryUpdate
    <3>3. QED  BY <2>2, <3>1, <3>2
  <2>4. CASE plan[i] \in {"requeue", "stale_reset"}
    <3>1. i \in Docket /\ v[i] = "pending"
      BY <2>4 DEF Docket
    <3>2. row'[i].status = "pending"
      BY <2>1, <2>4 DEF RetryUpdate, Requeued, SetRow
    <3>3. QED  BY <2>2, <3>1, <3>2
  <2>5. CASE plan[i] \in {"stale_tombstone", "silent_tombstone"}
    <3>1. i \in Docket /\ v[i] = "error"
      BY <2>5 DEF Docket
    <3>2. row'[i].status = "error"
      BY <2>1, <2>5 DEF RetryUpdate, Failed, SetRow
    <3>3. QED  BY <2>2, <3>1, <3>2
  <2>6. CASE plan[i] = "timeout_tombstone"
    <3>1. i \in Docket /\ v[i] = "unchanged"
      BY <2>6 DEF Docket
    <3>2. row'[i].status = row[i].status
      BY <2>1, <2>6 DEF RetryUpdate, SetRow
    <3>3. QED  BY <2>2, <3>1, <3>2
  <2>7. QED  BY <2>1, <2>3, <2>4, <2>5, <2>6 DEF Verdicts
<1>. HIDE DEF v
<1>4. /\ RowStatus' = [i \in Items |-> IF i \in Docket /\ v[i] # "unchanged" THEN v[i]
                                       ELSE row[i].status]
      /\ RowCount' = RowCount
  BY <1>3 DEF RowStatus, RowCount
<1>5. Docket' = {}
  BY <1>1 DEF Docket, NoPlan
<1>6. UNCHANGED <<Working, Guarded>>
  BY <1>1 DEF Working, Guarded, Unspawned, Guarding, TicketOf
<1>7. QED  BY <1>2, <1>4, <1>5, <1>6, SentenceStep

LEMMA TicketStep ==
    TypeOK /\ WatchedType /\ DispatchInv /\ TicketInv /\ [Next]_vars => Tickets!TicketNext
<1>. SUFFICES ASSUME TypeOK, WatchedType, DispatchInv, TicketInv, [Next]_vars
              PROVE  Tickets!TicketNext
  OBVIOUS
<1>r. ASSUME NEW i \in Items PROVE row[i] \in Row
  BY DEF TypeOK
<1>o. Off.pc = "off"
  BY DEF Off, LaneAt
<1>e. "plain" \in Errors /\ "timeout" \in Errors /\ "tombstone" \in Errors
  BY DEF Errors
\* One row is written, its count kept, and nothing else that is mapped.
<1>u. ASSUME UNCHANGED <<lane, running, plan>>
      PROVE  UNCHANGED <<Working, Guarded, Docket>>
  BY <1>u DEF Working, Guarded, Unspawned, Guarding, TicketOf, Docket
<1>q. ASSUME NEW i \in Items, row[i].status # "processing", row' = [row EXCEPT ![i] = Requeued(@)],
             UNCHANGED <<lane, running, plan>>
      PROVE  Tickets!TicketNext
  <2>1. Requeued(row[i]).status = "pending" /\ Requeued(row[i]).attempts = row[i].attempts
    BY <1>r, RequeuedRow
  <2>2. RowStatus' = [RowStatus EXCEPT ![i] = "pending"] /\ RowCount' = RowCount
    BY <1>q, <2>1, RowWritten
  <2>3. QED  BY <1>q, <2>2, <1>u, QueueStep
<1>s. ASSUME NEW i \in Items, NEW r, r.attempts = row[i].attempts, r.status = row[i].status,
             row' = [row EXCEPT ![i] = r], UNCHANGED <<lane, running, plan>>
      PROVE  Tickets!TicketNext
  <2>1. RowStatus' = [RowStatus EXCEPT ![i] = r.status] /\ RowCount' = RowCount
    BY <1>s, RowWritten
  <2>2. RowStatus' = RowStatus
    BY <2>1, <1>s DEF RowStatus
  <2>3. QED  BY <2>1, <2>2, <1>s, <1>u, LoseStep
<1>1. ASSUME NEW i \in Items, EnqueueNew(i) \/ RetryExtraction(i) PROVE Tickets!TicketNext
  BY <1>1, <1>q DEF EnqueueNew, RetryExtraction, Status
<1>2. ASSUME NEW i \in Items, EnqueueAgain(i) PROVE Tickets!TicketNext
  <2>1. PICK changed \in BOOLEAN : row' = [row EXCEPT ![i] = Reenqueued(row[i], changed)]
    BY <1>2 DEF EnqueueAgain
  <2>2. UNCHANGED <<lane, running, plan>>
    BY <1>2 DEF EnqueueAgain
  <2>3. Reenqueued(row[i], changed).attempts = row[i].attempts
    BY <1>r, ReenqueuedRow
  <2>4. CASE row[i].status = "processing" \/ (row[i].status = "processed" /\ ~changed)
    <3>1. Reenqueued(row[i], changed).status = row[i].status
      BY <2>4 DEF Reenqueued
    <3>2. QED  BY <2>1, <2>2, <2>3, <3>1, <1>s
  <2>5. CASE ~(row[i].status = "processing" \/ (row[i].status = "processed" /\ ~changed))
    <3>1. Reenqueued(row[i], changed) = Requeued(row[i])
      BY <2>5 DEF Reenqueued
    <3>2. QED  BY <2>1, <2>2, <2>5, <3>1, <1>q
  <2>6. QED  BY <2>4, <2>5
<1>3. ASSUME NEW i \in Items, TimePasses(i) PROVE Tickets!TicketNext
  <2>1. row[i].age < 2 /\ row' = [row EXCEPT ![i] = Older(row[i])]
    BY <1>3, <1>r DEF TimePasses, Row, Ages
  <2>2. UNCHANGED <<lane, running, plan>>
    BY <1>3 DEF TimePasses
  <2>3. QED  BY <2>1, <2>2, <1>r, <1>s, OlderRow
<1>4. ASSUME NEW ls \in SUBSET Lanes, ProcessExtractionQueue(ls) PROVE Tickets!TicketNext
  <2>1. \A i \in Orphaned : row[i].status = "processing"
    BY DEF Orphaned, Status
  <2>2. ASSUME NEW i \in Items
        PROVE  /\ row'[i].status = IF i \in Orphaned THEN "pending" ELSE row[i].status
               /\ row'[i].attempts = row[i].attempts
    BY <1>4, <1>r, ReapedRow DEF ProcessExtractionQueue, Sweep
  <2>3. ASSUME NEW l \in Lanes
        PROVE  \/ lane'[l] = lane[l]
               \/ lane'[l].pc \in {"off", "pick"} /\ lane[l].pc \in {"off", "pick"}
    BY <1>4, <1>o DEF ProcessExtractionQueue, Launched, LaneAt
  <2>4. running' = running /\ plan' = plan /\ Orphaned \in SUBSET Items
    BY <1>4 DEF ProcessExtractionQueue, Orphaned
  <2>5. QED  BY <2>1, <2>2, <2>3, <2>4, SweepTakes
<1>5. ASSUME NEW l \in Lanes, LaneStep(l) PROVE Tickets!TicketNext
  <2>t. ASSUME NEW s, s.pc \in {"off", "pick"}, lane' = [lane EXCEPT ![l] = s], NEW m \in Lanes
        PROVE  lane'[m] = lane[m] \/ lane'[m].pc \in {"off", "pick"}
    BY <2>t DEF TypeOK
  <2>1. ASSUME NEW i \in Items, MarkProcessing(l, i) PROVE Tickets!TicketNext
    BY <2>1, ClaimIssues
  <2>2. CASE SpawnItemSubprocess(l)
    BY <2>2, SpawnStutters
  <2>3. CASE TerminateProcessGroup(l)
    BY <2>3, KillLoses
  <2>4. CASE MarkTimeout(l)
    BY <2>4, TimeoutOverrules
  <2>5. ASSUME NEW i \in Items, SkipCandidate(l, i) PROVE Tickets!TicketNext
    BY <2>5, <2>t, NothingWritten DEF SkipCandidate, LaneAt
  <2>6. CASE Refill(l)
    BY <2>6, <2>t, NothingWritten DEF Refill, LaneAt
  <2>7. CASE LaneDone(l)
    BY <2>7, <2>t, <1>o, NothingWritten DEF LaneDone
  <2>8. CASE JoinExited(l)
    BY <2>8, <2>t, NothingWritten DEF JoinExited, Pick, LaneAt
  <2>9. QED
    BY <1>5, <2>1, <2>2, <2>3, <2>4, <2>5, <2>6, <2>7, <2>8 DEF LaneStep
<1>6. ASSUME NEW l \in Lanes, LaneDies(l) PROVE Tickets!TicketNext
  <2>1. \A m \in Lanes : lane'[m] = lane[m] \/ lane'[m].pc \in {"off", "pick"}
    BY <1>6, <1>o DEF LaneDies, TypeOK
  <2>2. QED  BY <1>6, <2>1, NothingWritten DEF LaneDies
<1>7. CASE SubprocessStep
  <2>i. ASSUME NEW a \in running PROVE row[a.item] \in Row
    BY <1>r DEF TypeOK, Attempt
  <2>1. ASSUME NEW a \in running, MarkFinished(a) PROVE Tickets!TicketNext
    <3>1. PICK s \in {"processed", "skipped"} : WriteOutcome(a, Finished(row[a.item], s))
      BY <2>1 DEF MarkFinished
    <3>2. QED  BY <3>1, <2>i, FinishedRow, OutcomeReports
  <2>2. ASSUME NEW a \in running, NEW e \in Errors, WriteOutcome(a, Failed(row[a.item], e))
        PROVE  Tickets!TicketNext
    BY <2>2, <2>i, FailedRow, OutcomeReports
  <2>3. ASSUME NEW a \in running, InferenceTimeout(a) \/ ExtractionError(a)
        PROVE  Tickets!TicketNext
    BY <2>3, <2>2, <1>e DEF InferenceTimeout, ExtractionError
  <2>4. ASSUME NEW a \in running, SubprocessDies(a) PROVE Tickets!TicketNext
    BY <2>4, NothingWritten DEF SubprocessDies
  <2>5. ASSUME NEW a \in exiting, SubprocessExits(a) PROVE Tickets!TicketNext
    BY <2>5, NothingWritten DEF SubprocessExits
  <2>6. QED  BY <1>7, <2>1, <2>3, <2>4, <2>5 DEF SubprocessStep
<1>8. CASE RetryFailedRead
  BY <1>8, RetryReadJudges
<1>9. CASE RetryFailedWrite
  BY <1>9, RetryWriteSentences
\* The two sweeps that take every row in flight.
<1>p. RowsWith("processing") \in SUBSET Items
      /\ \A i \in RowsWith("processing") : row[i].status = "processing"
  BY DEF RowsWith, Status
<1>10. CASE StartDaemon
  <2>1. ASSUME NEW i \in Items
        PROVE  /\ row'[i].status = IF i \in RowsWith("processing") THEN "pending"
                                   ELSE row[i].status
               /\ row'[i].attempts = row[i].attempts
    BY <1>10, <1>r, RequeuedRow DEF StartDaemon, Sweep
  <2>2. QED  BY <1>10, <1>p, <2>1, SweepTakes DEF StartDaemon
<1>11. ASSUME StopAll PROVE Tickets!TicketNext
  BY <1>11, NothingWritten DEF StopAll
<1>12. ASSUME NEW ls \in SUBSET Lanes, ThreadsEnd(ls), UNCHANGED <<row, running>>,
              plan' = plan \/ plan' = NoPlan
       PROVE  Tickets!TicketNext
  <2>1. \A l \in Lanes : lane'[l] = lane[l] \/ lane'[l].pc \in {"off", "pick"}
    BY <1>12, <1>o DEF ThreadsEnd
  <2>2. QED  BY <1>12, <2>1, NothingWritten
<1>13. DaemonLanes \in SUBSET Lanes /\ Lanes \ DaemonLanes \in SUBSET Lanes
  BY LaneAssumption
<1>14. CASE ShutdownStep
  <2>1. CASE StopAllAgain
    BY <2>1, <1>11 DEF StopAllAgain
  <2>2. CASE MarkProcessingItemsAsError
    <3>1. ASSUME NEW i \in Items
          PROVE  /\ row'[i].status = IF i \in RowsWith("processing") THEN "error"
                                     ELSE row[i].status
                 /\ row'[i].attempts = row[i].attempts
      BY <2>2, <1>r, <1>e, FailedRow DEF MarkProcessingItemsAsError, Sweep
    <3>2. QED  BY <2>2, <1>p, <3>1, SweepTakes DEF MarkProcessingItemsAsError
  <2>3. CASE DaemonExits
    BY <2>3, <1>12, <1>13 DEF DaemonExits
  <2>4. QED  BY <1>14, <2>1, <2>2, <2>3 DEF ShutdownStep
<1>15. CASE BeginShutdown
  BY <1>15, <1>11 DEF BeginShutdown
<1>16. CASE DaemonCrashes
  BY <1>16, <1>12, <1>13 DEF DaemonCrashes
<1>17. CASE ForegroundCrashes
  BY <1>17, <1>12, <1>13 DEF ForegroundCrashes
<1>18. CASE UNCHANGED vars
  BY <1>18, NothingWritten DEF vars
<1>19. QED
  BY <1>1, <1>2, <1>3, <1>4, <1>5, <1>6, <1>7, <1>8, <1>9, <1>10, <1>13, <1>14,
     <1>15, <1>16, <1>17, <1>18 DEF Next

\* Whatever lanes, sweeps, crashes, late writes and retries do, and however
\* many of them there are: a row is claimed only while it is pending and under
\* a number nobody holds, finished only by the one report of that claim's
\* worker, overruled at most once by the lane that watched it, and otherwise
\* only given another chance or given up.
THEOREM QueueImplementsTickets == Spec => ImplementsTickets
<1>1. Spec => []DispatchInv
  BY InitDispatch, Typing, DispatchStep, PTL DEF Spec
<1>2. Spec => []TicketInv
  BY InitTickets, Typing, <1>1, TicketInvStep, PTL DEF Spec
<1>3. TypeOK /\ WatchedType /\ DispatchInv /\ TicketInv /\ [Next]_vars
        => [Tickets!TicketNext]_(Tickets!ticketVars)
  BY TicketStep
<1>4. QED
  BY InitTicketInit, Typing, <1>1, <1>2, <1>3, PTL DEF Spec, ImplementsTickets, Tickets!TicketSpec
===============================================================================
