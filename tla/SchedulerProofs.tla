---------------------------- MODULE SchedulerProofs ----------------------------
(***************************************************************************)
(* Proofs about the scheduler within one daemon: the job locks of          *)
(* daemon.py exclude, and its tables name live threads only, for every set *)
(* of jobs and every number of threads.                                    *)
(***************************************************************************)
EXTENDS Scheduler, TLAPS

-----------------------------------------------------------------------------
(* The inductive invariant.                                                *)

Holding(t) == thread[t].pc \in {"accepted", "registered", "started", "body", "ending"}

\* Whoever works on a job is who its lock was taken for.
HoldersHold ==
    /\ \A t \in Threads : thread[t].pc # "free" => thread[t].job \in Jobs
    /\ \A t \in Threads : Holding(t) => lock[thread[t].job] = t

\* What a table names is at work on that job, and a thread of run_job_now is
\* never in _running (it leaves _running alone when it ends).
TablesLive ==
    /\ \A j \in Jobs, t \in Threads : running[j] = t =>
          /\ thread[t].job = j /\ thread[t].pc \notin {"free", "accepted"}
          /\ thread[t].by # "now"
    /\ \A j \in Jobs, t \in Threads : progress[j] = t =>
          thread[t].job = j /\ thread[t].pc \in {"body", "ending", "released"}

SchedulerInv == TypeOK /\ HoldersHold /\ TablesLive

LEMMA SchedulerInit == Init => SchedulerInv
<1>. SUFFICES ASSUME Init PROVE SchedulerInv
  OBVIOUS
<1>1. NoThread \notin Threads
  BY DEF NoThread, Threads
<1>2. TypeOK
  BY DEF Init, TypeOK, Nobody, Free, Thread, Pcs
<1>3. HoldersHold /\ TablesLive
  BY <1>1 DEF Init, HoldersHold, TablesLive, Holding, Nobody, Free
<1>4. QED  BY <1>2, <1>3 DEF SchedulerInv

\* Frame: nothing the invariant is about changes.
LEMMA ThreadFrame ==
    ASSUME SchedulerInv, UNCHANGED <<lock, running, progress, thread>>
    PROVE  HoldersHold' /\ TablesLive'
BY DEF SchedulerInv, HoldersHold, TablesLive, Holding

\* acquire(blocking=False): the thread that gets the lock is in no table.
LEMMA TakeStep ==
    ASSUME SchedulerInv, NEW j \in Jobs, NEW by \in {"tick", "start", "now"}, Take(j, by),
           UNCHANGED <<running, progress>>
    PROVE  /\ lock' \in [Jobs -> Threads \cup {NoThread}]
           /\ thread' \in [Threads -> Thread]
           /\ HoldersHold' /\ TablesLive'
<1>. DEFINE t == NewThread
            r == [pc |-> "accepted", job |-> j, by |-> by]
<1>1. /\ lock[j] = NoThread /\ lock' = [lock EXCEPT ![j] = t]
      /\ thread' = [thread EXCEPT ![t] = r]
  BY DEF Take, Busy
<1>2. t \in Threads /\ thread[t].pc = "free"
  BY DEF Take, NewThread, FreeThreads
<1>3. r \in Thread /\ r.pc = "accepted" /\ r.job = j
  BY DEF Thread, Pcs
<1>. HIDE DEF t, r
<1>4. TypeOK /\ HoldersHold /\ TablesLive
  BY DEF SchedulerInv
<1>5. thread'[t] = r /\ \A s \in Threads : s # t => thread'[s] = thread[s]
  BY <1>1, <1>2, <1>4 DEF TypeOK
<1>6. lock'[j] = t /\ \A k \in Jobs : k # j => lock'[k] = lock[k]
  BY <1>1, <1>4 DEF TypeOK
<1>7. \A s \in Threads : Holding(s) => thread[s].job # j
  BY <1>1, <1>4 DEF HoldersHold, NoThread, Threads
<1>8. HoldersHold'
  BY <1>2, <1>3, <1>4, <1>5, <1>6, <1>7 DEF HoldersHold, Holding
<1>9. TablesLive'
  BY <1>2, <1>3, <1>4, <1>5 DEF TablesLive
<1>10. QED
  BY <1>1, <1>2, <1>3, <1>4, <1>8, <1>9 DEF TypeOK

LEMMA SchedulerInvStep == SchedulerInv /\ [Next]_vars => SchedulerInv'
<1>. SUFFICES ASSUME SchedulerInv, [Next]_vars
              PROVE  SchedulerInv'
  OBVIOUS
<1>i. TypeOK /\ HoldersHold /\ TablesLive
  BY DEF SchedulerInv
<1>n. NoThread \notin Threads
  BY DEF NoThread, Threads
<1>1. ASSUME NEW j \in Jobs, WorkArrives(j) \/ ComesDue(j)
      PROVE  SchedulerInv'
  <2>1. TypeOK'
    BY <1>1, <1>i DEF WorkArrives, ComesDue, TypeOK, history
  <2>2. QED  BY <1>1, <2>1, ThreadFrame DEF WorkArrives, ComesDue, SchedulerInv
<1>2. ASSUME NEW j \in Jobs, StartJob(j) \/ RunJobNow(j)
      PROVE  SchedulerInv'
  <2>1. \E by \in {"start", "now"} : Take(j, by)
    BY <1>2 DEF StartJob, RunJobNow
  <2>2. UNCHANGED <<running, progress, due, tick, sched, main, shutdown, toJoin, work, history>>
    BY <1>2 DEF StartJob, RunJobNow
  <2>3. /\ lock' \in [Jobs -> Threads \cup {NoThread}] /\ thread' \in [Threads -> Thread]
        /\ HoldersHold' /\ TablesLive'
    BY <2>1, <2>2, TakeStep
  <2>4. QED  BY <1>i, <2>2, <2>3 DEF SchedulerInv, TypeOK, history
<1>3. CASE SchedulerStep
  <2>1. ASSUME NEW j \in Jobs, TickStarts(j) PROVE SchedulerInv'
    <3>1. /\ Take(j, "tick") /\ tick' = tick \ {j} /\ sched = "ticking"
          /\ UNCHANGED <<running, progress, due, sched, main, shutdown, toJoin, work, history>>
      BY <2>1 DEF TickStarts
    <3>2. /\ lock' \in [Jobs -> Threads \cup {NoThread}] /\ thread' \in [Threads -> Thread]
          /\ HoldersHold' /\ TablesLive'
      BY <3>1, TakeStep
    <3>3. QED  BY <1>i, <3>1, <3>2 DEF SchedulerInv, TypeOK, history
  <2>2. ASSUME \/ TickBegins \/ TickEnds \/ SchedulerEnds
               \/ \E j \in Jobs : TickSkips(j)
        PROVE  SchedulerInv'
    <3>1. TypeOK'
      BY <2>2, <1>i DEF TickBegins, TickEnds, SchedulerEnds, TickSkips, TypeOK, history
    <3>2. UNCHANGED <<lock, running, progress, thread>>
      BY <2>2 DEF TickBegins, TickEnds, SchedulerEnds, TickSkips
    <3>3. QED  BY <3>1, <3>2, ThreadFrame DEF SchedulerInv
  <2>3. QED  BY <1>3, <2>1, <2>2 DEF SchedulerStep
<1>4. ASSUME NEW t \in Threads, ThreadStep(t) \/ BodyEnds(t) PROVE SchedulerInv'
  <2>. DEFINE j == thread[t].job
  <2>j. thread[t].pc # "free" => j \in Jobs
    BY <1>i DEF HoldersHold
  \* The thread goes on to pc.
  <2>p. ASSUME NEW pc \in Pcs, thread' = At(t, pc)
        PROVE  /\ thread' \in [Threads -> Thread]
               /\ thread'[t].pc = pc /\ thread'[t].job = j /\ thread'[t].by = thread[t].by
               /\ \A s \in Threads : s # t => thread'[s] = thread[s]
    BY <2>p, <1>i DEF At, TypeOK, Thread
  <2>1. CASE Register(t)
    <3>1. /\ thread[t].pc = "accepted" /\ thread[t].by # "now"
          /\ running' = [running EXCEPT ![j] = t] /\ thread' = At(t, "registered")
          /\ UNCHANGED <<lock, progress, due, tick, sched, main, shutdown, toJoin, work, history>>
      BY <2>1 DEF Register
    <3>2. /\ thread' \in [Threads -> Thread]
          /\ thread'[t].pc = "registered" /\ thread'[t].job = j /\ thread'[t].by = thread[t].by
          /\ \A s \in Threads : s # t => thread'[s] = thread[s]
      BY <3>1, <2>p DEF Pcs
    <3>. HIDE DEF j
    <3>3. HoldersHold'
      BY <3>1, <3>2, <1>i DEF HoldersHold, Holding, j
    <3>4. \A k \in Jobs : running'[k] = running[k] \/ (k = j /\ running'[k] = t)
      BY <3>1, <2>j, <1>i DEF TypeOK
    <3>5. TablesLive'
      <4>1. ASSUME NEW k \in Jobs, NEW s \in Threads, running'[k] = s
            PROVE  /\ thread'[s].job = k /\ thread'[s].pc \notin {"free", "accepted"}
                   /\ thread'[s].by # "now"
        <5>1. CASE s = t
          <6>1. running[k] # t
            BY <3>1, <1>i DEF TablesLive
          <6>2. QED  BY <4>1, <5>1, <6>1, <3>1, <3>2, <3>4
        <5>2. CASE s # t
          BY <4>1, <5>2, <3>2, <3>4, <1>i DEF TablesLive
        <5>3. QED  BY <5>1, <5>2
      <4>2. ASSUME NEW k \in Jobs, NEW s \in Threads, progress'[k] = s
            PROVE  thread'[s].job = k /\ thread'[s].pc \in {"body", "ending", "released"}
        <5>1. progress[k] = s /\ s # t
          BY <4>2, <3>1, <1>i DEF TablesLive
        <5>2. QED  BY <5>1, <3>2, <1>i DEF TablesLive
      <4>3. QED  BY <4>1, <4>2 DEF TablesLive
    <3>7. TypeOK'
      <4>1. running' \in [Jobs -> Threads \cup {NoThread}]
        BY <3>1, <2>j, <1>i DEF TypeOK
      <4>2. QED  BY <3>1, <3>2, <4>1, <1>i DEF TypeOK, history
    <3>6. QED  BY <3>3, <3>5, <3>7 DEF SchedulerInv
  <2>7. CASE Start(t)
    <3>1. /\ thread[t].pc = "registered" /\ thread' = At(t, "started")
          /\ UNCHANGED <<lock, running, progress, due, tick, sched, main, shutdown, toJoin, work, history>>
      BY <2>7 DEF Start
    <3>2. /\ thread' \in [Threads -> Thread]
          /\ thread'[t].pc = "started" /\ thread'[t].job = j /\ thread'[t].by = thread[t].by
          /\ \A s \in Threads : s # t => thread'[s] = thread[s]
      BY <3>1, <2>p DEF Pcs
    <3>3. HoldersHold' /\ TablesLive'
      BY <3>1, <3>2, <1>i DEF HoldersHold, TablesLive, Holding
    <3>4. QED  BY <3>1, <3>2, <3>3, <1>i DEF SchedulerInv, TypeOK, history
  <2>2. CASE BodyBegins(t)
    <3>1. /\ thread[t].pc \in {"started", "accepted"}
          /\ progress' = IF j \in ProgressJobs THEN [progress EXCEPT ![j] = t] ELSE progress
          /\ work' = work \ {j} /\ thread' = At(t, "body")
          /\ UNCHANGED <<lock, running, due, tick, sched, main, shutdown, toJoin, history>>
      BY <2>2 DEF BodyBegins
    <3>2. /\ thread' \in [Threads -> Thread]
          /\ thread'[t].pc = "body" /\ thread'[t].job = j /\ thread'[t].by = thread[t].by
          /\ \A s \in Threads : s # t => thread'[s] = thread[s]
      BY <3>1, <2>p DEF Pcs
    <3>. HIDE DEF j
    <3>3. HoldersHold'
      BY <3>1, <3>2, <1>i DEF HoldersHold, Holding, j
    <3>4. \A k \in Jobs : progress'[k] = progress[k] \/ (k = j /\ progress'[k] = t)
      BY <3>1, <2>j, <1>i DEF TypeOK
    <3>5. TablesLive'
      <4>1. ASSUME NEW k \in Jobs, NEW s \in Threads, running'[k] = s
            PROVE  /\ thread'[s].job = k /\ thread'[s].pc \notin {"free", "accepted"}
                   /\ thread'[s].by # "now"
        <5>1. /\ thread[s].job = k /\ thread[s].pc \notin {"free", "accepted"}
              /\ thread[s].by # "now"
          BY <4>1, <3>1, <1>i DEF TablesLive
        <5>2. QED  BY <5>1, <3>2 DEF j
      <4>2. ASSUME NEW k \in Jobs, NEW s \in Threads, progress'[k] = s
            PROVE  thread'[s].job = k /\ thread'[s].pc \in {"body", "ending", "released"}
        <5>1. CASE s = t
          <6>1. progress[k] # t
            BY <3>1, <1>i DEF TablesLive
          <6>2. QED  BY <4>2, <5>1, <6>1, <3>2, <3>4
        <5>2. CASE s # t
          BY <4>2, <5>2, <3>2, <3>4, <1>i DEF TablesLive
        <5>3. QED  BY <5>1, <5>2
      <4>3. QED  BY <4>1, <4>2 DEF TablesLive
    <3>6. TypeOK'
      <4>1. progress' \in [Jobs -> Threads \cup {NoThread}]
        BY <3>1, <2>j, <1>i DEF TypeOK
      <4>2. work' \subseteq EndingJobs
        BY <3>1, <1>i DEF TypeOK
      <4>3. QED  BY <3>1, <3>2, <4>1, <4>2, <1>i DEF TypeOK, history
    <3>7. QED  BY <3>3, <3>5, <3>6 DEF SchedulerInv
  <2>3. CASE BodyEnds(t)
    <3>1. /\ thread[t].pc = "body" /\ thread' = At(t, "ending")
          /\ UNCHANGED <<lock, running, progress, due, tick, sched, main, shutdown, toJoin, work, history>>
      BY <2>3 DEF BodyEnds
    <3>2. /\ thread' \in [Threads -> Thread]
          /\ thread'[t].pc = "ending" /\ thread'[t].job = j /\ thread'[t].by = thread[t].by
          /\ \A s \in Threads : s # t => thread'[s] = thread[s]
      BY <3>1, <2>p DEF Pcs
    <3>3. HoldersHold' /\ TablesLive'
      BY <3>1, <3>2, <1>i DEF HoldersHold, TablesLive, Holding
    <3>4. QED  BY <3>1, <3>2, <3>3, <1>i DEF SchedulerInv, TypeOK, history
  <2>4. CASE Release(t)
    <3>1. /\ thread[t].pc = "ending" /\ lock' = [lock EXCEPT ![j] = NoThread]
          /\ thread' = At(t, "released")
          /\ UNCHANGED <<running, progress, due, tick, sched, main, shutdown, toJoin, work, history>>
      BY <2>4 DEF Release
    <3>2. /\ thread' \in [Threads -> Thread]
          /\ thread'[t].pc = "released" /\ thread'[t].job = j /\ thread'[t].by = thread[t].by
          /\ \A s \in Threads : s # t => thread'[s] = thread[s]
      BY <3>1, <2>p DEF Pcs
    <3>3. lock[j] = t /\ j \in Jobs
      BY <3>1, <2>j, <1>i DEF HoldersHold, Holding
    <3>4. ASSUME NEW s \in Threads, Holding(s)'
          PROVE  s # t /\ Holding(s) /\ thread'[s] = thread[s] /\ thread[s].job # j
      <4>1. s # t
        BY <3>2, <3>4 DEF Holding
      <4>2. QED  BY <4>1, <3>2, <3>3, <3>4, <1>i DEF Holding, HoldersHold
    <3>. HIDE DEF j
    <3>5. HoldersHold'
      BY <3>1, <3>2, <3>3, <3>4, <1>i DEF HoldersHold, TypeOK
    <3>6. TablesLive'
      <4>1. ASSUME NEW s \in Threads
            PROVE  /\ thread'[s].job = thread[s].job /\ thread'[s].by = thread[s].by
                   /\ thread'[s].pc = IF s = t THEN "released" ELSE thread[s].pc
        BY <3>2 DEF j
      <4>2. QED  BY <4>1, <3>1, <1>i DEF TablesLive
    <3>7. QED  BY <3>1, <3>2, <3>3, <3>5, <3>6, <1>i DEF SchedulerInv, TypeOK, history
  <2>5. CASE Pop(t)
    <3>1. /\ thread[t].pc = "released"
          /\ running' = IF thread[t].by = "now" THEN running ELSE [running EXCEPT ![j] = NoThread]
          /\ progress' = [progress EXCEPT ![j] = NoThread]
          /\ thread' = [thread EXCEPT ![t] = Free] /\ toJoin' = toJoin \ {t}
          /\ dropped' = (dropped \cup IF thread[t].by = "now" THEN {} ELSE {running[j]} \ {NoThread})
                           \ {t}
          /\ UNCHANGED <<lock, due, tick, sched, main, shutdown, work, fate>>
      BY <2>5 DEF Pop
    <3>2. Free \in Thread /\ Free.pc = "free"
      BY DEF Free, Thread, Pcs
    <3>3. /\ thread' \in [Threads -> Thread] /\ thread'[t].pc = "free"
          /\ \A s \in Threads : s # t => thread'[s] = thread[s]
      BY <3>1, <3>2, <1>i DEF TypeOK
    <3>4. HoldersHold'
      BY <3>1, <3>3, <1>i DEF HoldersHold, Holding
    <3>5. ASSUME NEW k \in Jobs, NEW s \in Threads
          PROVE  /\ running'[k] = s => running[k] = s /\ s # t
                 /\ progress'[k] = s => progress[k] = s /\ s # t
      BY <3>1, <2>j, <1>n, <1>i DEF TablesLive, TypeOK
    <3>6. TablesLive'
      BY <3>3, <3>5, <1>i DEF TablesLive
    <3>. HIDE DEF j
    <3>7. TypeOK'
      BY <3>1, <3>3, <2>j, <1>i DEF TypeOK
    <3>8. QED  BY <3>4, <3>6, <3>7 DEF SchedulerInv
  <2>6. QED  BY <1>4, <2>1, <2>2, <2>3, <2>4, <2>5, <2>7 DEF ThreadStep
<1>5. CASE Exit
  <2>1. /\ lock' = Nobody /\ running' = Nobody /\ progress' = Nobody
        /\ thread' = [t \in Threads |-> Free]
    BY <1>5 DEF Exit
  <2>2. Free \in Thread /\ Free.pc = "free"
    BY DEF Free, Thread, Pcs
  <2>3. HoldersHold' /\ TablesLive'
    BY <2>1, <2>2, <1>n DEF HoldersHold, TablesLive, Holding, Nobody
  <2>4. TypeOK'
    BY <1>5, <2>1, <2>2, <1>i DEF Exit, TypeOK, Nobody
  <2>5. QED  BY <2>3, <2>4 DEF SchedulerInv
<1>6. ASSUME \/ RequestShutdown \/ LeaveMainLoop \/ ListRunningJobs \/ AllJoined \/ CleanUp
             \/ \E t \in Threads : Join(t) \/ JoinRaises(t)
      PROVE  SchedulerInv'
  <2>1. CASE ListRunningJobs
    <3>1. Listed \subseteq Threads
      BY <1>i DEF Listed, TypeOK
    <3>2. fate' \in [unstarted : BOOLEAN, overlooked : BOOLEAN, cleaned : BOOLEAN]
      BY <2>1, <1>i DEF ListRunningJobs, TypeOK
    <3>3. TypeOK' /\ UNCHANGED <<lock, running, progress, thread>>
      BY <2>1, <3>1, <3>2, <1>i DEF ListRunningJobs, TypeOK
    <3>4. QED  BY <3>3, ThreadFrame DEF SchedulerInv
  <2>2. CASE ~ListRunningJobs
    <3>1. TypeOK'
      BY <1>6, <2>2, <1>i DEF RequestShutdown, LeaveMainLoop, AllJoined, CleanUp, Join, JoinRaises,
                              TypeOK, history
    <3>2. UNCHANGED <<lock, running, progress, thread>>
      BY <1>6, <2>2 DEF RequestShutdown, LeaveMainLoop, AllJoined, CleanUp, Join, JoinRaises
    <3>3. QED  BY <3>1, <3>2, ThreadFrame DEF SchedulerInv
  <2>3. QED  BY <2>1, <2>2
<1>7. CASE UNCHANGED vars
  <2>1. TypeOK' /\ UNCHANGED <<lock, running, progress, thread>>
    BY <1>7, <1>i DEF vars, TypeOK
  <2>2. QED  BY <2>1, ThreadFrame DEF SchedulerInv
<1>8. QED
  BY <1>1, <1>2, <1>3, <1>4, <1>5, <1>6, <1>7 DEF Next, MainStep

-----------------------------------------------------------------------------
(* The other direction: nothing is left behind for which nobody answers.   *)

\* A lock is held by a thread that is at work on its job and will release it.
LocksInUse == \A j \in Jobs : Busy(j) => thread[lock[j]].job = j /\ Holding(lock[j])

\* join_running_jobs waits for threads that were in _running and have not ended.
JoinsTheLiving ==
    /\ main # "joining" => toJoin = {}
    /\ \A t \in toJoin : thread[t].pc \notin {"free", "accepted"}

Answered == LocksInUse /\ JoinsTheLiving

LEMMA AnsweredInit == Init => Answered
BY DEF Init, Answered, LocksInUse, JoinsTheLiving, Busy, Nobody

\* A new thread takes the lock of a job that nobody has.
LEMMA TakeAnswers ==
    ASSUME SchedulerInv, Answered, NEW j \in Jobs, NEW by \in {"tick", "start", "now"},
           Take(j, by), UNCHANGED <<main, toJoin>>
    PROVE  Answered'
<1>1. PICK t : t = NewThread
  OBVIOUS
<1>2. /\ lock[j] = NoThread /\ lock' = [lock EXCEPT ![j] = t]
      /\ thread' = [thread EXCEPT ![t] = [pc |-> "accepted", job |-> j, by |-> by]]
  BY <1>1 DEF Take, Busy
<1>3. t \in Threads /\ thread[t].pc = "free"
  BY <1>1 DEF Take, NewThread, FreeThreads
<1>4. /\ thread'[t].pc = "accepted" /\ thread'[t].job = j
      /\ \A s \in Threads : s # t => thread'[s] = thread[s]
      /\ lock'[j] = t /\ \A k \in Jobs : k # j => lock'[k] = lock[k]
      /\ \A k \in Jobs : lock[k] # NoThread => lock[k] \in Threads
      /\ toJoin \subseteq Threads
  BY <1>2, <1>3 DEF SchedulerInv, TypeOK
<1>5. LocksInUse'
  BY <1>3, <1>4 DEF Answered, LocksInUse, Busy, Holding
<1>6. JoinsTheLiving'
  BY <1>3, <1>4 DEF Answered, JoinsTheLiving
<1>7. QED  BY <1>5, <1>6 DEF Answered

\* A thread that goes on with its job keeps its lock.
LEMMA GoesOnAnswers ==
    ASSUME SchedulerInv, Answered, NEW t \in Threads,
           NEW pc \in {"registered", "started", "body", "ending"}, thread[t].pc # "free",
           thread' = At(t, pc), UNCHANGED <<lock, main, toJoin>>
    PROVE  Answered'
<1>1. /\ thread'[t].pc = pc /\ thread'[t].job = thread[t].job
      /\ \A s \in Threads : s # t => thread'[s] = thread[s]
      /\ \A k \in Jobs : lock[k] # NoThread => lock[k] \in Threads
      /\ toJoin \subseteq Threads
  BY DEF SchedulerInv, TypeOK, At, Thread
<1>2. LocksInUse'
  BY <1>1 DEF Answered, LocksInUse, Busy, Holding
<1>3. JoinsTheLiving'
  BY <1>1 DEF Answered, JoinsTheLiving
<1>4. QED  BY <1>2, <1>3 DEF Answered

LEMMA AnsweredStep == SchedulerInv /\ Answered /\ [Next]_vars => Answered'
<1>. SUFFICES ASSUME SchedulerInv, Answered, [Next]_vars PROVE Answered'
  OBVIOUS
<1>t. /\ \A k \in Jobs : lock[k] # NoThread => lock[k] \in Threads
      /\ \A k \in Jobs : running[k] # NoThread => running[k] \in Threads
      /\ toJoin \subseteq Threads /\ lock \in [Jobs -> Threads \cup {NoThread}]
      /\ thread \in [Threads -> Thread]
  BY DEF SchedulerInv, TypeOK
<1>s. ASSUME UNCHANGED <<lock, thread, main, toJoin>> PROVE Answered'
  BY <1>s DEF Answered, LocksInUse, JoinsTheLiving, Busy, Holding
<1>1. ASSUME NEW j \in Jobs, WorkArrives(j) \/ ComesDue(j) \/ TickSkips(j) PROVE Answered'
  BY <1>1, <1>s DEF WorkArrives, ComesDue, TickSkips
<1>2. ASSUME NEW j \in Jobs, StartJob(j) \/ RunJobNow(j) \/ TickStarts(j) PROVE Answered'
  <2>1. \E by \in {"tick", "start", "now"} : Take(j, by)
    BY <1>2 DEF StartJob, RunJobNow, TickStarts
  <2>2. UNCHANGED <<main, toJoin>>
    BY <1>2 DEF StartJob, RunJobNow, TickStarts
  <2>3. QED  BY <2>1, <2>2, TakeAnswers
<1>3. CASE TickBegins \/ TickEnds \/ SchedulerEnds \/ RequestShutdown
  BY <1>3, <1>s DEF TickBegins, TickEnds, SchedulerEnds, RequestShutdown
<1>4. ASSUME NEW t \in Threads, Register(t) \/ Start(t) \/ BodyBegins(t) \/ BodyEnds(t)
      PROVE  Answered'
  <2>1. \E pc \in {"registered", "started", "body", "ending"} :
           thread[t].pc # "free" /\ thread' = At(t, pc) /\ UNCHANGED <<lock, main, toJoin>>
    BY <1>4 DEF Register, Start, BodyBegins, BodyEnds
  <2>2. QED  BY <2>1, GoesOnAnswers
<1>5. ASSUME NEW t \in Threads, Release(t) PROVE Answered'
  <2>1. PICK j \in Jobs : j = thread[t].job
    BY <1>5 DEF Release, SchedulerInv, HoldersHold
  <2>2. lock[j] = t
    BY <1>5, <2>1 DEF Release, SchedulerInv, HoldersHold, Holding
  <2>3. /\ lock'[j] = NoThread /\ \A k \in Jobs : k # j => lock'[k] = lock[k]
        /\ thread'[t].pc = "released" /\ \A s \in Threads : s # t => thread'[s] = thread[s]
        /\ UNCHANGED <<main, toJoin>>
    BY <1>5, <1>t, <2>1 DEF Release, At
  <2>4. \A k \in Jobs : k # j /\ lock[k] # NoThread => lock[k] # t
    BY <2>1 DEF Answered, LocksInUse, Busy
  <2>5. LocksInUse'
    BY <1>t, <2>3, <2>4 DEF Answered, LocksInUse, Busy, Holding
  <2>6. JoinsTheLiving'
    BY <1>t, <2>3 DEF Answered, JoinsTheLiving
  <2>7. QED  BY <2>5, <2>6 DEF Answered
<1>6. ASSUME NEW t \in Threads, Pop(t) PROVE Answered'
  <2>1. /\ thread[t].pc = "released" /\ \A s \in Threads : s # t => thread'[s] = thread[s]
        /\ toJoin' = toJoin \ {t} /\ UNCHANGED <<lock, main>>
    BY <1>6, <1>t DEF Pop
  <2>2. \A k \in Jobs : lock[k] # NoThread => lock[k] # t
    BY <2>1 DEF Answered, LocksInUse, Busy, Holding
  <2>3. LocksInUse'
    BY <1>t, <2>1, <2>2 DEF Answered, LocksInUse, Busy, Holding
  <2>4. JoinsTheLiving'
    BY <1>t, <2>1 DEF Answered, JoinsTheLiving
  <2>5. QED  BY <2>3, <2>4 DEF Answered
<1>7. CASE LeaveMainLoop
  BY <1>7 DEF LeaveMainLoop, Answered, LocksInUse, JoinsTheLiving, Busy, Holding
<1>8. CASE ListRunningJobs
  <2>1. /\ toJoin' = Listed /\ main' = "joining"
        /\ UNCHANGED <<lock, thread>>
    BY <1>8 DEF ListRunningJobs
  <2>2. \A t \in toJoin' : thread[t].pc \notin {"free", "accepted"}
    BY <1>t, <2>1 DEF SchedulerInv, TablesLive, Listed
  <2>3. QED  BY <2>1, <2>2 DEF Answered, LocksInUse, JoinsTheLiving, Busy, Holding
<1>9. CASE AllJoined \/ CleanUp \/ \E t \in Threads : Join(t) \/ JoinRaises(t)
  BY <1>9 DEF AllJoined, CleanUp, Join, JoinRaises, Answered, LocksInUse, JoinsTheLiving, Busy,
              Holding
<1>10. CASE Exit
  BY <1>10 DEF Exit, Answered, LocksInUse, JoinsTheLiving, Busy, Nobody
<1>11. CASE UNCHANGED vars
  BY <1>11, <1>s DEF vars
<1>12. QED
  BY <1>1, <1>2, <1>3, <1>4, <1>5, <1>6, <1>7, <1>8, <1>9, <1>10, <1>11
     DEF Next, SchedulerStep, ThreadStep, MainStep

-----------------------------------------------------------------------------
(* The shutdown.                                                           *)

Entered(t) == thread[t].pc \in {"registered", "started", "body", "ending"} /\ thread[t].by # "now"

\* The entry of a job thread stays until it ends, or is known to be dropped.
EntriesKept == \A t \in Threads : Entered(t) => running[thread[t].job] = t \/ t \in dropped

Orderly ==
    /\ EntriesKept
    /\ main = "joining" => \A t \in toJoin : thread[t].pc = "registered" => fate.unstarted
    /\ ShutdownInOrder

LEMMA OrderlyInit == Init => Orderly
BY DEF Init, Orderly, EntriesKept, Entered, ShutdownInOrder, Free

\* A thread that goes on with its job, entered already.
LEMMA GoesOnInOrder ==
    ASSUME SchedulerInv, Orderly, NEW t \in Threads, NEW pc \in {"started", "body", "ending", "released"},
           Entered(t) \/ thread[t].by = "now", thread' = At(t, pc),
           UNCHANGED <<running, dropped, main, toJoin, fate>>
    PROVE  Orderly'
<1>1. /\ thread'[t].pc = pc /\ thread'[t].job = thread[t].job /\ thread'[t].by = thread[t].by
      /\ \A s \in Threads : s # t => thread'[s] = thread[s]
      /\ toJoin \subseteq Threads
  BY DEF SchedulerInv, TypeOK, At, Thread
<1>2. EntriesKept'
  BY <1>1 DEF Orderly, EntriesKept, Entered
<1>3. QED  BY <1>1, <1>2 DEF Orderly, ShutdownInOrder

\* What touches neither the threads and _running nor main.
LEMMA OrderFrame ==
    ASSUME Orderly, UNCHANGED <<running, thread, main, toJoin, history>>
    PROVE  Orderly'
BY DEF Orderly, EntriesKept, Entered, ShutdownInOrder, history

LEMMA OrderlyStep == SchedulerInv /\ Answered /\ Orderly /\ [Next]_vars => Orderly'
<1>. SUFFICES ASSUME SchedulerInv, Answered, Orderly, [Next]_vars PROVE Orderly'
  OBVIOUS
<1>t. /\ running \in [Jobs -> Threads \cup {NoThread}] /\ thread \in [Threads -> Thread]
      /\ toJoin \subseteq Threads /\ NoThread \notin Threads
      /\ fate \in [unstarted : BOOLEAN, overlooked : BOOLEAN, cleaned : BOOLEAN]
  BY DEF SchedulerInv, TypeOK, NoThread, Threads
<1>1. ASSUME NEW j \in Jobs, WorkArrives(j) \/ ComesDue(j) \/ TickSkips(j) PROVE Orderly'
  BY <1>1, OrderFrame DEF WorkArrives, ComesDue, TickSkips
<1>2. CASE TickBegins \/ TickEnds \/ SchedulerEnds \/ RequestShutdown
  BY <1>2, OrderFrame DEF TickBegins, TickEnds, SchedulerEnds, RequestShutdown
<1>3. ASSUME NEW j \in Jobs, StartJob(j) \/ RunJobNow(j) \/ TickStarts(j) PROVE Orderly'
  <2>1. PICK t : t = NewThread
    OBVIOUS
  <2>2. /\ t \in Threads /\ thread[t].pc = "free" /\ thread'[t].pc = "accepted"
        /\ \A s \in Threads : s # t => thread'[s] = thread[s]
        /\ UNCHANGED <<running, main, toJoin, dropped, fate>>
    BY <1>3, <1>t, <2>1 DEF StartJob, RunJobNow, TickStarts, Take, NewThread, FreeThreads, history
  <2>3. EntriesKept'
    BY <2>2 DEF Orderly, EntriesKept, Entered
  <2>4. QED  BY <1>t, <2>2, <2>3 DEF Orderly, ShutdownInOrder
<1>4. ASSUME NEW t \in Threads, Start(t) \/ BodyBegins(t) \/ BodyEnds(t) \/ Release(t) PROVE Orderly'
  <2>1. CASE Start(t)
    BY <2>1, GoesOnInOrder DEF Start, Entered, history
  <2>2. CASE BodyBegins(t)
    BY <2>2, GoesOnInOrder DEF BodyBegins, Entered, history
  <2>3. CASE BodyEnds(t)
    BY <2>3, GoesOnInOrder DEF BodyEnds, Entered, history
  <2>4. CASE Release(t)
    BY <2>4, GoesOnInOrder DEF Release, Entered, history
  <2>5. QED  BY <1>4, <2>1, <2>2, <2>3, <2>4
\* The thread that enters has the lock, so nobody at work loses the entry to it.
<1>5. ASSUME NEW t \in Threads, Register(t) PROVE Orderly'
  <2>1. PICK j \in Jobs : j = thread[t].job
    BY <1>5 DEF Register, SchedulerInv, HoldersHold
  <2>2. /\ lock[j] = t /\ t \notin toJoin
    BY <1>5, <2>1 DEF Register, SchedulerInv, HoldersHold, Holding, Answered, JoinsTheLiving
  <2>3. /\ running'[j] = t /\ \A k \in Jobs : k # j => running'[k] = running[k]
        /\ thread'[t].job = j /\ \A s \in Threads : s # t => thread'[s] = thread[s]
        /\ UNCHANGED <<main, toJoin, dropped, fate>>
    BY <1>5, <1>t, <2>1 DEF Register, At, Thread, history
  <2>4. ASSUME NEW s \in Threads, s # t, Entered(s)'
        PROVE  running'[thread'[s].job] = s \/ s \in dropped'
    <3>1. Entered(s) /\ thread[s].job \in Jobs /\ lock[thread[s].job] = s
      BY <2>3, <2>4 DEF Entered, SchedulerInv, HoldersHold, Holding
    <3>2. QED  BY <2>2, <2>3, <2>4, <3>1 DEF Orderly, EntriesKept
  <2>5. EntriesKept'
    BY <2>3, <2>4 DEF EntriesKept
  <2>6. QED  BY <1>t, <2>2, <2>3, <2>5 DEF Orderly, ShutdownInOrder
<1>6. ASSUME NEW t \in Threads, Pop(t) PROVE Orderly'
  <2>1. PICK j \in Jobs : j = thread[t].job
    BY <1>6 DEF Pop, SchedulerInv, HoldersHold
  <2>2. /\ running' = IF thread[t].by = "now" THEN running ELSE [running EXCEPT ![j] = NoThread]
        /\ dropped' = (dropped \cup IF thread[t].by = "now" THEN {} ELSE {running[j]} \ {NoThread})
                         \ {t}
        /\ thread'[t].pc = "free" /\ \A s \in Threads : s # t => thread'[s] = thread[s]
        /\ toJoin' = toJoin \ {t} /\ UNCHANGED <<main, fate>>
    BY <1>6, <1>t, <2>1 DEF Pop, Free
  <2>3. ASSUME NEW s \in Threads, Entered(s)'
        PROVE  running'[thread'[s].job] = s \/ s \in dropped'
    <3>1. s # t /\ Entered(s) /\ thread'[s] = thread[s]
      BY <2>2, <2>3 DEF Entered
    <3>2. thread[s].job \in Jobs /\ (running[thread[s].job] = s \/ s \in dropped)
      BY <3>1 DEF Orderly, EntriesKept, Entered, SchedulerInv, HoldersHold
    <3>3. QED  BY <1>t, <2>2, <3>1, <3>2
  <2>4. EntriesKept'
    BY <2>3 DEF EntriesKept
  <2>5. QED  BY <1>t, <2>2, <2>4 DEF Orderly, ShutdownInOrder
<1>7. CASE ListRunningJobs
  <2>1. /\ main' = "joining" /\ toJoin' = Listed /\ UNCHANGED <<running, thread, dropped>>
        /\ fate'.unstarted = \E t \in Listed : thread[t].pc = "registered"
        /\ fate'.overlooked = \E t \in Threads \ (Listed \cup dropped) : AtWork(t)
    BY <1>7, <1>t DEF ListRunningJobs
  <2>2. ASSUME NEW t \in Threads \ (Listed \cup dropped), AtWork(t) PROVE FALSE
    <3>1. Entered(t) /\ thread[t].job \in Jobs
      BY <2>2 DEF AtWork, Entered, SchedulerInv, HoldersHold
    <3>2. running[thread[t].job] = t
      BY <2>2, <3>1 DEF Orderly, EntriesKept
    <3>3. QED  BY <1>t, <2>2, <3>1, <3>2 DEF Listed
  <2>3. ShutdownInOrder'
    BY <2>1, <2>2 DEF ShutdownInOrder
  <2>4. QED  BY <2>1, <2>3 DEF Orderly, EntriesKept, Entered
<1>8. ASSUME NEW t \in Threads, Join(t) \/ JoinRaises(t) PROVE Orderly'
  BY <1>8 DEF Join, JoinRaises, Orderly, EntriesKept, Entered, ShutdownInOrder, history
<1>9. CASE LeaveMainLoop \/ AllJoined
  BY <1>9 DEF LeaveMainLoop, AllJoined, Orderly, EntriesKept, Entered, ShutdownInOrder, history
<1>10. CASE CleanUp
  BY <1>10, <1>t DEF CleanUp, Orderly, EntriesKept, Entered, ShutdownInOrder
<1>11. CASE Exit
  BY <1>11 DEF Exit, Orderly, EntriesKept, Entered, ShutdownInOrder, Free
<1>12. CASE UNCHANGED vars
  BY <1>12, OrderFrame DEF vars, history
<1>13. QED
  BY <1>1, <1>2, <1>3, <1>4, <1>5, <1>6, <1>7, <1>8, <1>9, <1>10, <1>11, <1>12
     DEF Next, SchedulerStep, ThreadStep, MainStep

-----------------------------------------------------------------------------
(* The theorems.                                                           *)

LEMMA InvExcludes == SchedulerInv => JobsExclusive
BY DEF SchedulerInv, HoldersHold, TablesLive, Holding, JobsExclusive, OneThreadPerJob,
       RunningNotStale

LEMMA SchedulerInvariant == Spec => []SchedulerInv
BY SchedulerInit, SchedulerInvStep, PTL DEF Spec

\* The scheduler's tables, locks and threads keep to their declarations.
THEOREM SchedulerTypeCorrect == Spec => []TypeOK
<1>1. SchedulerInv => TypeOK
  BY DEF SchedulerInv
<1>2. QED  BY <1>1, SchedulerInvariant, PTL

\* However ticks, clients and endings meet: a job has one thread at most, and
\* _running and _job_progress name no thread that has gone or works elsewhere.
THEOREM JobsAreExclusive == Spec => []JobsExclusive
BY SchedulerInvariant, InvExcludes, PTL

\* A job that is answered "busy" has a thread at work on it that will release
\* its lock, whatever raised or hung before: no lock is left behind; and
\* shutdown waits for no thread that has ended.
THEOREM NoLockIsLeft == Spec => [](LocksInUse /\ JoinsTheLiving)
<1>1. SchedulerInv /\ Answered /\ [Next]_vars => Answered'
  BY AnsweredStep
<1>2. Answered => LocksInUse /\ JoinsTheLiving
  BY DEF Answered
<1>3. QED  BY <1>1, <1>2, AnsweredInit, SchedulerInvariant, PTL DEF Spec

\* join_running_jobs overlooks no job thread at work, but for one whose entry
\* the end of the run before it removed, and the process does not end before
\* rows are marked and the pid file is gone, unless a thread was between its
\* entry in _running and its start.
THEOREM ShutdownKeepsOrder == Spec => []ShutdownInOrder
<1>1. SchedulerInv /\ Answered /\ [Next]_vars => Answered'
  BY AnsweredStep
<1>2. SchedulerInv /\ Answered /\ Orderly /\ [Next]_vars => Orderly'
  BY OrderlyStep
<1>3. Orderly => ShutdownInOrder
  BY DEF Orderly
<1>4. QED
  BY <1>1, <1>2, <1>3, AnsweredInit, OrderlyInit, SchedulerInvariant, PTL DEF Spec

=============================================================================
