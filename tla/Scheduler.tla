------------------------------ MODULE Scheduler ------------------------------
(***************************************************************************)
(* The job threads of the daemon (daemon.py): the scheduler thread that    *)
(* fires due jobs, the socket clients that start jobs or run them on their *)
(* own thread, the per-job locks, the table _running that status() and     *)
(* join_running_jobs() read, and the shutdown sequence of Daemon.run.      *)
(*                                                                         *)
(* A step is what a thread does between two points where another may run:  *)
(* taking or releasing a job lock, one section under _state_lock.          *)
(***************************************************************************)
EXTENDS Naturals, FiniteSets

CONSTANTS
    Jobs,           \* names in the registry
    ProgressJobs,   \* those that keep a live progress dict
    ThreadBound,    \* bound: job and client threads alive at once
    NowJobs,        \* those a client may run on its own thread (wait = true)
    EndingJobs      \* jobs whose body is sure to end (an extraction may hang)

ASSUME SchedulerAssumption ==
    /\ ProgressJobs \subseteq Jobs
    /\ EndingJobs \subseteq Jobs
    /\ ThreadBound \in Nat
    /\ NowJobs \subseteq Jobs

Threads == 1..ThreadBound

NoThread == 0

VARIABLES
    lock,           \* _job_locks: the thread the lock was taken for
    running,        \* _running
    progress,       \* _job_progress: whose dict it is
    thread,         \* per thread: where it is, its job, who acquired the lock:
                    \* the tick, a client's start_job, or a client's run_job_now
                    \* (which is itself the thread that runs the job)
    due,            \* jobs whose next_due has come
    tick,           \* jobs the current tick has still to look at
    sched,          \* the scheduler thread
    main,           \* Daemon.run
    shutdown,       \* shutdown_event
    toJoin,         \* threads join_running_jobs has still to see ended
    dropped,        \* history: threads at work whose entry in _running the
                    \* end of the run before them removed
    fate,           \* history of the shutdown: whether one of the threads it
                    \* listed had not been started, whether it overlooked one
                    \* at work, and whether rows were marked and pid removed
    work            \* jobs with work that no run has looked at yet (kept for
                    \* EndingJobs, the jobs WorkServed is about)

vars == <<lock, running, progress, thread, due, tick, sched, main, shutdown,
          toJoin, dropped, fate, work>>

history == <<dropped, fate>>

Pcs == {"free", "accepted", "registered", "started", "body", "ending", "released"}

Thread == [pc : Pcs, job : Jobs \cup {"none"}, by : {"tick", "start", "now"}]

Free == [pc |-> "free", job |-> "none", by |-> "start"]

TypeOK ==
    /\ lock \in [Jobs -> Threads \cup {NoThread}]
    /\ running \in [Jobs -> Threads \cup {NoThread}]
    /\ progress \in [Jobs -> Threads \cup {NoThread}]
    /\ thread \in [Threads -> Thread]
    /\ due \subseteq Jobs /\ tick \subseteq Jobs /\ work \subseteq EndingJobs
    /\ tick = {} \/ sched = "ticking"
    /\ sched \in {"waiting", "ticking", "ended"}
    /\ main \in {"up", "stopping", "joining", "marking", "exiting", "down"}
    /\ shutdown \in BOOLEAN
    /\ toJoin \subseteq Threads /\ dropped \subseteq Threads
    /\ fate \in [unstarted : BOOLEAN, overlooked : BOOLEAN, cleaned : BOOLEAN]

Nobody == [j \in Jobs |-> NoThread]

Init ==
    /\ lock = Nobody /\ running = Nobody /\ progress = Nobody
    /\ thread = [t \in Threads |-> Free]
    /\ due = {} /\ tick = {} /\ work = {}
    /\ sched = "waiting" /\ main = "up"
    /\ shutdown = FALSE
    /\ toJoin = {} /\ dropped = {}
    /\ fate = [unstarted |-> FALSE, overlooked |-> FALSE, cleaned |-> FALSE]

At(t, pc) == [thread EXCEPT ![t].pc = pc]

Busy(j) == lock[j] # NoThread

\* The scheduler thread is between acquire and start().
Spawning ==
    \E t \in Threads : thread[t].pc \in {"accepted", "registered"} /\ thread[t].by = "tick"

\* A job thread that has been started and has not yet given back its lock.
AtWork(t) == thread[t].pc \in {"started", "body", "ending"} /\ thread[t].by # "now"

-----------------------------------------------------------------------------
(* Work and time.                                                          *)

\* An intake path commits something for job j to do.
WorkArrives(j) ==
    /\ ~shutdown /\ j \in EndingJobs \ work
    /\ work' = work \cup {j}
    /\ UNCHANGED <<lock, running, progress, thread, due, tick, sched, main, shutdown, toJoin, history>>

ComesDue(j) ==
    /\ ~shutdown /\ j \notin due
    /\ due' = due \cup {j}
    /\ UNCHANGED <<lock, running, progress, thread, tick, sched, main, shutdown, toJoin, work, history>>

-----------------------------------------------------------------------------
(* Starting jobs.                                                          *)

FreeThreads == {t \in Threads : thread[t].pc = "free"}

\* Identities are reused; which one a new thread gets makes no difference.
NewThread == CHOOSE t \in FreeThreads : TRUE

\* Mutant: the result of acquire(blocking=False) is not looked at.
TakeUnasked(j, by) ==
    /\ FreeThreads # {}
    /\ LET t == NewThread
       IN  /\ lock' = [lock EXCEPT ![j] = t]
           /\ thread' = [thread EXCEPT ![t] = [pc |-> "accepted", job |-> j, by |-> by]]

\* acquire(blocking=False) succeeds; a thread is made for the job.
Take(j, by) ==
    /\ ~Busy(j) /\ FreeThreads # {}
    /\ LET t == NewThread
       IN  /\ lock' = [lock EXCEPT ![j] = t]
           /\ thread' = [thread EXCEPT ![t] = [pc |-> "accepted", job |-> j, by |-> by]]

\* due_jobs(now) also sets the next due time of all it returns.
TickBegins ==
    /\ sched = "waiting" /\ ~shutdown /\ due # {}
    /\ sched' = "ticking"
    /\ tick' = due /\ due' = {}
    /\ UNCHANGED <<lock, running, progress, thread, main, shutdown, toJoin, work, history>>

TickStarts(j) ==
    /\ sched = "ticking" /\ ~Spawning /\ j \in tick
    /\ Take(j, "tick")
    /\ tick' = tick \ {j}
    /\ UNCHANGED <<running, progress, due, sched, main, shutdown, toJoin, work, history>>

\* Mutant: return in the place of continue.
TickStopsAtBusy(j) ==
    /\ sched = "ticking" /\ ~Spawning /\ j \in tick
    /\ Busy(j)
    /\ tick' = {}
    /\ UNCHANGED <<lock, running, progress, thread, due, sched, main, shutdown, toJoin, work, history>>

TickSkips(j) ==
    /\ sched = "ticking" /\ ~Spawning /\ j \in tick
    /\ Busy(j)
    /\ tick' = tick \ {j}
    /\ UNCHANGED <<lock, running, progress, thread, due, sched, main, shutdown, toJoin, work, history>>

TickEnds ==
    /\ sched = "ticking" /\ ~Spawning /\ tick = {}
    /\ sched' = "waiting"
    /\ UNCHANGED <<lock, running, progress, thread, due, tick, main, shutdown, toJoin, work, history>>

\* Mutant: the event is looked at between two jobs of a tick.
SchedulerEndsMidTick ==
    /\ sched # "ended" /\ shutdown
    /\ sched' = "ended"
    /\ UNCHANGED <<lock, running, progress, thread, due, tick, main, shutdown, toJoin, work, history>>

\* The while condition of run() once the event is set.
SchedulerEnds ==
    /\ sched = "waiting" /\ shutdown
    /\ sched' = "ended"
    /\ UNCHANGED <<lock, running, progress, thread, due, tick, main, shutdown, toJoin, work, history>>

\* start_job and run_job_now on a client's thread; a busy reply changes nothing.
StartJob(j) ==
    /\ main # "down"
    /\ Take(j, "start")
    /\ UNCHANGED <<running, progress, due, tick, sched, main, shutdown, toJoin, work, history>>

RunJobNow(j) ==
    /\ main # "down" /\ j \in NowJobs
    /\ Take(j, "now")
    /\ UNCHANGED <<running, progress, due, tick, sched, main, shutdown, toJoin, work, history>>

-----------------------------------------------------------------------------
(* The life of a job thread.                                               *)

\* _spawn_job enters the thread in _running ...
Register(t) ==
    /\ thread[t].pc = "accepted" /\ thread[t].by # "now"
    /\ running' = [running EXCEPT ![thread[t].job] = t]
    /\ thread' = At(t, "registered")
    /\ UNCHANGED <<lock, progress, due, tick, sched, main, shutdown, toJoin, work, history>>

\* ... and then starts it.
Start(t) ==
    /\ thread[t].pc = "registered"
    /\ thread' = At(t, "started")
    /\ UNCHANGED <<lock, running, progress, due, tick, sched, main, shutdown, toJoin, work, history>>

\* The body begins: it will look at all the work there is.
BodyBegins(t) ==
    /\ \/ thread[t].pc = "started"
       \/ thread[t].pc = "accepted" /\ thread[t].by = "now"
    /\ LET j == thread[t].job
       IN  /\ progress' = IF j \in ProgressJobs THEN [progress EXCEPT ![j] = t] ELSE progress
           /\ work' = work \ {j}
    /\ thread' = At(t, "body")
    /\ UNCHANGED <<lock, running, due, tick, sched, main, shutdown, toJoin, history>>

\* It returns or raises; either way the finally clause follows.
BodyEnds(t) ==
    /\ thread[t].pc = "body"
    /\ thread' = At(t, "ending")
    /\ UNCHANGED <<lock, running, progress, due, tick, sched, main, shutdown, toJoin, work, history>>

\* job_lock.release() comes first ...
Release(t) ==
    /\ thread[t].pc = "ending"
    /\ lock' = [lock EXCEPT ![thread[t].job] = NoThread]
    /\ thread' = At(t, "released")
    /\ UNCHANGED <<running, progress, due, tick, sched, main, shutdown, toJoin, work, history>>

\* ... and only then are the entries of this job removed, whoever's they are:
\* the next thread of the job may have entered itself already.
Pop(t) ==
    LET j == thread[t].job
    IN  /\ thread[t].pc = "released"
        /\ running' = IF thread[t].by = "now" THEN running ELSE [running EXCEPT ![j] = NoThread]
        /\ dropped' = (dropped \cup IF thread[t].by = "now" THEN {} ELSE {running[j]} \ {NoThread})
                         \ {t}
        /\ progress' = [progress EXCEPT ![j] = NoThread]
    /\ thread' = [thread EXCEPT ![t] = Free]
    /\ toJoin' = toJoin \ {t}
    /\ UNCHANGED <<lock, due, tick, sched, main, shutdown, work, fate>>

-----------------------------------------------------------------------------
(* Shutdown.                                                               *)

\* The signal handler or a client's "shutdown" sets the event. Nobody asks for
\* due jobs from now on, and work left over is for the next daemon.
RequestShutdown ==
    /\ main = "up" /\ ~shutdown
    /\ shutdown' = TRUE /\ due' = {} /\ work' = {}
    /\ UNCHANGED <<lock, running, progress, thread, tick, sched, main, toJoin, history>>

LeaveMainLoop ==
    /\ main = "up" /\ shutdown
    /\ main' = "stopping"
    /\ UNCHANGED <<lock, running, progress, thread, due, tick, sched, shutdown, toJoin, work, history>>

Listed == {running[j] : j \in Jobs} \ {NoThread}

\* scheduler_thread.join(5), stop_all, and the list join_running_jobs makes.
ListRunningJobs ==
    /\ main = "stopping"
    /\ main' = "joining"
    /\ toJoin' = Listed
    /\ fate' = [fate EXCEPT
          !.unstarted = \E t \in Listed : thread[t].pc = "registered",
          !.overlooked = \E t \in Threads \ (Listed \cup dropped) : AtWork(t)]
    /\ UNCHANGED <<lock, running, progress, thread, due, tick, sched, shutdown, work, dropped>>

\* Mutant: join() without its timeout.
JoinForever(t) ==
    /\ main = "joining" /\ t \in toJoin /\ thread[t].pc = "free"
    /\ toJoin' = toJoin \ {t}
    /\ UNCHANGED <<lock, running, progress, thread, due, tick, sched, main, shutdown, work, history>>

\* A thread that has been started has ended, or its 30 seconds are over.
Join(t) ==
    /\ main = "joining" /\ t \in toJoin /\ thread[t].pc # "registered"
    /\ toJoin' = toJoin \ {t}
    /\ UNCHANGED <<lock, running, progress, thread, due, tick, sched, main, shutdown, work, history>>

\* join() raises for a thread that has not been started yet, and the rest of
\* the finally clause of Daemon.run is skipped.
JoinRaises(t) ==
    /\ main = "joining" /\ t \in toJoin /\ thread[t].pc = "registered"
    /\ main' = "exiting" /\ toJoin' = {}
    /\ UNCHANGED <<lock, running, progress, thread, due, tick, sched, shutdown, work, history>>

AllJoined ==
    /\ main = "joining" /\ toJoin = {}
    /\ main' = "marking"
    /\ UNCHANGED <<lock, running, progress, thread, due, tick, sched, shutdown, toJoin, work, history>>

\* stop_all again, the socket is closed, rows are marked, the pid file goes.
CleanUp ==
    /\ main = "marking"
    /\ main' = "exiting"
    /\ fate' = [fate EXCEPT !.cleaned = TRUE]
    /\ UNCHANGED <<lock, running, progress, thread, due, tick, sched, shutdown, toJoin, work, dropped>>

\* The process ends with all its daemon threads.
Exit ==
    /\ main = "exiting"
    /\ main' = "down"
    /\ lock' = Nobody /\ running' = Nobody /\ progress' = Nobody
    /\ thread' = [t \in Threads |-> Free]
    /\ sched' = "ended" /\ tick' = {} /\ due' = {} /\ dropped' = {}
    /\ UNCHANGED <<shutdown, toJoin, work, fate>>

-----------------------------------------------------------------------------
SchedulerStep ==
    \/ TickBegins \/ TickEnds \/ SchedulerEnds
    \/ \E j \in Jobs : TickStarts(j) \/ TickSkips(j)

ThreadStep(t) == Register(t) \/ Start(t) \/ BodyBegins(t) \/ Release(t) \/ Pop(t)

MainStep ==
    \/ LeaveMainLoop \/ ListRunningJobs \/ AllJoined \/ CleanUp \/ Exit
    \/ \E t \in Threads : Join(t) \/ JoinRaises(t)

Next ==
    \/ \E j \in Jobs : WorkArrives(j) \/ ComesDue(j) \/ StartJob(j) \/ RunJobNow(j)
    \/ SchedulerStep
    \/ \E t \in Threads : ThreadStep(t) \/ BodyEnds(t)
    \/ RequestShutdown \/ MainStep

Spec == Init /\ [][Next]_vars

\* Threads are scheduled, time goes on and the sure jobs end; clients and
\* shutdowns need never come, and any other job may hang for good. Nothing in
\* the code blocks the scheduler thread: only the bound on thread identities
\* disables its step now and then, so its fairness is the strong one.
Fairness ==
    /\ SF_vars(SchedulerStep) /\ WF_vars(MainStep)
    /\ \A t \in Threads : WF_vars(ThreadStep(t))
    /\ \A t \in Threads : WF_vars(BodyEnds(t) /\ thread[t].job \in EndingJobs)
    /\ \A j \in Jobs : WF_vars(ComesDue(j))

FairSpec == Spec /\ Fairness

-----------------------------------------------------------------------------
(* Properties.                                                             *)

\* The per-job lock does its work: a job never runs twice concurrently,
\* however ticks and clients meet.
OneThreadPerJob ==
    \A s, t \in Threads :
        /\ thread[s].pc \in {"registered", "started", "body"}
        /\ thread[t].pc \in {"registered", "started", "body"}
        /\ thread[s].job = thread[t].job
        => s = t

\* _running and _job_progress name no thread that has ended or does something
\* else: shutdown does not wait for a ghost and status() shows none.
RunningNotStale ==
    \A j \in Jobs, t \in Threads :
        /\ running[j] = t => thread[t].job = j /\ thread[t].pc \notin {"free", "accepted"}
        /\ progress[j] = t => thread[t].job = j /\ thread[t].pc \in {"body", "ending", "released"}

\* A job has one thread at most, and the tables name no other.
JobsExclusive == OneThreadPerJob /\ RunningNotStale

\* Work for a job that is sure to end is looked at by some run, although
\* another job hangs and although a tick or a client that finds the job busy
\* drops its turn: "busy" loses nothing.
WorkServed == \A j \in EndingJobs : j \in work ~> (j \notin work \/ shutdown)

\* Every job thread at work when the shutdown made its list is on it, but for
\* one whose entry the run before it removed; and the process does not end
\* before rows are marked and the pid file is gone, unless a thread was between
\* its entry and its start when the list was made.
ShutdownInOrder ==
    /\ ~fate.overlooked
    /\ main \in {"exiting", "down"} => fate.cleaned \/ fate.unstarted

\* A shutdown gets to its end, whatever hangs, and gets there in order.
ShutdownCompletes == shutdown ~> main = "down" /\ ShutdownInOrder

=============================================================================
