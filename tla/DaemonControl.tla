---------------------------- MODULE DaemonControl ----------------------------
(***************************************************************************)
(* The processes around pid file and socket of a workspace: daemons        *)
(* (Daemon.run and SocketServer of daemon.py) with the extraction          *)
(* subprocess each may have, and the commands that start and stop them     *)
(* (cli.py).  What the jobs of one daemon do to each other is in           *)
(* Scheduler; run-job, which changes nothing here, is left out.            *)
(***************************************************************************)
EXTENDS Integers

CONSTANTS
    DaemonBound,    \* bound: daemon processes ever started
    Commands,       \* shells that run one command at a time
    Runs(_),        \* the commands a shell runs: "start", "stop"
    MishapBound     \* bound: crashes, SIGKILLs and signals from elsewhere

ASSUME ControlAssumption == DaemonBound \in Nat /\ MishapBound \in Nat

Daemons == 1..DaemonBound
NoDaemon == 0
Empty == -1         \* a pid file between its truncation and its text

VARIABLES
    daemon,         \* pc, shutdown_event, the socket thread and its socket,
                    \* _bound (held), and whether it has a subprocess
    pidFile,        \* whose pid it has, Empty or NoDaemon
    path,           \* the daemon that bound the socket file, or NoDaemon
    cmd,            \* per shell: pc, the pid it has read, whether it knows the
                    \* process group of the subprocess, and (history)
                    \* whether one has come since its last look
    raced,          \* history: a daemon was started that pid file and pid did
                    \* not guard against another one
    crossed,        \* history: a daemon was started while a stop was at work
    mishaps

controlVars == <<daemon, pidFile, path, cmd, raced, crossed, mishaps>>

Unborn == [pc |-> "unborn", asked |-> FALSE, server |-> "none", open |-> FALSE,
           held |-> FALSE, child |-> FALSE]
Prompt == [pc |-> "idle", pid |-> NoDaemon, knows |-> FALSE, missed |-> FALSE]

(* Before its pid is written, and after, in the order of Daemon.run.       *)
Coming == {"starting", "writing"}
Present == {"booting", "up", "stopping", "failing", "closing", "marking", "unlinking"}
StopPcs == {"asking", "waiting", "terminating", "killing"}

ControlTypeOK ==
    /\ daemon \in [Daemons ->
          [pc : Coming \cup Present \cup {"unborn", "exiting", "dead"}, asked : BOOLEAN,
           server : {"none", "cleared", "bound", "serving", "ended"}, open : BOOLEAN,
           held : BOOLEAN, child : BOOLEAN]]
    /\ pidFile \in Daemons \cup {NoDaemon, Empty} /\ path \in Daemons \cup {NoDaemon}
    /\ cmd \in [Commands ->
          [pc : StopPcs \cup {"idle", "spawning", "stopped"},
           pid : Daemons \cup {NoDaemon}, knows : BOOLEAN, missed : BOOLEAN]]

ControlInit ==
    /\ daemon = [d \in Daemons |-> Unborn]
    /\ pidFile = NoDaemon /\ path = NoDaemon
    /\ cmd = [c \in Commands |-> Prompt]
    /\ raced = FALSE /\ crossed = FALSE /\ mishaps = 0

Alive(d) == daemon[d].pc \notin {"unborn", "dead"}
PidAlive(pid) == pid \in Daemons /\ Alive(pid)
Listening(d) == d \in Daemons /\ Alive(d) /\ daemon[d].server = "serving" /\ daemon[d].open
DaemonAt(d, pc) == daemon[d].pc = pc
DaemonGoes(d, pc) == daemon' = [daemon EXCEPT ![d].pc = pc]
(* Of a process that ends nothing is left but its subprocess.              *)
Ended(d) == [daemon EXCEPT ![d] = [Unborn EXCEPT !.pc = "dead", !.child = daemon[d].child]]
CmdAt(c, pc) == cmd[c].pc = pc
CmdGoes(c, pc) == cmd' = [cmd EXCEPT ![c].pc = pc]
ToPrompt(c) == cmd' = [cmd EXCEPT ![c] = Prompt]

-----------------------------------------------------------------------------
(* The life of a daemon.                                                   *)

Unused == {d \in Daemons : daemon[d].pc = "unborn"}

(* A new process; pids are not reused.                                     *)
Spawned(D) ==
    \E d \in Unused :
        /\ \A e \in Unused : d <= e
        /\ daemon' = [D EXCEPT ![d].pc = "starting"]

(* mnemonicos-daemon asks nobody.                                          *)
RunDirectly ==
    /\ Spawned(daemon)
    /\ raced' = (raced \/ (\E d \in Daemons : Alive(d)) \/ \E c \in Commands : CmdAt(c, "spawning"))
    /\ crossed' = (crossed \/ \E c \in Commands : cmd[c].pc \in StopPcs)
    /\ UNCHANGED <<pidFile, path, cmd, mishaps>>

(* write_text truncates first.                                             *)
OpenPid(d) ==
    /\ DaemonAt(d, "starting") /\ DaemonGoes(d, "writing")
    /\ pidFile' = Empty
    /\ UNCHANGED <<path, cmd, raced, crossed, mishaps>>

WritePid(d) ==
    /\ DaemonAt(d, "writing") /\ DaemonGoes(d, "booting")
    /\ pidFile' = d
    /\ UNCHANGED <<path, cmd, raced, crossed, mishaps>>

(* After migrations and the reset of rows the two threads start.           *)
StartThreads(d) ==
    /\ DaemonAt(d, "booting") /\ DaemonGoes(d, "up")
    /\ UNCHANGED <<pidFile, path, cmd, raced, crossed, mishaps>>

(* The process has its threads.                                            *)
Threaded(d) == Alive(d) /\ daemon[d].pc \notin Coming \cup {"booting"}

(* The scheduler's threads start extraction subprocesses, in sessions of   *)
(* their own, until the process ends; they do not look at the event.       *)
SpawnChild(d) ==
    /\ Threaded(d) /\ ~daemon[d].child
    /\ daemon' = [daemon EXCEPT ![d].child = TRUE]
    /\ cmd' = [c \in Commands |->
          IF cmd[c].pid = d THEN [cmd[c] EXCEPT !.missed = TRUE] ELSE cmd[c]]
    /\ UNCHANGED <<pidFile, path, raced, crossed, mishaps>>

ChildEnds(d) ==
    /\ daemon[d].child
    /\ daemon' = [daemon EXCEPT ![d].child = FALSE]
    /\ UNCHANGED <<pidFile, path, cmd, raced, crossed, mishaps>>

(* The main thread leaves its loop once the event is set: stop_all before  *)
(* and after a join of the jobs that may time out.  A subprocess may be    *)
(* started after either.                                                   *)
LeaveLoop(d) ==
    /\ DaemonAt(d, "up") /\ daemon[d].asked
    /\ DaemonGoes(d, "stopping")
    /\ UNCHANGED <<pidFile, path, cmd, raced, crossed, mishaps>>

StopAll(d) ==
    /\ DaemonAt(d, "stopping")
    /\ daemon' = [daemon EXCEPT ![d].pc = "closing", ![d].child = FALSE]
    /\ UNCHANGED <<pidFile, path, cmd, raced, crossed, mishaps>>

(* The join of a job thread raises when that thread has not been started   *)
(* yet (see Scheduler), and the rest of the finally clause is skipped.     *)
JoinFails(d) ==
    /\ DaemonAt(d, "stopping")
    /\ daemon' = [daemon EXCEPT ![d].pc = "failing", ![d].child = FALSE]
    /\ UNCHANGED <<pidFile, path, cmd, raced, crossed, mishaps>>

(* What close() leaves at the path.  _bound is never reset: a daemon that  *)
(* has once bound unlinks whatever is there, and both threads close.       *)
Unlinked(d) == IF daemon[d].held THEN NoDaemon ELSE path

CloseServer(d) ==
    /\ DaemonAt(d, "closing")
    /\ daemon' = [daemon EXCEPT ![d].pc = "marking", ![d].open = FALSE]
    /\ path' = Unlinked(d)
    /\ UNCHANGED <<pidFile, cmd, raced, crossed, mishaps>>

\* Mutant: the main thread does not wait for the socket thread.
ReadPidUnjoined(d) ==
    /\ DaemonAt(d, "marking")
    /\ DaemonGoes(d, IF pidFile = d THEN "unlinking" ELSE "exiting")
    /\ UNCHANGED <<pidFile, path, cmd, raced, crossed, mishaps>>

(* The socket thread ends within the two seconds that the main thread      *)
(* waits for it.  Rows are marked, and the pid file read.                  *)
ReadOwnPid(d) ==
    /\ DaemonAt(d, "marking") /\ daemon[d].server = "ended"
    /\ DaemonGoes(d, IF pidFile = d THEN "unlinking" ELSE "exiting")
    /\ UNCHANGED <<pidFile, path, cmd, raced, crossed, mishaps>>

RemovePid(d) ==
    /\ DaemonAt(d, "unlinking") /\ DaemonGoes(d, "exiting")
    /\ pidFile' = NoDaemon
    /\ UNCHANGED <<path, cmd, raced, crossed, mishaps>>

ExitDaemon(d) ==
    /\ daemon[d].pc \in {"exiting", "failing"} /\ daemon' = Ended(d)
    /\ UNCHANGED <<pidFile, path, cmd, raced, crossed, mishaps>>

(* SIGTERM sets the event; before the handler is installed it kills.       *)
Terminated(d) ==
    \/ daemon' = [daemon EXCEPT ![d].asked = TRUE] /\ daemon[d].pc \notin Coming
    \/ daemon' = Ended(d) /\ daemon[d].pc \in Coming \cup {"booting"}

(* Ctrl-C, or a SIGTERM of somebody else.                                  *)
Interrupted(d) ==
    /\ Alive(d) /\ ~daemon[d].asked /\ mishaps < MishapBound
    /\ Terminated(d) /\ mishaps' = mishaps + 1
    /\ UNCHANGED <<pidFile, path, cmd, raced, crossed>>

DaemonDies(d) ==
    /\ Alive(d) /\ mishaps < MishapBound
    /\ daemon' = Ended(d) /\ mishaps' = mishaps + 1
    /\ UNCHANGED <<pidFile, path, cmd, raced, crossed>>

-----------------------------------------------------------------------------
(* The socket thread: serve().                                             *)

RemoveStaleSocket(d) ==
    /\ Threaded(d) /\ daemon[d].server = "none"
    /\ daemon' = [daemon EXCEPT ![d].server = "cleared", ![d].open = TRUE]
    /\ path' = NoDaemon
    /\ UNCHANGED <<pidFile, cmd, raced, crossed, mishaps>>

(* bind() fails at a path that exists again, and on a closed socket: the   *)
(* thread ends, the daemon does not.                                       *)
Bind(d) ==
    /\ Threaded(d) /\ daemon[d].server = "cleared"
    /\ LET free == path = NoDaemon /\ daemon[d].open
       IN  /\ daemon' = [daemon EXCEPT ![d].server = IF free THEN "bound" ELSE "ended"]
           /\ path' = IF free THEN d ELSE path
    /\ UNCHANGED <<pidFile, cmd, raced, crossed, mishaps>>

(* _bound is set and the thread listens, which fails on a closed socket.   *)
Listen(d) ==
    /\ Threaded(d) /\ daemon[d].server = "bound"
    /\ daemon' = [daemon EXCEPT ![d].held = TRUE,
                      ![d].server = IF daemon[d].open THEN "serving" ELSE "ended"]
    /\ UNCHANGED <<pidFile, path, cmd, raced, crossed, mishaps>>

(* The loop sees the event, and the thread calls close() too.              *)
ServeEnds(d) ==
    /\ Threaded(d) /\ daemon[d].server = "serving" /\ daemon[d].asked
    /\ daemon' = [daemon EXCEPT ![d].server = "ended", ![d].open = FALSE]
    /\ path' = Unlinked(d)
    /\ UNCHANGED <<pidFile, cmd, raced, crossed, mishaps>>

-----------------------------------------------------------------------------
(* daemon start.                                                           *)

(* The pid in the file is alive, or a daemon is started.  Two starts, or a *)
(* start before the pid of the last one is written, do not see each other. *)
StartChecks(c) ==
    /\ CmdAt(c, "idle") /\ "start" \in Runs(c) /\ ~PidAlive(pidFile) /\ Unused # {}
    /\ CmdGoes(c, "spawning")
    /\ raced' = (raced \/ (\E b \in Commands : CmdAt(b, "spawning"))
                       \/ \E d \in Daemons : daemon[d].pc \in Coming)
    /\ UNCHANGED <<daemon, pidFile, path, crossed, mishaps>>

StartSpawns(c) ==
    /\ CmdAt(c, "spawning")
    /\ \/ Spawned(daemon)
       \/ Unused = {} /\ UNCHANGED daemon
    /\ ToPrompt(c)
    /\ crossed' = (crossed \/ \E b \in Commands : cmd[b].pc \in StopPcs)
    /\ UNCHANGED <<pidFile, path, raced, mishaps>>

-----------------------------------------------------------------------------
(* daemon stop.                                                            *)

(* The pid and the process groups below it.                                *)
StopReads(c) ==
    /\ CmdAt(c, "idle") /\ "stop" \in Runs(c) /\ PidAlive(pidFile)
    /\ cmd' = [cmd EXCEPT ![c] = [pc |-> "asking", pid |-> pidFile, knows |-> daemon[pidFile].child,
                                   missed |-> FALSE]]
    /\ UNCHANGED <<daemon, pidFile, path, raced, crossed, mishaps>>

(* The socket is asked first: of the daemon at the path, whose pid nobody  *)
(* compares.  One that is ending may leave the request without a reply.    *)
StopAsks(c) ==
    /\ CmdAt(c, "asking") /\ CmdGoes(c, "waiting")
    /\ \/ Listening(path) /\ daemon' = [daemon EXCEPT ![path].asked = TRUE]
       \/ /\ ~(Listening(path) /\ ~daemon[path].asked)
          /\ PidAlive(cmd[c].pid) /\ Terminated(cmd[c].pid)
    /\ UNCHANGED <<pidFile, path, raced, crossed, mishaps>>

(* os.kill raises for a pid that is gone.                                  *)
StopFails(c) ==
    /\ CmdAt(c, "asking") /\ ~Listening(path) /\ ~PidAlive(cmd[c].pid)
    /\ ToPrompt(c)
    /\ UNCHANGED <<daemon, pidFile, path, raced, crossed, mishaps>>

\* Mutant: the groups are those found at the beginning.
KnowsAtFirst(c, pid) == cmd[c].knows

(* Groups below a living daemon are added, none is dropped.                *)
Refreshed(c, pid) == cmd[c].knows \/ (Alive(pid) /\ daemon[pid].child)

(* One look.  After the first minute a stale socket is removed, once the   *)
(* pid and all groups are gone; without socket, pid and groups the command *)
(* reports daemon_stopped.                                                 *)
StopPolls(c) ==
    LET pid == cmd[c].pid
        knows == IF CmdAt(c, "killing") THEN cmd[c].knows ELSE Refreshed(c, pid)
        gone == ~Alive(pid) /\ ~(knows /\ daemon[pid].child)
        pathNow == IF gone /\ ~CmdAt(c, "waiting") THEN NoDaemon ELSE path
    IN  /\ cmd[c].pc \in StopPcs \ {"asking"}
        /\ path' = pathNow
        /\ cmd' = [cmd EXCEPT ![c].knows = knows,
                       ![c].missed = @ /\ (~Alive(pid) \/ CmdAt(c, "killing")),
                       ![c].pc = IF gone /\ pathNow = NoDaemon THEN "stopped" ELSE @]
        /\ UNCHANGED <<daemon, pidFile, raced, crossed, mishaps>>

Killed(D, c) ==
    [D EXCEPT ![cmd[c].pid].child = @ /\ ~cmd[c].knows]

(* Still there: SIGTERM to the groups, then SIGKILL, then it gives up.     *)
StopEscalates(c) ==
    LET pid == cmd[c].pid
    IN  /\ \/ /\ CmdAt(c, "waiting") /\ CmdGoes(c, "terminating")
              /\ daemon' = Killed([daemon EXCEPT ![pid].asked = @ \/ Alive(pid)], c)
           \/ /\ CmdAt(c, "terminating") /\ CmdGoes(c, "killing")
              /\ daemon' = Killed(Ended(pid), c)
           \/ CmdAt(c, "killing") /\ ToPrompt(c) /\ UNCHANGED daemon
        /\ UNCHANGED <<pidFile, path, raced, crossed, mishaps>>

StopReturns(c) ==
    /\ CmdAt(c, "stopped") /\ ToPrompt(c)
    /\ UNCHANGED <<daemon, pidFile, path, raced, crossed, mishaps>>

-----------------------------------------------------------------------------
DaemonStep(d) ==
    \/ OpenPid(d) \/ WritePid(d) \/ StartThreads(d) \/ SpawnChild(d) \/ ChildEnds(d)
    \/ LeaveLoop(d) \/ StopAll(d) \/ JoinFails(d) \/ CloseServer(d) \/ ReadOwnPid(d) \/ RemovePid(d)
    \/ ExitDaemon(d) \/ DaemonDies(d) \/ Interrupted(d) \/ RemoveStaleSocket(d) \/ Bind(d)
    \/ Listen(d) \/ ServeEnds(d)

CommandStep(c) ==
    \/ StartChecks(c) \/ StartSpawns(c) \/ StopReads(c) \/ StopAsks(c) \/ StopFails(c)
    \/ StopPolls(c) \/ StopEscalates(c) \/ StopReturns(c)

ControlNext ==
    RunDirectly \/ (\E d \in Daemons : DaemonStep(d)) \/ \E c \in Commands : CommandStep(c)

ControlSpec == ControlInit /\ [][ControlNext]_controlVars

-----------------------------------------------------------------------------
(* Starts that come one after the other never make two daemons, whatever   *)
(* dies and however stops and starts meet.                                 *)
OneDaemon ==
    ~raced => \A d, e \in Daemons :
        daemon[d].pc \in Coming \cup Present /\ daemon[e].pc \in Coming \cup Present => d = e

(* Such a daemon, unless it was started into the work of a stop command,   *)
(* is reached at the path while it serves: no predecessor, dead or dying,  *)
(* takes its socket away.                                                  *)
ServingIsReached ==
    ~raced /\ ~crossed => \A d \in Daemons :
        DaemonAt(d, "up") /\ ~daemon[d].asked =>
            /\ daemon[d].server # "ended"
            /\ daemon[d].server \in {"bound", "serving"} => path = d

(* A stop command that reports daemon_stopped leaves neither the daemon it *)
(* found nor, but for one started since its last look, a subprocess of it. *)
StoppedMeansGone ==
    \A c \in Commands : CmdAt(c, "stopped") =>
        DaemonAt(cmd[c].pid, "dead") /\ (daemon[cmd[c].pid].child => cmd[c].missed)

(* What the commands promise of the daemon (docs/daemon-and-socket.md).    *)
CommandsKeepWord == OneDaemon /\ ServingIsReached /\ StoppedMeansGone
=============================================================================
