------------------------- MODULE ExtractionTickets --------------------------
(***************************************************************************)
(* What the extraction queue promises, without its lanes, sweeps and       *)
(* processes.  Each claim of a pending row issues one ticket, numbered by  *)
(* the row's attempt count.  The worker that holds the ticket reports one  *)
(* outcome; the watchdog of the ticket may overrule it once with an error; *)
(* everything else that touches a row in the table either gives it another *)
(* chance (it becomes pending) or gives up on it (it becomes an error),    *)
(* and never claims it, finishes it or changes its count.                  *)
(*                                                                         *)
(* ExtractionQueue implements this specification.                          *)
(***************************************************************************)
EXTENDS Naturals

CONSTANT Jobs

VARIABLES
  status,     \* status column of each job's row
  count,      \* its attempt_count
  working,    \* tickets whose worker has not yet reported
  guarded,    \* tickets whose watchdog may still overrule them
  docket      \* jobs the retry job has judged and not yet written

ticketVars == <<status, count, working, guarded, docket>>

Ticket == [job : Jobs, n : Nat]

TicketInit ==
  /\ status = [j \in Jobs |-> "absent"]
  /\ count = [j \in Jobs |-> 0]
  /\ working = {} /\ guarded = {} /\ docket = {}

(* A source is queued, for the first time or again; not while in flight.   *)
Queue(j) ==
  /\ status[j] # "processing"
  /\ status' = [status EXCEPT ![j] = "pending"]
  /\ UNCHANGED <<count, working, guarded, docket>>

(* The only step that starts work, and the only one that counts.           *)
Issue(j) ==
  /\ status[j] = "pending"
  /\ status' = [status EXCEPT ![j] = "processing"]
  /\ count' = [count EXCEPT ![j] = @ + 1]
  /\ LET ticket == [job |-> j, n |-> count'[j]]
     IN  /\ ticket \notin working \cup guarded
         /\ working' = working \cup {ticket}
         /\ guarded' = guarded \cup {ticket}
  /\ UNCHANGED docket

(* The only step that finishes a job, and it spends the ticket.            *)
Report(t) ==
  /\ t \in working
  /\ \E outcome \in {"processed", "skipped", "error"} :
       status' = [status EXCEPT ![t.job] = outcome]
  /\ working' = working \ {t}
  /\ UNCHANGED <<count, guarded, docket>>

(* The watchdog speaks once, and only when the worker no longer can.       *)
Overrule(t) ==
  /\ t \in guarded \ working
  /\ status' = [status EXCEPT ![t.job] = "error"]
  /\ guarded' = guarded \ {t}
  /\ UNCHANGED <<count, working, docket>>

(* Reaper, start-up reset and shutdown: rows in flight, and no others.     *)
Take(taken) ==
  /\ \A j \in taken : status[j] = "processing"
  /\ \E verdict \in {"pending", "error"} :
       status' = [j \in Jobs |-> IF j \in taken THEN verdict ELSE status[j]]
  /\ UNCHANGED <<count, working, guarded, docket>>

(* The retry job reads first and writes later; what it judged is not       *)
(* finished when it reads, and may be anything when it writes.             *)
Judge(judged) ==
  /\ docket = {}
  /\ \A j \in judged : status[j] \in {"pending", "processing", "error"}
  /\ docket' = judged
  /\ UNCHANGED <<status, count, working, guarded>>

Sentence ==
  /\ \E verdict \in [docket -> {"pending", "error", "unchanged"}] :
       status' = [j \in Jobs |-> IF j \in docket /\ verdict[j] # "unchanged"
                                 THEN verdict[j] ELSE status[j]]
  /\ docket' = {}
  /\ UNCHANGED <<count, working, guarded>>

(* Processes and threads end: tickets lose their worker or their watchdog, *)
(* and the retry job its judgements.                                       *)
Lose ==
  /\ working' \in SUBSET working
  /\ guarded' \in SUBSET guarded
  /\ docket' \in {docket, {}}
  /\ UNCHANGED <<status, count>>

TicketNext ==
  \/ \E j \in Jobs : Queue(j) \/ Issue(j)
  \/ \E t \in working : Report(t)
  \/ \E t \in guarded : Overrule(t)
  \/ \E S \in SUBSET Jobs : Take(S) \/ Judge(S)
  \/ Sentence \/ Lose

TicketSpec == TicketInit /\ [][TicketNext]_ticketVars
=============================================================================
