----------------------------- MODULE MCProcesses ------------------------------
(***************************************************************************)
(* Processes that come and go, one part per behaviour: the attempts of     *)
(* extraction subprocesses at one item, and the daemons of one workspace   *)
(* with the shells that start and stop them.                               *)
(***************************************************************************)
EXTENDS MCExtractionItem, DaemonControl

CONSTANTS
  starter, operator,    \* shells
  Parts

VARIABLE part

(* One shell starts daemons, the other stops them too.                     *)
ShellRuns(c) == IF c = starter THEN {"start"} ELSE {"start", "stop"}

ProcessesInit == part \in Parts /\ Init /\ ControlInit

ItemPart == part = "item" /\ Next /\ UNCHANGED <<part, controlVars>>
DaemonPart == part = "daemon" /\ ControlNext /\ UNCHANGED <<part, vars>>

ProcessesSpec == ProcessesInit /\ [][ItemPart \/ DaemonPart]_<<part, vars, controlVars>>

(* Every variable of both parts stays in its range.                        *)
ProcessesTypeOK == TypeOK /\ ControlTypeOK
=============================================================================
