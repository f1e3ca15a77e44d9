----------------------------- MODULE MCPromotion -----------------------------
(* Candidates, notes and runs for the runs of Promotion. *)
EXTENDS Promotion, TLC

CONSTANTS noteA, noteB, noteC, daemonRun, inlineRun

ThreeNotes == {noteA, noteB, noteC}
TwoRuns == {daemonRun, inlineRun}
AnyRun == Permutations(Runs)

\* 1 was routed to review long ago, and would be refused today; 2 has its title
\* and resembles both pages an ingest left; 3 has the title of one of these.
ThreeCandidates == 1..3
Titles == [c \in Candidates |-> IF c = 3 THEN noteB ELSE noteA]
Resemblance == [c \in Candidates |-> IF c = 2 THEN {noteB, noteC} ELSE {}]
First == {1}
Pages == {noteB, noteC}

\* Bound: a process dies, or two meet, not both.
OneKindOfFault == crashes = 0 \/ ~overlapped
=============================================================================
