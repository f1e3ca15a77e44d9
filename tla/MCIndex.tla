------------------------------- MODULE MCIndex -------------------------------
(***************************************************************************)
(* The tables about notes that must catch up with the world, one part per  *)
(* behaviour: the rows a sync makes of the note files, the graph that jobs *)
(* draw around them, and the trust they make of what clients report.       *)
(***************************************************************************)
EXTENDS VaultSync, NoteGraph, Signals, TLC

CONSTANTS
  noteN, noteM,                                   \* ids of synced notes
  textNa, textNb, textM, textBroken, textPoison,  \* texts of their files
  nodeA, nodeB, entityE,                          \* notes and entity of the graph
  usedA, usedB, sessionS                          \* notes a search finds

VARIABLE part

(* Two texts of one note, one that links to it, and two that do not parse. *)
NoteTexts == {textNa, textNb, textM, textBroken, textPoison}
NoteIdOf ==
  (textNa :> noteN) @@ (textNb :> noteN) @@ (textM :> noteM)
    @@ (textBroken :> Broken) @@ (textPoison :> Poison)
NoteLinks == [t \in NoteTexts |-> IF t = textM THEN {noteN} ELSE {}]

(* A page links to the other note, or to itself and the entity.            *)
PageLinks == {{nodeB}, {nodeA, entityE}}
NearPairs == {{nodeA, nodeB}}

PromotedFrom == {<<sessionS, usedA>>}

indexVars == <<part, syncVars, graphVars, signalVars>>

IndexInit ==
  part \in {"sync", "graph", "signals"} /\ SyncInit /\ GraphInit /\ SignalsInit

SyncPart(Step) == part = "sync" /\ Step /\ UNCHANGED <<part, graphVars, signalVars>>
GraphPart == part = "graph" /\ GraphNext /\ UNCHANGED <<part, syncVars, signalVars>>
SignalsPart(Step) == part = "signals" /\ Step /\ UNCHANGED <<part, syncVars, graphVars>>

IndexNext == SyncPart(SyncNext) \/ GraphPart \/ SignalsPart(SignalsNext)

IndexFairness ==
  /\ \A x \in Syncers :
       WF_syncVars(SyncPart(SyncStep(x))) /\ SF_syncVars(SyncPart(StartWholeSync(x)))
  /\ WF_signalVars(SignalsPart(DeriveFeedback)) /\ WF_signalVars(SignalsPart(ScoreImportance))

IndexSpec == IndexInit /\ [][IndexNext]_indexVars /\ IndexFairness

(* Every variable of every part stays in its range.                        *)
IndexTypeOK == SyncTypeOK /\ GraphTypeOK /\ SignalsTypeOK
=============================================================================
