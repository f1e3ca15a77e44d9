------------------------------- MODULE MCWork --------------------------------
(***************************************************************************)
(* Those who work with the vault, one part per behaviour: the task runtime *)
(* that assembles a packet of notes for an agent, the search it starts     *)
(* from, the two reviewers of routed candidates, and the player of the     *)
(* game.                                                                   *)
(***************************************************************************)
EXTENDS TaskPacket, Recall, ReviewQueue, Game, TLC

CONSTANTS
  wikiA, wikiB, sessionS, sessionT,     \* notes and sessions of the game
  titleA, titleB,                       \* notes under review
  pageA, pageB, pageC, pageD,           \* notes a search may find
  Parts

VARIABLE part

(* Six notes of the kinds the packet's rules tell apart.                   *)
PacketNote(type, chain, fresh, life, rels, hint) ==
  [type |-> type, chain |-> chain, fresh |-> fresh, life |-> life, rels |-> rels, hint |-> hint]
PacketNotes ==
  << PacketNote("procedure", 1, "fresh", "canonical", {}, "none"),
     PacketNote("incident", 1, "fresh", "review", {"failed_due_to"}, "fail"),
     PacketNote("decision", 2, "fresh", "canonical", {"supersedes"}, "none"),
     PacketNote("concept", 0, "stale", "canonical", {"similar_to"}, "cause"),
     PacketNote("concept", 3, "fresh", "contested", {}, "none"),
     PacketNote("source", 0, "fresh", "archived", {"contrasts_with"}, "none") >>
PacketEdges ==
  { <<2, "failed_due_to", 4>>, <<1, "supersedes", 3>>, <<3, "before", 5>>,
    <<4, "supports_solution", 6>>, <<5, "similar_to", 1>> }
PacketBudgets == {[primary |-> 2, related |-> 1], [primary |-> 5, related |-> 3]}

(* Three pages of one chain, and one of none.                              *)
SearchedPages == {pageA, pageB, pageC, pageD}
PageChain == [p \in SearchedPages |-> IF p = pageD THEN NoChain ELSE "chain"]
PageLinks == {{pageA, pageC}, {pageB, pageD}}

(* Items 1 and 3 were routed for one note.                                 *)
RoutedItems == {1, 2, 3}
RoutedNotes == {titleA, titleB}
RoutedId == [i \in RoutedItems |-> IF i = 2 THEN titleB ELSE titleA]

(* Two notes that lead to each other's section, the first with two sources;*)
(* an earlier run left nothing, or all files, or a torn bookmarks file; the *)
(* vault changes after the last of these.                                  *)
Sections ==
  (wikiA :> "one") @@ (wikiB :> "two") @@ (sessionS :> "books") @@ (sessionT :> "books")
RelatedNotes == (wikiA :> {wikiB}) @@ (wikiB :> {wikiA})
Sources == (wikiA :> {sessionS, sessionT}) @@ (wikiB :> {})
Nothing == [bookmarks |-> Unreadable, state |-> NoState]
LeftBehind ==
  { Nothing, [Nothing EXCEPT !.state = [scene |-> "vault", refs |-> {wikiA, sessionS}]],
    [bookmarks |-> {wikiA, sessionT}, state |-> [scene |-> "library", refs |-> {wikiA}]] }

workVars == <<part, taskVars, recallVars, reviewVars, gameVars>>

WorkInit ==
  /\ part \in Parts
  /\ TaskInit /\ RecallInit /\ ReviewInit /\ GameInit
  /\ part # "search" => current = {} /\ topK = 3
  /\ part # "game" => stateFile = NoState
  /\ edits = IF stateFile # NoState /\ bookmarksFile = Unreadable THEN 0 ELSE GameEditBound

TaskPart == part = "task" /\ TaskNext /\ UNCHANGED <<part, recallVars, reviewVars, gameVars>>
SearchPart == part = "search" /\ RecallNext /\ UNCHANGED <<part, taskVars, reviewVars, gameVars>>
ReviewPart == part = "review" /\ ReviewNext /\ UNCHANGED <<part, taskVars, recallVars, gameVars>>
GamePart == part = "game" /\ GameNext /\ UNCHANGED <<part, taskVars, recallVars, reviewVars>>

WorkNext == TaskPart \/ SearchPart \/ ReviewPart \/ GamePart

WorkSpec == WorkInit /\ [][WorkNext]_workVars

(* Every variable of every part stays in its range.                        *)
WorkTypeOK == TaskTypeOK /\ RecallTypeOK /\ ReviewTypeOK /\ GameTypeOK
=============================================================================
