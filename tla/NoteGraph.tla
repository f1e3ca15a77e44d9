------------------------------- MODULE NoteGraph -------------------------------
(***************************************************************************)
(* The hourly jobs on the graph of notes, against editors and sync_vault:  *)
(* wiki_graph_rebuild, wiki_embedding_neighbor_backfill,                   *)
(* wiki_pattern_discovery and the duplicates of wiki_health_report.  A job *)
(* inserts its job_runs row first, and the transaction this INSERT begins  *)
(* holds the write lock until the first commit.  Jobs call the model       *)
(* nowhere: run_job passes llm_fn=None, so that wiki_cluster_validation    *)
(* and the second channel of pattern discovery only count.                 *)
(***************************************************************************)
EXTENDS Integers, FiniteSets, FiniteSetsExt

CONSTANTS
    GraphNotes,     \* ids of notes
    Entities,       \* ids no note has
    RetiredNotes,   \* notes whose status keeps them out of the jobs
    LinkChoices,    \* sets of ids an editor may relate a note to
    Near,           \* pairs at least as similar as neighbor_similarity_threshold
    Duplicate,      \* those of them beyond semantic_dedup_threshold
    Failures,       \* incidents whose summary has a failure token
    Resolutions,    \* procedures whose summary has a resolution token
    GraphEditBound, \* bound on changes by editors
    GraphStopBound  \* bound on jobs that fail or die

ASSUME GraphAssumption ==
    /\ IsFiniteSet(GraphNotes) /\ GraphEditBound \in Nat /\ GraphStopBound \in Nat
    /\ \A ends \in LinkChoices : ends \subseteq GraphNotes \cup Entities

VARIABLES
    wiki,           \* note -> its file: version and links, or Gone
    synced,         \* note -> the file as its row of notes has it, or Gone
    node,           \* graph_nodes: id -> node_type
    edge,           \* graph_edges: <<source, target, relation>>
    lock,           \* the job whose transaction holds the write lock
    rebuild,        \* wiki_graph_rebuild in progress
    backfill,       \* wiki_embedding_neighbor_backfill in progress
    scanned,        \* notes with a fresh row of note_embedding_scans
    merges,         \* merge reviews, by ordered pair
    edits,          \* texts editors have written, and files they removed
    stops

graphVars == <<wiki, synced, node, edge, lock, rebuild, backfill, scanned, merges, edits, stops>>

Targets == GraphNotes \cup Entities
Gone == [ver |-> 0, links |-> {}]
Relations == {"related", "similar_to"}
NoRebuild == [pc |-> "idle", rows |-> {}, parsed |-> <<>>]
NoBackfill == [pc |-> "idle", todo |-> {}, at |-> {}]

GraphTypeOK ==
    /\ \A n \in GraphNotes : /\ wiki[n].links \subseteq Targets \X Relations
                             /\ wiki[n].ver \in 0..GraphEditBound
    /\ node \in [Targets -> {"none", "note", "entity"}]
    /\ edge \subseteq GraphNotes \X Targets \X (Relations \cup {"evidence_for"})
    /\ lock \in {"none", "rebuild", "backfill"}
    /\ scanned \subseteq GraphNotes
    /\ merges \subseteq GraphNotes \X GraphNotes
    /\ stops \in 0..GraphStopBound

GraphInit ==
    /\ wiki = [n \in GraphNotes |-> Gone] /\ synced = wiki
    /\ node = [t \in Targets |-> "none"] /\ edge = {}
    /\ lock = "none" /\ rebuild = NoRebuild /\ backfill = NoBackfill
    /\ scanned = {} /\ merges = {} /\ edits = 0 /\ stops = 0

-----------------------------------------------------------------------------
(* Statements on the graph g = [node, edge], given the notes that have rows. *)

Graph == [node |-> node, edge |-> edge]
Rows == {n \in GraphNotes : synced[n] # Gone}
LinksFrom(n, file) == {<<n, l[1], l[2]>> : l \in {l \in file.links : l[1] # n}}

RebuildNote(g, rows, n, file) ==
    LET links == LinksFrom(n, file)
    IN  [node |-> [t \in Targets |->
             CASE t = n -> "note"
               [] t # n /\ \E e \in links : e[2] = t ->
                     (IF t \in rows THEN "note" ELSE "entity")
               [] OTHER -> g.node[t]],
         edge |-> {e \in g.edge : e[1] # n} \cup links]

DropNote(g, n) ==
    LET left == {e \in g.edge : e[1] # n}
    IN  [edge |-> left,
         node |-> [g.node EXCEPT ![n] =
             IF @ # "none" /\ \E e \in left : e[2] = n THEN "entity" ELSE "none"]]

Pruned(g) ==
    LET kept == {e \in g.edge : g.node[e[2]] # "none"}
        ends == {e[1] : e \in kept} \cup {e[2] : e \in kept}
    IN  [edge |-> kept,
         node |-> [t \in Targets |-> IF g.node[t] = "entity" /\ t \notin ends THEN "none"
                                     ELSE g.node[t]]]

Rebuilt(g, rows, parsed) ==
    Pruned(FoldSet(LAMBDA n, h : RebuildNote(h, rows, n, parsed[n]), g, DOMAIN parsed))

Becomes(g) == node' = g.node /\ edge' = g.edge

-----------------------------------------------------------------------------
(* Editors, and sync_vault for one note; VaultSync has it in detail.       *)

EditPage(n, ends) ==
    /\ edits < GraphEditBound /\ edits' = edits + 1
    /\ wiki' = [wiki EXCEPT ![n] =
          [ver |-> edits + 1,
           links |-> {l \in @.links : l[2] = "similar_to"} \cup (ends \X {"related"})]]
    /\ UNCHANGED <<synced, node, edge, lock, rebuild, backfill, scanned, merges, stops>>

RemovePage(n) ==
    /\ wiki[n] # Gone /\ edits < GraphEditBound
    /\ wiki' = [wiki EXCEPT ![n] = Gone] /\ edits' = edits + 1
    /\ UNCHANGED <<synced, node, edge, lock, rebuild, backfill, scanned, merges, stops>>

SyncPage(n) ==
    /\ lock = "none" /\ synced[n] # wiki[n]
    /\ synced' = [synced EXCEPT ![n] = wiki[n]]
    /\ Becomes(IF wiki[n] = Gone THEN DropNote(Graph, n)
               ELSE RebuildNote(Graph, Rows \cup {n}, n, wiki[n]))
    /\ UNCHANGED <<wiki, lock, rebuild, backfill, scanned, merges, edits, stops>>

-----------------------------------------------------------------------------
(* rebuild_wiki_graph.                                                     *)

\* Mutant: the job_runs row is committed before the job's work.
RebuildOpensUnlocked ==
    /\ rebuild.pc = "idle" /\ lock = "none"
    /\ rebuild' = [pc |-> "parse", rows |-> Rows \ RetiredNotes, parsed |-> <<>>]
    /\ UNCHANGED <<wiki, synced, node, edge, lock, backfill, scanned, merges, edits, stops>>

RebuildOpens ==
    /\ rebuild.pc = "idle" /\ lock = "none"
    /\ lock' = "rebuild"
    /\ rebuild' = [pc |-> "parse", rows |-> Rows \ RetiredNotes, parsed |-> <<>>]
    /\ UNCHANGED <<wiki, synced, node, edge, backfill, scanned, merges, edits, stops>>

\* A file that is gone or does not parse is left out.
RebuildParses(n) ==
    /\ rebuild.pc = "parse" /\ n \in rebuild.rows
    /\ rebuild' = [rebuild EXCEPT
          !.rows = @ \ {n},
          !.parsed = IF wiki[n] = Gone THEN @
                     ELSE [m \in DOMAIN @ \cup {n} |-> IF m = n THEN wiki[n] ELSE @[m]]]
    /\ UNCHANGED <<wiki, synced, node, edge, lock, backfill, scanned, merges, edits, stops>>

RebuildApplies ==
    /\ rebuild.pc = "parse" /\ rebuild.rows = {}
    /\ lock \in {"none", "rebuild"}
    /\ Becomes(Rebuilt(Graph, Rows, rebuild.parsed))
    /\ rebuild' = NoRebuild /\ lock' = "none"
    /\ UNCHANGED <<wiki, synced, backfill, scanned, merges, edits, stops>>

-----------------------------------------------------------------------------
(* run_embedding_neighbor_backfill: one pass per note without a scan.      *)

BackfillOpens ==
    /\ backfill.pc = "idle" /\ lock = "none" /\ Rows \ (scanned \cup RetiredNotes) # {}
    /\ lock' = "backfill"
    /\ backfill' = [pc |-> "next", todo |-> Rows \ (scanned \cup RetiredNotes), at |-> {}]
    /\ UNCHANGED <<wiki, synced, node, edge, rebuild, scanned, merges, edits, stops>>

Neighbours(n) == {m \in Rows \ ({n} \cup RetiredNotes) : {n, m} \in Near}

\* assert_similar_to_link writes the page; the graph it would rebuild stays,
\* as the call fails and the exception is swallowed.  The page is found under
\* the path of the row.
PassLinks(n) ==
    /\ backfill.pc = "next" /\ n \in backfill.todo
    /\ LET new == {<<m, "similar_to">> : m \in Neighbours(n)} \ wiki[n].links
           found == n \in Rows /\ wiki[n] # Gone /\ new # {}
       IN  wiki' = IF found THEN [wiki EXCEPT ![n].links = @ \cup new]
                   ELSE wiki
    /\ merges' = merges \cup {<<n, m>> : m \in {m \in Neighbours(n) : {n, m} \in Duplicate}}
    /\ backfill' = [pc |-> "record", todo |-> backfill.todo \ {n}, at |-> {n}]
    /\ UNCHANGED <<synced, node, edge, lock, rebuild, scanned, edits, stops>>

\* The row of note_embedding_scans, whether or not there is still a note, and
\* the commit.
PassRecords ==
    /\ backfill.pc = "record" /\ lock \in {"none", "backfill"}
    /\ lock' = "none"
    /\ scanned' = scanned \cup backfill.at
    /\ backfill' = [backfill EXCEPT !.pc = "next", !.at = {}]
    /\ UNCHANGED <<wiki, synced, node, edge, rebuild, merges, edits, stops>>

BackfillCloses ==
    /\ backfill.pc = "next" /\ backfill.todo = {} /\ lock \in {"none", "backfill"}
    /\ backfill' = NoBackfill /\ lock' = "none"
    /\ UNCHANGED <<wiki, synced, node, edge, rebuild, scanned, merges, edits, stops>>

-----------------------------------------------------------------------------

\* run_pattern_discovery, third channel: an edge from every incident with a
\* failure to every procedure with a resolution, in one transaction.
DiscoverPatterns ==
    LET found == ((Failures \cap Rows) \ RetiredNotes) \X ((Resolutions \cap Rows) \ RetiredNotes)
    IN  /\ lock = "none"
        /\ edge' = edge \cup {<<f[1], f[2], "evidence_for">> : f \in found}
        /\ UNCHANGED <<wiki, synced, node, lock, rebuild, backfill, scanned, merges, edits, stops>>

\* detect_semantic_duplicates, once per pair, in the order of ids; the slug
\* of a pair has its direction.
ReportDuplicates(n, m) ==
    /\ lock = "none"
    /\ {n, m} \subseteq Rows \ RetiredNotes /\ {n, m} \in Duplicate /\ <<m, n>> \notin merges
    /\ merges' = merges \cup {<<n, m>>}
    /\ UNCHANGED <<wiki, synced, node, edge, lock, rebuild, backfill, scanned, edits, stops>>

\* A job fails, or its daemon dies: its transaction is undone, its pages stay.
RebuildStops ==
    /\ rebuild.pc # "idle" /\ stops < GraphStopBound
    /\ rebuild' = NoRebuild /\ stops' = stops + 1
    /\ lock' = IF lock = "rebuild" THEN "none" ELSE lock
    /\ UNCHANGED <<wiki, synced, node, edge, backfill, scanned, merges, edits>>

BackfillStops ==
    /\ backfill.pc # "idle" /\ stops < GraphStopBound
    /\ backfill' = NoBackfill /\ stops' = stops + 1
    /\ lock' = IF lock = "backfill" THEN "none" ELSE lock
    /\ UNCHANGED <<wiki, synced, node, edge, rebuild, scanned, merges, edits>>

GraphNext ==
    \/ \E n \in GraphNotes : \/ RemovePage(n) \/ SyncPage(n) \/ RebuildParses(n)
                             \/ PassLinks(n)
                             \/ \E ends \in LinkChoices : EditPage(n, ends)
                             \/ \E m \in GraphNotes : ReportDuplicates(n, m)
    \/ RebuildOpens \/ RebuildApplies \/ RebuildStops
    \/ BackfillOpens \/ PassRecords \/ BackfillCloses \/ BackfillStops
    \/ DiscoverPatterns

GraphSpec == GraphInit /\ [][GraphNext]_graphVars

-----------------------------------------------------------------------------
(* Properties.                                                             *)

\* A note whose file the last sync has seen has the edges of that file, those
\* of pattern discovery aside, although jobs parse files and rewrite edges at
\* times of their own; and each edge ends at a node.
GraphFollowsPages ==
    /\ \A n \in Rows : synced[n] = wiki[n] =>
          {e \in edge : e[1] = n /\ e[3] # "evidence_for"} = LinksFrom(n, wiki[n])
    /\ \A e \in edge : node[e[2]] # "none"

\* README.md: graph rebuild is "safe to rerun".  What a second rebuild from
\* the same files makes of the graph of the first is that graph.
RebuildSafeToRerun ==
    rebuild.pc = "parse" /\ rebuild.rows = {} =>
        LET once == Rebuilt(Graph, Rows, rebuild.parsed)
        IN  Rebuilt(once, Rows, rebuild.parsed) = once

\* The graph is a function of the files: what jobs left of it agrees with the
\* pages, and building it anew from them changes nothing.
GraphConsistent == GraphFollowsPages /\ RebuildSafeToRerun
=============================================================================
