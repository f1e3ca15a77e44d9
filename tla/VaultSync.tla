------------------------------ MODULE VaultSync ------------------------------
(***************************************************************************)
(* sync_vault: the incremental mirror of the note files of the vault in    *)
(* the tables notes, sync_state, graph_nodes and graph_edges.  A sync      *)
(* lists the files and reads sync_state first, then works through the      *)
(* paths in order inside one transaction, hashing and then parsing each    *)
(* file, while editors go on changing files.                               *)
(***************************************************************************)
EXTENDS Integers, FiniteSets, FiniteSetsExt

CONSTANTS
    LastPath,       \* paths are 1..LastPath, in the order of sorted()
    NoteIds,        \* ids a frontmatter may carry
    Texts,          \* contents of a note file; a text is its own hash
    IdOf,           \* IdOf[t]: the id in t, Broken or Poison
    LinksOf,        \* LinksOf[t]: ids t has relations to
    Broken,         \* parse_note raises NoteParseError
    Poison,         \* parse_note raises anything else
    NoText, NoId,
    Syncers,        \* processes that may run sync_vault at once
    EditBound       \* bound on changes to files

ASSUME SyncAssumption ==
    /\ LastPath \in Nat /\ EditBound \in Nat
    /\ IdOf \in [Texts -> NoteIds \cup {Broken, Poison}]
    /\ LinksOf \in [Texts -> SUBSET NoteIds]
    /\ NoText \notin Texts /\ {NoId, Broken, Poison} \cap NoteIds = {}
    /\ IsFiniteSet(NoteIds)

GraphOn == TRUE     \* config.graph.enabled, its default

VARIABLES
    vaultFile,      \* path -> text or NoText
    db,             \* the committed tables
    syncer,         \* what each running sync_vault remembers
    tx,             \* the tables as its transaction sees them
    writer,         \* the syncer that holds the write lock, or none
    saves,          \* changes to files so far
    past,           \* history: the texts each path has had
    tangled         \* history: ids that shared a path or had two at once

syncVars == <<vaultFile, db, syncer, tx, writer, saves, past, tangled>>

Paths == 1..LastPath

Parsable(t) == t # NoText /\ IdOf[t] \in NoteIds

NoteRow == [path : Paths, text : Texts]
StateRow == [hash : Texts, id : NoteIds \cup {NoId}]
NoRow == [path |-> 0]
NoState == [id |-> NoId]

Tables == [notes : [NoteIds -> NoteRow \cup {NoRow}],
           state : [Paths -> StateRow \cup {NoState}],
           nodes : [NoteIds -> {"none", "note", "entity"}],
           edges : SUBSET (NoteIds \X NoteIds)]

SyncerState == [pc : {"idle", "scan", "parse"}, listed : SUBSET Paths,
                selected : SUBSET Paths, prev : [Paths -> StateRow \cup {NoState}],
                full : BOOLEAN, at : 0..LastPath, hash : Texts \cup {NoText}]

NoState0 == [p \in Paths |-> NoState]

Asleep == [pc |-> "idle", listed |-> {}, selected |-> {}, prev |-> NoState0,
           full |-> FALSE, at |-> 0, hash |-> NoText]

SyncTypeOK ==
    /\ vaultFile \in [Paths -> Texts \cup {NoText}]
    /\ db \in Tables /\ tx \in Tables
    /\ syncer \in [Syncers -> SyncerState]
    /\ writer \subseteq Syncers /\ Cardinality(writer) <= 1
    /\ saves \in 0..EditBound
    /\ past \in [Paths -> SUBSET Texts] /\ tangled \subseteq NoteIds

EmptyTables == [notes |-> [n \in NoteIds |-> NoRow], state |-> NoState0,
                nodes |-> [n \in NoteIds |-> "none"], edges |-> {}]

SyncInit ==
    /\ vaultFile = [p \in Paths |-> NoText]
    /\ db = EmptyTables /\ tx = EmptyTables
    /\ syncer = [s \in Syncers |-> Asleep]
    /\ writer = {}
    /\ saves = 0
    /\ past = [p \in Paths |-> {}] /\ tangled = {}

-----------------------------------------------------------------------------
(* The statements, on tables d.                                            *)

\* _upsert_note: whatever else had this body_path goes, and with a note its
\* aliases, search rows, vectors and outgoing edges (ON DELETE CASCADE).
UpsertNote(d, p, t) ==
    LET n == IdOf[t]
        ousted == {m \in NoteIds \ {n} : d.notes[m].path = p}
    IN  [d EXCEPT !.notes = [m \in NoteIds |->
                    IF m = n THEN [path |-> p, text |-> t]
                    ELSE IF m \in ousted THEN NoRow ELSE @[m]],
                  !.edges = {e \in @ : e[1] \notin ousted}]

\* rebuild_note_graph: a target that is no note (yet) becomes an entity.
RebuildNoteGraph(d, t) ==
    LET n == IdOf[t]
        targets == LinksOf[t] \ {n}
    IN  [d EXCEPT !.nodes = [m \in NoteIds |->
                    CASE m = n -> "note"
                      [] m \in targets /\ d.notes[m] # NoRow -> "note"
                      [] m \in targets /\ d.notes[m] = NoRow -> "entity"
                      [] OTHER -> @[m]],
                  !.edges = {e \in @ : e[1] # n} \cup ({n} \X targets)]

\* Mutant: the graph is left alone when a note goes.
NodeLeftBehind(d, n) == d

DemoteOrDeleteNoteNode(d, n) ==
    [d EXCEPT !.nodes[n] =
        IF @ # "none" /\ \E e \in d.edges : e[2] = n THEN "entity" ELSE "none"]

\* _delete_note_by_path: by the id sync_state remembers for the path,
\* wherever that note lives by now.
DeleteNoteByPath(d, p) ==
    LET n == d.state[p].id
        forgotten == [d EXCEPT !.state[p] = NoState]
    IN  IF n = NoId THEN forgotten
        ELSE DemoteOrDeleteNoteNode(
                 [forgotten EXCEPT !.notes[n] = NoRow,
                                   !.edges = {e \in @ : e[1] # n}], n)

GraphNoteMissing(d, n) == n = NoId \/ d.nodes[n] # "note"

\* Mutant: a hash that has not changed is always skipped.
SkippedByHash(s, p, hash) == ~s.full /\ s.prev[p] # NoState /\ s.prev[p].hash = hash

\* Incremental: skip a file whose hash is the one listed, provided the graph
\* still knows its note.
Skipped(s, p, hash) ==
    /\ ~s.full
    /\ s.prev[p] # NoState /\ s.prev[p].hash = hash
    /\ ~GraphOn \/ ~GraphNoteMissing(tx, s.prev[p].id)

\* The body of the loop for one file that is not skipped.  A file that does
\* not parse keeps the id its path had before.
Synced(d, s, p, t) ==
    IF IdOf[t] = Broken
    THEN [DeleteNoteByPath(d, p) EXCEPT !.state[p] =
             [hash |-> s.hash, id |-> IF s.prev[p] = NoState THEN NoId ELSE s.prev[p].id]]
    ELSE LET kept == UpsertNote(d, p, t)
         IN  [(IF GraphOn THEN RebuildNoteGraph(kept, t) ELSE kept)
                 EXCEPT !.state[p] = [hash |-> s.hash, id |-> IdOf[t]]]

-----------------------------------------------------------------------------
(* sync_vault.                                                             *)

\* The paths a scan has still to look at, and the first of them.
Ahead(s) == {p \in s.listed : p > s.at /\ (s.selected = {} \/ p \in s.selected)}
NextPath(s) == CHOOSE p \in Ahead(s) : \A q \in Ahead(s) : p <= q

Present(f) == {p \in Paths : f[p] # NoText}

StartSync(x) ==
    /\ syncer[x].pc = "idle"
    /\ \E sel \in {{}} \cup {{p} : p \in Paths}, full \in BOOLEAN :
         syncer' = [syncer EXCEPT ![x] =
             [pc |-> "scan", listed |-> Present(vaultFile), selected |-> sel,
              prev |-> db.state, full |-> full, at |-> 0, hash |-> NoText]]
    /\ UNCHANGED <<vaultFile, db, tx, writer, saves, past, tangled>>

Aborted(x) ==
    /\ syncer' = [syncer EXCEPT ![x] = Asleep]
    /\ writer' = writer \ {x}
    /\ tx' = IF x \in writer THEN db ELSE tx
    /\ UNCHANGED <<vaultFile, db, saves, past, tangled>>

\* The first write of a transaction waits for the lock of another one.
Locks(x) == writer \subseteq {x}

View(x) == IF x \in writer THEN tx ELSE db

\* A file listed and gone since ends the sync: FileNotFoundError.
HashFile(x) ==
    /\ syncer[x].pc = "scan" /\ Ahead(syncer[x]) # {}
    /\ Locks(x)
    /\ LET p == NextPath(syncer[x])
       IN  IF vaultFile[p] = NoText THEN Aborted(x)
           ELSE /\ writer' = {x}
                /\ tx' = View(x)
                /\ syncer' = [syncer EXCEPT ![x].at = p, ![x].hash = vaultFile[p],
                                            ![x].pc = "parse"]
                /\ UNCHANGED <<vaultFile, db, saves, past, tangled>>

SkipFile(x) ==
    /\ syncer[x].pc = "parse"
    /\ Skipped(syncer[x], syncer[x].at, syncer[x].hash)
    /\ syncer' = [syncer EXCEPT ![x].pc = "scan"]
    /\ UNCHANGED <<vaultFile, db, tx, writer, saves, past, tangled>>

\* parse_note reads the file again; any error but NoteParseError rolls the
\* whole sync back.
ParseFile(x) ==
    LET s == syncer[x]
        t == vaultFile[s.at]
    IN  /\ s.pc = "parse"
        /\ ~Skipped(s, s.at, s.hash)
        /\ IF t = NoText \/ IdOf[t] = Poison THEN Aborted(x)
           ELSE /\ tx' = Synced(tx, s, s.at, t)
                /\ syncer' = [syncer EXCEPT ![x].pc = "scan"]
                /\ UNCHANGED <<vaultFile, db, writer, saves, past, tangled>>

Vanished(s) == {p \in Paths : s.prev[p] # NoState} \ s.listed

FinishSync(x) ==
    LET s == syncer[x]
        done == IF s.selected = {} THEN FoldSet(LAMBDA p, d : DeleteNoteByPath(d, p), View(x), Vanished(s)) ELSE View(x)
    IN  /\ s.pc = "scan" /\ Ahead(s) = {}
        /\ Locks(x)
        /\ db' = done /\ tx' = done
        /\ writer' = {}
        /\ syncer' = [syncer EXCEPT ![x] = Asleep]
        /\ UNCHANGED <<vaultFile, saves, past, tangled>>

-----------------------------------------------------------------------------
(* Editors, the promotion writer and git change files at any time.         *)

Ids(f, p) == IF f[p] # NoText /\ IdOf[f[p]] \in NoteIds THEN {IdOf[f[p]]} ELSE {}

\* Ids of files f that another present path has or had, and the ids of a
\* path that has had several.
Contested(f, had) ==
    LET hadIds(p) == {IdOf[t] : t \in had[p]} \cap NoteIds
    IN  UNION {IF f[p] = NoText THEN {}
               ELSE (hadIds(p) \cap UNION {Ids(f, q) : q \in Paths \ {p}})
                    \cup (IF Cardinality(hadIds(p)) > 1 THEN hadIds(p) ELSE {}) : p \in Paths}

Edited(f) ==
    LET had == [p \in Paths |-> past[p] \cup ({f[p]} \ {NoText})]
    IN  /\ saves < EditBound /\ saves' = saves + 1
        /\ vaultFile' = f
        /\ past' = had
        /\ tangled' = tangled \cup Contested(f, had)
        /\ UNCHANGED <<db, syncer, tx, writer>>

\* A path does not return to a text it had: the hash of the old text, stored
\* with the parse of the one in between, would then pass for up to date.
WriteNote(p, t) == t \notin past[p] /\ Edited([vaultFile EXCEPT ![p] = t])

RemoveNote(p) == vaultFile[p] # NoText /\ Edited([vaultFile EXCEPT ![p] = NoText])

MoveNote(p, q) ==
    /\ vaultFile[p] # NoText /\ vaultFile[q] = NoText
    /\ Edited([vaultFile EXCEPT ![p] = NoText, ![q] = vaultFile[p]])

SyncStep(x) == HashFile(x) \/ SkipFile(x) \/ ParseFile(x) \/ FinishSync(x)

SyncNext ==
    \/ \E x \in Syncers : StartSync(x) \/ SyncStep(x)
    \/ \E p \in Paths : \/ RemoveNote(p)
                        \/ \E t \in Texts : WriteNote(p, t)
                        \/ \E q \in Paths : MoveNote(p, q)

SyncSpec == SyncInit /\ [][SyncNext]_syncVars

-----------------------------------------------------------------------------
(* What the mirror promises.                                               *)

\* A note node of the graph is backed by a row of notes: when a note goes its
\* node is demoted or removed with it.  Not so for an id that was changed
\* inside a file: _upsert_note ousts the row and leaves the node.
NodesBacked ==
    \A n \in NoteIds \ tangled : db.nodes[n] = "note" => db.notes[n] # NoRow

\* The row of n is the one parsable file that has this id.
Mirrored(n) ==
    LET places == {p \in Paths : n \in Ids(vaultFile, p)}
    IN  IF places = {} THEN db.notes[n] = NoRow
        ELSE \E p \in places : db.notes[n] = [path |-> p, text |-> vaultFile[p]]

PoisonFree == \A p \in Paths : vaultFile[p] # NoText => IdOf[vaultFile[p]] # Poison

\* Once the files rest, repeated syncs bring the table to agree with them,
\* moves included (the first sync after a move deletes the note, the second
\* restores it because the graph misses it).  Ids two paths laid claim to are
\* excepted, and one file that fails to parse in an unforeseen way stops all.
SyncConverges ==
    <>[](PoisonFree => \A n \in NoteIds \ tangled : Mirrored(n))

\* Scans run on, and a sync of the whole vault is started again and again.
StartWholeSync(x) ==
    StartSync(x) /\ syncer'[x].selected = {} /\ ~syncer'[x].full

SyncFairness ==
    \A x \in Syncers : WF_syncVars(SyncStep(x)) /\ SF_syncVars(StartWholeSync(x))
=============================================================================
