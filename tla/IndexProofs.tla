------------------------------ MODULE IndexProofs ------------------------------
(***************************************************************************)
(* Proofs about the tables that catch up with the notes, for any number of *)
(* paths, notes, links, syncs and jobs: no sync, however files move, break *)
(* or vanish under it, leaves a note node in the graph without its row;    *)
(* and the graph follows the pages it is drawn from.  The loops of the     *)
(* code are folds over finite sets; what holds of them is shown by         *)
(* MinimalSubset, for a smallest set for which it would not hold.          *)
(***************************************************************************)
EXTENDS MCIndex, OrderLemmas, SequenceTheorems

-----------------------------------------------------------------------------
(* The sync: the inductive invariant.                                      *)

\* Of two ids that files at one path have had, both are tangled.
HistoryKept ==
    \A p \in Paths :
        /\ vaultFile[p] # NoText => vaultFile[p] \in past[p]
        /\ \A t, u \in past[p] :
              {IdOf[t], IdOf[u]} \subseteq NoteIds /\ IdOf[t] # IdOf[u] => IdOf[t] \in tangled

\* A row is at a path that has had a file of this note; and what the graph
\* has as a note has a row.
Placed(d, n) == d.notes[n] # NoRow => \E t \in past[d.notes[n].path] : IdOf[t] = n
Backed(d, n) == n \notin tangled /\ d.nodes[n] = "note" => d.notes[n] # NoRow
Sound(d) == d \in Tables /\ \A n \in NoteIds : Placed(d, n) /\ Backed(d, n)

SyncInv ==
    /\ SyncTypeOK
    /\ writer = {} \/ \E x \in Syncers : writer = {x}
    /\ \A x \in Syncers : syncer[x].pc = "parse" => syncer[x].at \in Paths /\ syncer[x].hash \in Texts
    /\ HistoryKept
    /\ Sound(db) /\ Sound(tx)

-----------------------------------------------------------------------------
(* The statements on the tables.                                           *)

LEMMA NoRowFacts ==
    /\ NoRow \notin NoteRow /\ NoRow.path \notin Paths
    /\ NoState \notin StateRow /\ NoState.id = NoId
BY DEF NoRow, NoteRow, NoState, StateRow, Paths

LEMMA Deleted ==
    ASSUME NEW d, Sound(d), NEW p \in Paths
    PROVE  Sound(DeleteNoteByPath(d, p))
<1>1. PICK n : n = d.state[p].id
  OBVIOUS
<1>2. n \in NoteIds \cup {NoId} /\ d \in Tables
  BY <1>1, NoRowFacts DEF Sound, Tables, StateRow
<1>3. PICK f : f = [d EXCEPT !.state[p] = NoState]
  OBVIOUS
<1>4. f \in Tables /\ f.notes = d.notes /\ f.nodes = d.nodes /\ f.edges = d.edges
  BY <1>2, <1>3 DEF Tables
<1>5. CASE n = NoId
  <2>1. DeleteNoteByPath(d, p) = f
    BY <1>1, <1>3, <1>5 DEF DeleteNoteByPath
  <2>2. QED  BY <1>4, <2>1 DEF Sound, Placed, Backed
<1>6. CASE n # NoId
  <2>1. PICK g : g = [f EXCEPT !.notes[n] = NoRow, !.edges = {e \in f.edges : e[1] # n}]
    OBVIOUS
  <2>2. /\ g \in Tables /\ g.nodes = d.nodes /\ g.notes[n] = NoRow
        /\ \A m \in NoteIds \ {n} : g.notes[m] = d.notes[m]
    BY <1>2, <1>4, <1>6, <2>1 DEF Tables
  <2>3. PICK h : h = DemoteOrDeleteNoteNode(g, n)
    OBVIOUS
  <2>4. PICK type \in {"entity", "none"} : h = [g EXCEPT !.nodes[n] = type]
    BY <2>3 DEF DemoteOrDeleteNoteNode
  <2>5. /\ h \in Tables /\ h.notes = g.notes /\ h.nodes[n] # "note"
        /\ \A m \in NoteIds \ {n} : h.nodes[m] = g.nodes[m]
    BY <1>2, <1>6, <2>2, <2>4 DEF Tables
  <2>6. DeleteNoteByPath(d, p) = h
    BY <1>1, <1>3, <1>6, <2>1, <2>3 DEF DeleteNoteByPath
  <2>7. QED  BY <2>2, <2>5, <2>6 DEF Sound, Placed, Backed
<1>7. QED  BY <1>5, <1>6

\* The loop over the vanished paths.
LEMMA LoopDeletes ==
    ASSUME NEW d, Sound(d), NEW gone \in SUBSET Paths
    PROVE  Sound(FoldSet(LAMBDA p, t : DeleteNoteByPath(t, p), d, gone))
<1>. DEFINE D == {t \in Tables : Sound(t)}
            pick == [s \in SUBSET gone |-> CHOOSE y \in s : TRUE]
            step == [e \in gone \X D |-> DeleteNoteByPath(e[2], e[1])]
            Eq(f) == f = [s \in SUBSET gone |->
                            IF s = {} THEN d
                            ELSE DeleteNoteByPath(f[s \ {CHOOSE y \in s : TRUE}], CHOOSE y \in s : TRUE)]
<1>1. IsFiniteSet(gone)
  <2>1. 1 \in Int /\ LastPath \in Int
    BY SyncAssumption
  <2>2. IsFiniteSet(Paths)
    BY <2>1, FS_Interval DEF Paths
  <2>3. QED  BY <2>2, FS_Subset
<1>2. d \in D
  BY DEF Sound
<1>3. \A x \in gone, t \in D : step[<<x, t>>] = DeleteNoteByPath(t, x) /\ DeleteNoteByPath(t, x) \in D
  BY Deleted DEF Sound
<1>4. step \in [gone \X D -> D]
  <2>1. \A e \in gone \X D : DeleteNoteByPath(e[2], e[1]) \in D
    BY <1>3
  <2>. HIDE DEF D
  <2>2. QED  BY <2>1
<1>a. Picks(gone, pick) /\ \A s \in SUBSET gone : pick[s] = CHOOSE y \in s : TRUE
  BY DEF Picks
<1>. HIDE DEF D, step, pick
<1>5. \E f : Eq(f)
  <2>1. PICK f : IsFold(f, gone, D, d, pick, step)
    BY <1>1, <1>2, <1>4, <1>a, FoldDefined DEF StepFunction
  <2>2. ASSUME NEW s \in SUBSET gone
        PROVE  f[s] = IF s = {} THEN d
                      ELSE DeleteNoteByPath(f[s \ {CHOOSE y \in s : TRUE}], CHOOSE y \in s : TRUE)
    <3>1. CASE s = {}
      BY <2>1, <3>1 DEF IsFold
    <3>2. CASE s # {}
      <4>1. PICK x : x = CHOOSE y \in s : TRUE
        OBVIOUS
      <4>2. x \in gone /\ f[s \ {x}] \in D
        BY <1>a, <2>1, <3>2, <4>1 DEF IsFold
      <4>3. QED  BY <1>3, <1>a, <2>1, <3>2, <4>1, <4>2 DEF IsFold
    <3>3. QED  BY <3>1, <3>2
  <2>3. QED  BY <2>1, <2>2 DEF IsFold
<1>6. PICK g : g = CHOOSE h : Eq(h)
  OBVIOUS
<1>7. Eq(g)
  BY <1>5, <1>6
<1>8. FoldSet(LAMBDA p, t : DeleteNoteByPath(t, p), d, gone) = g[gone]
  BY <1>6 DEF FoldSet, MapThenFoldSet
<1>9. g[gone] \in D
  <2>. DEFINE B == {s \in SUBSET gone : g[s] \notin D}
  <2>1. SUFFICES ASSUME B # {} PROVE FALSE
    OBVIOUS
  <2>2. B \in SUBSET (SUBSET gone)
    OBVIOUS
  <2>. HIDE DEF B
  <2>3. PICK s \in B : \A x \in s : s \ {x} \notin B
    BY <1>1, <2>1, <2>2, MinimalSubset
  <2>4. s \in SUBSET gone /\ g[s] \notin D
    BY <2>3 DEF B
  <2>5. s # {}
    BY <1>2, <1>7, <2>4
  <2>6. PICK x : x = CHOOSE y \in s : TRUE
    OBVIOUS
  <2>7. x \in s /\ x \in Paths /\ g[s] = DeleteNoteByPath(g[s \ {x}], x)
    BY <1>7, <2>4, <2>5, <2>6
  <2>8. g[s \ {x}] \in D
    BY <2>3, <2>4, <2>7 DEF B
  <2>9. g[s] \in D
    BY <1>3, <2>4, <2>7, <2>8
  <2>10. QED  BY <2>4, <2>9
<1>10. QED  BY <1>8, <1>9 DEF D

-----------------------------------------------------------------------------
(* One file read again.                                                    *)

LEMMA Upserted ==
    ASSUME NEW d, Sound(d), HistoryKept, SyncTypeOK, NEW p \in Paths, NEW t \in past[p],
           IdOf[t] \in NoteIds
    PROVE  Sound(UpsertNote(d, p, t)) /\ UpsertNote(d, p, t).notes[IdOf[t]] # NoRow
<1>1. PICK n \in NoteIds : n = IdOf[t]
  OBVIOUS
<1>2. PICK ousted : ousted = {m \in NoteIds \ {n} : d.notes[m].path = p}
  OBVIOUS
<1>3. PICK row : row = [path |-> p, text |-> t]
  OBVIOUS
<1>4. row \in NoteRow /\ row # NoRow /\ row.path = p
  BY <1>3, NoRowFacts DEF NoteRow, SyncTypeOK
<1>5. PICK rows : rows = [m \in NoteIds |-> IF m = n THEN row ELSE IF m \in ousted THEN NoRow ELSE d.notes[m]]
  OBVIOUS
<1>6. PICK edges : edges = {e \in d.edges : e[1] \notin ousted}
  OBVIOUS
<1>7. PICK h : h = [d EXCEPT !.notes = rows, !.edges = edges]
  OBVIOUS
<1>8. UpsertNote(d, p, t) = h
  <2>1. d \in Tables /\ UpsertNote(d, p, t)
            = [d EXCEPT !.notes = [m \in NoteIds |-> IF m = n THEN row
                                     ELSE IF m \in ousted THEN NoRow ELSE @[m]],
                        !.edges = {e \in @ : e[1] \notin ousted}]
    BY <1>1, <1>2, <1>3 DEF UpsertNote, Sound
  <2>2. QED  BY <1>5, <1>6, <1>7, <2>1 DEF Tables
<1>9. h \in Tables /\ h.notes = rows /\ h.nodes = d.nodes
  BY <1>4, <1>5, <1>6, <1>7 DEF Sound, Tables
<1>10. ASSUME NEW m \in NoteIds PROVE Placed(h, m) /\ Backed(h, m)
  <2>1. CASE m = n
    <3>1. h.notes[m] = row
      BY <1>5, <1>9, <2>1
    <3>2. QED  BY <1>1, <1>4, <2>1, <3>1 DEF Placed, Backed
  <2>2. CASE m # n /\ m \notin ousted
    <3>1. h.notes[m] = d.notes[m] /\ h.nodes[m] = d.nodes[m]
      BY <1>5, <1>9, <2>2
    <3>2. QED  BY <3>1 DEF Sound, Placed, Backed
  <2>3. CASE m # n /\ m \in ousted
    <3>1. h.notes[m] = NoRow
      BY <1>5, <1>9, <2>3
    <3>2. d.notes[m].path = p /\ d.notes[m] # NoRow
      BY <1>2, <2>3, NoRowFacts
    <3>3. PICK u \in past[p] : IdOf[u] = m
      BY <3>2 DEF Sound, Placed
    <3>4. m \in tangled
      BY <1>1, <2>3, <3>3 DEF HistoryKept
    <3>5. QED  BY <3>1, <3>4 DEF Placed, Backed
  <2>4. QED  BY <2>1, <2>2, <2>3
<1>11. QED
  <2>1. h.notes[n] # NoRow
    BY <1>4, <1>5, <1>9
  <2>2. QED  BY <1>1, <1>8, <1>9, <1>10, <2>1 DEF Sound

LEMMA NotesGraphRebuilt ==
    ASSUME NEW d, Sound(d), NEW t \in Texts, IdOf[t] \in NoteIds, d.notes[IdOf[t]] # NoRow
    PROVE  Sound(RebuildNoteGraph(d, t))
<1>1. PICK n \in NoteIds : n = IdOf[t]
  OBVIOUS
<1>2. PICK targets \in SUBSET NoteIds : targets = LinksOf[t] \ {n}
  <2>1. LinksOf[t] \ {n} \in SUBSET NoteIds
    BY SyncAssumption
  <2>2. QED  BY <2>1
<1>3. PICK types : types = [m \in NoteIds |->
                    CASE m = n -> "note"
                      [] m \in targets /\ d.notes[m] # NoRow -> "note"
                      [] m \in targets /\ d.notes[m] = NoRow -> "entity"
                      [] OTHER -> d.nodes[m]]
  OBVIOUS
<1>4. PICK edges : edges = {e \in d.edges : e[1] # n} \cup ({n} \X targets)
  OBVIOUS
<1>5. PICK h : h = [d EXCEPT !.nodes = types, !.edges = edges]
  OBVIOUS
<1>6. RebuildNoteGraph(d, t) = h
  <2>1. d \in Tables /\ RebuildNoteGraph(d, t)
            = [d EXCEPT !.nodes = [m \in NoteIds |->
                           CASE m = n -> "note"
                             [] m \in targets /\ d.notes[m] # NoRow -> "note"
                             [] m \in targets /\ d.notes[m] = NoRow -> "entity"
                             [] OTHER -> @[m]],
                        !.edges = {e \in @ : e[1] # n} \cup ({n} \X targets)]
    BY <1>1, <1>2 DEF RebuildNoteGraph, Sound
  <2>2. QED  BY <1>3, <1>4, <1>5, <2>1 DEF Tables
<1>7. \A m \in NoteIds : /\ types[m] \in {"none", "note", "entity"}
                         /\ types[m] = "note" => d.notes[m] # NoRow \/ d.nodes[m] = "note"
  <2>1. d.nodes \in [NoteIds -> {"none", "note", "entity"}] /\ d.notes[n] # NoRow
    BY <1>1 DEF Sound, Tables
  <2>2. QED  BY <1>3, <2>1
<1>8. h \in Tables /\ h.notes = d.notes /\ h.nodes = types
  <2>1. types \in [NoteIds -> {"none", "note", "entity"}]
    BY <1>3, <1>7
  <2>2. edges \subseteq NoteIds \X NoteIds
    BY <1>4 DEF Sound, Tables
  <2>3. QED  BY <1>5, <2>1, <2>2 DEF Sound, Tables
<1>9. QED  BY <1>6, <1>7, <1>8 DEF Sound, Placed, Backed

LEMMA Restated ==
    ASSUME NEW d, Sound(d), NEW p \in Paths, NEW r \in StateRow
    PROVE  Sound([d EXCEPT !.state[p] = r])
<1>1. PICK h : h = [d EXCEPT !.state[p] = r]
  OBVIOUS
<1>2. h \in Tables /\ h.notes = d.notes /\ h.nodes = d.nodes
  BY <1>1 DEF Sound, Tables
<1>3. Sound(h)
  BY <1>2 DEF Sound, Placed, Backed
<1>4. QED  BY <1>1, <1>3

LEMMA FileSynced ==
    ASSUME NEW d, Sound(d), HistoryKept, SyncTypeOK, NEW p \in Paths, NEW s \in SyncerState,
           s.hash \in Texts, NEW t, t = vaultFile[p], t # NoText, IdOf[t] # Poison
    PROVE  Sound(Synced(d, s, p, t))
<1>1. t \in past[p] /\ t \in Texts
  BY DEF HistoryKept, SyncTypeOK
<1>2. CASE IdOf[t] = Broken
  <2>1. PICK g : g = DeleteNoteByPath(d, p)
    OBVIOUS
  <2>2. PICK r : r = [hash |-> s.hash, id |-> IF s.prev[p] = NoState THEN NoId ELSE s.prev[p].id]
    OBVIOUS
  <2>3. r \in StateRow
    BY <2>2 DEF SyncerState, StateRow
  <2>4. Sound(g)
    BY <2>1, Deleted
  <2>5. Synced(d, s, p, t) = [g EXCEPT !.state[p] = r]
    BY <1>2, <2>1, <2>2 DEF Synced
  <2>6. QED  BY <2>3, <2>4, <2>5, Restated
<1>3. CASE IdOf[t] # Broken
  <2>1. IdOf[t] \in NoteIds
    BY <1>1, <1>3, SyncAssumption
  <2>2. PICK k : k = UpsertNote(d, p, t)
    OBVIOUS
  <2>3. PICK g : g = RebuildNoteGraph(k, t)
    OBVIOUS
  <2>4. PICK r : r = [hash |-> s.hash, id |-> IdOf[t]]
    OBVIOUS
  <2>5. r \in StateRow
    BY <2>1, <2>4 DEF StateRow
  <2>6. Sound(k) /\ k.notes[IdOf[t]] # NoRow
    BY <1>1, <2>1, <2>2, Upserted
  <2>7. Sound(g)
    BY <1>1, <2>1, <2>3, <2>6, NotesGraphRebuilt
  <2>8. Synced(d, s, p, t) = [g EXCEPT !.state[p] = r]
    BY <1>3, <2>2, <2>3, <2>4 DEF Synced, GraphOn
  <2>9. QED  BY <2>5, <2>7, <2>8, Restated
<1>4. QED  BY <1>2, <1>3

-----------------------------------------------------------------------------
(* The steps.                                                              *)

LEMMA SyncInvInit == SyncInit => SyncInv
<1>. SUFFICES ASSUME SyncInit PROVE SyncInv
  OBVIOUS
<1>. USE SyncAssumption DEF SyncInit
<1>1. EmptyTables \in Tables
  BY DEF EmptyTables, Tables, NoState0
<1>2. Asleep \in SyncerState
  BY DEF Asleep, SyncerState, NoState0
<1>3. SyncTypeOK
  <2>1. Cardinality(writer) <= 1
    BY FS_EmptySet
  <2>2. QED  BY <1>1, <1>2, <2>1 DEF SyncTypeOK
<1>4. Sound(db) /\ Sound(tx)
  BY <1>1, NoRowFacts DEF EmptyTables, Sound, Placed, Backed
<1>5. HistoryKept
  BY DEF HistoryKept
<1>6. QED  BY <1>3, <1>4, <1>5 DEF SyncInv, Asleep

\* The history stays, and so does what is sound in its light.
LEMMA SameHistory ==
    ASSUME SyncInv, UNCHANGED <<vaultFile, past, tangled>>, Sound(db') , Sound(tx'),
           syncer' \in [Syncers -> SyncerState], saves' = saves,
           writer' = {} \/ \E x \in Syncers : writer' = {x},
           \A x \in Syncers : syncer'[x].pc = "parse" => syncer'[x].at \in Paths /\ syncer'[x].hash \in Texts
    PROVE  SyncInv'
<1>1. writer' \subseteq Syncers /\ Cardinality(writer') <= 1
  <2>1. CASE writer' = {}
    <3>1. Cardinality({}) = 0
      BY FS_EmptySet
    <3>2. QED  BY <2>1, <3>1
  <2>2. CASE writer' # {}
    <3>1. PICK x \in Syncers : writer' = {x}
      BY <2>2
    <3>2. Cardinality({x}) = 1
      BY FS_Singleton
    <3>3. QED  BY <3>1, <3>2
  <2>3. QED  BY <2>1, <2>2
<1>2. SyncTypeOK'
  BY <1>1 DEF SyncInv, SyncTypeOK, Sound, Tables, Paths, NoteRow, StateRow
<1>3. HistoryKept'
  BY DEF SyncInv, HistoryKept, Paths
<1>4. Sound(db)' /\ Sound(tx)'
  BY DEF Sound, Placed, Backed
<1>5. QED  BY <1>2, <1>3, <1>4 DEF SyncInv, Paths

LEMMA StartKeeps ==
    ASSUME SyncInv, NEW x \in Syncers, StartSync(x)
    PROVE  SyncInv'
<1>1. PICK sel \in {{}} \cup {{p} : p \in Paths}, full \in BOOLEAN :
         syncer' = [syncer EXCEPT ![x] =
             [pc |-> "scan", listed |-> Present(vaultFile), selected |-> sel,
              prev |-> db.state, full |-> full, at |-> 0, hash |-> NoText]]
  BY DEF StartSync
<1>2. PICK s : s = [pc |-> "scan", listed |-> Present(vaultFile), selected |-> sel,
              prev |-> db.state, full |-> full, at |-> 0, hash |-> NoText]
  OBVIOUS
<1>3. s \in SyncerState
  <2>1. 0 \in 0..LastPath
    BY SyncAssumption
  <2>2. QED  BY <1>2, <2>1 DEF SyncerState, Present, SyncInv, SyncTypeOK, Tables
<1>4. syncer \in [Syncers -> SyncerState]
  BY DEF SyncInv, SyncTypeOK
<1>5. \A y \in Syncers : syncer'[y].pc = "parse" => syncer'[y] = syncer[y]
  BY <1>1, <1>2, <1>4
<1>6. syncer' \in [Syncers -> SyncerState]
  BY <1>1, <1>2, <1>3, <1>4
<1>7. Sound(db') /\ Sound(tx')
  BY DEF StartSync, SyncInv
<1>8. QED
  <2>1. \A y \in Syncers : syncer'[y].pc = "parse" => syncer'[y].at \in Paths /\ syncer'[y].hash \in Texts
    BY <1>5 DEF SyncInv
  <2>2. QED  BY <1>6, <1>7, <2>1, SameHistory DEF StartSync, SyncInv

LEMMA AbortKeeps ==
    ASSUME SyncInv, NEW x \in Syncers, Aborted(x)
    PROVE  SyncInv'
<1>1. Asleep \in SyncerState /\ Asleep.pc # "parse"
  BY SyncAssumption DEF Asleep, SyncerState, NoState0
<1>2. syncer \in [Syncers -> SyncerState] /\ syncer' = [syncer EXCEPT ![x] = Asleep]
  BY DEF SyncInv, SyncTypeOK, Aborted
<1>3. syncer' \in [Syncers -> SyncerState]
  BY <1>1, <1>2
<1>4. \A y \in Syncers : syncer'[y].pc = "parse" => syncer'[y].at \in Paths /\ syncer'[y].hash \in Texts
  BY <1>1, <1>2 DEF SyncInv
<1>5. Sound(db') /\ Sound(tx')
  BY DEF Aborted, SyncInv
<1>6. writer' = {} \/ \E y \in Syncers : writer' = {y}
  BY DEF Aborted, SyncInv
<1>7. QED  BY <1>3, <1>4, <1>5, <1>6, SameHistory DEF Aborted

LEMMA HashKeeps ==
    ASSUME SyncInv, NEW x \in Syncers, HashFile(x)
    PROVE  SyncInv'
<1>1. PICK p : p = NextPath(syncer[x])
  OBVIOUS
<1>2. p \in Paths
  <2>1. PICK ahead : ahead = Ahead(syncer[x])
    OBVIOUS
  <2>2. ahead \in SUBSET Nat /\ ahead \subseteq Paths /\ ahead # {}
    <3>1. syncer[x].listed \subseteq Paths
      BY DEF SyncInv, SyncTypeOK, SyncerState
    <3>2. QED  BY <2>1, <3>1 DEF HashFile, Ahead, Paths
  <2>3. \E q \in ahead : \A r \in ahead : q <= r
    BY <2>2, LeastMember
  <2>4. QED  BY <1>1, <2>1, <2>2, <2>3 DEF NextPath
<1>3. CASE vaultFile[p] = NoText
  BY <1>1, <1>3, AbortKeeps DEF HashFile
<1>4. CASE vaultFile[p] # NoText
  <2>1. PICK s : s = [syncer[x] EXCEPT !.at = p, !.hash = vaultFile[p], !.pc = "parse"]
    OBVIOUS
  <2>2. /\ writer' = {x} /\ tx' = View(x) /\ UNCHANGED <<vaultFile, db, saves, past, tangled>>
        /\ syncer \in [Syncers -> SyncerState] /\ syncer' = [syncer EXCEPT ![x] = s]
    BY <1>1, <1>4, <2>1 DEF HashFile, SyncInv, SyncTypeOK
  <2>3. s \in SyncerState /\ s.at = p /\ s.hash \in Texts
    <3>1. syncer[x] \in SyncerState /\ vaultFile[p] \in Texts
      BY <1>2, <1>4 DEF SyncInv, SyncTypeOK
    <3>2. p \in 0..LastPath
      BY <1>2 DEF Paths
    <3>3. QED  BY <2>1, <3>1, <3>2 DEF SyncerState
  <2>4. syncer' \in [Syncers -> SyncerState]
    BY <2>2, <2>3
  <2>5. \A y \in Syncers : syncer'[y].pc = "parse" => syncer'[y].at \in Paths /\ syncer'[y].hash \in Texts
    BY <1>2, <2>2, <2>3 DEF SyncInv
  <2>6. Sound(db') /\ Sound(tx')
    BY <2>2 DEF SyncInv, View
  <2>7. QED  BY <2>2, <2>4, <2>5, <2>6, SameHistory
<1>5. QED  BY <1>3, <1>4

LEMMA SkipKeeps ==
    ASSUME SyncInv, NEW x \in Syncers, SkipFile(x)
    PROVE  SyncInv'
<1>1. syncer \in [Syncers -> SyncerState] /\ syncer' = [syncer EXCEPT ![x].pc = "scan"]
  BY DEF SyncInv, SyncTypeOK, SkipFile
<1>2. syncer' \in [Syncers -> SyncerState]
  BY <1>1 DEF SyncerState
<1>3. \A y \in Syncers : syncer'[y].pc = "parse" => syncer'[y] = syncer[y]
  BY <1>1 DEF SyncerState
<1>4. \A y \in Syncers : syncer'[y].pc = "parse" => syncer'[y].at \in Paths /\ syncer'[y].hash \in Texts
  BY <1>3 DEF SyncInv
<1>5. Sound(db') /\ Sound(tx')
  BY DEF SkipFile, SyncInv
<1>6. QED  BY <1>2, <1>4, <1>5, SameHistory DEF SkipFile, SyncInv

LEMMA ParseKeeps ==
    ASSUME SyncInv, NEW x \in Syncers, ParseFile(x)
    PROVE  SyncInv'
<1>1. PICK s \in SyncerState : s = syncer[x]
  BY DEF SyncInv, SyncTypeOK
<1>2. PICK t : t = vaultFile[s.at]
  OBVIOUS
<1>3. s.at \in Paths /\ s.hash \in Texts
  BY <1>1 DEF SyncInv, ParseFile
<1>4. CASE t = NoText \/ IdOf[t] = Poison
  BY <1>1, <1>2, <1>4, AbortKeeps DEF ParseFile
<1>5. CASE ~(t = NoText \/ IdOf[t] = Poison)
  <2>1. /\ tx' = Synced(tx, s, s.at, t) /\ UNCHANGED <<vaultFile, db, writer, saves, past, tangled>>
        /\ syncer \in [Syncers -> SyncerState] /\ syncer' = [syncer EXCEPT ![x].pc = "scan"]
    BY <1>1, <1>2, <1>5 DEF ParseFile, SyncInv, SyncTypeOK
  <2>2. Sound(tx) /\ HistoryKept /\ SyncTypeOK
    BY DEF SyncInv
  <2>3. Sound(tx')
    BY <1>2, <1>3, <1>5, <2>1, <2>2, FileSynced
  <2>4. syncer' \in [Syncers -> SyncerState]
    BY <2>1 DEF SyncerState
  <2>5. \A y \in Syncers : syncer'[y].pc = "parse" => syncer'[y] = syncer[y]
    BY <2>1 DEF SyncerState
  <2>6. \A y \in Syncers : syncer'[y].pc = "parse" => syncer'[y].at \in Paths /\ syncer'[y].hash \in Texts
    BY <2>5 DEF SyncInv
  <2>7. Sound(db')
    BY <2>1 DEF SyncInv
  <2>8. QED  BY <2>1, <2>3, <2>4, <2>6, <2>7, SameHistory DEF SyncInv
<1>6. QED  BY <1>4, <1>5

LEMMA FinishKeeps ==
    ASSUME SyncInv, NEW x \in Syncers, FinishSync(x)
    PROVE  SyncInv'
<1>1. PICK d : d = View(x)
  OBVIOUS
<1>2. Sound(d)
  BY <1>1 DEF View, SyncInv
<1>3. PICK gone \in SUBSET Paths : gone = Vanished(syncer[x])
  BY DEF Vanished
<1>4. Sound(FoldSet(LAMBDA p, t : DeleteNoteByPath(t, p), d, gone))
  BY <1>2, LoopDeletes
<1>5. db' = FoldSet(LAMBDA p, t : DeleteNoteByPath(t, p), d, gone) \/ db' = d
  BY <1>1, <1>3 DEF FinishSync
<1>6. Sound(db') /\ tx' = db'
  BY <1>2, <1>4, <1>5 DEF FinishSync
<1>7. Asleep \in SyncerState /\ Asleep.pc # "parse"
  BY SyncAssumption DEF Asleep, SyncerState, NoState0
<1>8. syncer \in [Syncers -> SyncerState] /\ syncer' = [syncer EXCEPT ![x] = Asleep]
  BY DEF SyncInv, SyncTypeOK, FinishSync
<1>9. syncer' \in [Syncers -> SyncerState]
  BY <1>7, <1>8
<1>10. \A y \in Syncers : syncer'[y].pc = "parse" => syncer'[y].at \in Paths /\ syncer'[y].hash \in Texts
  BY <1>7, <1>8 DEF SyncInv
<1>11. QED  BY <1>6, <1>9, <1>10, SameHistory DEF FinishSync

-----------------------------------------------------------------------------
(* The files change.                                                       *)

\* A path that gets a second id makes both tangled.
LEMMA EditTangles ==
    ASSUME SyncInv, NEW f \in [Paths -> Texts \cup {NoText}], Edited(f)
    PROVE  HistoryKept'
<1>1. PICK had : had = [p \in Paths |-> past[p] \cup ({f[p]} \ {NoText})]
  OBVIOUS
<1>2. vaultFile' = f /\ past' = had /\ tangled' = tangled \cup Contested(f, had)
  BY <1>1 DEF Edited
<1>3. ASSUME NEW p \in Paths, NEW t \in had[p], NEW u \in had[p],
             {IdOf[t], IdOf[u]} \subseteq NoteIds, IdOf[t] # IdOf[u]
      PROVE  IdOf[t] \in tangled'
  <2>1. CASE f[p] = NoText
    <3>1. t \in past[p] /\ u \in past[p]
      BY <1>1, <2>1
    <3>2. QED  BY <1>2, <1>3, <3>1 DEF SyncInv, HistoryKept
  <2>2. CASE f[p] # NoText
    <3>1. PICK ids : ids = {IdOf[v] : v \in had[p]} \cap NoteIds
      OBVIOUS
    <3>2. IdOf[t] \in ids /\ IdOf[u] \in ids /\ IsFiniteSet(ids)
      BY <1>3, <3>1, SyncAssumption, FS_Subset
    <3>3. Cardinality(ids) > 1
      <4>1. PICK pair : pair = {IdOf[t], IdOf[u]}
        OBVIOUS
      <4>2. IsFiniteSet(pair) /\ Cardinality(pair) = 2
        <5>1. IsFiniteSet({IdOf[t]}) /\ Cardinality({IdOf[t]}) = 1
          BY FS_Singleton
        <5>2. pair = {IdOf[t]} \cup {IdOf[u]} /\ IdOf[u] \notin {IdOf[t]}
          BY <1>3, <4>1
        <5>3. PICK one, x : one = {IdOf[t]} /\ x = IdOf[u]
          OBVIOUS
        <5>4. IsFiniteSet(one \cup {x}) /\ Cardinality(one \cup {x}) = Cardinality(one) + 1
          BY <5>1, <5>2, <5>3, FS_AddElement
        <5>5. QED  BY <5>1, <5>2, <5>3, <5>4
      <4>3. Cardinality(pair) <= Cardinality(ids) /\ Cardinality(ids) \in Nat
        BY <3>2, <4>1, FS_Subset, FS_CardinalityType
      <4>4. QED  BY <4>2, <4>3
    <3>4. ids \subseteq Contested(f, had)
      BY <2>2, <3>1, <3>3 DEF Contested
    <3>5. QED  BY <1>2, <3>2, <3>4
  <2>3. QED  BY <2>1, <2>2
<1>4. \A p \in Paths : f[p] # NoText => f[p] \in had[p]
  BY <1>1
<1>5. QED  BY <1>2, <1>3, <1>4 DEF HistoryKept, Paths

LEMMA EditKeeps ==
    ASSUME SyncInv, NEW f \in [Paths -> Texts \cup {NoText}], Edited(f)
    PROVE  SyncInv'
<1>1. PICK had : had = [p \in Paths |-> past[p] \cup ({f[p]} \ {NoText})]
  OBVIOUS
<1>2. /\ vaultFile' = f /\ past' = had /\ tangled' = tangled \cup Contested(f, had)
      /\ saves < EditBound /\ saves' = saves + 1 /\ UNCHANGED <<db, syncer, tx, writer>>
  BY <1>1 DEF Edited
<1>3. Contested(f, had) \subseteq NoteIds
  BY DEF Contested
<1>4. had \in [Paths -> SUBSET Texts] /\ \A p \in Paths : past[p] \subseteq had[p]
  BY <1>1 DEF SyncInv, SyncTypeOK
<1>5. saves' \in 0..EditBound
  BY <1>2, SyncAssumption DEF SyncInv, SyncTypeOK
<1>6. SyncTypeOK'
  BY <1>2, <1>3, <1>4, <1>5 DEF SyncInv, SyncTypeOK, Tables, SyncerState, Paths, NoteRow, StateRow
<1>7. ASSUME NEW d, Sound(d)
      PROVE  /\ d \in Tables
             /\ \A n \in NoteIds : /\ d.notes[n] # NoRow => \E t \in had[d.notes[n].path] : IdOf[t] = n
                                   /\ n \notin tangled' /\ d.nodes[n] = "note" => d.notes[n] # NoRow
  <2>1. ASSUME NEW n \in NoteIds, d.notes[n] # NoRow
        PROVE  \E t \in had[d.notes[n].path] : IdOf[t] = n
    <3>1. d.notes[n].path \in Paths
      BY <1>7, <2>1 DEF Sound, Tables, NoteRow
    <3>2. PICK t \in past[d.notes[n].path] : IdOf[t] = n
      BY <1>7, <2>1 DEF Sound, Placed
    <3>3. QED  BY <1>4, <3>1, <3>2
  <2>2. QED  BY <1>2, <1>7, <2>1 DEF Sound, Backed
<1>8. Sound(db)' /\ Sound(tx)'
  <2>1. ASSUME NEW d, Sound(d), db' = d PROVE Sound(db)'
    <3>1. \A n \in NoteIds : Placed(db, n)' /\ Backed(db, n)'
      BY <1>2, <1>7, <2>1 DEF Placed, Backed
    <3>2. db' \in Tables
      BY <1>7, <2>1
    <3>3. QED  BY <3>1, <3>2 DEF Sound, Tables, Paths, NoteRow, StateRow
  <2>2. ASSUME NEW d, Sound(d), tx' = d PROVE Sound(tx)'
    <3>1. \A n \in NoteIds : Placed(tx, n)' /\ Backed(tx, n)'
      BY <1>2, <1>7, <2>2 DEF Placed, Backed
    <3>2. tx' \in Tables
      BY <1>7, <2>2
    <3>3. QED  BY <3>1, <3>2 DEF Sound, Tables, Paths, NoteRow, StateRow
  <2>3. Sound(db) /\ Sound(tx) /\ db' = db /\ tx' = tx
    BY <1>2 DEF SyncInv
  <2>4. Sound(db)'
    BY <2>1, <2>3
  <2>5. QED  BY <2>2, <2>3, <2>4
<1>9. HistoryKept'
  BY EditTangles
<1>10. QED  BY <1>2, <1>6, <1>8, <1>9 DEF SyncInv, Paths

LEMMA SyncStepKeeps == SyncInv /\ [SyncNext]_syncVars => SyncInv'
<1>. SUFFICES ASSUME SyncInv, [SyncNext]_syncVars PROVE SyncInv'
  OBVIOUS
<1>. vaultFile \in [Paths -> Texts \cup {NoText}]
  BY DEF SyncInv, SyncTypeOK
<1>1. ASSUME NEW x \in Syncers, StartSync(x) PROVE SyncInv'
  BY <1>1, StartKeeps
<1>2. ASSUME NEW x \in Syncers, HashFile(x) PROVE SyncInv'
  BY <1>2, HashKeeps
<1>3. ASSUME NEW x \in Syncers, SkipFile(x) PROVE SyncInv'
  BY <1>3, SkipKeeps
<1>4. ASSUME NEW x \in Syncers, ParseFile(x) PROVE SyncInv'
  BY <1>4, ParseKeeps
<1>5. ASSUME NEW x \in Syncers, FinishSync(x) PROVE SyncInv'
  BY <1>5, FinishKeeps
<1>6. ASSUME NEW p \in Paths, RemoveNote(p) PROVE SyncInv'
  <2>1. PICK f : f = [vaultFile EXCEPT ![p] = NoText]
    OBVIOUS
  <2>2. f \in [Paths -> Texts \cup {NoText}] /\ Edited(f)
    BY <1>6, <2>1 DEF RemoveNote
  <2>3. QED  BY <2>2, EditKeeps
<1>7. ASSUME NEW p \in Paths, NEW t \in Texts, WriteNote(p, t) PROVE SyncInv'
  <2>1. PICK f : f = [vaultFile EXCEPT ![p] = t]
    OBVIOUS
  <2>2. f \in [Paths -> Texts \cup {NoText}] /\ Edited(f)
    BY <1>7, <2>1 DEF WriteNote
  <2>3. QED  BY <2>2, EditKeeps
<1>8. ASSUME NEW p \in Paths, NEW q \in Paths, MoveNote(p, q) PROVE SyncInv'
  <2>1. PICK f : f = [vaultFile EXCEPT ![p] = NoText, ![q] = vaultFile[p]]
    OBVIOUS
  <2>2. f \in [Paths -> Texts \cup {NoText}] /\ Edited(f)
    BY <1>8, <2>1 DEF MoveNote
  <2>3. QED  BY <2>2, EditKeeps
<1>9. CASE UNCHANGED syncVars
  BY <1>9, SameHistory DEF syncVars, SyncInv, SyncTypeOK
<1>10. QED
  BY <1>1, <1>2, <1>3, <1>4, <1>5, <1>6, <1>7, <1>8, <1>9 DEF SyncNext, SyncStep

\* A note node of the graph has a row behind it, whatever order of edits,
\* moves, deletions and syncs led there, and however many syncs overlap; ids
\* that files at one path have exchanged are excepted.
THEOREM NotesStayBacked == SyncSpec => []NodesBacked
<1>1. SyncInv => NodesBacked
  BY DEF SyncInv, Sound, Backed, NodesBacked
<1>2. QED  BY <1>1, SyncInvInit, SyncStepKeeps, PTL DEF SyncSpec

-----------------------------------------------------------------------------
(* The graph of notes: one note drawn anew, and the loop over the notes.   *)

Page == [ver : 0..GraphEditBound, links : SUBSET (Targets \X Relations)]

\* A graph in which every edge ends at a node, and notes with rows are notes.
Shapes == [node : [Targets -> {"none", "note", "entity"}],
           edge : SUBSET (GraphNotes \X Targets \X (Relations \cup {"evidence_for"}))]
Fine(g, rows) ==
    /\ g \in Shapes
    /\ \A e \in g.edge : g.node[e[2]] # "none"
    /\ \A n \in rows : g.node[n] = "note"

LEMMA LinkFacts ==
    ASSUME NEW n \in GraphNotes, NEW file \in Page, NEW e \in LinksFrom(n, file)
    PROVE  /\ e \in GraphNotes \X Targets \X (Relations \cup {"evidence_for"})
           /\ e[1] = n /\ e[2] \in Targets \ {n} /\ e[3] \in Relations /\ e[3] # "evidence_for"
<1>1. PICK l \in file.links : l[1] # n /\ e = <<n, l[1], l[2]>>
  BY DEF LinksFrom
<1>2. l[1] \in Targets /\ l[2] \in Relations
  BY DEF Page
<1>3. QED  BY <1>1, <1>2 DEF Relations

\* Graph h is graph g with note n drawn as its file has it.
Redrawn(h, g, rows, n, file) ==
    /\ Fine(h, rows)
    /\ h.edge = {e \in g.edge : e[1] # n} \cup LinksFrom(n, file)
    /\ h.node[n] = "note"
    /\ \A t \in Targets \ {n} :
          h.node[t] = IF \E e \in LinksFrom(n, file) : e[2] = t
                      THEN (IF t \in rows THEN "note" ELSE "entity") ELSE g.node[t]

LEMMA NoteRedrawn ==
    ASSUME NEW rows \in SUBSET GraphNotes, NEW n \in rows, NEW g, Fine(g, rows \ {n}),
           NEW file \in Page, NEW h, h = RebuildNote(g, rows, n, file)
    PROVE  Redrawn(h, g, rows, n, file)
<1>1. PICK links : links = LinksFrom(n, file)
  OBVIOUS
<1>2. \A e \in links : /\ e \in GraphNotes \X Targets \X (Relations \cup {"evidence_for"})
                       /\ e[1] = n /\ e[2] \in Targets \ {n}
  BY <1>1, LinkFacts
<1>3. PICK types : types = [t \in Targets |->
             CASE t = n -> "note"
               [] t # n /\ \E e \in links : e[2] = t -> (IF t \in rows THEN "note" ELSE "entity")
               [] OTHER -> g.node[t]]
  OBVIOUS
<1>4. h = [node |-> types, edge |-> {e \in g.edge : e[1] # n} \cup links]
  BY <1>1, <1>3 DEF RebuildNote
<1>5. h.node = types /\ h.edge = {e \in g.edge : e[1] # n} \cup links
  BY <1>4
<1>6. n \in Targets /\ types[n] = "note"
  BY <1>3 DEF Targets
<1>7. \A t \in Targets \ {n} :
          types[t] = IF \E e \in links : e[2] = t
                     THEN (IF t \in rows THEN "note" ELSE "entity") ELSE g.node[t]
  BY <1>3
<1>8. Fine(h, rows)
  <2>1. types \in [Targets -> {"none", "note", "entity"}]
    <3>1. \A t \in Targets : types[t] \in {"none", "note", "entity"}
      BY <1>6, <1>7 DEF Fine, Shapes
    <3>2. QED  BY <1>3, <3>1
  <2>2. h \in Shapes
    BY <1>2, <1>4, <2>1 DEF Fine, Shapes
  <2>3. ASSUME NEW e \in h.edge PROVE types[e[2]] # "none"
    <3>1. CASE e \in links
      BY <1>2, <1>7, <3>1
    <3>2. CASE e \in g.edge
      <4>1. e[2] \in Targets /\ g.node[e[2]] # "none"
        BY <3>2 DEF Fine, Shapes
      <4>2. QED  BY <1>6, <1>7, <4>1
    <3>3. QED  BY <1>5, <3>1, <3>2
  <2>4. ASSUME NEW m \in rows PROVE types[m] = "note"
    <3>1. CASE m = n
      BY <1>6, <3>1
    <3>2. CASE m # n
      <4>1. m \in Targets \ {n} /\ g.node[m] = "note"
        BY <3>2 DEF Fine, Targets
      <4>2. QED  BY <1>7, <4>1
    <3>3. QED  BY <3>1, <3>2
  <2>5. QED  BY <1>5, <2>2, <2>3, <2>4 DEF Fine
<1>9. QED  BY <1>1, <1>5, <1>6, <1>7, <1>8 DEF Redrawn

\* f has the graph after each subset of the loop.
Loop(f, g, rows, parsed) ==
    /\ f \in [SUBSET (DOMAIN parsed) -> {h \in Shapes : Fine(h, rows)}]
    /\ \A s \in SUBSET (DOMAIN parsed) :
          f[s] = IF s = {} THEN g
                 ELSE RebuildNote(f[s \ {CHOOSE n \in s : TRUE}], rows, CHOOSE n \in s : TRUE,
                                  parsed[CHOOSE n \in s : TRUE])

LEMMA LoopRebuilds ==
    ASSUME NEW rows \in SUBSET GraphNotes, NEW P \in SUBSET rows, NEW parsed \in [P -> Page],
           NEW g, Fine(g, rows)
    PROVE  \E f : Loop(f, g, rows, parsed) /\ Rebuilt(g, rows, parsed) = Pruned(f[P])
<1>. DEFINE D == {h \in Shapes : Fine(h, rows)}
            pick == [s \in SUBSET P |-> CHOOSE n \in s : TRUE]
            step == [e \in P \X D |-> RebuildNote(e[2], rows, e[1], parsed[e[1]])]
            Eq(f) == f = [s \in SUBSET P |->
                            IF s = {} THEN g
                            ELSE RebuildNote(f[s \ {CHOOSE n \in s : TRUE}], rows, CHOOSE n \in s : TRUE,
                                             parsed[CHOOSE n \in s : TRUE])]
<1>1. IsFiniteSet(P)
  BY GraphAssumption, FS_Subset
<1>2. g \in D
  BY DEF Fine
<1>3. ASSUME NEW n \in P, NEW h \in D PROVE RebuildNote(h, rows, n, parsed[n]) \in D
  <2>1. PICK k : k = RebuildNote(h, rows, n, parsed[n])
    OBVIOUS
  <2>2. Fine(h, rows \ {n})
    BY DEF Fine
  <2>3. Fine(k, rows)
    BY <2>1, <2>2, NoteRedrawn DEF Redrawn
  <2>4. QED  BY <2>1, <2>3 DEF Fine
<1>4. step \in [P \X D -> D] /\ \A n \in P, h \in D : step[<<n, h>>] = RebuildNote(h, rows, n, parsed[n])
  <2>1. \A e \in P \X D : RebuildNote(e[2], rows, e[1], parsed[e[1]]) \in D
    BY <1>3
  <2>. HIDE DEF D
  <2>2. QED  BY <2>1
<1>a. Picks(P, pick) /\ \A s \in SUBSET P : pick[s] = CHOOSE n \in s : TRUE
  BY DEF Picks
<1>. HIDE DEF D, step, pick
<1>5. \E f : Eq(f)
  <2>1. PICK f : IsFold(f, P, D, g, pick, step)
    BY <1>1, <1>2, <1>4, <1>a, FoldDefined DEF StepFunction
  <2>2. ASSUME NEW s \in SUBSET P
        PROVE  f[s] = IF s = {} THEN g
                      ELSE RebuildNote(f[s \ {CHOOSE n \in s : TRUE}], rows, CHOOSE n \in s : TRUE,
                                       parsed[CHOOSE n \in s : TRUE])
    <3>1. CASE s = {}
      BY <2>1, <3>1 DEF IsFold
    <3>2. CASE s # {}
      <4>1. PICK x : x = CHOOSE n \in s : TRUE
        OBVIOUS
      <4>2. x \in P /\ f[s \ {x}] \in D
        BY <1>a, <2>1, <3>2, <4>1 DEF IsFold
      <4>3. f[s] = step[<<x, f[s \ {x}]>>]
        BY <1>a, <2>1, <3>2, <4>1 DEF IsFold
      <4>4. f[s] = RebuildNote(f[s \ {x}], rows, x, parsed[x])
        BY <1>4, <4>2, <4>3
      <4>5. QED  BY <3>2, <4>1, <4>4
    <3>3. QED  BY <3>1, <3>2
  <2>3. f = [s \in SUBSET P |-> f[s]]
    BY <2>1 DEF IsFold
  <2>4. Eq(f)
    BY <2>2, <2>3
  <2>5. QED  BY <2>4
<1>6. PICK f : f = CHOOSE h : Eq(h)
  OBVIOUS
<1>7. Eq(f)
  BY <1>5, <1>6
<1>8. DOMAIN parsed = P
  OBVIOUS
<1>9. Rebuilt(g, rows, parsed) = Pruned(f[P])
  BY <1>6, <1>8 DEF Rebuilt, FoldSet, MapThenFoldSet
<1>10. \A s \in SUBSET P : f[s] \in D
  <2>. DEFINE B == {s \in SUBSET P : f[s] \notin D}
  <2>1. SUFFICES ASSUME B # {} PROVE FALSE
    OBVIOUS
  <2>2. B \in SUBSET (SUBSET P)
    OBVIOUS
  <2>. HIDE DEF B
  <2>3. PICK s \in B : \A x \in s : s \ {x} \notin B
    BY <1>1, <2>1, <2>2, MinimalSubset
  <2>4. s \in SUBSET P /\ f[s] \notin D
    BY <2>3 DEF B
  <2>5. s # {}
    BY <1>2, <1>7, <2>4
  <2>6. PICK x : x = CHOOSE n \in s : TRUE
    OBVIOUS
  <2>7. x \in s /\ x \in P /\ f[s] = RebuildNote(f[s \ {x}], rows, x, parsed[x])
    BY <1>7, <2>4, <2>5, <2>6
  <2>8. f[s \ {x}] \in D
    BY <2>3, <2>4, <2>7 DEF B
  <2>9. f[s] \in D
    BY <1>3, <2>7, <2>8
  <2>10. QED  BY <2>4, <2>9
<1>11. Loop(f, g, rows, parsed)
  BY <1>7, <1>8, <1>10 DEF Loop, D
<1>12. QED  BY <1>9, <1>11

\* Graph h has the edges of g with the links of the notes in P as parsed.
Drew(h, g, P, parsed) ==
    h.edge = {e \in g.edge : e[1] \notin P} \cup UNION {LinksFrom(n, parsed[n]) : n \in P}

\* The loop replaces the links of its notes and leaves the other edges.
LEMMA LoopEdges ==
    ASSUME NEW rows \in SUBSET GraphNotes, NEW P \in SUBSET rows, NEW parsed \in [P -> Page],
           NEW g, Fine(g, rows), NEW f, Loop(f, g, rows, parsed)
    PROVE  Drew(f[P], g, P, parsed)
<1>. DEFINE Drawn(s) == {e \in g.edge : e[1] \notin s} \cup UNION {LinksFrom(n, parsed[n]) : n \in s}
            B == {s \in SUBSET P : f[s].edge # Drawn(s)}
<1>0. DOMAIN parsed = P /\ IsFiniteSet(P)
  BY GraphAssumption, FS_Subset
<1>1. SUFFICES ASSUME B # {} PROVE FALSE
  BY DEF Drew
<1>2. B \in SUBSET (SUBSET P)
  OBVIOUS
<1>. HIDE DEF B
<1>3. PICK s \in B : \A x \in s : s \ {x} \notin B
  BY <1>0, <1>1, <1>2, MinimalSubset
<1>4. s \in SUBSET P /\ f[s].edge # Drawn(s)
  BY <1>3 DEF B
<1>5. s # {}
  <2>1. f[{}] = g
    BY <1>0 DEF Loop
  <2>2. Drawn({}) = g.edge
    OBVIOUS
  <2>3. QED  BY <1>4, <2>1, <2>2
<1>6. PICK x : x = CHOOSE n \in s : TRUE
  OBVIOUS
<1>7. x \in s /\ f[s] = RebuildNote(f[s \ {x}], rows, x, parsed[x])
  BY <1>0, <1>4, <1>5, <1>6 DEF Loop
<1>8. f[s \ {x}].edge = Drawn(s \ {x}) /\ Fine(f[s \ {x}], rows)
  BY <1>0, <1>3, <1>4, <1>7 DEF B, Loop
<1>9. f[s].edge = {e \in Drawn(s \ {x}) : e[1] # x} \cup LinksFrom(x, parsed[x])
  <2>1. Fine(f[s \ {x}], rows \ {x}) /\ x \in rows /\ parsed[x] \in Page
    BY <1>4, <1>7, <1>8 DEF Fine
  <2>2. PICK a, b, file : a = f[s \ {x}] /\ b = f[s] /\ file = parsed[x]
    OBVIOUS
  <2>3. Fine(a, rows \ {x}) /\ b = RebuildNote(a, rows, x, file) /\ file \in Page
    BY <1>7, <2>1, <2>2
  <2>4. Redrawn(b, a, rows, x, file)
    BY <2>1, <2>3, NoteRedrawn
  <2>5. QED  BY <1>8, <2>2, <2>4 DEF Redrawn
<1>10. \A n \in s : \A e \in LinksFrom(n, parsed[n]) : e[1] = n
  BY <1>4, LinkFacts
<1>11. f[s].edge = Drawn(s)
  BY <1>7, <1>9, <1>10
<1>12. QED  BY <1>4, <1>11

\* Whether the loop over s says what t is.
Says(s, parsed, t) == t \in s \/ \E n \in s : \E e \in LinksFrom(n, parsed[n]) : e[2] = t

\* What the loop says of a node does not depend on the graph it started from.
LEMMA LoopNodes ==
    ASSUME NEW rows \in SUBSET GraphNotes, NEW P \in SUBSET rows, NEW parsed \in [P -> Page],
           NEW g, Fine(g, rows), NEW f, Loop(f, g, rows, parsed),
           NEW h, Fine(h, rows), NEW k, Loop(k, h, rows, parsed), NEW t \in Targets
    PROVE  IF Says(P, parsed, t) THEN f[P].node[t] = k[P].node[t]
           ELSE f[P].node[t] = g.node[t] /\ k[P].node[t] = h.node[t]
<1>. DEFINE Same(s) == IF Says(s, parsed, t) THEN f[s].node[t] = k[s].node[t]
                       ELSE f[s].node[t] = g.node[t] /\ k[s].node[t] = h.node[t]
            B == {s \in SUBSET P : ~Same(s)}
<1>0. DOMAIN parsed = P /\ IsFiniteSet(P)
  BY GraphAssumption, FS_Subset
<1>1. SUFFICES ASSUME B # {} PROVE FALSE
  OBVIOUS
<1>2. B \in SUBSET (SUBSET P)
  OBVIOUS
<1>. HIDE DEF B
<1>3. PICK s \in B : \A x \in s : s \ {x} \notin B
  BY <1>0, <1>1, <1>2, MinimalSubset
<1>4. s \in SUBSET P /\ ~Same(s)
  BY <1>3 DEF B
<1>5. s # {}
  <2>1. f[{}] = g /\ k[{}] = h /\ ~Says({}, parsed, t)
    BY <1>0 DEF Loop, Says
  <2>2. QED  BY <1>4, <2>1
<1>6. PICK x : x = CHOOSE n \in s : TRUE
  OBVIOUS
<1>7. PICK r : r = s \ {x}
  OBVIOUS
<1>8. /\ x \in s /\ x \in rows /\ parsed[x] \in Page
      /\ f[s] = RebuildNote(f[r], rows, x, parsed[x])
      /\ k[s] = RebuildNote(k[r], rows, x, parsed[x])
  BY <1>0, <1>4, <1>5, <1>6, <1>7 DEF Loop
<1>9. Same(r) /\ Fine(f[r], rows) /\ Fine(k[r], rows)
  BY <1>0, <1>3, <1>4, <1>7, <1>8 DEF B, Loop
<1>10. Fine(f[r], rows \ {x}) /\ Fine(k[r], rows \ {x})
  BY <1>9 DEF Fine
<1>11. Says(s, parsed, t) <=> t = x \/ (\E e \in LinksFrom(x, parsed[x]) : e[2] = t) \/ Says(r, parsed, t)
  BY <1>7, <1>8 DEF Says
<1>a. ASSUME NEW a, Fine(a, rows \ {x}), NEW b, b = RebuildNote(a, rows, x, parsed[x])
      PROVE  /\ t = x => b.node[t] = "note"
             /\ t # x => b.node[t] = IF \E e \in LinksFrom(x, parsed[x]) : e[2] = t
                                     THEN (IF t \in rows THEN "note" ELSE "entity") ELSE a.node[t]
  <2>1. PICK file \in Page : file = parsed[x]
    BY <1>8
  <2>2. b = RebuildNote(a, rows, x, file) /\ x \in rows
    BY <1>8, <1>a, <2>1
  <2>3. Redrawn(b, a, rows, x, file)
    BY <1>a, <2>2, NoteRedrawn
  <2>4. QED  BY <2>1, <2>3 DEF Redrawn
<1>12. CASE t = x
  <2>1. f[s].node[t] = "note" /\ k[s].node[t] = "note"
    BY <1>8, <1>10, <1>12, <1>a
  <2>2. QED  BY <1>4, <1>11, <1>12, <2>1
<1>13. CASE t # x /\ \E e \in LinksFrom(x, parsed[x]) : e[2] = t
  <2>1. PICK type : type = IF t \in rows THEN "note" ELSE "entity"
    OBVIOUS
  <2>2. f[s].node[t] = type /\ k[s].node[t] = type
    BY <1>8, <1>10, <1>13, <2>1, <1>a
  <2>3. QED  BY <1>4, <1>11, <1>13, <2>2
<1>14. CASE t # x /\ ~\E e \in LinksFrom(x, parsed[x]) : e[2] = t
  <2>1. f[s].node[t] = f[r].node[t] /\ k[s].node[t] = k[r].node[t]
    BY <1>8, <1>10, <1>14, <1>a
  <2>2. QED  BY <1>4, <1>9, <1>11, <1>14, <2>1
<1>15. QED  BY <1>12, <1>13, <1>14

\* Graph h is graph g without the entities nothing points at.
PrunedTo(h, g, rows) ==
    /\ Fine(h, rows) /\ h.edge = g.edge
    /\ \A t \in Targets :
          h.node[t] = IF g.node[t] = "entity" /\ \A e \in g.edge : e[1] # t /\ e[2] # t
                      THEN "none" ELSE g.node[t]

\* Pruning takes no edge.
LEMMA PrunedFacts ==
    ASSUME NEW rows \in SUBSET GraphNotes, NEW g, Fine(g, rows), NEW h, h = Pruned(g)
    PROVE  PrunedTo(h, g, rows)
<1>1. PICK kept : kept = {e \in g.edge : g.node[e[2]] # "none"}
  OBVIOUS
<1>2. kept = g.edge
  BY <1>1 DEF Fine
<1>3. PICK types : types = [t \in Targets |->
            IF g.node[t] = "entity" /\ t \notin {e[1] : e \in kept} \cup {e[2] : e \in kept}
            THEN "none" ELSE g.node[t]]
  OBVIOUS
<1>4. h = [edge |-> kept, node |-> types]
  BY <1>1, <1>3 DEF Pruned
<1>5. \A t \in Targets :
          types[t] = IF g.node[t] = "entity" /\ \A e \in g.edge : e[1] # t /\ e[2] # t
                     THEN "none" ELSE g.node[t]
  BY <1>2, <1>3
<1>6. types \in [Targets -> {"none", "note", "entity"}]
  <2>1. \A t \in Targets : types[t] \in {"none", "note", "entity"}
    BY <1>5 DEF Fine, Shapes
  <2>2. QED  BY <1>3, <2>1
<1>7. h \in Shapes
  BY <1>2, <1>4, <1>6 DEF Fine, Shapes
<1>8. ASSUME NEW e \in g.edge PROVE types[e[2]] # "none"
  <2>1. e[2] \in Targets
    BY DEF Fine, Shapes
  <2>2. QED  BY <1>5, <2>1 DEF Fine
<1>9. QED
  <2>1. h.edge = g.edge /\ h.node = types
    BY <1>2, <1>4
  <2>3. \A n \in rows : types[n] = "note"
    BY <1>5 DEF Fine, Targets
  <2>4. QED  BY <1>5, <1>7, <1>8, <2>1, <2>3 DEF Fine, PrunedTo

\* What a rebuild makes of a graph, and that a second one changes nothing.
LEMMA RebuiltOnce ==
    ASSUME NEW rows \in SUBSET GraphNotes, NEW P \in SUBSET rows, NEW parsed \in [P -> Page],
           NEW g, Fine(g, rows), NEW once, once = Rebuilt(g, rows, parsed)
    PROVE  /\ Fine(once, rows) /\ Drew(once, g, P, parsed)
           /\ Rebuilt(once, rows, parsed) = once
<1>0. DOMAIN parsed = P
  OBVIOUS
<1>. DEFINE links == UNION {LinksFrom(n, parsed[n]) : n \in P}
<1>1. PICK f : Loop(f, g, rows, parsed) /\ once = Pruned(f[P])
  BY LoopRebuilds
<1>2. PICK h : h = f[P]
  OBVIOUS
<1>3. Fine(h, rows) /\ h.edge = {e \in g.edge : e[1] \notin P} \cup links
  <2>1. h.edge = {e \in g.edge : e[1] \notin P} \cup links
    <3>1. Drew(f[P], g, P, parsed)
      BY <1>1, LoopEdges
    <3>2. QED  BY <1>2, <3>1 DEF Drew
  <2>2. QED  BY <1>0, <1>1, <1>2, <2>1 DEF Loop
<1>4. /\ Fine(once, rows) /\ once.edge = h.edge
      /\ \A t \in Targets :
            once.node[t] = IF h.node[t] = "entity" /\ \A e \in h.edge : e[1] # t /\ e[2] # t
                           THEN "none" ELSE h.node[t]
  <2>1. PrunedTo(once, h, rows)
    BY <1>1, <1>2, <1>3, PrunedFacts
  <2>2. QED  BY <2>1 DEF PrunedTo
<1>5. PICK twice : twice = Rebuilt(once, rows, parsed)
  OBVIOUS
<1>6. PICK k : Loop(k, once, rows, parsed) /\ twice = Pruned(k[P])
  BY <1>4, <1>5, LoopRebuilds
<1>7. PICK j : j = k[P]
  OBVIOUS
<1>8. Fine(j, rows) /\ j.edge = {e \in once.edge : e[1] \notin P} \cup links
  <2>1. j.edge = {e \in once.edge : e[1] \notin P} \cup links
    <3>1. Drew(k[P], once, P, parsed)
      BY <1>4, <1>6, LoopEdges
    <3>2. QED  BY <1>7, <3>1 DEF Drew
  <2>2. QED  BY <1>0, <1>6, <1>7, <2>1 DEF Loop
<1>9. /\ Fine(twice, rows) /\ twice.edge = j.edge
      /\ \A t \in Targets :
            twice.node[t] = IF j.node[t] = "entity" /\ \A e \in j.edge : e[1] # t /\ e[2] # t
                            THEN "none" ELSE j.node[t]
  <2>1. PrunedTo(twice, j, rows)
    BY <1>6, <1>7, <1>8, PrunedFacts
  <2>2. QED  BY <2>1 DEF PrunedTo
<1>10. \A e \in links : e[1] \in P
  <2>1. ASSUME NEW n \in P, NEW e \in LinksFrom(n, parsed[n]) PROVE e[1] \in P
    BY LinkFacts
  <2>2. QED  BY <2>1
<1>11. j.edge = h.edge
  BY <1>3, <1>4, <1>8, <1>10
<1>12. ASSUME NEW t \in Targets PROVE twice.node[t] = once.node[t]
  <2>1. IF Says(P, parsed, t) THEN h.node[t] = j.node[t] ELSE h.node[t] = g.node[t] /\ j.node[t] = once.node[t]
    BY <1>1, <1>2, <1>4, <1>6, <1>7, LoopNodes
  <2>2. CASE Says(P, parsed, t)
    BY <1>4, <1>9, <1>11, <2>1, <2>2
  <2>3. CASE ~Says(P, parsed, t)
    BY <1>4, <1>9, <1>11, <2>1, <2>3
  <2>4. QED  BY <2>2, <2>3
<1>13. twice = once
  <2>1. twice \in Shapes /\ once \in Shapes
    BY <1>4, <1>9 DEF Fine
  <2>2. twice.edge = once.edge
    BY <1>4, <1>9, <1>11
  <2>3. twice.node = once.node
    BY <1>12, <2>1 DEF Shapes
  <2>4. QED  BY <2>1, <2>2, <2>3 DEF Shapes
<1>14. Drew(once, g, P, parsed)
  BY <1>3, <1>4 DEF Drew
<1>15. QED  BY <1>4, <1>5, <1>13, <1>14

-----------------------------------------------------------------------------
(* The graph and the pages: the inductive invariant.                       *)

\* Texts of a page are told apart by their version, jobs only add links to
\* one, and its row has a text it has had.
PagesOK ==
    /\ wiki \in [GraphNotes -> Page] /\ synced \in [GraphNotes -> Page]
    /\ edits \in 0..GraphEditBound
    /\ \A n \in GraphNotes :
          /\ wiki[n].ver <= edits /\ synced[n].ver <= edits
          /\ wiki[n].ver = 0 => wiki[n] = Gone
          /\ synced[n].ver = 0 => synced[n] = Gone
          /\ synced[n] # Gone /\ synced[n].ver = wiki[n].ver => synced[n].links \subseteq wiki[n].links

\* A rebuild holds the lock from its first statement to its last, and what it
\* has parsed of a note is not older than the row.
RebuildOK ==
    /\ rebuild.pc = "parse" <=> lock = "rebuild"
    /\ rebuild = NoRebuild \/
          /\ rebuild = [pc |-> "parse", rows |-> rebuild.rows, parsed |-> rebuild.parsed]
          /\ rebuild.rows \subseteq Rows /\ DOMAIN rebuild.parsed \subseteq Rows
          /\ rebuild.parsed \in [DOMAIN rebuild.parsed -> Page]
          /\ \A n \in DOMAIN rebuild.parsed : synced[n] = wiki[n] => rebuild.parsed[n] = wiki[n]

Own(n) == {e \in edge : e[1] = n /\ e[3] # "evidence_for"}

DrawnOK ==
    /\ Fine(Graph, Rows)
    /\ \A n \in Rows : synced[n] = wiki[n] => Own(n) = LinksFrom(n, wiki[n])

BooksOK ==
    /\ lock \in {"none", "rebuild", "backfill"}
    /\ backfill.at \subseteq GraphNotes /\ scanned \subseteq GraphNotes
    /\ backfill = [pc |-> backfill.pc, todo |-> backfill.todo, at |-> backfill.at]
    /\ merges \subseteq GraphNotes \X GraphNotes
    /\ stops \in 0..GraphStopBound

GraphInv == PagesOK /\ RebuildOK /\ DrawnOK /\ BooksOK

LEMMA GoneFacts ==
    /\ Gone \in Page /\ Gone.ver = 0 /\ Gone.links = {}
    /\ NoRebuild.pc = "idle" /\ NoBackfill.at = {}
BY GraphAssumption DEF Gone, Page, NoRebuild, NoBackfill

LEMMA GraphInvImplies == GraphInv => GraphTypeOK /\ GraphConsistent
<1>. SUFFICES ASSUME GraphInv PROVE GraphTypeOK /\ GraphConsistent
  OBVIOUS
<1>1. GraphTypeOK
  <2>1. \A n \in GraphNotes : wiki[n].links \subseteq Targets \X Relations /\ wiki[n].ver \in 0..GraphEditBound
    BY DEF GraphInv, PagesOK, Page
  <2>2. node \in [Targets -> {"none", "note", "entity"}]
        /\ edge \subseteq GraphNotes \X Targets \X (Relations \cup {"evidence_for"})
    BY DEF GraphInv, DrawnOK, Fine, Shapes, Graph
  <2>3. QED  BY <2>1, <2>2 DEF GraphInv, BooksOK, GraphTypeOK
<1>2. GraphFollowsPages
  BY DEF GraphInv, DrawnOK, Own, Fine, Graph, GraphFollowsPages
<1>3. RebuildSafeToRerun
  <2>1. SUFFICES ASSUME rebuild.pc = "parse"
                 PROVE  Rebuilt(Rebuilt(Graph, Rows, rebuild.parsed), Rows, rebuild.parsed)
                            = Rebuilt(Graph, Rows, rebuild.parsed)
    BY DEF RebuildSafeToRerun
  <2>2. PICK rows \in SUBSET GraphNotes : rows = Rows
    BY DEF Rows
  <2>3. PICK parsed, P : parsed = rebuild.parsed /\ P = DOMAIN parsed
    OBVIOUS
  <2>4. P \in SUBSET rows /\ parsed \in [P -> Page]
    BY <2>1, <2>2, <2>3, GoneFacts DEF GraphInv, RebuildOK
  <2>5. PICK g : g = Graph
    OBVIOUS
  <2>6. Fine(g, rows)
    BY <2>2, <2>5 DEF GraphInv, DrawnOK
  <2>7. PICK once : once = Rebuilt(g, rows, parsed)
    OBVIOUS
  <2>8. Rebuilt(once, rows, parsed) = once
    BY <2>4, <2>6, <2>7, RebuiltOnce
  <2>9. QED  BY <2>2, <2>3, <2>5, <2>7, <2>8
<1>4. QED  BY <1>1, <1>2, <1>3 DEF GraphConsistent

LEMMA GraphInvInit == GraphInit => GraphInv
<1>. SUFFICES ASSUME GraphInit PROVE GraphInv
  OBVIOUS
<1>1. PagesOK
  BY GoneFacts, GraphAssumption DEF GraphInit, PagesOK
<1>2. RebuildOK
  BY GoneFacts DEF GraphInit, RebuildOK
<1>3. Rows = {}
  BY DEF GraphInit, Rows
<1>4. DrawnOK
  BY <1>3 DEF GraphInit, DrawnOK, Fine, Shapes, Graph
<1>5. BooksOK
  BY GoneFacts, GraphAssumption DEF GraphInit, BooksOK, NoBackfill
<1>6. QED  BY <1>1, <1>2, <1>4, <1>5 DEF GraphInv

-----------------------------------------------------------------------------
(* The steps.                                                              *)

\* A page gets another text, or loses it: not the text its row has.
LEMMA PageChanges ==
    ASSUME GraphInv, NEW n \in GraphNotes, NEW q \in Page, wiki' = [wiki EXCEPT ![n] = q],
           edits' \in 0..GraphEditBound, edits <= edits',
           UNCHANGED <<synced, node, edge, lock, rebuild>>, BooksOK',
           q.ver <= edits', q.ver = 0 => q = Gone, synced[n] # Gone => synced[n] # q,
           synced[n] # Gone /\ synced[n].ver = q.ver => synced[n].links \subseteq q.links
    PROVE  GraphInv'
<1>1. /\ wiki'[n] = q /\ \A m \in GraphNotes \ {n} : wiki'[m] = wiki[m]
      /\ wiki' \in [GraphNotes -> Page]
  BY DEF GraphInv, PagesOK
<1>2. PagesOK'
  <2>1. ASSUME NEW m \in GraphNotes
        PROVE  /\ wiki'[m].ver <= edits' /\ synced[m].ver <= edits'
               /\ wiki'[m].ver = 0 => wiki'[m] = Gone
               /\ synced[m] # Gone /\ synced[m].ver = wiki'[m].ver => synced[m].links \subseteq wiki'[m].links
    <3>1. synced[m].ver <= edits' /\ wiki[m].ver <= edits'
      <4>1. synced[m].ver \in Int /\ wiki[m].ver \in Int /\ edits \in Int /\ edits' \in Int
        BY GraphAssumption DEF GraphInv, PagesOK, Page
      <4>2. QED  BY <4>1 DEF GraphInv, PagesOK
    <3>2. CASE m = n
      BY <1>1, <3>1, <3>2
    <3>3. CASE m # n
      BY <1>1, <3>1, <3>3 DEF GraphInv, PagesOK
    <3>4. QED  BY <3>2, <3>3
  <2>2. QED  BY <1>1, <2>1 DEF GraphInv, PagesOK, Page, Targets, Relations
<1>3. Rows' = Rows /\ Rows \subseteq GraphNotes
  BY DEF Rows
<1>4. \A m \in Rows : synced[m] = wiki'[m] => m # n /\ synced[m] = wiki[m] /\ wiki'[m] = wiki[m]
  BY <1>1 DEF Rows
<1>5. RebuildOK'
  BY <1>3, <1>4 DEF GraphInv, RebuildOK
<1>6. DrawnOK'
  <2>1. Fine(Graph, Rows)'
    BY <1>3 DEF GraphInv, DrawnOK, Fine, Shapes, Graph
  <2>2. \A m \in Rows : synced[m] = wiki'[m] => Own(m)' = LinksFrom(m, wiki'[m])
    BY <1>4 DEF GraphInv, DrawnOK, Own
  <2>3. QED  BY <1>3, <2>1, <2>2 DEF DrawnOK
<1>7. QED  BY <1>2, <1>5, <1>6 DEF GraphInv

LEMMA EditPageKeeps ==
    ASSUME GraphInv, NEW n \in GraphNotes, NEW ends \in LinkChoices, EditPage(n, ends)
    PROVE  GraphInv'
<1>1. PICK q : q = [ver |-> edits + 1,
                    links |-> {l \in wiki[n].links : l[2] = "similar_to"} \cup (ends \X {"related"})]
  OBVIOUS
<1>2. edits \in Nat /\ edits + 1 \in 0..GraphEditBound /\ wiki \in [GraphNotes -> Page]
  BY GraphAssumption DEF GraphInv, PagesOK, EditPage
<1>3. q \in Page
  BY <1>1, <1>2, GraphAssumption DEF Page, Targets, Relations
<1>4. wiki' = [wiki EXCEPT ![n] = q]
  BY <1>1, <1>2 DEF EditPage
<1>5. synced[n].ver <= edits /\ synced[n].ver \in Int
  BY GraphAssumption DEF GraphInv, PagesOK, Page
<1>6. q.ver = edits + 1 /\ synced[n].ver # q.ver
  BY <1>1, <1>2, <1>5
<1>7. BooksOK'
  BY DEF GraphInv, BooksOK, EditPage
<1>8. q.ver <= edits' /\ q.ver # 0 /\ edits <= edits'
  BY <1>2, <1>6 DEF EditPage
<1>9. QED  BY <1>2, <1>3, <1>4, <1>6, <1>7, <1>8, PageChanges DEF EditPage

LEMMA RemovePageKeeps ==
    ASSUME GraphInv, NEW n \in GraphNotes, RemovePage(n)
    PROVE  GraphInv'
<1>1. edits \in Nat /\ edits' \in 0..GraphEditBound /\ edits <= edits'
  BY GraphAssumption DEF GraphInv, PagesOK, RemovePage
<1>2. BooksOK'
  BY DEF GraphInv, BooksOK, RemovePage
<1>3. synced[n].ver = 0 => synced[n] = Gone
  BY DEF GraphInv, PagesOK
<1>4. Gone.ver <= edits'
  BY <1>1, GoneFacts
<1>5. QED  BY <1>1, <1>2, <1>3, <1>4, GoneFacts, PageChanges DEF RemovePage

LEMMA PassLinksKeeps ==
    ASSUME GraphInv, NEW n \in GraphNotes, PassLinks(n)
    PROVE  GraphInv'
<1>1. PICK new : new = {<<m, "similar_to">> : m \in Neighbours(n)} \ wiki[n].links
  OBVIOUS
<1>2. PICK q : q = [wiki[n] EXCEPT !.links = @ \cup new]
  OBVIOUS
<1>3. Neighbours(n) \subseteq GraphNotes
  BY DEF Neighbours, Rows
<1>4. wiki[n] \in Page /\ edits \in Nat /\ edits \in 0..GraphEditBound
  BY GraphAssumption DEF GraphInv, PagesOK
<1>5. q \in Page /\ q.ver = wiki[n].ver /\ q.links = wiki[n].links \cup new
  <2>1. new \subseteq Targets \X Relations
    BY <1>1, <1>3 DEF Targets, Relations
  <2>2. QED  BY <1>2, <1>4, <2>1 DEF Page
<1>6. BooksOK'
  <2>1. merges' = merges \cup {<<n, m>> : m \in {m \in Neighbours(n) : {n, m} \in Duplicate}}
    BY DEF PassLinks
  <2>2. merges' \subseteq GraphNotes \X GraphNotes
    <3>1. PICK d : d = {m \in Neighbours(n) : {n, m} \in Duplicate}
      OBVIOUS
    <3>2. d \subseteq GraphNotes /\ merges' = merges \cup {<<n, m>> : m \in d}
      BY <1>3, <2>1, <3>1
    <3>3. QED  BY <3>2 DEF GraphInv, BooksOK
  <2>3. backfill' = [pc |-> "record", todo |-> backfill.todo \ {n}, at |-> {n}]
        /\ UNCHANGED <<lock, scanned, stops>>
    BY DEF PassLinks
  <2>4. QED  BY <2>2, <2>3 DEF GraphInv, BooksOK
<1>7. CASE wiki' = wiki
  <2>1. PICK p : p = wiki[n]
    OBVIOUS
  <2>2. Rows' = Rows
    BY DEF Rows, PassLinks
  <2>3. PagesOK'
    BY <1>7 DEF GraphInv, PagesOK, PassLinks, Page, Targets, Relations
  <2>4. RebuildOK'
    BY <1>7, <2>2 DEF GraphInv, RebuildOK, PassLinks
  <2>5. DrawnOK'
    BY <1>7, <2>2 DEF GraphInv, DrawnOK, PassLinks, Fine, Shapes, Graph, Own
  <2>6. QED  BY <1>6, <2>3, <2>4, <2>5 DEF GraphInv
<1>8. CASE wiki' # wiki
  <2>1. wiki' = [wiki EXCEPT ![n] = q] /\ wiki[n] # Gone /\ new # {}
    BY <1>1, <1>2, <1>8 DEF PassLinks
  <2>2. q.ver # 0
    BY <1>5, <2>1 DEF GraphInv, PagesOK
  <2>3. q.ver <= edits
    BY <1>5 DEF GraphInv, PagesOK
  <2>4. synced[n] # Gone /\ synced[n].ver = q.ver => synced[n].links \subseteq wiki[n].links
    BY <1>5 DEF GraphInv, PagesOK
  <2>5. ~(q.links \subseteq wiki[n].links)
    BY <1>1, <1>5, <2>1
  <2>6. synced[n] # Gone => synced[n] # q
    BY <2>4, <2>5
  <2>7. synced[n] # Gone /\ synced[n].ver = q.ver => synced[n].links \subseteq q.links
    BY <1>5, <2>4
  <2>8. UNCHANGED <<synced, node, edge, lock, rebuild>> /\ edits' = edits /\ edits <= edits
    BY <1>4 DEF PassLinks
  <2>9. QED  BY <1>4, <1>5, <1>6, <2>1, <2>2, <2>3, <2>6, <2>7, <2>8, PageChanges
<1>9. QED  BY <1>7, <1>8

\* A step that leaves pages, rows and graph alone.
LEMMA GraphLeftAlone ==
    ASSUME GraphInv, UNCHANGED <<wiki, synced, node, edge, edits>>, RebuildOK', BooksOK'
    PROVE  GraphInv'
<1>1. Rows' = Rows
  BY DEF Rows
<1>2. PagesOK'
  BY DEF GraphInv, PagesOK, Page, Targets, Relations
<1>3. DrawnOK'
  BY <1>1 DEF GraphInv, DrawnOK, Fine, Shapes, Graph, Own
<1>4. QED  BY <1>2, <1>3 DEF GraphInv

LEMMA SyncPageKeeps ==
    ASSUME GraphInv, NEW n \in GraphNotes, SyncPage(n)
    PROVE  GraphInv'
<1>1. /\ rebuild = NoRebuild /\ lock = "none"
      /\ synced' = [synced EXCEPT ![n] = wiki[n]]
      /\ synced \in [GraphNotes -> Page] /\ wiki[n] \in Page
  BY GoneFacts DEF SyncPage, GraphInv, RebuildOK, PagesOK
<1>2. PagesOK'
  <2>1. synced' \in [GraphNotes -> Page] /\ synced'[n] = wiki[n]
        /\ \A m \in GraphNotes \ {n} : synced'[m] = synced[m]
    BY <1>1
  <2>2. QED  BY <2>1 DEF SyncPage, GraphInv, PagesOK, Page, Targets, Relations
<1>3. RebuildOK'
  BY <1>1 DEF SyncPage, RebuildOK, GraphInv
<1>4. BooksOK'
  BY DEF SyncPage, BooksOK, GraphInv
<1>5. PICK g : g = Graph
  OBVIOUS
<1>6. g.node = node /\ g.edge = edge /\ Fine(g, Rows)
  BY <1>5 DEF GraphInv, DrawnOK, Graph
<1>7. CASE wiki[n] = Gone
  <2>1. Rows' = Rows \ {n}
    BY <1>1, <1>7 DEF Rows
  <2>2. PICK left : left = {e \in edge : e[1] # n}
    OBVIOUS
  <2>3. PICK type : type = IF node[n] # "none" /\ \E e \in left : e[2] = n THEN "entity" ELSE "none"
    OBVIOUS
  <2>4. edge' = left /\ node' = [node EXCEPT ![n] = type]
    BY <1>5, <1>6, <1>7, <2>2, <2>3 DEF SyncPage, Becomes, DropNote
  <2>5. node \in [Targets -> {"none", "note", "entity"}] /\ n \in Targets
        /\ edge \subseteq GraphNotes \X Targets \X (Relations \cup {"evidence_for"})
    BY <1>6 DEF Fine, Shapes, Targets
  <2>6. node'[n] = type /\ \A t \in Targets \ {n} : node'[t] = node[t]
    BY <2>4, <2>5
  <2>7. ASSUME NEW e \in edge' PROVE node'[e[2]] # "none"
    <3>1. e \in edge /\ e[2] \in Targets /\ node[e[2]] # "none"
      BY <1>6, <2>2, <2>4, <2>5 DEF Fine
    <3>2. CASE e[2] = n
      BY <2>3, <2>4, <2>6, <3>1, <3>2
    <3>3. CASE e[2] # n
      BY <2>6, <3>1, <3>3
    <3>4. QED  BY <3>2, <3>3
  <2>8. Fine(Graph, Rows)'
    <3>1. \A m \in Rows \ {n} : m \in Targets /\ node[m] = "note"
      BY <1>6 DEF Fine, Rows, Targets
    <3>2. \A m \in Rows' : node'[m] = "note"
      BY <2>1, <2>6, <3>1
    <3>3. [node |-> node', edge |-> edge'] \in Shapes
      BY <2>2, <2>3, <2>4, <2>5 DEF Shapes
    <3>4. QED  BY <2>7, <3>2, <3>3 DEF Fine, Shapes, Graph, Targets, Relations
  <2>9. ASSUME NEW m \in Rows', synced'[m] = wiki'[m] PROVE Own(m)' = LinksFrom(m, wiki'[m])
    <3>1. m # n /\ m \in Rows /\ synced[m] = wiki[m] /\ wiki' = wiki
      BY <1>1, <2>1, <2>9 DEF Rows, SyncPage
    <3>2. Own(m)' = Own(m)
      BY <2>2, <2>4, <3>1 DEF Own
    <3>3. QED  BY <3>1, <3>2 DEF GraphInv, DrawnOK
  <2>10. QED  BY <1>2, <1>3, <1>4, <2>8, <2>9 DEF GraphInv, DrawnOK
<1>8. CASE wiki[n] # Gone
  <2>1. PICK rows \in SUBSET GraphNotes : rows = Rows \cup {n}
    BY DEF Rows
  <2>2. Rows' = rows
    BY <1>1, <1>8, <2>1 DEF Rows
  <2>3. PICK h : h = RebuildNote(g, rows, n, wiki[n])
    OBVIOUS
  <2>4. PICK file \in Page : file = wiki[n]
    BY <1>1
  <2>5. Redrawn(h, g, rows, n, file)
    <3>1. Fine(g, rows \ {n}) /\ n \in rows /\ h = RebuildNote(g, rows, n, file)
      BY <1>6, <2>1, <2>3, <2>4 DEF Fine
    <3>2. QED  BY <3>1, NoteRedrawn
  <2>6. edge' = h.edge /\ node' = h.node
    BY <1>5, <1>8, <2>1, <2>3 DEF SyncPage, Becomes
  <2>7. Fine(Graph, Rows)'
    BY <2>2, <2>5, <2>6 DEF Redrawn, Fine, Shapes, Graph, Targets, Relations
  <2>8. edge' = {e \in edge : e[1] # n} \cup LinksFrom(n, file)
    BY <1>6, <2>5, <2>6 DEF Redrawn
  <2>9. \A e \in LinksFrom(n, file) : e[1] = n /\ e[3] # "evidence_for"
    BY LinkFacts
  <2>10. ASSUME NEW m \in Rows', synced'[m] = wiki'[m] PROVE Own(m)' = LinksFrom(m, wiki'[m])
    <3>1. wiki' = wiki
      BY DEF SyncPage
    <3>2. CASE m = n
      BY <2>4, <2>8, <2>9, <3>1, <3>2 DEF Own
    <3>3. CASE m # n
      <4>1. m \in Rows /\ synced[m] = wiki[m]
        BY <1>1, <2>1, <2>2, <2>10, <3>1, <3>3 DEF Rows
      <4>2. Own(m)' = Own(m)
        BY <2>8, <2>9, <3>3 DEF Own
      <4>3. QED  BY <3>1, <4>1, <4>2 DEF GraphInv, DrawnOK
    <3>4. QED  BY <3>2, <3>3
  <2>11. QED  BY <1>2, <1>3, <1>4, <2>7, <2>10 DEF GraphInv, DrawnOK
<1>9. QED  BY <1>7, <1>8

LEMMA RebuildOpensKeeps ==
    ASSUME GraphInv, RebuildOpens
    PROVE  GraphInv'
<1>1. rebuild' = [pc |-> "parse", rows |-> Rows \ RetiredNotes, parsed |-> <<>>] /\ lock' = "rebuild"
  BY DEF RebuildOpens
<1>2. PICK none : none = <<>>
  OBVIOUS
<1>3. DOMAIN none = {} /\ none \in [{} -> Page]
  BY <1>2
<1>4. /\ rebuild'.pc = "parse" /\ rebuild'.rows = Rows \ RetiredNotes /\ rebuild'.parsed = none
      /\ rebuild' = [pc |-> "parse", rows |-> rebuild'.rows, parsed |-> rebuild'.parsed]
  BY <1>1, <1>2
<1>5. DOMAIN rebuild'.parsed = {} /\ rebuild'.parsed \in [{} -> Page]
  BY <1>3, <1>4
<1>6. Rows' = Rows
  BY DEF Rows, RebuildOpens
<1>7. RebuildOK'
  BY <1>1, <1>4, <1>5, <1>6 DEF RebuildOK, Page, Targets, Relations
<1>8. BooksOK'
  BY DEF GraphInv, BooksOK, RebuildOpens
<1>9. QED  BY <1>7, <1>8, GraphLeftAlone DEF RebuildOpens

LEMMA RebuildParsesKeeps ==
    ASSUME GraphInv, NEW n \in GraphNotes, RebuildParses(n)
    PROVE  GraphInv'
<1>1. /\ rebuild = [pc |-> "parse", rows |-> rebuild.rows, parsed |-> rebuild.parsed]
      /\ rebuild.rows \subseteq Rows /\ DOMAIN rebuild.parsed \subseteq Rows
      /\ rebuild.parsed \in [DOMAIN rebuild.parsed -> Page] /\ n \in Rows
      /\ \A m \in DOMAIN rebuild.parsed : synced[m] = wiki[m] => rebuild.parsed[m] = wiki[m]
  BY GoneFacts DEF GraphInv, RebuildOK, RebuildParses
<1>2. PICK P, old : P = DOMAIN rebuild.parsed /\ old = rebuild.parsed
  OBVIOUS
<1>3. PICK parsed : parsed = IF wiki[n] = Gone THEN old
                             ELSE [m \in P \cup {n} |-> IF m = n THEN wiki[n] ELSE old[m]]
  OBVIOUS
<1>4. rebuild' = [pc |-> "parse", rows |-> rebuild.rows \ {n}, parsed |-> parsed]
  BY <1>1, <1>2, <1>3 DEF RebuildParses
<1>5. wiki[n] \in Page
  BY DEF GraphInv, PagesOK
<1>6. /\ DOMAIN parsed \subseteq Rows /\ parsed \in [DOMAIN parsed -> Page]
      /\ \A m \in DOMAIN parsed : synced[m] = wiki[m] => parsed[m] = wiki[m]
  <2>1. CASE wiki[n] = Gone
    BY <1>1, <1>2, <1>3, <2>1
  <2>2. CASE wiki[n] # Gone
    <3>1. parsed = [m \in P \cup {n} |-> IF m = n THEN wiki[n] ELSE old[m]]
      BY <1>3, <2>2
    <3>2. QED  BY <1>1, <1>2, <1>5, <3>1
  <2>3. QED  BY <2>1, <2>2
<1>7. /\ rebuild'.pc = "parse" /\ rebuild'.rows = rebuild.rows \ {n} /\ rebuild'.parsed = parsed
      /\ rebuild' = [pc |-> "parse", rows |-> rebuild'.rows, parsed |-> rebuild'.parsed]
  BY <1>4
<1>8. Rows' = Rows /\ lock' = "rebuild" /\ UNCHANGED <<synced, wiki>>
  BY DEF Rows, RebuildParses, GraphInv, RebuildOK
<1>9. RebuildOK'
  BY <1>1, <1>6, <1>7, <1>8 DEF RebuildOK, Page, Targets, Relations
<1>10. BooksOK'
  BY DEF GraphInv, BooksOK, RebuildParses
<1>11. QED  BY <1>9, <1>10, GraphLeftAlone DEF RebuildParses

LEMMA RebuildAppliesKeeps ==
    ASSUME GraphInv, RebuildApplies
    PROVE  GraphInv'
<1>1. PICK rows \in SUBSET GraphNotes : rows = Rows
  BY DEF Rows
<1>2. PICK parsed, P : parsed = rebuild.parsed /\ P = DOMAIN parsed
  OBVIOUS
<1>3. /\ P \in SUBSET rows /\ parsed \in [P -> Page]
      /\ \A n \in P : synced[n] = wiki[n] => parsed[n] = wiki[n]
  BY <1>1, <1>2, GoneFacts DEF GraphInv, RebuildOK, RebuildApplies
<1>4. PICK g : g = Graph
  OBVIOUS
<1>5. g.node = node /\ g.edge = edge /\ Fine(g, rows)
  BY <1>1, <1>4 DEF GraphInv, DrawnOK, Graph
<1>6. PICK once : once = Rebuilt(g, rows, parsed)
  OBVIOUS
<1>7. /\ Fine(once, rows)
      /\ once.edge = {e \in edge : e[1] \notin P} \cup UNION {LinksFrom(n, parsed[n]) : n \in P}
  <2>1. Fine(once, rows) /\ Drew(once, g, P, parsed)
    BY <1>3, <1>5, <1>6, RebuiltOnce
  <2>2. QED  BY <1>5, <2>1 DEF Drew
<1>8. node' = once.node /\ edge' = once.edge
  BY <1>1, <1>2, <1>4, <1>6 DEF RebuildApplies, Becomes
<1>9. Rows' = rows /\ UNCHANGED <<wiki, synced, edits>>
  BY <1>1 DEF Rows, RebuildApplies
<1>10. PagesOK'
  BY <1>9 DEF GraphInv, PagesOK, Page, Targets, Relations
<1>11. RebuildOK'
  BY GoneFacts DEF RebuildOK, RebuildApplies
<1>12. BooksOK'
  BY DEF GraphInv, BooksOK, RebuildApplies
<1>13. Fine(Graph, Rows)'
  BY <1>7, <1>8, <1>9 DEF Fine, Shapes, Graph, Targets, Relations
<1>14. ASSUME NEW n \in rows, synced[n] = wiki[n] PROVE Own(n)' = LinksFrom(n, wiki[n])
  <2>1. \A m \in P : \A e \in LinksFrom(m, parsed[m]) : e[1] = m /\ e[3] # "evidence_for"
    BY <1>3, LinkFacts
  <2>2. CASE n \in P
    <3>1. parsed[n] = wiki[n]
      BY <1>3, <1>14, <2>2
    <3>2. Own(n)' = LinksFrom(n, parsed[n])
      BY <1>7, <1>8, <2>1, <2>2 DEF Own
    <3>3. QED  BY <3>1, <3>2
  <2>3. CASE n \notin P
    <3>1. Own(n)' = Own(n)
      BY <1>7, <1>8, <2>1, <2>3 DEF Own
    <3>2. QED  BY <1>1, <1>14, <3>1 DEF GraphInv, DrawnOK
  <2>4. QED  BY <2>2, <2>3
<1>15. QED  BY <1>9, <1>10, <1>11, <1>12, <1>13, <1>14 DEF GraphInv, DrawnOK

LEMMA DiscoverKeeps ==
    ASSUME GraphInv, DiscoverPatterns
    PROVE  GraphInv'
<1>1. PICK found : found = ((Failures \cap Rows) \ RetiredNotes) \X ((Resolutions \cap Rows) \ RetiredNotes)
  OBVIOUS
<1>2. PICK new : new = {<<f[1], f[2], "evidence_for">> : f \in found}
  OBVIOUS
<1>3. edge' = edge \cup new /\ node' = node /\ Rows' = Rows
  BY <1>1, <1>2 DEF DiscoverPatterns, Rows
<1>4. \A e \in new : e \in GraphNotes \X Targets \X (Relations \cup {"evidence_for"})
                     /\ e[2] \in Rows /\ e[3] = "evidence_for"
  <2>1. \A f \in found : f[1] \in Rows /\ f[2] \in Rows
    BY <1>1
  <2>2. Rows \subseteq GraphNotes /\ Rows \subseteq Targets
    BY DEF Rows, Targets
  <2>3. QED  BY <1>2, <2>1, <2>2
<1>5. Fine(Graph, Rows)'
  <2>1. [node |-> node, edge |-> edge'] \in Shapes
    BY <1>3, <1>4 DEF GraphInv, DrawnOK, Fine, Shapes, Graph
  <2>2. \A e \in edge' : node[e[2]] # "none"
    BY <1>3, <1>4 DEF GraphInv, DrawnOK, Fine, Graph
  <2>3. \A n \in Rows : node[n] = "note"
    BY DEF GraphInv, DrawnOK, Fine, Graph
  <2>4. QED  BY <1>3, <2>1, <2>2, <2>3 DEF Fine, Shapes, Graph, Targets, Relations
<1>6. \A n \in Rows : Own(n)' = Own(n)
  BY <1>3, <1>4 DEF Own
<1>7. DrawnOK'
  BY <1>3, <1>5, <1>6 DEF GraphInv, DrawnOK, DiscoverPatterns
<1>8. PagesOK'
  BY DEF GraphInv, PagesOK, Page, Targets, Relations, DiscoverPatterns
<1>9. RebuildOK'
  BY <1>3 DEF GraphInv, RebuildOK, DiscoverPatterns, Page, Targets, Relations
<1>10. BooksOK'
  BY DEF GraphInv, BooksOK, DiscoverPatterns
<1>11. QED  BY <1>7, <1>8, <1>9, <1>10 DEF GraphInv

\* A step that leaves the rebuild and the lock of one alone.
LEMMA NotTheRebuild ==
    ASSUME GraphInv, UNCHANGED <<wiki, synced, rebuild>>, lock = "rebuild" <=> lock' = "rebuild"
    PROVE  RebuildOK'
<1>1. Rows' = Rows
  BY DEF Rows
<1>2. QED  BY <1>1 DEF GraphInv, RebuildOK, Page, Targets, Relations

LEMMA BackfillKeeps ==
    ASSUME GraphInv, BackfillOpens \/ PassRecords \/ BackfillCloses \/ BackfillStops
    PROVE  GraphInv'
<1>. USE DEF GraphInv, BooksOK
<1>1. CASE BackfillOpens
  <2>1. BooksOK'
    BY <1>1 DEF BackfillOpens
  <2>2. RebuildOK'
    BY <1>1, NotTheRebuild DEF BackfillOpens
  <2>3. QED  BY <1>1, <2>1, <2>2, GraphLeftAlone DEF BackfillOpens
<1>2. CASE PassRecords
  <2>1. BooksOK'
    BY <1>2 DEF PassRecords
  <2>2. RebuildOK'
    BY <1>2, NotTheRebuild DEF PassRecords
  <2>3. QED  BY <1>2, <2>1, <2>2, GraphLeftAlone DEF PassRecords
<1>3. CASE BackfillCloses
  <2>1. BooksOK'
    BY <1>3, GoneFacts DEF BackfillCloses, NoBackfill
  <2>2. RebuildOK'
    BY <1>3, NotTheRebuild DEF BackfillCloses
  <2>3. QED  BY <1>3, <2>1, <2>2, GraphLeftAlone DEF BackfillCloses
<1>4. CASE BackfillStops
  <2>1. stops' \in 0..GraphStopBound
    BY <1>4, GraphAssumption DEF BackfillStops
  <2>2. BooksOK'
    BY <1>4, <2>1, GoneFacts DEF BackfillStops, NoBackfill
  <2>3. RebuildOK'
    BY <1>4, NotTheRebuild DEF BackfillStops
  <2>4. QED  BY <1>4, <2>2, <2>3, GraphLeftAlone DEF BackfillStops
<1>5. QED  BY <1>1, <1>2, <1>3, <1>4

LEMMA GraphStepKeeps == GraphInv /\ [GraphNext]_graphVars => GraphInv'
<1>. SUFFICES ASSUME GraphInv, [GraphNext]_graphVars PROVE GraphInv'
  OBVIOUS
<1>1. ASSUME NEW n \in GraphNotes,
             RemovePage(n) \/ SyncPage(n) \/ RebuildParses(n) \/ PassLinks(n)
                \/ \E ends \in LinkChoices : EditPage(n, ends)
      PROVE  GraphInv'
  BY <1>1, RemovePageKeeps, SyncPageKeeps, RebuildParsesKeeps, PassLinksKeeps, EditPageKeeps
<1>2. ASSUME NEW n \in GraphNotes, NEW m \in GraphNotes, ReportDuplicates(n, m) PROVE GraphInv'
  <2>1. BooksOK'
    BY <1>2 DEF ReportDuplicates, GraphInv, BooksOK
  <2>2. RebuildOK'
    BY <1>2, NotTheRebuild DEF ReportDuplicates
  <2>3. QED  BY <1>2, <2>1, <2>2, GraphLeftAlone DEF ReportDuplicates
<1>3. CASE RebuildStops
  <2>1. stops' \in 0..GraphStopBound
    BY <1>3, GraphAssumption DEF RebuildStops, GraphInv, BooksOK
  <2>2. BooksOK'
    BY <1>3, <2>1 DEF RebuildStops, GraphInv, BooksOK
  <2>3. RebuildOK'
    BY <1>3, GoneFacts DEF RebuildStops, GraphInv, RebuildOK, BooksOK
  <2>4. QED  BY <1>3, <2>2, <2>3, GraphLeftAlone DEF RebuildStops
<1>4. CASE UNCHANGED graphVars
  <2>1. BooksOK'
    BY <1>4 DEF graphVars, GraphInv, BooksOK
  <2>2. RebuildOK'
    BY <1>4, NotTheRebuild DEF graphVars
  <2>3. QED  BY <1>4, <2>1, <2>2, GraphLeftAlone DEF graphVars
<1>5. QED
  BY <1>1, <1>2, <1>3, <1>4, RebuildOpensKeeps, RebuildAppliesKeeps, BackfillKeeps, DiscoverKeeps
     DEF GraphNext

\* The graph follows the pages it is drawn from, whatever jobs and editors did
\* in between, every edge ends at a node, and a rebuild can be run again
\* without a change: for any notes, links and interleaving of the jobs.
THEOREM GraphStaysConsistent == GraphSpec => [](GraphTypeOK /\ GraphConsistent)
<1>1. GraphInv => GraphTypeOK /\ GraphConsistent
  BY GraphInvImplies
<1>2. QED  BY <1>1, GraphInvInit, GraphStepKeeps, PTL DEF GraphSpec

-----------------------------------------------------------------------------
(* The signals: the inductive invariant.                                   *)

HitRow == [note : Knowledge \cup {Null}, useful : Labels]
QueryRow == [session : {Null}, useful : Labels, top1 : Labels, hits : [Ranks -> HitRow]]
TrustRow == [selected : Nat, top1 : Nat, top5 : Nat, useful : Nat, notUseful : Nat, failure : Nat]
Standings == {"good", "bad", "neutral", None}

\* A row of hits is of a note that has a row, or is none: the foreign keys.
HitsKnown(q, notes) == \A r \in Ranks : q.hits[r] = NoHit \/ q.hits[r].note \in notes

SignalsInv ==
    /\ known \subseteq Knowledge
    /\ queries \in Seq(QueryRow) /\ \A i \in 1..Len(queries) : HitsKnown(queries[i], known)
    /\ search \in [Tasks -> Seq(Knowledge)]
    /\ attributed \subseteq Attributions
    /\ feedback \in [Keys -> 0..FeedbackCap]
    /\ trust \in [Knowledge -> TrustRow] /\ importance \in [Knowledge -> Standings]
    /\ \A n \in Knowledge : n \notin known => trust[n] = NoTrust
    /\ weights \subseteq {"yes", "no"}
    /\ recorded \in 0..OutcomeBound

LEMMA NoHitFacts == NoHit \in HitRow /\ NoHit.note = Null /\ Null \notin Knowledge
BY SignalsAssumption DEF NoHit, HitRow, Labels

LEMMA HitFacts ==
    ASSUME SignalsInv, NEW i \in 1..Len(queries)
    PROVE  /\ queries[i] \in QueryRow
           /\ \A r \in HitRanks(queries[i]) :
                 r \in Ranks /\ queries[i].hits[r] \in HitRow /\ queries[i].hits[r].note \in known
<1>1. queries[i] \in QueryRow
  BY ElementOfSeq DEF SignalsInv
<1>2. QED  BY <1>1 DEF SignalsInv, HitsKnown, HitRanks, QueryRow

LEMMA AllHitsFacts ==
    ASSUME SignalsInv
    PROVE  /\ IsFiniteSet(AllHits)
           /\ \A h \in AllHits : /\ h[1] \in 1..Len(queries) /\ h[2] \in HitRanks(queries[h[1]])
                                 /\ queries[h[1]].hits[h[2]].note \in known
<1>1. DOMAIN queries = 1..Len(queries) /\ Len(queries) \in Nat
  BY LenProperties DEF SignalsInv
<1>2. \A h \in AllHits : h[1] \in 1..Len(queries) /\ h[2] \in HitRanks(queries[h[1]])
                         /\ h \in (1..Len(queries)) \X Ranks
  BY <1>1 DEF AllHits, HitRanks
<1>3. IsFiniteSet((1..Len(queries)) \X Ranks)
  <2>1. PICK l : l = Len(queries)
    OBVIOUS
  <2>2. IsFiniteSet(1..l) /\ IsFiniteSet(Ranks)
    <3>1. 1 \in Int /\ l \in Int /\ TopK \in Int
      BY <1>1, <2>1, SignalsAssumption
    <3>2. QED  BY <3>1, FS_Interval DEF Ranks
  <2>3. QED  BY <2>1, <2>2, FS_Product
<1>4. IsFiniteSet(AllHits)
  <2>1. AllHits \in SUBSET ((1..Len(queries)) \X Ranks)
    BY <1>2
  <2>2. QED  BY <1>3, <2>1, FS_Subset
<1>5. QED  BY <1>2, <1>4, HitFacts

-----------------------------------------------------------------------------
(* What a client reports.                                                  *)

LEMMA CoalesceTyped ==
    ASSUME NEW a \in Labels, NEW b \in Labels
    PROVE  Coalesce(a, b) \in Labels
BY DEF Coalesce

LEMMA LabelledTyped ==
    ASSUME NEW q \in QueryRow, NEW notes, HitsKnown(q, notes), NEW status,
           NEW useful \in SUBSET Knowledge, NEW misleading \in SUBSET Knowledge
    PROVE  /\ Labelled(q, status, useful, misleading) \in QueryRow
           /\ HitsKnown(Labelled(q, status, useful, misleading), notes)
<1>1. PICK top : top = IF HitRanks(q) = {} THEN "none"
                       ELSE IF q.hits[Min(HitRanks(q))].note \in useful THEN "yes"
                       ELSE IF useful # {} THEN "no" ELSE "none"
  OBVIOUS
<1>2. PICK said : said = CASE status = "success" -> "yes"
                           [] status = "failure" -> "no"
                           [] OTHER -> "none"
  OBVIOUS
<1>3. PICK hits : hits = [r \in Ranks |->
               CASE q.hits[r].note \in misleading -> [q.hits[r] EXCEPT !.useful = "no"]
                 [] q.hits[r].note \in useful \ misleading -> [q.hits[r] EXCEPT !.useful = "yes"]
                 [] OTHER -> q.hits[r]]
  OBVIOUS
<1>4. top \in Labels /\ said \in Labels
  BY <1>1, <1>2 DEF Labels
<1>5. ASSUME NEW r \in Ranks
      PROVE  hits[r] \in HitRow /\ hits[r].note = q.hits[r].note /\ (q.hits[r] = NoHit => hits[r] = NoHit)
  <2>1. q.hits[r] \in HitRow
    BY DEF QueryRow
  <2>2. q.hits[r] = NoHit => q.hits[r].note \notin Knowledge
    BY NoHitFacts
  <2>3. CASE q.hits[r].note \in misleading
    BY <1>3, <2>1, <2>2, <2>3 DEF HitRow, Labels
  <2>4. CASE q.hits[r].note \in useful \ misleading
    BY <1>3, <2>1, <2>2, <2>4 DEF HitRow, Labels
  <2>5. CASE q.hits[r].note \notin useful \cup misleading
    BY <1>3, <2>1, <2>5
  <2>6. QED  BY <2>3, <2>4, <2>5
<1>6. hits \in [Ranks -> HitRow]
  BY <1>3, <1>5
<1>7. PICK p : p = [q EXCEPT !.useful = Coalesce(said, q.useful), !.top1 = Coalesce(top, q.top1),
                             !.hits = hits]
  OBVIOUS
<1>8. Labelled(q, status, useful, misleading) = p
  BY <1>1, <1>2, <1>3, <1>7 DEF Labelled, QueryRow
<1>9. q.useful \in Labels /\ q.top1 \in Labels
  BY DEF QueryRow
<1>10. Coalesce(said, q.useful) \in Labels /\ Coalesce(top, q.top1) \in Labels
  BY <1>4, <1>9, CoalesceTyped
<1>11. p \in QueryRow /\ p.hits = hits
  BY <1>6, <1>7, <1>10 DEF QueryRow
<1>12. HitsKnown(p, notes)
  BY <1>5, <1>11 DEF HitsKnown
<1>13. QED  BY <1>8, <1>11, <1>12

LEMMA RecordKeeps ==
    ASSUME SignalsInv, NEW t \in Tasks, NEW i \in DOMAIN queries, NEW status,
           NEW useful \in SUBSET Knowledge, NEW misleading \in SUBSET Knowledge,
           RecordOutcome(t, i, status, useful, misleading),
           search' \in [Tasks -> Seq(Knowledge)]
    PROVE  SignalsInv'
<1>1. queries \in Seq(QueryRow) /\ i \in 1..Len(queries)
  BY LenProperties DEF SignalsInv
<1>2. PICK p : p = Labelled(queries[i], status, useful, misleading)
  OBVIOUS
<1>3. p \in QueryRow /\ HitsKnown(p, known)
  BY <1>1, <1>2, HitFacts, LabelledTyped DEF SignalsInv
<1>4. queries' = [queries EXCEPT ![i] = p]
  BY <1>2 DEF RecordOutcome
<1>5. /\ queries' \in Seq(QueryRow) /\ Len(queries') = Len(queries)
      /\ \A j \in 1..Len(queries) : queries'[j] = IF j = i THEN p ELSE queries[j]
  BY <1>1, <1>3, <1>4, ExceptSeq
<1>6. \A j \in 1..Len(queries') : HitsKnown(queries'[j], known)
  BY <1>3, <1>5 DEF SignalsInv
<1>7. recorded' \in 0..OutcomeBound
  BY SignalsAssumption DEF RecordOutcome, SignalsInv
<1>8. QED  BY <1>5, <1>6, <1>7 DEF RecordOutcome, SignalsInv, HitsKnown

LEMMA RankingsTyped ==
    ASSUME NEW found \in SUBSET Knowledge, NEW s \in Rankings(found)
    PROVE  s \in Seq(Knowledge)
BY DEF Rankings, BoundedSeq, SeqOf

LEMMA SearchesKeeps ==
    ASSUME SignalsInv, NEW t \in Tasks, NEW ranked \in Rankings(known), Searches(t, ranked)
    PROVE  SignalsInv'
<1>1. ranked \in Seq(Knowledge)
  BY RankingsTyped DEF SignalsInv
<1>2. search' \in [Tasks -> Seq(Knowledge)]
  BY <1>1 DEF Searches, SignalsInv
<1>3. QED  BY <1>2 DEF Searches, SignalsInv, HitsKnown

LEMMA MarkFailureKeeps ==
    ASSUME SignalsInv, NEW t \in Tasks, NEW ranked \in Rankings(known), NEW i \in DOMAIN queries,
           MarkFailure(t, i, ranked)
    PROVE  SignalsInv'
<1>1. known \in SUBSET Knowledge
  BY DEF SignalsInv
<1>2. ranked \in Seq(Knowledge)
  BY <1>1, RankingsTyped
<1>3. <<>> \in Seq(Knowledge)
  OBVIOUS
<1>4. search' \in [Tasks -> Seq(Knowledge)]
  BY <1>2, <1>3 DEF MarkFailure, SignalsInv
<1>5. QED  BY <1>4, RecordKeeps DEF MarkFailure

LEMMA RecordsQueryKeeps ==
    ASSUME SignalsInv, NEW t \in Tasks, RecordsQuery(t)
    PROVE  SignalsInv'
<1>1. search[t] \in Seq(Knowledge) /\ search' \in [Tasks -> Seq(Knowledge)]
  <2>1. <<>> \in Seq(Knowledge)
    OBVIOUS
  <2>2. QED  BY <2>1 DEF RecordsQuery, SignalsInv
<1>2. PICK s : s = search[t]
  OBVIOUS
<1>3. PICK q : q = [session |-> Null, useful |-> "none", top1 |-> "none",
                    hits |-> [r \in Ranks |-> IF r \in DOMAIN s
                                              THEN [note |-> s[r], useful |-> "none"]
                                              ELSE NoHit]]
  OBVIOUS
<1>4. CASE Range(s) \subseteq known
  <2>1. ASSUME NEW r \in Ranks PROVE q.hits[r] \in HitRow /\ (q.hits[r] = NoHit \/ q.hits[r].note \in known)
    <3>1. CASE r \in DOMAIN s
      <4>1. s[r] \in known /\ s[r] \in Knowledge
        BY <1>4, <3>1 DEF Range, SignalsInv
      <4>2. QED  BY <1>3, <3>1, <4>1 DEF HitRow, Labels
    <3>2. CASE r \notin DOMAIN s
      BY <1>3, <3>2, NoHitFacts
    <3>3. QED  BY <3>1, <3>2
  <2>2. q.hits \in [Ranks -> HitRow]
    BY <1>3, <2>1
  <2>3. q \in QueryRow /\ HitsKnown(q, known)
    BY <1>3, <2>1, <2>2 DEF QueryRow, HitsKnown, Labels
  <2>4. queries' = Append(queries, q)
    BY <1>2, <1>3, <1>4 DEF RecordsQuery, Recorded
  <2>5. /\ queries' \in Seq(QueryRow)
        /\ \A j \in 1..Len(queries') : queries'[j] = q \/ (j \in 1..Len(queries) /\ queries'[j] = queries[j])
    BY <2>3, <2>4 DEF SignalsInv
  <2>6. \A j \in 1..Len(queries') : HitsKnown(queries'[j], known)
    BY <2>3, <2>5 DEF SignalsInv
  <2>7. QED  BY <1>1, <2>5, <2>6 DEF RecordsQuery, SignalsInv, HitsKnown
<1>5. CASE ~(Range(s) \subseteq known)
  BY <1>1, <1>2, <1>5 DEF RecordsQuery, SignalsInv, HitsKnown
<1>6. QED  BY <1>4, <1>5

-----------------------------------------------------------------------------
(* The job that derives feedback.                                          *)

Done == [rows : [Keys -> 0..FeedbackCap], affected : SUBSET Knowledge]

LEMMA WriteTyped ==
    ASSUME NEW s \in Done, NEW key \in Keys
    PROVE  /\ WriteFeedback(s, key) \in Done
           /\ key[2] = Null => WriteFeedback(s, key).affected # {}
<1>1. CASE NewRow(s.rows, key)
  <2>1. s.rows[key] \in 0..FeedbackCap /\ FeedbackCap \in Nat \ {0}
    BY SignalsAssumption DEF Done
  <2>2. PICK x : x = s.rows[key]
    OBVIOUS
  <2>3. PICK m : m = Min({x + 1, FeedbackCap})
    OBVIOUS
  <2>4. \E y \in {x + 1, FeedbackCap} : \A z \in {x + 1, FeedbackCap} : y =< z
    BY <2>1, <2>2
  <2>5. m \in {x + 1, FeedbackCap} /\ \A z \in {x + 1, FeedbackCap} : m =< z
    BY <2>3, <2>4 DEF Min
  <2>6. m \in 0..FeedbackCap
    BY <2>1, <2>2, <2>5
  <2>7. [s.rows EXCEPT ![key] = Min({@ + 1, FeedbackCap})] \in [Keys -> 0..FeedbackCap]
    BY <2>2, <2>3, <2>6 DEF Done
  <2>8. key[1] \in Knowledge
    BY DEF Keys
  <2>9. QED  BY <1>1, <2>7, <2>8 DEF WriteFeedback, Done
<1>2. CASE ~NewRow(s.rows, key)
  BY <1>2 DEF WriteFeedback, NewRow
<1>3. QED  BY <1>1, <1>2

LEMMA InlineTyped ==
    ASSUME SignalsInv, NEW s \in Done
    PROVE  DeriveInline(s) \in Done
<1>. DEFINE Write(a, acc) == WriteFeedback(acc, <<a[2], a[1], "extraction_inline">>)
            step == [e \in attributed \X Done |-> Write(e[1], e[2])]
            Eq(f) == f = [x \in SUBSET attributed |->
                            IF x = {} THEN s
                            ELSE Write(CHOOSE y \in x : TRUE, f[x \ {CHOOSE y \in x : TRUE}])]
            pick == [x \in SUBSET attributed |-> CHOOSE y \in x : TRUE]
<1>1. IsFiniteSet(attributed)
  BY SignalsAssumption, FS_Subset DEF SignalsInv
<1>2. \A a \in attributed, acc \in Done :
         step[<<a, acc>>] = Write(a, acc) /\ Write(a, acc) \in Done
  <2>1. \A a \in attributed : <<a[2], a[1], "extraction_inline">> \in Keys
    BY SignalsAssumption DEF SignalsInv, Keys, Methods
  <2>2. QED  BY <2>1, WriteTyped
<1>3. StepFunction(attributed, Done, step)
  <2>1. \A e \in attributed \X Done : Write(e[1], e[2]) \in Done
    BY <1>2
  <2>. HIDE DEF Write
  <2>2. QED  BY <2>1 DEF StepFunction
<1>a. Picks(attributed, pick) /\ \A x \in SUBSET attributed : pick[x] = CHOOSE y \in x : TRUE
  BY DEF Picks
<1>. HIDE DEF step, Write, pick
<1>4. \E f : Eq(f)
  <2>1. PICK f : IsFold(f, attributed, Done, s, pick, step)
    BY <1>1, <1>3, <1>a, FoldDefined
  <2>2. ASSUME NEW x \in SUBSET attributed
        PROVE  f[x] = IF x = {} THEN s
                      ELSE Write(CHOOSE y \in x : TRUE, f[x \ {CHOOSE y \in x : TRUE}])
    <3>1. CASE x = {}
      BY <2>1, <3>1 DEF IsFold
    <3>2. CASE x # {}
      <4>1. PICK a : a = CHOOSE y \in x : TRUE
        OBVIOUS
      <4>2. a \in attributed /\ f[x \ {a}] \in Done
        BY <1>a, <2>1, <3>2, <4>1 DEF IsFold
      <4>3. QED  BY <1>2, <1>a, <2>1, <3>2, <4>1, <4>2 DEF IsFold
    <3>3. QED  BY <3>1, <3>2
  <2>3. QED  BY <2>1, <2>2 DEF IsFold
<1>5. PICK g : g = CHOOSE h : Eq(h)
  OBVIOUS
<1>6. Eq(g)
  BY <1>4, <1>5
<1>7. DeriveInline(s) = g[attributed]
  BY <1>5 DEF DeriveInline, FoldSet, MapThenFoldSet, Write
<1>8. g[{}] = s
  BY <1>6
<1>9. ASSUME NEW x \in (SUBSET attributed) \ {{}}
      PROVE  \E a \in x : g[x \ {a}] \in Done => g[x] = step[<<a, g[x \ {a}]>>]
  <2>1. PICK a : a = CHOOSE y \in x : TRUE
    OBVIOUS
  <2>2. a \in x /\ g[x] = Write(a, g[x \ {a}])
    BY <1>6, <2>1
  <2>3. QED  BY <1>2, <2>2
<1>b. IsLoop(g, attributed, Done, s, step)
  BY <1>8, <1>9 DEF IsLoop
<1>10. g[attributed] \in Done
  <2>. HIDE DEF Eq
  <2>1. QED  BY <1>1, <1>3, <1>b, SetLoopStays
<1>11. QED  BY <1>7, <1>10

\* Every hit is of a query without a session, and writes a row.
LEMMA PostHocTyped ==
    ASSUME SignalsInv, NEW s \in Done, NEW hits \in SUBSET AllHits
    PROVE  /\ DerivePostHoc(s, hits) \in Done
           /\ hits # {} => DerivePostHoc(s, hits).affected # {}
<1>. DEFINE Op(h, acc) ==
               LET q == queries[h[1]]
                   n == q.hits[h[2]].note
               IN  IF AlreadyCovered(acc.rows, n, q.session) THEN acc
                   ELSE WriteFeedback(acc, <<n, q.session, "maintenance_post_hoc">>)
            step == [e \in hits \X Done |-> Op(e[1], e[2])]
            Eq(f) == f = [x \in SUBSET hits |->
                            IF x = {} THEN s
                            ELSE Op(CHOOSE y \in x : TRUE, f[x \ {CHOOSE y \in x : TRUE}])]
            pick == [x \in SUBSET hits |-> CHOOSE y \in x : TRUE]
<1>1. IsFiniteSet(hits)
  BY AllHitsFacts, FS_Subset
<1>2. ASSUME NEW h \in hits, NEW acc \in Done
      PROVE  step[<<h, acc>>] = Op(h, acc) /\ Op(h, acc) \in Done /\ Op(h, acc).affected # {}
  <2>1. /\ h[1] \in 1..Len(queries) /\ queries[h[1]].hits[h[2]].note \in Knowledge
        /\ queries[h[1]] \in QueryRow
    BY AllHitsFacts, HitFacts DEF SignalsInv
  <2>2. queries[h[1]].session = Null
    BY <2>1 DEF QueryRow
  <2>3. PICK key : key = <<queries[h[1]].hits[h[2]].note, Null, "maintenance_post_hoc">>
    OBVIOUS
  <2>4. key \in Keys /\ key[2] = Null
    BY <2>1, <2>3 DEF Keys, Methods
  <2>5. Op(h, acc) = WriteFeedback(acc, key)
    BY <2>2, <2>3 DEF AlreadyCovered
  <2>6. QED
    <3>1. Op(h, acc) \in Done /\ Op(h, acc).affected # {}
      BY <2>4, <2>5, WriteTyped
    <3>. HIDE DEF Op
    <3>2. QED  BY <3>1
<1>3. StepFunction(hits, Done, step)
  <2>1. \A e \in hits \X Done : Op(e[1], e[2]) \in Done
    BY <1>2
  <2>. HIDE DEF Op
  <2>2. QED  BY <2>1 DEF StepFunction
<1>a. Picks(hits, pick) /\ \A x \in SUBSET hits : pick[x] = CHOOSE y \in x : TRUE
  BY DEF Picks
<1>. HIDE DEF step, Op, pick
<1>4. \E f : Eq(f)
  <2>1. PICK f : IsFold(f, hits, Done, s, pick, step)
    BY <1>1, <1>3, <1>a, FoldDefined
  <2>2. ASSUME NEW x \in SUBSET hits
        PROVE  f[x] = IF x = {} THEN s
                      ELSE Op(CHOOSE y \in x : TRUE, f[x \ {CHOOSE y \in x : TRUE}])
    <3>1. CASE x = {}
      BY <2>1, <3>1 DEF IsFold
    <3>2. CASE x # {}
      <4>1. PICK h : h = CHOOSE y \in x : TRUE
        OBVIOUS
      <4>2. h \in hits /\ f[x \ {h}] \in Done /\ f[x] = step[<<h, f[x \ {h}]>>]
        BY <1>a, <2>1, <3>2, <4>1 DEF IsFold
      <4>3. step[<<h, f[x \ {h}]>>] = Op(h, f[x \ {h}])
        BY <1>2, <4>2
      <4>4. QED  BY <3>2, <4>1, <4>2, <4>3
    <3>3. QED  BY <3>1, <3>2
  <2>3. QED  BY <2>1, <2>2 DEF IsFold
<1>5. PICK g : g = CHOOSE h : Eq(h)
  OBVIOUS
<1>6. Eq(g)
  BY <1>4, <1>5
<1>7. DerivePostHoc(s, hits) = g[hits]
  BY <1>5 DEF DerivePostHoc, FoldSet, MapThenFoldSet, Op
<1>8. g[{}] = s
  BY <1>6
<1>9. ASSUME NEW x \in (SUBSET hits) \ {{}}
      PROVE  \E h \in x : g[x \ {h}] \in Done => g[x] = step[<<h, g[x \ {h}]>>]
  <2>1. PICK h : h = CHOOSE y \in x : TRUE
    OBVIOUS
  <2>2. h \in x /\ g[x] = Op(h, g[x \ {h}])
    BY <1>6, <2>1
  <2>3. QED  BY <1>2, <2>2
<1>b. IsLoop(g, hits, Done, s, step)
  BY <1>8, <1>9 DEF IsLoop
<1>10. g[hits] \in Done /\ (hits # {} => \E h \in hits, acc \in Done : g[hits] = step[<<h, acc>>])
  <2>. HIDE DEF Eq
  <2>1. QED  BY <1>1, <1>3, <1>b, SetLoopStays
<1>11. QED  BY <1>2, <1>7, <1>10

LEMMA TrustTyped ==
    ASSUME SignalsInv, NEW n \in Knowledge
    PROVE  TrustOf(n) \in TrustRow
<1>1. \A s \in SUBSET AllHits : Cardinality(s) \in Nat
  BY AllHitsFacts, FS_Subset, FS_CardinalityType
<1>2. QED  BY <1>1 DEF TrustOf, TrustRow

LEMMA DeriveKeeps ==
    ASSUME SignalsInv, DeriveFeedback
    PROVE  /\ SignalsInv'
           /\ HitLimit # 0 => \A n \in Knowledge : HasHits(n) => trust'[n] = TrustOf(n)
<1>1. PICK hits \in kSubset(Min({HitLimit, Cardinality(AllHits)}), AllHits) :
         LET done == DerivePostHoc(DeriveInline([rows |-> feedback, affected |-> {}]), hits)
         IN  /\ feedback' = done.rows
             /\ trust' = IF done.affected = {} THEN trust
                         ELSE [n \in Knowledge |-> IF HasHits(n) THEN TrustOf(n) ELSE trust[n]]
             /\ UNCHANGED <<known, queries, search, outcomes, attributed, importance, weights,
                            recorded, vanished>>
  BY DEF DeriveFeedback
<1>2. [rows |-> feedback, affected |-> {}] \in Done
  BY DEF SignalsInv, Done
<1>3. PICK start : start = DeriveInline([rows |-> feedback, affected |-> {}])
  OBVIOUS
<1>4. PICK done : done = DerivePostHoc(start, hits)
  OBVIOUS
<1>5. hits \in SUBSET AllHits
  BY DEF kSubset
<1>6. start \in Done
  BY <1>2, <1>3, InlineTyped
<1>7. done \in Done /\ (hits # {} => done.affected # {})
  BY <1>4, <1>5, <1>6, PostHocTyped
<1>8. /\ feedback' = done.rows
      /\ trust' = IF done.affected = {} THEN trust
                  ELSE [n \in Knowledge |-> IF HasHits(n) THEN TrustOf(n) ELSE trust[n]]
      /\ UNCHANGED <<known, queries, search, outcomes, attributed, importance, weights,
                     recorded, vanished>>
  BY <1>1, <1>3, <1>4
<1>9. ASSUME NEW n \in Knowledge, n \notin known PROVE ~HasHits(n)
  BY <1>9, AllHitsFacts DEF HasHits
<1>10. trust' \in [Knowledge -> TrustRow]
  BY <1>8, TrustTyped DEF SignalsInv
<1>11. \A n \in Knowledge : n \notin known => trust'[n] = NoTrust
  BY <1>8, <1>9 DEF SignalsInv
<1>12. feedback' \in [Keys -> 0..FeedbackCap]
  BY <1>7, <1>8 DEF Done
<1>13. SignalsInv'
  BY <1>8, <1>10, <1>11, <1>12 DEF SignalsInv, HitsKnown
<1>14. ASSUME HitLimit # 0, NEW n \in Knowledge, HasHits(n)
       PROVE  trust'[n] = TrustOf(n)
  <2>1. AllHits # {} /\ IsFiniteSet(AllHits)
    BY <1>14, AllHitsFacts DEF HasHits
  <2>2. PICK c : c = Cardinality(AllHits)
    OBVIOUS
  <2>3. c \in Nat \ {0}
    BY <2>1, <2>2, FS_CardinalityType, FS_EmptySet
  <2>4. PICK m : m = Min({HitLimit, c})
    OBVIOUS
  <2>5. HitLimit \in Nat \ {0}
    BY <1>14, SignalsAssumption
  <2>6. m # 0
    <3>1. \E y \in {HitLimit, c} : \A z \in {HitLimit, c} : y =< z
      BY <2>3, <2>5
    <3>2. m \in {HitLimit, c}
      BY <2>4, <3>1 DEF Min
    <3>3. QED  BY <2>3, <2>5, <3>2
  <2>7. Cardinality(hits) = m
    BY <2>2, <2>4 DEF kSubset
  <2>8. hits # {}
    BY <2>6, <2>7, FS_EmptySet
  <2>9. QED  BY <1>7, <1>8, <1>14, <2>8
<1>15. QED  BY <1>13, <1>14

-----------------------------------------------------------------------------
(* The other steps.                                                        *)

LEMMA ScoreKeeps ==
    ASSUME SignalsInv, ScoreImportance
    PROVE  SignalsInv'
<1>1. \A row : Standing(row) \in Standings
  BY DEF Standing, Standings
<1>2. importance' \in [Knowledge -> Standings]
  BY <1>1 DEF ScoreImportance, SignalsInv
<1>3. QED  BY <1>2 DEF ScoreImportance, SignalsInv, HitsKnown

LEMMA TrainKeeps ==
    ASSUME SignalsInv, TrainReranker
    PROVE  SignalsInv'
<1>1. ASSUME NEW h \in AllHits
      PROVE  TrainingLabel(queries[h[1]], h[2]) \in Labels
  <2>1. /\ queries[h[1]] \in QueryRow /\ h[2] \in Ranks
        /\ queries[h[1]].hits[h[2]] \in HitRow
    BY AllHitsFacts, HitFacts
  <2>2. queries[h[1]].useful \in Labels /\ queries[h[1]].top1 \in Labels
        /\ queries[h[1]].hits[h[2]].useful \in Labels
    BY <2>1 DEF QueryRow, HitRow
  <2>3. Explicit(queries[h[1]], h[2]) \in Labels
    BY <2>2, CoalesceTyped DEF Explicit
  <2>4. QED  BY <2>2, <2>3 DEF TrainingLabel, Labels
<1>2. weights' \subseteq {"yes", "no"}
  BY <1>1 DEF TrainReranker, Labels
<1>3. QED  BY <1>2 DEF TrainReranker, SignalsInv, HitsKnown

LEMMA VanishKeeps ==
    ASSUME SignalsInv, NEW n \in Knowledge, NoteVanishes(n)
    PROVE  SignalsInv'
<1>1. DOMAIN queries = 1..Len(queries) /\ Len(queries) \in Nat
  BY LenProperties DEF SignalsInv
<1>2. PICK l \in Nat : l = Len(queries)
  BY <1>1
<1>3. queries' = [i \in 1..l |-> [queries[i] EXCEPT
          !.hits = [r \in Ranks |-> IF @[r].note = n THEN NoHit ELSE @[r]]]]
  BY <1>1, <1>2 DEF NoteVanishes
<1>4. ASSUME NEW i \in 1..l
      PROVE  queries'[i] \in QueryRow /\ HitsKnown(queries'[i], known')
  <2>1. queries[i] \in QueryRow /\ HitsKnown(queries[i], known)
    BY <1>2, HitFacts DEF SignalsInv
  <2>2. PICK hits : hits = [r \in Ranks |-> IF queries[i].hits[r].note = n THEN NoHit
                                            ELSE queries[i].hits[r]]
    OBVIOUS
  <2>3. queries'[i] = [queries[i] EXCEPT !.hits = hits]
    BY <1>3, <2>2
  <2>4. \A r \in Ranks : queries[i].hits[r] \in HitRow
    BY <2>1 DEF QueryRow
  <2>5. hits \in [Ranks -> HitRow]
    BY <2>2, <2>4, NoHitFacts
  <2>6. queries'[i] \in QueryRow /\ queries'[i].hits = hits
    BY <2>1, <2>3, <2>5 DEF QueryRow
  <2>7. known' = known \ {n}
    BY DEF NoteVanishes
  <2>8. QED  BY <2>1, <2>2, <2>6, <2>7 DEF HitsKnown
<1>5. queries' \in Seq(QueryRow) /\ Len(queries') = l
  <2>1. queries' \in [1..l -> QueryRow]
    BY <1>3, <1>4
  <2>2. QED  BY <1>2, <2>1
<1>6. \A i \in 1..Len(queries') : HitsKnown(queries'[i], known')
  BY <1>4, <1>5
<1>7. NoTrust \in TrustRow
  BY DEF NoTrust, TrustRow
<1>8. trust' \in [Knowledge -> TrustRow] /\ importance' \in [Knowledge -> Standings]
  BY <1>7 DEF NoteVanishes, SignalsInv
<1>9. \A k \in Knowledge : k \notin known' => trust'[k] = NoTrust
  BY DEF NoteVanishes, SignalsInv
<1>10. QED  BY <1>5, <1>6, <1>8, <1>9 DEF NoteVanishes, SignalsInv

LEMMA ReturnKeeps ==
    ASSUME SignalsInv, NEW n \in Knowledge, NoteReturns(n)
    PROVE  SignalsInv'
<1>1. \A i \in 1..Len(queries) : HitsKnown(queries[i], known')
  BY DEF NoteReturns, SignalsInv, HitsKnown
<1>2. QED  BY <1>1 DEF NoteReturns, SignalsInv, HitsKnown

LEMMA SignalsStart == SignalsInit => SignalsInv
<1>. SUFFICES ASSUME SignalsInit PROVE SignalsInv
  OBVIOUS
<1>2. queries \in Seq(QueryRow) /\ Len(queries) = 0
  BY DEF SignalsInit
<1>3. search \in [Tasks -> Seq(Knowledge)]
  <2>1. <<>> \in Seq(Knowledge)
    OBVIOUS
  <2>2. QED  BY <2>1 DEF SignalsInit
<1>4. trust \in [Knowledge -> TrustRow] /\ importance \in [Knowledge -> Standings]
  BY DEF SignalsInit, NoTrust, TrustRow, Standings
<1>5. feedback \in [Keys -> 0..FeedbackCap] /\ recorded \in 0..OutcomeBound
  BY SignalsAssumption DEF SignalsInit
<1>6. QED  BY <1>2, <1>3, <1>4, <1>5 DEF SignalsInit, SignalsInv

LEMMA SignalsKeeps ==
    ASSUME SignalsInv, SignalsNext
    PROVE  SignalsInv'
<1>1. CASE \E t \in Tasks : RecordsQuery(t)
  BY <1>1, RecordsQueryKeeps
<1>2. CASE \E t \in Tasks : \E ranked \in Rankings(known) : Searches(t, ranked)
  BY <1>2, SearchesKeeps
<1>3. CASE \E t \in Tasks : \E ranked \in Rankings(known) : \E i \in DOMAIN queries : MarkFailure(t, i, ranked)
  BY <1>3, MarkFailureKeeps
<1>4. CASE \E t \in Tasks : \E i \in DOMAIN queries, status \in {"success", "failure", "partial"},
               useful \in kSubset(1, Knowledge) \cup {{}},
               misleading \in kSubset(1, Knowledge) \cup {{}} :
                 FinishTask(t, i, status, useful, misleading)
  <2>1. PICK t \in Tasks, i \in DOMAIN queries, status \in {"success", "failure", "partial"},
             useful \in kSubset(1, Knowledge) \cup {{}},
             misleading \in kSubset(1, Knowledge) \cup {{}} :
               FinishTask(t, i, status, useful, misleading)
    BY <1>4
  <2>2. useful \in SUBSET Knowledge /\ misleading \in SUBSET Knowledge
    BY DEF kSubset
  <2>3. search' \in [Tasks -> Seq(Knowledge)]
    BY <2>1 DEF FinishTask, SignalsInv
  <2>4. QED  BY <2>1, <2>2, <2>3, RecordKeeps DEF FinishTask
<1>5. CASE \E a \in Attributions : PromotionAttributes(a)
  BY <1>5 DEF PromotionAttributes, SignalsInv, HitsKnown
<1>6. CASE DeriveFeedback
  BY <1>6, DeriveKeeps
<1>7. CASE ScoreImportance
  BY <1>7, ScoreKeeps
<1>8. CASE TrainReranker
  BY <1>8, TrainKeeps
<1>9. CASE \E n \in Knowledge : NoteVanishes(n) \/ NoteReturns(n)
  BY <1>9, VanishKeeps, ReturnKeeps
<1>10. QED  BY <1>1, <1>2, <1>3, <1>4, <1>5, <1>6, <1>7, <1>8, <1>9 DEF SignalsNext

LEMMA SignalsStutter ==
    ASSUME SignalsInv, UNCHANGED signalVars
    PROVE  SignalsInv'
BY DEF signalVars, SignalsInv, HitsKnown

LEMMA SignalsTyped == SignalsInv => SignalsTypeOK
<1>. SUFFICES ASSUME SignalsInv PROVE SignalsTypeOK
  OBVIOUS
<1>2. DOMAIN queries = 1..Len(queries)
  BY LenProperties DEF SignalsInv
<1>3. ASSUME NEW i \in DOMAIN queries
      PROVE  /\ queries[i].useful \in Labels /\ queries[i].top1 \in Labels
             /\ \A r \in Ranks : queries[i].hits[r].note \in Knowledge \cup {Null}
  BY <1>2, HitFacts DEF QueryRow, HitRow
<1>4. QED  BY <1>3 DEF SignalsInv, SignalsTypeOK, Labels, Standings

\* SignalsTypeOK: the tables of retrieval and of what it teaches stay in
\* range, and a note without a row has no trust.
THEOREM SignalsTypeCorrect == SignalsSpec => []SignalsTypeOK
<1>1. SignalsInv /\ [SignalsNext]_signalVars => SignalsInv'
  BY SignalsKeeps, SignalsStutter
<1>2. QED  BY <1>1, SignalsStart, SignalsTyped, PTL DEF SignalsSpec

\* When derive_passive_feedback has run, the trust in every note that has hits
\* counts them as they are: the row it writes for a query without a session is
\* always new, so that it never returns before it recomputes trust.
THEOREM TrustCatchesUp ==
    HitLimit # 0 =>
      (SignalsSpec => [][DeriveFeedback => \A n \in Knowledge : HasHits(n) => trust'[n] = TrustOf(n)]_signalVars)
<1>1. SUFFICES ASSUME HitLimit # 0
               PROVE  SignalsSpec => [][DeriveFeedback => \A n \in Knowledge : HasHits(n) => trust'[n] = TrustOf(n)]_signalVars
  OBVIOUS
<1>2. SignalsInv /\ [SignalsNext]_signalVars => SignalsInv'
  BY SignalsKeeps, SignalsStutter
<1>3. SignalsInv => (DeriveFeedback => \A n \in Knowledge : HasHits(n) => trust'[n] = TrustOf(n))
  BY <1>1, DeriveKeeps
<1>4. QED  BY <1>2, <1>3, SignalsStart, PTL DEF SignalsSpec

-----------------------------------------------------------------------------
(* The index as a whole: a step is one of one part.                        *)

IndexInv == SyncInv /\ GraphInv /\ SignalsInv

LEMMA IndexStart == IndexInit => IndexInv
BY SyncInvInit, GraphInvInit, SignalsStart DEF IndexInit, IndexInv

LEMMA IndexKeeps == IndexInv /\ [IndexNext]_indexVars => IndexInv'
<1>. SUFFICES ASSUME IndexInv, [IndexNext]_indexVars PROVE IndexInv'
  OBVIOUS
<1>1. /\ [SyncNext]_syncVars
      /\ [GraphNext]_graphVars
      /\ SignalsNext \/ UNCHANGED signalVars
  BY DEF IndexNext, SyncPart, GraphPart, SignalsPart, indexVars
<1>2. SyncInv'
  BY <1>1, SyncStepKeeps DEF IndexInv
<1>3. GraphInv'
  BY <1>1, GraphStepKeeps DEF IndexInv
<1>4. SignalsInv'
  BY <1>1, SignalsKeeps, SignalsStutter DEF IndexInv
<1>5. QED  BY <1>2, <1>3, <1>4 DEF IndexInv

LEMMA IndexAlways == IndexSpec => []IndexInv
BY IndexStart, IndexKeeps, PTL DEF IndexSpec

\* IndexTypeOK: the rows of notes, the graph, and the tables of retrieval stay
\* in range.
THEOREM IndexTypeCorrect == IndexSpec => []IndexTypeOK
<1>1. IndexInv => IndexTypeOK
  BY GraphInvImplies, SignalsTyped DEF IndexInv, SyncInv, IndexTypeOK
<1>2. QED  BY <1>1, IndexAlways, PTL

\* NodesBacked and GraphConsistent hold of the index whichever part runs.
THEOREM IndexIsSound == IndexSpec => [](NodesBacked /\ GraphConsistent)
<1>1. IndexInv => NodesBacked /\ GraphConsistent
  <2>1. SyncInv => NodesBacked
    BY DEF SyncInv, Sound, Backed, NodesBacked
  <2>2. QED  BY <2>1, GraphInvImplies DEF IndexInv
<1>2. QED  BY <1>1, IndexAlways, PTL

=============================================================================
