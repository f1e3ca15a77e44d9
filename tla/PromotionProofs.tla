--------------------------- MODULE PromotionProofs ---------------------------
(***************************************************************************)
(* Promotion decides a candidate once, counts it once, keeps the text of   *)
(* the wiki and leaves the notes table up to date: for every set of        *)
(* candidates and notes, every likeness among them and every number of     *)
(* runs.                                                                   *)
(***************************************************************************)
EXTENDS Promotion, OrderLemmas

-----------------------------------------------------------------------------
(* The inductive invariant.                                                *)

InHand(r) == run[r].pc \in {"writing", "recording"}

\* What a run holds at each place; Target(r) is the note its candidate is for.
TargetOf(p) == IF p.target # NoNote THEN p.target ELSE NoteOf[p.cand]

HandFull(p) ==
    /\ p.pc \in {"writing", "recording"} => p.cand \in Candidates /\ p.cand \notin p.rows
    /\ p.pc = "writing" => /\ p.path = TargetOf(p)
                           /\ p.cand \in p.text.refs /\ IsFiniteSet(p.text.refs)
    /\ p.pc \in {"idle", "finishing"} => p.promoted = {}

HandsFull == \A r \in Runs : HandFull(run[r])

\* The files: what the notes table knows of exists, and references are finite.
FilesSound ==
    \A n \in Notes : IsFiniteSet(file[n].refs) /\ (Known(n) => Exists(n))

\* A row in the ledger is one of a stored candidate; only the legacy items are
\* routed to review, each for the note of its own title.
LedgerSound ==
    /\ \A c \in Candidates : state[c] = "absent" => Undecided(c)
    /\ \A c \in Candidates : ledger[c].state = "review_routed"
                                => c \in Legacy /\ ledger[c].target = NoteOf[c]
    /\ IsFiniteSet({c \in Candidates : state[c] # "absent"})

\* While runs do not overlap, a run's candidates are decided by nobody else.
Alone ==
    /\ \A q, r \in Runs : Active(q) /\ Active(r) => q = r
    /\ \A r \in Runs : Active(r) => \A c \in run[r].rows : Undecided(c)
    /\ \A r \in Runs : InHand(r) => Undecided(run[r].cand)

\* A note that the table has not as the parser takes it from its file is one
\* that a run has promoted, is about to record, or has just related.
BehindIn(p, n) ==
    \/ n \in p.promoted
    \/ p.pc = "recording" /\ TargetOf(p) = n
    \/ p.pc = "finishing" /\ p.applied

TableBehind ==
    \A n \in Notes : synced[n] = Parsed(file[n]) \/ \E r \in Runs : BehindIn(run[r], n)

\* The text about to be written has what is in its file, unless this run has
\* promoted that note before or its page is stale.
TextsGrow ==
    \A r \in Runs : run[r].pc = "writing" =>
        \/ file[run[r].path].bodies \subseteq run[r].text.bodies
        \/ file[run[r].path].stale
        \/ run[r].path \in run[r].promoted

\* Counts are right, and a candidate that is counted is promoted, or will be
\* as soon as its row is written; an item in review is still undecided there.
CountsRight ==
    /\ \A n \in Notes : file[n].count = Cardinality(file[n].refs)
    /\ \A r \in Runs : run[r].pc = "writing" =>
          /\ run[r].text.count = Cardinality(run[r].text.refs)
          /\ \A c \in run[r].text.refs \ {0} :
                c = run[r].cand \/ ledger[c].state = "promoted"
    /\ \A n \in Notes : \A c \in file[n].refs \ {0} :
          \/ ledger[c].state = "promoted"
          \/ \E r \in Runs : run[r].pc = "recording" /\ run[r].cand = c
    /\ \A c \in review : ledger[c].state = "review_routed"

BaseInv == TypeOK /\ HandsFull /\ FilesSound /\ LedgerSound /\ ReadyIffUndecided

Undisturbed == crashes = 0 /\ ~overlapped

PromotionInv ==
    /\ BaseInv
    /\ ~overlapped => Alone
    /\ Undisturbed => TableBehind /\ TextsGrow

\* The two verdicts of review share one UPDATE per note id; no two items of one
\* note are in review.
OneItemPerNote == \A c, d \in Legacy : NoteOf[c] = NoteOf[d] => c = d

-----------------------------------------------------------------------------
(* Records and texts.                                                      *)

LEMMA IdleType == Idle \in Process /\ Idle.pc = "idle" /\ Idle.promoted = {} /\ Idle.rows = {}
BY DEF Idle, Process, Pcs, NoFile, NoteFile

LEMMA BetweenType ==
    ASSUME TypeOK, NEW r \in Runs
    PROVE  /\ Between(r) \in Process /\ Between(r).pc = "judging"
           /\ Between(r).rows = run[r].rows /\ Between(r).promoted = run[r].promoted
BY DEF TypeOK, Between, Idle, Process, Pcs, NoFile, NoteFile

LEMMA CountedType ==
    ASSUME TypeOK, NEW r \in Runs, Target(r) \in Notes
    PROVE  /\ Counted(r) \in Process /\ Counted(r).pc = "judging"
           /\ Counted(r).rows = run[r].rows
           /\ Counted(r).promoted = run[r].promoted \cup {Target(r)}
BY DEF TypeOK, Counted, Between, Idle, Process, Pcs, NoFile, NoteFile

LEMMA TargetType ==
    ASSUME TypeOK, HandsFull, NEW r \in Runs, InHand(r)
    PROVE  Target(r) \in Notes
BY PromotionAssumption DEF TypeOK, HandsFull, HandFull, InHand, Target, Process

\* A page of one text counts it once.
LEMMA NewText ==
    ASSUME NEW c \in Texts
    PROVE  /\ RenderNew(c) \in NoteFile /\ RenderNew(c) # NoFile
           /\ RenderNew(c).refs = {c} /\ RenderNew(c).count = 1
           /\ IsFiniteSet({c}) /\ Cardinality({c}) = 1
BY FS_Singleton DEF RenderNew, NoteFile, NoFile

LEMMA CandidateTexts == Candidates \subseteq Texts /\ 0 \in Texts /\ 0 \notin Candidates
BY PromotionAssumption DEF Texts

\* What the table takes of a page is the page, or nothing.
LEMMA ParsedType ==
    ASSUME NEW f \in NoteFile
    PROVE  /\ Parsed(f) \in NoteFile
           /\ Parsed(f) # NoFile => f # NoFile
           /\ f.stale \/ Parsed(f) = f
BY DEF Parsed, NoteFile, NoFile

LEMMA IndexedType ==
    ASSUME NEW files \in [Notes -> NoteFile]
    PROVE  /\ Indexed(files) \in [Notes -> NoteFile]
           /\ \A n \in Notes : Indexed(files)[n] = Parsed(files[n])
           /\ \A n \in Notes : Indexed(files)[n] # NoFile => files[n] # NoFile
BY ParsedType DEF Indexed

\* A text made of an existing one has all it had, and one reference more.
LEMMA MergedText ==
    ASSUME TypeOK, NEW c \in Candidates, NEW n \in Notes, NEW decision, NEW conflict
    PROVE  /\ RenderExisting(c, n, decision, conflict) \in NoteFile
           /\ RenderExisting(c, n, decision, conflict).refs = file[n].refs \cup {c}
           /\ RenderExisting(c, n, decision, conflict).count = file[n].count + 1
           /\ file[n].bodies \subseteq RenderExisting(c, n, decision, conflict).bodies
<1>. DEFINE f == file[n]
            bodies == IF decision = "update" THEN f.bodies \cup {c} ELSE f.bodies
            stale == StaleAfter(f.stale, conflict)
            t == [f EXCEPT !.refs = f.refs \cup {c}, !.count = f.count + 1, !.bodies = bodies,
                           !.stale = stale]
<1>1. f \in NoteFile
  BY DEF TypeOK
<1>2. f.bodies \subseteq bodies /\ bodies \subseteq f.bodies \cup {c}
  OBVIOUS
<1>3. RenderExisting(c, n, decision, conflict) = t
  BY DEF RenderExisting
<1>4. stale \in BOOLEAN
  BY DEF StaleAfter
<1>. HIDE DEF bodies, stale, f
<1>5. f.refs \cup {c} \in SUBSET Texts /\ bodies \in SUBSET Texts /\ f.count + 1 \in Nat
  BY <1>1, <1>2, CandidateTexts DEF NoteFile
<1>6. t \in NoteFile /\ t.refs = f.refs \cup {c} /\ t.count = f.count + 1 /\ t.bodies = bodies
  BY <1>1, <1>4, <1>5 DEF NoteFile
<1>7. QED  BY <1>2, <1>3, <1>6 DEF f

\* What a step that gives one run a new record does to the others.
LEMMA RunUpdated ==
    ASSUME TypeOK, NEW r \in Runs, NEW s, run' = [run EXCEPT ![r] = s]
    PROVE  /\ run'[r] = s /\ \A q \in Runs : q # r => run'[q] = run[q]
           /\ s \in Process => run' \in [Runs -> Process]
BY DEF TypeOK

-----------------------------------------------------------------------------
(* Types.                                                                  *)

LEMMA InitBase == Init => PromotionInv /\ CountsRight
<1>. SUFFICES ASSUME Init PROVE PromotionInv /\ CountsRight
  OBVIOUS
<1>1. TypeOK
  <2>1. file \in [Notes -> NoteFile] /\ synced \in [Notes -> NoteFile]
    <3>1. NoFile \in NoteFile /\ RenderNew(0) \in NoteFile
      BY NewText, CandidateTexts DEF NoteFile, NoFile
    <3>2. QED  BY <3>1 DEF Init
  <2>2. ledger \in [Candidates -> Row] /\ state \in [Candidates -> States]
    BY PromotionAssumption DEF Init, Row, NoRow, States
  <2>3. run \in [Runs -> Process]
    BY IdleType DEF Init
  <2>4. review \subseteq Candidates /\ overlapped \in BOOLEAN
    BY PromotionAssumption DEF Init
  <2>5. crashes \in 0..FaultBound
    BY PromotionAssumption DEF Init
  <2>6. QED  BY <2>1, <2>2, <2>3, <2>4, <2>5 DEF TypeOK
<1>2. HandsFull
  BY IdleType DEF Init, HandsFull, HandFull
<1>3. FilesSound
  BY FS_EmptySet, NewText, CandidateTexts DEF Init, FilesSound, NoFile, Known, Exists
<1>4. LedgerSound /\ ReadyIffUndecided
  <2>1. IsFiniteSet({c \in Candidates : state[c] # "absent"})
    <3>1. {c \in Candidates : state[c] # "absent"} \subseteq Legacy
      BY DEF Init
    <3>2. QED  BY <3>1, PromotionAssumption, FS_Subset
  <2>2. QED  BY <2>1 DEF Init, LedgerSound, ReadyIffUndecided, Undecided, NoRow
<1>5. Alone /\ TableBehind /\ TextsGrow
  <2>1. Parsed(NoFile) = NoFile /\ Parsed(RenderNew(0)) = RenderNew(0)
    BY DEF Parsed, NoFile, RenderNew
  <2>2. QED  BY <2>1, IdleType DEF Init, Alone, TableBehind, BehindIn, TextsGrow, Active, InHand
<1>6. CountsRight
  <2>1. \A n \in Notes : /\ file[n].refs \subseteq {0}
                         /\ file[n].count = Cardinality(file[n].refs)
    <3>1. NoFile.refs = {} /\ NoFile.count = 0
      BY DEF NoFile
    <3>2. QED  BY <3>1, NewText, CandidateTexts, FS_EmptySet DEF Init
  <2>2. \A c \in review : ledger[c].state = "review_routed"
    BY PromotionAssumption DEF Init
  <2>3. \A r \in Runs : run[r].pc = "idle"
    BY IdleType DEF Init
  <2>4. QED  BY <2>1, <2>2, <2>3, FS_EmptySet DEF CountsRight
<1>7. QED  BY <1>1, <1>2, <1>3, <1>4, <1>5, <1>6 DEF PromotionInv, BaseInv

\* The next chunk ends with the greatest of its ids.
LEMMA ChunkType ==
    ASSUME TypeOK, LedgerSound, NEW rows \in SUBSET Ready, rows # {}
    PROVE  /\ (CHOOSE c \in rows : \A d \in rows : d <= c) \in Candidates
           /\ rows \subseteq Candidates /\ \A c \in rows : Undecided(c)
<1>1. rows \subseteq {c \in Candidates : state[c] # "absent"}
  BY DEF Ready
<1>2. IsFiniteSet(rows)
  BY <1>1, FS_Subset DEF LedgerSound
<1>3. rows \in SUBSET Nat
  BY PromotionAssumption DEF Ready
<1>4. \E c \in rows : \A d \in rows : d <= c
  BY <1>2, <1>3, GreatestMember
<1>5. QED  BY <1>4 DEF Ready

\* decide() names a note that exists, or none.
LEMMA DecisionType ==
    ASSUME FilesSound, NEW c \in Candidates, NEW d \in Decisions(c)
    PROVE  \/ d[1] = "new" /\ d[2] = NoNote /\ ~Known(NoteOf[c])
           \/ d[1] \in {"confirm", "update"} /\ d[2] \in Notes /\ Exists(d[2])
<1>1. NoteOf[c] \in Notes /\ Similar[c] \subseteq Notes
  BY PromotionAssumption
<1>2. CASE Known(NoteOf[c])
  <2>1. d \in {"confirm", "update"} \X {NoteOf[c]} \X {"none"}
    BY <1>2 DEF Decisions
  <2>2. QED  BY <1>1, <1>2, <2>1 DEF FilesSound
<1>3. CASE ~Known(NoteOf[c])
  <2>. DEFINE others == {n \in Similar[c] : Known(n)}
              conflicts == IF Cardinality(others) > 1 THEN {"stale", "archive"} ELSE {}
  <2>1. \/ d = <<"new", NoNote, "none">>
        \/ d \in {"confirm", "update"} \X others \X {"none"}
        \/ d \in {"update"} \X others \X conflicts
    BY <1>3 DEF Decisions
  <2>2. \A n \in others : n \in Notes /\ Exists(n)
    BY <1>1 DEF FilesSound
  <2>. HIDE DEF others, conflicts
  <2>3. QED  BY <1>3, <2>1, <2>2
<1>4. QED  BY <1>2, <1>3

LEMMA RowType == NoRow \in Row /\ Rejection \in Row
BY DEF NoRow, Rejection, Row

\* A step that gives one run a new record.
LEMMA HandsFrame ==
    ASSUME TypeOK, HandsFull, NEW r \in Runs, NEW p \in Process, HandFull(p),
           run' = [run EXCEPT ![r] = p]
    PROVE  run' \in [Runs -> Process] /\ HandsFull'
<1>1. run' \in [Runs -> Process] /\ run'[r] = p /\ \A q \in Runs : q # r => run'[q] = run[q]
  BY RunUpdated
<1>2. \A q \in Runs : run'[q] = p \/ run'[q] = run[q]
  BY <1>1
<1>3. QED  BY <1>1, <1>2 DEF HandsFull

LEMMA BaseFrame ==
    ASSUME BaseInv, UNCHANGED <<state, ledger, file, synced, review, overlapped>>,
           crashes' \in 0..FaultBound,
           NEW r \in Runs, NEW p \in Process, HandFull(p), run' = [run EXCEPT ![r] = p]
    PROVE  BaseInv'
<1>1. run' \in [Runs -> Process] /\ HandsFull'
  BY HandsFrame DEF BaseInv
<1>2. TypeOK'
  BY <1>1 DEF BaseInv, TypeOK
<1>3. FilesSound' /\ LedgerSound' /\ ReadyIffUndecided'
  BY DEF BaseInv, FilesSound, LedgerSound, ReadyIffUndecided, Known, Exists, Undecided
<1>4. QED  BY <1>1, <1>2, <1>3 DEF BaseInv

LEMMA BaseStep == BaseInv /\ [Next]_vars => BaseInv'
<1>. SUFFICES ASSUME BaseInv, [Next]_vars PROVE BaseInv'
  OBVIOUS
<1>i. TypeOK /\ HandsFull /\ FilesSound /\ LedgerSound /\ ReadyIffUndecided
  BY DEF BaseInv
<1>p. \A r \in Runs : run[r] \in Process
  BY <1>i DEF TypeOK
<1>h. HandFull(Idle)
  BY IdleType DEF HandFull
<1>1. ASSUME NEW c \in Candidates, CandidateStored(c) PROVE BaseInv'
  <2>1. TypeOK'
    BY <1>1, <1>i DEF CandidateStored, TypeOK, States
  <2>2. HandsFull' /\ FilesSound'
    BY <1>1, <1>i DEF CandidateStored, HandsFull, FilesSound, Known, Exists
  <2>3. LedgerSound'
    <3>1. {d \in Candidates : state'[d] # "absent"} = {d \in Candidates : state[d] # "absent"} \cup {c}
      BY <1>1, <1>i DEF CandidateStored, TypeOK
    <3>2. IsFiniteSet({d \in Candidates : state'[d] # "absent"})
      BY <3>1, <1>i, FS_AddElement DEF LedgerSound
    <3>3. QED  BY <1>1, <1>i, <3>2 DEF CandidateStored, LedgerSound, TypeOK, Undecided
  <2>4. ReadyIffUndecided'
    BY <1>1, <1>i DEF CandidateStored, ReadyIffUndecided, LedgerSound, TypeOK, Undecided
  <2>5. QED  BY <2>1, <2>2, <2>3, <2>4 DEF BaseInv
<1>2. ASSUME NEW c \in Candidates, DecisionAges(c) PROVE BaseInv'
  <2>1. ledger' \in [Candidates -> Row] /\ \A d \in Candidates :
           ledger'[d].state = ledger[d].state /\ ledger'[d].target = ledger[d].target
    BY <1>2, <1>i DEF DecisionAges, TypeOK, Row
  <2>2. TypeOK'
    BY <1>2, <2>1, <1>i DEF DecisionAges, TypeOK
  <2>3. HandsFull' /\ FilesSound' /\ LedgerSound' /\ ReadyIffUndecided'
    BY <1>2, <2>1, <1>i DEF DecisionAges, HandsFull, FilesSound, LedgerSound, ReadyIffUndecided,
                            Known, Exists, Undecided
  <2>4. QED  BY <2>2, <2>3 DEF BaseInv
<1>3. CASE SyncVault
  <2>1. TypeOK' /\ HandsFull' /\ LedgerSound' /\ ReadyIffUndecided'
    BY <1>3, <1>i, IndexedType DEF SyncVault, TypeOK, HandsFull, LedgerSound, ReadyIffUndecided, Undecided
  <2>2. FilesSound'
    BY <1>3, <1>i, IndexedType DEF SyncVault, FilesSound, Known, Exists, TypeOK
  <2>3. QED  BY <2>1, <2>2 DEF BaseInv
<1>4. ASSUME NEW r \in Runs, RequeueRejected(r) PROVE BaseInv'
  <2>. DEFINE p == [Idle EXCEPT !.pc = "fetching"]
  <2>1. p \in Process /\ HandFull(p)
    BY IdleType DEF Process, Pcs, HandFull
  <2>2. run' = [run EXCEPT ![r] = p]
    BY <1>4 DEF RequeueRejected
  <2>. HIDE DEF p
  <2>3. run' \in [Runs -> Process] /\ HandsFull'
    BY <2>1, <2>2, <1>i, HandsFrame
  <2>4. state' \in [Candidates -> States] /\ ledger' \in [Candidates -> Row]
    BY <1>4, <1>i, RowType DEF RequeueRejected, TypeOK, States
  <2>5. TypeOK'
    BY <1>4, <1>i, <2>3, <2>4 DEF RequeueRejected, TypeOK, Active
  <2>6. FilesSound'
    BY <1>4, <1>i DEF RequeueRejected, FilesSound, Known, Exists
  <2>7. \A c \in Candidates :
           \/ c \in Stale /\ state[c] # "absent" /\ state'[c] = "promotion_ready" /\ ledger'[c] = NoRow
           \/ c \notin Stale /\ state'[c] = state[c] /\ ledger'[c] = ledger[c]
    BY <1>4, <1>i DEF RequeueRejected, LedgerSound, Undecided, Stale
  <2>8. {d \in Candidates : state'[d] # "absent"} = {d \in Candidates : state[d] # "absent"}
    BY <2>7
  <2>9. NoRow.state = "none" /\ \A c \in Stale : ledger[c].state = "rejected"
    BY DEF NoRow, Stale
  <2>10. ReadyIffUndecided'
    BY <2>7, <2>9, <1>i DEF ReadyIffUndecided, Undecided
  <2>11. LedgerSound'
    <3>1. IsFiniteSet({d \in Candidates : state'[d] # "absent"})
      BY <2>8, <1>i DEF LedgerSound
    <3>2. QED  BY <2>7, <2>9, <3>1, <1>i DEF LedgerSound, Undecided
  <2>12. QED  BY <2>3, <2>5, <2>6, <2>10, <2>11 DEF BaseInv
<1>5. ASSUME NEW r \in Runs, Fetch(r) PROVE BaseInv'
  <2>. DEFINE rows == {c \in Ready : c > run[r].last}
              last == CHOOSE c \in rows : \A d \in rows : d <= c
              p == IF rows # {}
                   THEN [run[r] EXCEPT !.pc = "judging", !.rows = rows, !.last = last]
                   ELSE [Idle EXCEPT !.pc = IF run[r].promoted # {} THEN "relating" ELSE "finishing",
                                     !.promoted = run[r].promoted]
  <2>1. run' = [run EXCEPT ![r] = p]
    BY <1>5 DEF Fetch
  <2>2. p \in Process /\ HandFull(p)
    <3>1. CASE rows # {}
      <4>1. last \in Candidates /\ rows \subseteq Candidates
        BY <3>1, <1>i, ChunkType
      <4>. HIDE DEF rows, last
      <4>2. [run[r] EXCEPT !.pc = "judging", !.rows = rows, !.last = last] \in Process
        BY <4>1, <1>p DEF Process, Pcs
      <4>3. HandFull([run[r] EXCEPT !.pc = "judging", !.rows = rows, !.last = last])
        BY <1>p DEF HandFull, Process
      <4>4. QED  BY <3>1, <4>2, <4>3
    <3>2. CASE rows = {}
      <4>1. run[r].promoted \in SUBSET Notes
        BY <1>p DEF Process
      <4>2. p = [Idle EXCEPT !.pc = IF run[r].promoted # {} THEN "relating" ELSE "finishing",
                             !.promoted = run[r].promoted]
        BY <3>2
      <4>. HIDE DEF rows, last
      <4>3. QED  BY <4>1, <4>2, IdleType DEF Process, Pcs, HandFull
    <3>3. QED  BY <3>1, <3>2
  <2>. HIDE DEF p
  <2>3. QED  BY <1>5, <2>1, <2>2, <1>i, BaseFrame DEF Fetch, TypeOK
<1>6. ASSUME NEW r \in Runs, ChunkDone(r) \/ Finish(r) \/ Crash(r) PROVE BaseInv'
  <2>. DEFINE p == IF ChunkDone(r) THEN [run[r] EXCEPT !.pc = "fetching"] ELSE Idle
  <2>1. run' = [run EXCEPT ![r] = p] /\ crashes' \in 0..FaultBound
    BY <1>6, <1>i, PromotionAssumption DEF ChunkDone, Finish, Crash, TypeOK
  <2>2. p \in Process /\ HandFull(p)
    <3>1. CASE ChunkDone(r)
      BY <3>1, <1>p DEF Process, Pcs, HandFull
    <3>2. CASE ~ChunkDone(r)
      BY <3>2, IdleType, <1>h
    <3>3. QED  BY <3>1, <3>2
  <2>. HIDE DEF p
  <2>3. CASE ChunkDone(r) \/ Crash(r)
    BY <2>3, <2>1, <2>2, BaseFrame DEF ChunkDone, Crash
  <2>4. CASE Finish(r)
    <3>1. run' \in [Runs -> Process] /\ HandsFull'
      BY <2>1, <2>2, <1>i, HandsFrame
    <3>2. UNCHANGED <<state, ledger, file, review, crashes, overlapped>>
          /\ (synced' = Indexed(file) \/ synced' = synced)
      BY <2>4 DEF Finish
    <3>3. TypeOK' /\ FilesSound' /\ LedgerSound' /\ ReadyIffUndecided'
      BY <3>1, <3>2, <1>i, IndexedType DEF TypeOK, FilesSound, LedgerSound, ReadyIffUndecided, Known, Exists, Undecided
    <3>4. QED  BY <3>1, <3>3 DEF BaseInv
  <2>5. QED  BY <1>6, <2>3, <2>4
<1>7. ASSUME NEW r \in Runs, NEW c \in Candidates, Reject(r, c) PROVE BaseInv'
  <2>. DEFINE p == [run[r] EXCEPT !.rows = run[r].rows \ {c}]
  <2>1. run' = [run EXCEPT ![r] = p]
    BY <1>7 DEF Reject
  <2>2. p \in Process /\ HandFull(p)
    BY <1>7, <1>p DEF Reject, Turn, Process, HandFull
  <2>. HIDE DEF p
  <2>3. run' \in [Runs -> Process] /\ HandsFull'
    BY <2>1, <2>2, <1>i, HandsFrame
  <2>4. \A d \in Candidates :
           \/ d = c /\ Undecided(c) /\ state'[d] = "rejected" /\ ledger'[d] = Rejection
           \/ state'[d] = state[d] /\ ledger'[d] = ledger[d]
    BY <1>7, <1>i DEF Reject, TypeOK
  <2>5. \A d \in Candidates : state'[d] # "absent" => state[d] # "absent" \/ d = c
    BY <2>4
  <2>6. IsFiniteSet({d \in Candidates : state'[d] # "absent"})
    <3>1. {d \in Candidates : state'[d] # "absent"}
            \subseteq {d \in Candidates : state[d] # "absent"} \cup {c}
      BY <2>5
    <3>2. QED  BY <3>1, <1>i, FS_AddElement, FS_Subset DEF LedgerSound
  <2>7. LedgerSound' /\ ReadyIffUndecided'
    <3>1. Rejection.state = "rejected"
      BY DEF Rejection
    <3>2. ReadyIffUndecided'
      BY <2>4, <3>1, <1>i DEF ReadyIffUndecided, Undecided
    <3>3. QED  BY <2>4, <2>6, <3>1, <3>2, <1>i DEF LedgerSound, Undecided
  <2>8. TypeOK'
    BY <1>7, <2>3, <1>i, RowType DEF Reject, TypeOK, States
  <2>9. FilesSound'
    BY <1>7, <1>i DEF Reject, FilesSound, Known, Exists
  <2>10. QED  BY <2>3, <2>7, <2>8, <2>9 DEF BaseInv
<1>8. ASSUME NEW r \in Runs, NEW c \in Candidates, JudgeFails(r, c) PROVE BaseInv'
  <2>. DEFINE p == [run[r] EXCEPT !.rows = run[r].rows \ {c}]
  <2>1. run' = [run EXCEPT ![r] = p] /\ crashes' \in 0..FaultBound
    BY <1>8, <1>i, PromotionAssumption DEF JudgeFails, TypeOK
  <2>2. p \in Process /\ HandFull(p)
    BY <1>8, <1>p DEF JudgeFails, Turn, Process, HandFull
  <2>. HIDE DEF p
  <2>3. QED  BY <1>8, <2>1, <2>2, BaseFrame DEF JudgeFails
<1>9. ASSUME NEW r \in Runs, NEW c \in Candidates, Judge(r, c) PROVE BaseInv'
  <2>1. PICK d \in Decisions(c) :
           run' = [run EXCEPT ![r] =
              [run[r] EXCEPT !.pc = "writing", !.rows = run[r].rows \ {c}, !.cand = c,
                             !.decision = d[1], !.target = d[2],
                             !.path = IF d[1] # "new" /\ Exists(d[2]) THEN d[2] ELSE NoteOf[c],
                             !.text = IF d[1] # "new" /\ Exists(d[2])
                                      THEN RenderExisting(c, d[2], d[1], d[3]) ELSE RenderNew(c)]]
    BY <1>9 DEF Judge
  <2>2. \/ d[1] = "new" /\ d[2] = NoNote
        \/ d[1] \in {"confirm", "update"} /\ d[2] \in Notes /\ Exists(d[2])
    BY DecisionType, <1>i
  <2>. DEFINE path == IF d[1] # "new" /\ Exists(d[2]) THEN d[2] ELSE NoteOf[c]
              text == IF d[1] # "new" /\ Exists(d[2])
                      THEN RenderExisting(c, d[2], d[1], d[3]) ELSE RenderNew(c)
              p == [run[r] EXCEPT !.pc = "writing", !.rows = run[r].rows \ {c}, !.cand = c,
                             !.decision = d[1], !.target = d[2], !.path = path, !.text = text]
  <2>3. path \in Notes /\ path = (IF d[2] # NoNote THEN d[2] ELSE NoteOf[c])
    BY <2>2, PromotionAssumption
  <2>4. text \in NoteFile /\ c \in text.refs /\ IsFiniteSet(text.refs)
    <3>1. CASE d[1] = "new"
      BY <3>1, NewText, CandidateTexts
    <3>2. CASE d[1] \in {"confirm", "update"} /\ d[2] \in Notes /\ Exists(d[2])
      <4>1. text = RenderExisting(c, d[2], d[1], d[3])
        BY <3>2
      <4>2. text \in NoteFile /\ text.refs = file[d[2]].refs \cup {c}
        BY <3>2, <4>1, <1>i, MergedText
      <4>3. IsFiniteSet(file[d[2]].refs)
        BY <3>2, <1>i DEF FilesSound
      <4>4. QED  BY <4>2, <4>3, FS_AddElement
    <3>3. QED  BY <2>2, <3>1, <3>2
  <2>5. run' = [run EXCEPT ![r] = p]
    BY <2>1
  <2>. HIDE DEF path, text
  <2>6. p \in Process /\ HandFull(p)
    <3>1. p \in Process
      <4>1. PICK q : q = run[r]
        OBVIOUS
      <4>2. q \in Process
        BY <1>p, <4>1
      <4>3. p = [q EXCEPT !.pc = "writing", !.rows = q.rows \ {c}, !.cand = c,
                          !.decision = d[1], !.target = d[2], !.path = path, !.text = text]
        BY <4>1
      <4>. HIDE DEF p
      <4>4. /\ d[1] \in {"none", "new", "confirm", "update"} /\ d[2] \in Notes \cup {NoNote}
            /\ path \in Notes \cup {NoNote} /\ "writing" \in Pcs
        BY <2>2, <2>3 DEF Pcs
      <4>5. QED  BY <2>4, <4>2, <4>3, <4>4 DEF Process
    <3>2. /\ p.pc = "writing" /\ p.cand = c /\ c \notin p.rows /\ p.path = path
          /\ p.target = d[2] /\ p.text = text
      BY <1>p DEF Process
    <3>. HIDE DEF p
    <3>3. QED  BY <3>1, <3>2, <2>3, <2>4 DEF HandFull, TargetOf
  <2>. HIDE DEF p
  <2>7. QED  BY <1>9, <2>5, <2>6, <1>i, BaseFrame DEF Judge, TypeOK
<1>10. ASSUME NEW r \in Runs, Rename(r) PROVE BaseInv'
  <2>1. run[r].cand \in Candidates /\ run[r].path \in Notes /\ run[r].text \in NoteFile
        /\ run[r].text # NoFile /\ IsFiniteSet(run[r].text.refs) /\ run[r].pc = "writing"
        /\ run[r].cand \notin run[r].rows
    <3>1. run[r].pc = "writing" /\ HandFull(run[r])
      BY <1>10, <1>i DEF Rename, HandsFull
    <3>2. TargetOf(run[r]) \in Notes
      BY <3>1, <1>p, PromotionAssumption DEF HandFull, TargetOf, Process
    <3>3. run[r].text # NoFile
      BY <3>1 DEF HandFull, NoFile
    <3>4. QED  BY <3>1, <3>2, <3>3, <1>p DEF HandFull, Process
  <2>2. CASE Undecided(run[r].cand)
    <3>. DEFINE p == [run[r] EXCEPT !.pc = "recording", !.path = NoNote, !.text = NoFile]
    <3>1. run' = [run EXCEPT ![r] = p] /\ file' = [file EXCEPT ![run[r].path] = run[r].text]
          /\ UNCHANGED <<state, ledger, synced, review, crashes, overlapped>>
      BY <1>10, <2>2 DEF Rename
    <3>2. NoFile \in NoteFile
      BY DEF NoFile, NoteFile
    <3>3. p \in Process /\ HandFull(p)
      BY <1>p, <2>1, <3>2 DEF Process, Pcs, HandFull
    <3>. HIDE DEF p
    <3>4. run' \in [Runs -> Process] /\ HandsFull'
      BY <3>1, <3>3, <1>i, HandsFrame
    <3>5. TypeOK'
      BY <3>1, <3>4, <2>1, <1>i DEF TypeOK
    <3>6. FilesSound'
      BY <3>1, <2>1, <1>i DEF FilesSound, Known, Exists, TypeOK
    <3>7. LedgerSound' /\ ReadyIffUndecided'
      BY <3>1, <1>i DEF LedgerSound, ReadyIffUndecided, Undecided
    <3>8. QED  BY <3>4, <3>5, <3>6, <3>7 DEF BaseInv
  <2>3. CASE ~Undecided(run[r].cand)
    <3>. DEFINE P == (run[r].promoted \cup {ledger[run[r].cand].target}) \ {NoNote}
                p == [Between(r) EXCEPT !.promoted = P]
    <3>1. run' = [run EXCEPT ![r] = p]
          /\ UNCHANGED <<state, ledger, file, synced, review, crashes, overlapped>>
      BY <1>10, <2>3 DEF Rename
    <3>2. P \in SUBSET Notes
      BY <2>1, <1>i, <1>p DEF TypeOK, Row, Process
    <3>. HIDE DEF P
    <3>3. p \in Process /\ HandFull(p)
      BY <3>2, <1>i, BetweenType DEF Process, HandFull
    <3>. HIDE DEF p
    <3>4. QED  BY <3>1, <3>3, <1>i, BaseFrame DEF TypeOK
  <2>4. QED  BY <2>2, <2>3
<1>11. ASSUME NEW r \in Runs, Record(r) PROVE BaseInv'
  <2>1. run[r].cand \in Candidates /\ Target(r) \in Notes /\ run[r].decision \in {"none", "new", "confirm", "update"}
    BY <1>11, <1>i, <1>p, TargetType DEF Record, InHand, HandsFull, HandFull, Process
  <2>. DEFINE c == run[r].cand
              p == IF Undecided(c) THEN Counted(r) ELSE Between(r)
  <2>2. run' = [run EXCEPT ![r] = p]
    BY <1>11 DEF Record
  <2>3. p \in Process /\ HandFull(p)
    <3>1. Counted(r) \in Process /\ Counted(r).pc = "judging"
      BY <2>1, <1>i, CountedType
    <3>2. Between(r) \in Process /\ Between(r).pc = "judging"
      BY <1>i, BetweenType
    <3>3. QED  BY <3>1, <3>2 DEF HandFull
  <2>. HIDE DEF p
  <2>4. run' \in [Runs -> Process] /\ HandsFull'
    BY <2>2, <2>3, <1>i, HandsFrame
  <2>. DEFINE row == [state |-> "promoted", decision |-> run[r].decision,
                      target |-> Target(r), old |-> FALSE]
  <2>5. row \in Row /\ row.state = "promoted"
    BY <2>1 DEF Row
  <2>6. UNCHANGED <<file, synced, review, crashes, overlapped>>
        /\ \/ /\ Undecided(c) /\ ledger' = [ledger EXCEPT ![c] = row]
              /\ state' = [state EXCEPT ![c] = "promoted"]
           \/ UNCHANGED <<ledger, state>>
    BY <1>11 DEF Record
  <2>. HIDE DEF row
  <2>7. \A d \in Candidates :
           \/ d = c /\ Undecided(c) /\ state'[d] = "promoted" /\ ledger'[d] = row
           \/ state'[d] = state[d] /\ ledger'[d] = ledger[d]
    BY <2>6, <2>1, <1>i DEF TypeOK
  <2>8. IsFiniteSet({d \in Candidates : state'[d] # "absent"})
    <3>1. {d \in Candidates : state'[d] # "absent"}
            \subseteq {d \in Candidates : state[d] # "absent"} \cup {c}
      BY <2>7
    <3>2. QED  BY <3>1, <1>i, FS_AddElement, FS_Subset DEF LedgerSound
  <2>9. ReadyIffUndecided'
    BY <2>7, <2>5, <1>i DEF ReadyIffUndecided, Undecided
  <2>10. LedgerSound'
    BY <2>5, <2>7, <2>8, <1>i DEF LedgerSound, Undecided
  <2>11. TypeOK'
    BY <2>1, <2>4, <2>5, <2>6, <1>i DEF TypeOK, States
  <2>12. FilesSound'
    BY <2>6, <1>i DEF FilesSound, Known, Exists
  <2>13. QED  BY <2>4, <2>9, <2>10, <2>11, <2>12 DEF BaseInv
<1>12. ASSUME NEW r \in Runs, Relate(r) PROVE BaseInv'
  <2>1. PICK related \in SUBSET {n \in run[r].promoted : Exists(n) /\ ~file[n].related} :
          /\ file' = [n \in Notes |-> IF n \in related THEN [file[n] EXCEPT !.related = TRUE]
                                      ELSE file[n]]
          /\ run' = [run EXCEPT ![r] = [Idle EXCEPT !.pc = "finishing",
                                                    !.applied = (related # {})]]
    BY <1>12 DEF Relate
  <2>. DEFINE p == [Idle EXCEPT !.pc = "finishing", !.applied = (related # {})]
  <2>2. p \in Process /\ HandFull(p)
    BY IdleType DEF Process, Pcs, HandFull
  <2>3. run' = [run EXCEPT ![r] = p]
    BY <2>1
  <2>. HIDE DEF p
  <2>4. run' \in [Runs -> Process] /\ HandsFull'
    BY <2>2, <2>3, <1>i, HandsFrame
  <2>5. \A n \in Notes : file'[n] \in NoteFile /\ file'[n].refs = file[n].refs /\ (Exists(n) => file'[n] # NoFile)
    BY <2>1, <1>i DEF TypeOK, NoteFile, NoFile, Exists
  <2>6. UNCHANGED <<state, ledger, review, crashes, overlapped>> /\ synced' = Indexed(file)
    BY <1>12 DEF Relate
  <2>7. file' \in [Notes -> NoteFile]
    BY <2>1, <2>5
  <2>8. TypeOK'
    BY <2>4, <2>6, <2>7, <1>i, IndexedType DEF TypeOK
  <2>9. FilesSound'
    BY <2>5, <2>6, <1>i, IndexedType DEF FilesSound, Known, Exists, TypeOK
  <2>10. LedgerSound' /\ ReadyIffUndecided'
    BY <2>6, <1>i DEF LedgerSound, ReadyIffUndecided, Undecided
  <2>11. QED  BY <2>4, <2>8, <2>9, <2>10 DEF BaseInv
<1>13. ASSUME NEW c \in Candidates, NEW verdict \in {"promoted", "rejected"},
              ledger' = Verdict(c, verdict), UNCHANGED state
       PROVE  /\ ledger' \in [Candidates -> Row] /\ LedgerSound' /\ ReadyIffUndecided'
  <2>1. \A d \in Candidates : ledger'[d] \in Row /\ ledger'[d].target = ledger[d].target
           /\ \/ ledger'[d].state = ledger[d].state
              \/ ledger'[d].state = verdict /\ ledger[d].state = "review_routed"
    BY <1>13, <1>i DEF Verdict, TypeOK, Row
  <2>2. ledger' \in [Candidates -> Row]
    BY <1>13, <2>1 DEF Verdict
  <2>3. QED  BY <1>13, <2>1, <2>2, <1>i DEF LedgerSound, ReadyIffUndecided, Undecided
<1>14. ASSUME NEW c \in Candidates, ApproveReviewItem(c) PROVE BaseInv'
  <2>1. ledger' \in [Candidates -> Row] /\ LedgerSound' /\ ReadyIffUndecided'
    BY <1>13, <1>14 DEF ApproveReviewItem
  <2>2. NoteOf[c] \in Notes
    BY PromotionAssumption
  <2>3. TypeOK'
    BY <1>14, <2>1, <2>2, <1>i, NewText, CandidateTexts DEF ApproveReviewItem, TypeOK, MeetsRun
  <2>4. FilesSound'
    BY <1>14, <2>2, <1>i, NewText, CandidateTexts DEF ApproveReviewItem, FilesSound, Known, Exists, TypeOK
  <2>5. HandsFull'
    BY <1>14, <1>i DEF ApproveReviewItem, HandsFull
  <2>6. QED  BY <2>1, <2>3, <2>4, <2>5 DEF BaseInv
<1>15. ASSUME NEW c \in Candidates, RejectReviewItem(c) PROVE BaseInv'
  <2>1. ledger' \in [Candidates -> Row] /\ LedgerSound' /\ ReadyIffUndecided'
    BY <1>13, <1>15 DEF RejectReviewItem
  <2>2. TypeOK'
    BY <1>15, <2>1, <1>i DEF RejectReviewItem, TypeOK, MeetsRun
  <2>3. HandsFull' /\ FilesSound'
    BY <1>15, <1>i DEF RejectReviewItem, HandsFull, FilesSound, Known, Exists
  <2>4. QED  BY <2>1, <2>2, <2>3 DEF BaseInv
<1>16. CASE UNCHANGED vars
  <2>1. TypeOK' /\ HandsFull'
    BY <1>16, <1>i DEF vars, TypeOK, HandsFull
  <2>2. FilesSound' /\ LedgerSound' /\ ReadyIffUndecided'
    BY <1>16, <1>i DEF vars, FilesSound, LedgerSound, ReadyIffUndecided, Known, Exists, Undecided
  <2>3. QED  BY <2>1, <2>2 DEF BaseInv
<1>17. QED
  BY <1>1, <1>2, <1>3, <1>4, <1>5, <1>6, <1>7, <1>8, <1>9, <1>10, <1>11, <1>12, <1>14, <1>15, <1>16
  DEF Next, RunStep

-----------------------------------------------------------------------------
(* While runs do not overlap, a run is alone.                              *)

LEMMA OneRun ==
    ASSUME Alone, NEW r \in Runs, Active(r)
    PROVE  \A q \in Runs : q # r => ~Active(q)
BY DEF Alone

LEMMA AloneFrame ==
    ASSUME TypeOK, NEW r \in Runs, NEW p, run' = [run EXCEPT ![r] = p],
           \A q \in Runs : q # r => ~Active(q),
           \A c \in p.rows : ledger'[c].state = "none",
           p.pc \in {"writing", "recording"} => ledger'[p.cand].state = "none"
    PROVE  Alone'
<1>1. run'[r] = p /\ \A q \in Runs : q # r => run'[q] = run[q]
  BY RunUpdated
<1>2. \A q \in Runs : q # r => run'[q].pc = "idle"
  BY <1>1 DEF Active
<1>3. \A q \in Runs : Active(q)' => q = r
  BY <1>2 DEF Active
<1>4. \A c \in run'[r].rows : ledger'[c].state = "none"
  BY <1>1
<1>5. run'[r].pc \in {"writing", "recording"} => ledger'[run'[r].cand].state = "none"
  BY <1>1
<1>6. QED  BY <1>2, <1>3, <1>4, <1>5 DEF Alone, InHand, Undecided

LEMMA AloneStep ==
    ASSUME BaseInv, ~overlapped => Alone, [Next]_vars, ~overlapped'
    PROVE  Alone'
<1>i. TypeOK /\ HandsFull /\ FilesSound /\ LedgerSound /\ ReadyIffUndecided
  BY DEF BaseInv
<1>o. ~overlapped /\ Alone
  <2>1. overlapped => overlapped'
    BY <1>i DEF Next, RunStep, CandidateStored, DecisionAges, SyncVault, RequeueRejected, Fetch,
            ChunkDone, Reject, Judge, JudgeFails, Rename, Record, Relate, Finish, Crash,
            ApproveReviewItem, RejectReviewItem, MeetsRun, vars
  <2>2. QED  BY <2>1
<1>p. \A r \in Runs : run[r] \in Process
  BY <1>i DEF TypeOK
<1>q. \A r \in Runs : Active(r) => \A q \in Runs : q # r => ~Active(q)
  BY <1>o, OneRun
<1>u. \A r \in Runs : run[r].rows \subseteq Candidates
  BY <1>p DEF Process
<1>1. ASSUME run' = run, \A c : Undecided(c) => Undecided(c)' PROVE Alone'
  BY <1>1, <1>o DEF Alone, Active, InHand
<1>2. ASSUME NEW c \in Candidates, CandidateStored(c) PROVE Alone'
  BY <1>1, <1>2 DEF CandidateStored, Undecided
<1>3. ASSUME NEW c \in Candidates, DecisionAges(c) PROVE Alone'
  <2>1. run' = run /\ \A d \in Candidates : ledger'[d].state = ledger[d].state
    BY <1>3, <1>i DEF DecisionAges, TypeOK, Row
  <2>2. \A r \in Runs : InHand(r) => run[r].cand \in Candidates
    BY <1>i DEF InHand, HandsFull, HandFull
  <2>3. QED  BY <2>1, <2>2, <1>o, <1>u DEF Alone, Active, InHand, Undecided
<1>4. CASE SyncVault
  BY <1>1, <1>4 DEF SyncVault, Undecided
<1>5. ASSUME NEW r \in Runs, RequeueRejected(r) PROVE Alone'
  <2>. DEFINE p == [Idle EXCEPT !.pc = "fetching"]
  <2>1. run' = [run EXCEPT ![r] = p] /\ \A q \in Runs : q # r => ~Active(q)
    BY <1>5, <1>o DEF RequeueRejected
  <2>2. p.rows = {} /\ p.pc = "fetching"
    BY DEF Idle
  <2>. HIDE DEF p
  <2>3. QED  BY <2>1, <2>2, <1>i, AloneFrame
<1>6. ASSUME NEW r \in Runs, Fetch(r) PROVE Alone'
  <2>. DEFINE rows == {c \in Ready : c > run[r].last}
              last == CHOOSE c \in rows : \A d \in rows : d <= c
              p == IF rows # {}
                   THEN [run[r] EXCEPT !.pc = "judging", !.rows = rows, !.last = last]
                   ELSE [Idle EXCEPT !.pc = IF run[r].promoted # {} THEN "relating" ELSE "finishing",
                                     !.promoted = run[r].promoted]
  <2>1. run' = [run EXCEPT ![r] = p] /\ ledger' = ledger /\ Active(r)
    BY <1>6 DEF Fetch, Active
  <2>2. \A c \in rows : ledger'[c].state = "none"
    BY <2>1 DEF Ready, Undecided
  <2>. HIDE DEF rows, last
  <2>3. (p.rows = rows /\ p.pc = "judging") \/ (p.rows = {} /\ p.pc \in {"relating", "finishing"})
    <3>1. CASE rows # {}
      BY <3>1, <1>p DEF Process
    <3>2. CASE rows = {}
      BY <3>2, IdleType DEF Process
    <3>3. QED  BY <3>1, <3>2
  <2>. HIDE DEF p
  <2>4. QED  BY <2>1, <2>2, <2>3, <1>i, <1>q, AloneFrame
<1>7. ASSUME NEW r \in Runs, ChunkDone(r) \/ Finish(r) \/ Crash(r) PROVE Alone'
  <2>. DEFINE p == IF ChunkDone(r) THEN [run[r] EXCEPT !.pc = "fetching"] ELSE Idle
  <2>1. run' = [run EXCEPT ![r] = p] /\ ledger' = ledger /\ Active(r)
    BY <1>7 DEF ChunkDone, Finish, Crash, Active
  <2>2. p.rows = {} /\ p.pc \in {"fetching", "idle"}
    <3>1. CASE ChunkDone(r)
      BY <3>1, <1>p DEF ChunkDone, Process
    <3>2. CASE ~ChunkDone(r)
      BY <3>2, IdleType
    <3>3. QED  BY <3>1, <3>2
  <2>. HIDE DEF p
  <2>3. QED  BY <2>1, <2>2, <1>i, <1>q, AloneFrame
<1>8. ASSUME NEW r \in Runs, NEW c \in Candidates, Reject(r, c) \/ JudgeFails(r, c) PROVE Alone'
  <2>. DEFINE p == [run[r] EXCEPT !.rows = run[r].rows \ {c}]
  <2>1. run' = [run EXCEPT ![r] = p] /\ Active(r)
    BY <1>8 DEF Reject, JudgeFails, Turn, Active
  <2>2. p.rows = run[r].rows \ {c} /\ p.pc = "judging"
    BY <1>8, <1>p DEF Reject, JudgeFails, Turn, Process
  <2>3. \A d \in Candidates : d # c => ledger'[d] = ledger[d]
    BY <1>8, <1>i DEF Reject, JudgeFails, TypeOK
  <2>4. \A d \in run[r].rows : Undecided(d)
    BY <1>o, <2>1 DEF Alone
  <2>5. \A d \in p.rows : ledger'[d].state = "none"
    BY <2>2, <2>3, <2>4, <1>u DEF Undecided
  <2>. HIDE DEF p
  <2>6. QED  BY <2>1, <2>2, <2>5, <1>i, <1>q, AloneFrame
<1>9. ASSUME NEW r \in Runs, NEW c \in Candidates, Judge(r, c) PROVE Alone'
  <2>1. PICK p : /\ run' = [run EXCEPT ![r] = p] /\ p.pc = "writing" /\ p.cand = c
                 /\ p.rows = run[r].rows \ {c}
    <3>1. PICK decision, target, path, text :
             run' = [run EXCEPT ![r] =
               [run[r] EXCEPT !.pc = "writing", !.rows = run[r].rows \ {c}, !.cand = c,
                              !.decision = decision, !.target = target, !.path = path,
                              !.text = text]]
      BY <1>9 DEF Judge
    <3>. DEFINE s == [run[r] EXCEPT !.pc = "writing", !.rows = run[r].rows \ {c}, !.cand = c,
                                    !.decision = decision, !.target = target, !.path = path,
                                    !.text = text]
    <3>2. s.pc = "writing" /\ s.cand = c /\ s.rows = run[r].rows \ {c}
      BY <1>p DEF Process
    <3>3. QED  BY <3>1, <3>2
  <2>2. ledger' = ledger /\ Active(r) /\ c \in run[r].rows
    BY <1>9 DEF Judge, Turn, Active
  <2>3. \A d \in run[r].rows : Undecided(d)
    BY <1>o, <2>2 DEF Alone
  <2>4. (\A d \in p.rows : ledger'[d].state = "none") /\ ledger'[p.cand].state = "none"
    BY <2>1, <2>2, <2>3 DEF Undecided
  <2>5. QED  BY <2>1, <2>2, <2>4, <1>i, <1>q, AloneFrame
<1>10. ASSUME NEW r \in Runs, Rename(r) PROVE Alone'
  <2>. DEFINE p == [run[r] EXCEPT !.pc = "recording", !.path = NoNote, !.text = NoFile]
  <2>1. Active(r) /\ Undecided(run[r].cand) /\ \A d \in run[r].rows : Undecided(d)
    BY <1>10, <1>o DEF Rename, Active, Alone, InHand
  <2>2. run' = [run EXCEPT ![r] = p] /\ ledger' = ledger
    BY <1>10, <2>1 DEF Rename
  <2>3. p.rows = run[r].rows /\ p.cand = run[r].cand
    BY <1>p DEF Process
  <2>. HIDE DEF p
  <2>4. (\A d \in p.rows : ledger'[d].state = "none") /\ ledger'[p.cand].state = "none"
    BY <2>1, <2>2, <2>3 DEF Undecided
  <2>5. QED  BY <2>1, <2>2, <2>4, <1>i, <1>q, AloneFrame
<1>11. ASSUME NEW r \in Runs, Record(r) PROVE Alone'
  <2>1. Active(r) /\ Undecided(run[r].cand) /\ \A d \in run[r].rows : Undecided(d)
    BY <1>11, <1>o DEF Record, Active, Alone, InHand
  <2>2. run[r].cand \in Candidates /\ run[r].cand \notin run[r].rows /\ Target(r) \in Notes
    BY <1>11, <1>i, TargetType DEF Record, HandsFull, HandFull, InHand
  <2>3. run' = [run EXCEPT ![r] = Counted(r)] /\ \A d \in Candidates : d # run[r].cand => ledger'[d] = ledger[d]
    BY <1>11, <2>1, <1>i DEF Record, TypeOK
  <2>4. Counted(r).rows = run[r].rows /\ Counted(r).pc = "judging"
    BY <2>2, <1>i, CountedType
  <2>5. \A d \in Counted(r).rows : ledger'[d].state = "none"
    BY <2>1, <2>2, <2>3, <2>4, <1>u DEF Undecided
  <2>6. QED  BY <2>1, <2>3, <2>4, <2>5, <1>i, <1>q, AloneFrame
<1>12. ASSUME NEW r \in Runs, Relate(r) PROVE Alone'
  <2>1. PICK applied \in BOOLEAN :
           run' = [run EXCEPT ![r] = [Idle EXCEPT !.pc = "finishing", !.applied = applied]]
    BY <1>12 DEF Relate
  <2>. DEFINE p == [Idle EXCEPT !.pc = "finishing", !.applied = applied]
  <2>2. p.rows = {} /\ p.pc = "finishing"
    BY DEF Idle
  <2>3. Active(r)
    BY <1>12 DEF Relate, Active
  <2>. HIDE DEF p
  <2>4. run' = [run EXCEPT ![r] = p]
    BY <2>1 DEF p
  <2>5. QED  BY <2>2, <2>3, <2>4, <1>i, <1>q, AloneFrame
<1>13. ASSUME NEW c \in Candidates, ApproveReviewItem(c) \/ RejectReviewItem(c) PROVE Alone'
  <2>1. run' = run /\ \A r \in Runs : ~Active(r)
    BY <1>13 DEF ApproveReviewItem, RejectReviewItem, MeetsRun
  <2>2. QED  BY <2>1 DEF Alone, Active, InHand
<1>14. CASE UNCHANGED vars
  BY <1>1, <1>14 DEF vars, Undecided
<1>15. QED
  BY <1>2, <1>3, <1>4, <1>5, <1>6, <1>7, <1>8, <1>9, <1>10, <1>11, <1>12, <1>13, <1>14
  DEF Next, RunStep

-----------------------------------------------------------------------------
(* While, besides, nothing crashes: the table, the texts and the counts.   *)

LEMMA BehindFrame ==
    ASSUME TypeOK, TableBehind, NEW r \in Runs, NEW p, run' = [run EXCEPT ![r] = p],
           \A n \in Notes : synced[n] = Parsed(file[n]) \/ BehindIn(run[r], n)
                              => synced'[n] = Parsed(file'[n]) \/ BehindIn(p, n)
    PROVE  TableBehind'
<1>1. run'[r] = p /\ \A q \in Runs : q # r => run'[q] = run[q]
  BY RunUpdated
<1>2. ASSUME NEW n \in Notes PROVE synced'[n] = Parsed(file'[n]) \/ \E q \in Runs : BehindIn(run'[q], n)
  <2>1. CASE \E q \in Runs : q # r /\ BehindIn(run[q], n)
    BY <1>1, <2>1
  <2>2. CASE ~\E q \in Runs : q # r /\ BehindIn(run[q], n)
    BY <1>1, <2>2 DEF TableBehind
  <2>3. QED  BY <2>1, <2>2
<1>3. QED  BY <1>2 DEF TableBehind, BehindIn, TargetOf

LEMMA TextsFrame ==
    ASSUME TypeOK, NEW r \in Runs, NEW p, run' = [run EXCEPT ![r] = p],
           \A q \in Runs : q # r => ~Active(q),
           \/ p.pc # "writing"
           \/ file'[p.path].bodies \subseteq p.text.bodies
           \/ file'[p.path].stale
           \/ p.path \in p.promoted
    PROVE  TextsGrow'
<1>1. run'[r] = p /\ \A q \in Runs : q # r => run'[q] = run[q]
  BY RunUpdated
<1>2. \A q \in Runs : q # r => run'[q].pc = "idle"
  BY <1>1 DEF Active
<1>3. QED  BY <1>1, <1>2 DEF TextsGrow

LEMMA CountsFrame ==
    ASSUME TypeOK, CountsRight, NEW r \in Runs, NEW p, run' = [run EXCEPT ![r] = p],
           \A q \in Runs : q # r => ~Active(q),
           \A n \in Notes : file'[n].refs = file[n].refs /\ file'[n].count = file[n].count,
           \A c \in Candidates : ledger[c].state \in {"promoted", "review_routed"}
                                    => ledger'[c].state = ledger[c].state,
           review' = review, run[r].pc # "recording",
           p.pc = "writing" =>
              /\ p.text.count = Cardinality(p.text.refs)
              /\ \A c \in p.text.refs \ {0} : c = p.cand \/ ledger'[c].state = "promoted"
    PROVE  CountsRight'
<1>1. run'[r] = p /\ \A q \in Runs : q # r => run'[q] = run[q]
  BY RunUpdated
<1>2. \A q \in Runs : q # r => run'[q].pc = "idle"
  BY <1>1 DEF Active
<1>3. \A n \in Notes : file'[n].count = Cardinality(file'[n].refs)
  BY DEF CountsRight
<1>4. \A q \in Runs : run'[q].pc = "writing" =>
         /\ run'[q].text.count = Cardinality(run'[q].text.refs)
         /\ \A c \in run'[q].text.refs \ {0} : c = run'[q].cand \/ ledger'[c].state = "promoted"
  BY <1>1, <1>2
<1>5. \A q \in Runs : run[q].pc # "recording"
  BY DEF Active
<1>6. \A n \in Notes : file'[n].refs \ {0} \subseteq Candidates
  BY DEF TypeOK, NoteFile, Texts
<1>7. \A n \in Notes : \A c \in file'[n].refs \ {0} : ledger'[c].state = "promoted"
  BY <1>5, <1>6 DEF CountsRight
<1>8. \A c \in review' : ledger'[c].state = "review_routed"
  BY DEF CountsRight, TypeOK
<1>9. QED  BY <1>3, <1>4, <1>7, <1>8 DEF CountsRight

LEMMA QuietStep ==
    ASSUME BaseInv, Alone, TableBehind, TextsGrow, [Next]_vars, crashes' = 0, ~overlapped'
    PROVE  /\ TableBehind' /\ TextsGrow'
           /\ OneItemPerNote /\ CountsRight => CountsRight'
<1>. DEFINE Goal == /\ TableBehind' /\ TextsGrow'
                    /\ OneItemPerNote /\ CountsRight => CountsRight'
<1>i. TypeOK /\ HandsFull /\ FilesSound /\ LedgerSound /\ ReadyIffUndecided
  BY DEF BaseInv
<1>p. \A r \in Runs : run[r] \in Process
  BY <1>i DEF TypeOK
<1>q. \A r \in Runs : Active(r) => \A q \in Runs : q # r => ~Active(q)
  BY OneRun
<1>u. \A r \in Runs : run[r].rows \subseteq Candidates /\ run[r].promoted \subseteq Notes
  BY <1>p DEF Process
<1>n. \A r \in Runs : run[r].pc \in {"idle", "finishing"} => run[r].promoted = {}
  BY <1>i DEF HandsFull, HandFull
<1>1. ASSUME run' = run, file' = file, synced' = synced \/ synced' = Indexed(file), review' = review,
             \A c \in Candidates : ledger'[c].state = ledger[c].state
      PROVE  Goal
  <2>1. TableBehind' /\ TextsGrow'
    BY <1>1, <1>i, IndexedType DEF TableBehind, BehindIn, TargetOf, TextsGrow, TypeOK
  <2>2. \A n \in Notes : file[n].refs \ {0} \subseteq Candidates
    BY <1>i DEF TypeOK, NoteFile, Texts
  <2>3. \A r \in Runs : run[r].text.refs \ {0} \subseteq Candidates
    BY <1>p DEF Process, NoteFile, Texts
  <2>4. review \subseteq Candidates
    BY <1>i DEF TypeOK
  <2>5. CountsRight => CountsRight'
    BY <1>1, <2>2, <2>3, <2>4 DEF CountsRight
  <2>6. QED  BY <2>1, <2>5
<1>2. ASSUME NEW c \in Candidates, CandidateStored(c) PROVE Goal
  BY <1>1, <1>2 DEF CandidateStored
<1>3. ASSUME NEW c \in Candidates, DecisionAges(c) PROVE Goal
  <2>1. \A d \in Candidates : ledger'[d].state = ledger[d].state
    BY <1>3, <1>i DEF DecisionAges, TypeOK, Row
  <2>2. QED  BY <2>1, <1>1, <1>3 DEF DecisionAges
<1>4. CASE SyncVault
  BY <1>1, <1>4 DEF SyncVault
<1>5. ASSUME NEW r \in Runs, RequeueRejected(r) PROVE Goal
  <2>. DEFINE p == [Idle EXCEPT !.pc = "fetching"]
  <2>1. /\ run' = [run EXCEPT ![r] = p] /\ \A q \in Runs : q # r => ~Active(q)
        /\ run[r].pc = "idle" /\ UNCHANGED <<file, synced, review>>
    BY <1>5 DEF RequeueRejected
  <2>2. p.pc = "fetching"
    BY DEF Idle
  <2>3. \A c \in Candidates : ledger[c].state # "rejected" => ledger'[c] = ledger[c]
    BY <1>5 DEF RequeueRejected, Stale, TypeOK
  <2>. HIDE DEF p
  <2>4. \A n \in Notes : ~BehindIn(run[r], n)
    BY <2>1, <1>n DEF BehindIn
  <2>5. QED  BY <2>1, <2>2, <2>3, <2>4, <1>i, BehindFrame, TextsFrame, CountsFrame
<1>6. ASSUME NEW r \in Runs, Fetch(r) \/ ChunkDone(r) PROVE Goal
  <2>1. PICK p : /\ run' = [run EXCEPT ![r] = p] /\ p.pc # "writing"
                 /\ p.promoted = run[r].promoted
    <3>1. CASE ChunkDone(r)
      <4>1. run' = [run EXCEPT ![r] = [run[r] EXCEPT !.pc = "fetching"]]
        BY <3>1 DEF ChunkDone
      <4>2. [run[r] EXCEPT !.pc = "fetching"].pc = "fetching"
            /\ [run[r] EXCEPT !.pc = "fetching"].promoted = run[r].promoted
        BY <1>p DEF Process
      <4>3. QED  BY <4>1, <4>2
    <3>2. CASE Fetch(r)
      <4>1. PICK rows, last, s :
              /\ run' = [run EXCEPT ![r] = s]
              /\ \/ s = [run[r] EXCEPT !.pc = "judging", !.rows = rows, !.last = last]
                 \/ s = [Idle EXCEPT !.pc = "relating", !.promoted = run[r].promoted]
                 \/ s = [Idle EXCEPT !.pc = "finishing", !.promoted = run[r].promoted]
        BY <3>2 DEF Fetch
      <4>2. s.pc # "writing" /\ s.promoted = run[r].promoted
        BY <4>1, <1>p, IdleType DEF Process
      <4>3. QED  BY <4>1, <4>2
    <3>3. QED  BY <1>6, <3>1, <3>2
  <2>2. /\ Active(r) /\ UNCHANGED <<file, synced, review, ledger>>
        /\ run[r].pc \in {"fetching", "judging"}
    BY <1>6 DEF Fetch, ChunkDone, Active
  <2>3. \A n \in Notes : BehindIn(run[r], n) => BehindIn(p, n)
    BY <2>1, <2>2 DEF BehindIn
  <2>4. QED  BY <2>1, <2>2, <2>3, <1>i, <1>q, BehindFrame, TextsFrame, CountsFrame
<1>7. ASSUME NEW r \in Runs, Finish(r) PROVE Goal
  <2>1. /\ run' = [run EXCEPT ![r] = Idle] /\ run[r].pc = "finishing" /\ Active(r)
        /\ synced' = (IF run[r].applied THEN Indexed(file) ELSE synced)
        /\ UNCHANGED <<file, review, ledger>>
    BY <1>7 DEF Finish, Active
  <2>2. \A n \in Notes : BehindIn(run[r], n) => run[r].applied
    BY <2>1, <1>n DEF BehindIn
  <2>3. \A n \in Notes : synced[n] = Parsed(file[n]) \/ BehindIn(run[r], n)
                            => synced'[n] = Parsed(file'[n])
    BY <2>1, <2>2, <1>i, IndexedType DEF TypeOK
  <2>4. QED  BY <2>1, <2>2, <2>3, <1>i, <1>q, IdleType, BehindFrame, TextsFrame, CountsFrame
<1>8. ASSUME NEW r \in Runs, NEW c \in Candidates, Reject(r, c) PROVE Goal
  <2>. DEFINE p == [run[r] EXCEPT !.rows = run[r].rows \ {c}]
  <2>1. run' = [run EXCEPT ![r] = p] /\ Active(r) /\ UNCHANGED <<file, synced, review>>
        /\ run[r].pc = "judging"
    BY <1>8 DEF Reject, Turn, Active
  <2>2. p.promoted = run[r].promoted /\ p.pc = "judging"
    BY <1>8, <1>p DEF Reject, Turn, Process
  <2>3. \A d \in Candidates : ledger[d].state # "none" => ledger'[d] = ledger[d]
    BY <1>8, <1>i DEF Reject, TypeOK, Undecided
  <2>. HIDE DEF p
  <2>4. \A n \in Notes : BehindIn(run[r], n) => BehindIn(p, n)
    BY <2>1, <2>2 DEF BehindIn
  <2>5. QED  BY <2>1, <2>2, <2>3, <2>4, <1>i, <1>q, BehindFrame, TextsFrame, CountsFrame
<1>9. ASSUME NEW r \in Runs, Crash(r) \/ \E c \in Candidates : JudgeFails(r, c) PROVE Goal
  BY <1>9, <1>i DEF JudgeFails, Crash, TypeOK
<1>10. ASSUME NEW r \in Runs, NEW c \in Candidates, Judge(r, c) PROVE Goal
  <2>1. PICK d \in Decisions(c) :
           run' = [run EXCEPT ![r] =
              [run[r] EXCEPT !.pc = "writing", !.rows = run[r].rows \ {c}, !.cand = c,
                             !.decision = d[1], !.target = d[2],
                             !.path = IF d[1] # "new" /\ Exists(d[2]) THEN d[2] ELSE NoteOf[c],
                             !.text = IF d[1] # "new" /\ Exists(d[2])
                                      THEN RenderExisting(c, d[2], d[1], d[3]) ELSE RenderNew(c)]]
    BY <1>10 DEF Judge
  <2>2. \/ d[1] = "new" /\ d[2] = NoNote /\ ~Known(NoteOf[c])
        \/ d[1] \in {"confirm", "update"} /\ d[2] \in Notes /\ Exists(d[2])
    BY DecisionType, <1>i
  <2>. DEFINE path == IF d[1] # "new" /\ Exists(d[2]) THEN d[2] ELSE NoteOf[c]
              text == IF d[1] # "new" /\ Exists(d[2])
                      THEN RenderExisting(c, d[2], d[1], d[3]) ELSE RenderNew(c)
              p == [run[r] EXCEPT !.pc = "writing", !.rows = run[r].rows \ {c}, !.cand = c,
                             !.decision = d[1], !.target = d[2], !.path = path, !.text = text]
  <2>3. run' = [run EXCEPT ![r] = p]
    BY <2>1
  <2>4. Active(r) /\ UNCHANGED <<file, synced, review, ledger>> /\ run[r].pc = "judging"
        /\ c \in run[r].rows
    BY <1>10 DEF Judge, Turn, Active
  <2>5. \A n \in Notes : BehindIn(run[r], n) <=> n \in run[r].promoted
    BY <2>4 DEF BehindIn
  <2>6. \A q \in Runs : q # r => \A n \in Notes : ~BehindIn(run[q], n)
    BY <2>4, <1>q, <1>n DEF BehindIn, Active
  <2>7. \A n \in Notes : synced[n] = Parsed(file[n]) \/ n \in run[r].promoted
    BY <2>5, <2>6 DEF TableBehind
  <2>8. NoteOf[c] \in Notes
    BY PromotionAssumption
  <2>9. \/ file[path].bodies \subseteq text.bodies \/ file[path].stale
        \/ path \in run[r].promoted
    <3>1. CASE d[1] = "new"
      <4>1. path = NoteOf[c] /\ (Parsed(file[path]) = NoFile \/ path \in run[r].promoted)
        BY <2>2, <2>7, <2>8, <3>1 DEF Known
      <4>2. file[path].stale \/ Parsed(file[path]) = file[path]
        BY <2>8, <4>1, <1>i, ParsedType DEF TypeOK
      <4>3. QED  BY <4>1, <4>2 DEF NoFile
    <3>2. CASE d[1] \in {"confirm", "update"} /\ d[2] \in Notes /\ Exists(d[2])
      <4>1. path = d[2] /\ text = RenderExisting(c, d[2], d[1], d[3])
        BY <3>2
      <4>2. QED  BY <3>2, <4>1, <1>i, MergedText
    <3>3. QED  BY <2>2, <3>1, <3>2
  <2>10. CountsRight => /\ text.count = Cardinality(text.refs)
                        /\ \A e \in text.refs \ {0} : e = c \/ ledger[e].state = "promoted"
    <3>. SUFFICES ASSUME CountsRight
                  PROVE  /\ text.count = Cardinality(text.refs)
                         /\ \A e \in text.refs \ {0} : e = c \/ ledger[e].state = "promoted"
      OBVIOUS
    <3>1. CASE d[1] = "new"
      <4>1. text = RenderNew(c) /\ c \in Texts
        BY <3>1, CandidateTexts
      <4>2. text.refs = {c} /\ text.count = Cardinality({c})
        BY <4>1, NewText
      <4>. HIDE DEF text
      <4>3. QED  BY <4>2
    <3>2. CASE d[1] \in {"confirm", "update"} /\ d[2] \in Notes /\ Exists(d[2])
      <4>1. text = RenderExisting(c, d[2], d[1], d[3])
        BY <3>2
      <4>2. text.refs = file[d[2]].refs \cup {c} /\ text.count = file[d[2]].count + 1
        BY <3>2, <4>1, <1>i, MergedText
      <4>3. \A q \in Runs : run[q].pc # "recording"
        BY <2>4, <1>q DEF Active
      <4>4. \A e \in file[d[2]].refs \ {0} : ledger[e].state = "promoted"
        BY <3>2, <4>3 DEF CountsRight
      <4>5. Undecided(c)
        BY <2>4 DEF Alone
      <4>6. c \notin file[d[2]].refs /\ IsFiniteSet(file[d[2]].refs)
            /\ file[d[2]].count = Cardinality(file[d[2]].refs)
        BY <3>2, <4>4, <4>5, <1>i, CandidateTexts DEF Undecided, FilesSound, CountsRight
      <4>7. QED  BY <4>2, <4>4, <4>6, FS_AddElement
    <3>3. QED  BY <2>2, <3>1, <3>2
  <2>. HIDE DEF path, text
  <2>11. p.pc = "writing" /\ p.cand = c /\ p.path = path /\ p.text = text
         /\ p.promoted = run[r].promoted
    BY <1>p DEF Process
  <2>. HIDE DEF p
  <2>12. \A n \in Notes : BehindIn(run[r], n) => BehindIn(p, n)
    BY <2>5, <2>11 DEF BehindIn
  <2>13. TableBehind'
    BY <2>3, <2>4, <2>12, <1>i, BehindFrame
  <2>14. TextsGrow'
    BY <2>3, <2>4, <2>9, <2>11, <1>i, <1>q, TextsFrame
  <2>15. CountsRight => CountsRight'
    BY <2>3, <2>4, <2>10, <2>11, <1>i, <1>q, CountsFrame
  <2>16. QED  BY <2>13, <2>14, <2>15
<1>11. ASSUME NEW r \in Runs, Rename(r) PROVE Goal
  <2>. DEFINE p == [run[r] EXCEPT !.pc = "recording", !.path = NoNote, !.text = NoFile]
  <2>1. Active(r) /\ Undecided(run[r].cand) /\ run[r].pc = "writing"
    BY <1>11 DEF Rename, Active, Alone, InHand
  <2>2. /\ run' = [run EXCEPT ![r] = p] /\ file' = [file EXCEPT ![run[r].path] = run[r].text]
        /\ UNCHANGED <<ledger, synced, review>>
    BY <1>11, <2>1 DEF Rename
  <2>3. p.pc = "recording" /\ p.cand = run[r].cand /\ p.target = run[r].target
        /\ p.promoted = run[r].promoted
    BY <1>p DEF Process
  <2>. HIDE DEF p
  <2>4. run[r].path = TargetOf(p) /\ run[r].path \in Notes
    <3>1. run[r].path = TargetOf(run[r])
      BY <2>1, <1>i DEF HandsFull, HandFull
    <3>2. TargetOf(run[r]) \in Notes
      BY <2>1, <1>i, <1>p, PromotionAssumption DEF HandsFull, HandFull, TargetOf, Process
    <3>3. QED  BY <3>1, <3>2, <2>3 DEF TargetOf
  <2>5. \A n \in Notes : n # run[r].path => file'[n] = file[n]
    BY <2>2, <1>i DEF TypeOK
  <2>6. file'[run[r].path] = run[r].text
    BY <2>2, <2>4, <1>i DEF TypeOK
  <2>7. \A n \in Notes : synced[n] = Parsed(file[n]) \/ BehindIn(run[r], n)
                            => synced'[n] = Parsed(file'[n]) \/ BehindIn(p, n)
    BY <2>1, <2>2, <2>3, <2>4, <2>5 DEF BehindIn
  <2>8. TableBehind' /\ TextsGrow'
    BY <2>1, <2>2, <2>3, <2>7, <1>i, <1>q, BehindFrame, TextsFrame
  <2>9. ASSUME CountsRight PROVE CountsRight'
    <3>1. run'[r] = p /\ \A q \in Runs : q # r => run'[q].pc = "idle"
      BY <2>1, <2>2, <1>i, <1>q, RunUpdated DEF Active
    <3>2. \A n \in Notes : file'[n].count = Cardinality(file'[n].refs)
      BY <2>1, <2>4, <2>5, <2>6, <2>9 DEF CountsRight
    <3>3. \A q \in Runs : run'[q].pc # "writing"
      BY <3>1, <2>3
    <3>4. \A q \in Runs : run[q].pc # "recording"
      BY <2>1, <1>q DEF Active
    <3>5. ASSUME NEW n \in Notes, NEW c \in file'[n].refs \ {0}
          PROVE  ledger'[c].state = "promoted" \/ c = run'[r].cand
      <4>1. CASE n = run[r].path
        BY <4>1, <3>1, <3>5, <2>1, <2>2, <2>3, <2>6, <2>9 DEF CountsRight
      <4>2. CASE n # run[r].path
        BY <4>2, <3>4, <3>5, <2>2, <2>5, <2>9 DEF CountsRight
      <4>3. QED  BY <4>1, <4>2
    <3>6. \A c \in review' : ledger'[c].state = "review_routed"
      BY <2>2, <2>9 DEF CountsRight
    <3>7. run'[r].pc = "recording"
      BY <3>1, <2>3
    <3>8. QED  BY <3>2, <3>3, <3>5, <3>6, <3>7 DEF CountsRight
  <2>10. QED  BY <2>8, <2>9
<1>12. ASSUME NEW r \in Runs, Record(r) PROVE Goal
  <2>1. Active(r) /\ Undecided(run[r].cand) /\ run[r].pc = "recording"
    BY <1>12 DEF Record, Active, Alone, InHand
  <2>2. run[r].cand \in Candidates /\ Target(r) \in Notes
    BY <2>1, <1>i, TargetType DEF HandsFull, HandFull, InHand
  <2>. DEFINE row == [state |-> "promoted", decision |-> run[r].decision,
                      target |-> Target(r), old |-> FALSE]
  <2>3. /\ run' = [run EXCEPT ![r] = Counted(r)]
        /\ ledger' = [ledger EXCEPT ![run[r].cand] = row]
        /\ UNCHANGED <<file, synced, review>>
    BY <1>12, <2>1 DEF Record
  <2>4. Counted(r).pc = "judging" /\ Counted(r).promoted = run[r].promoted \cup {Target(r)}
    BY <2>2, <1>i, CountedType
  <2>5. \A n \in Notes : BehindIn(run[r], n) => BehindIn(Counted(r), n)
    BY <2>1, <2>4 DEF BehindIn, Target, TargetOf
  <2>6. TableBehind'
    BY <2>3, <2>5, <1>i, BehindFrame
  <2>7. TextsGrow'
    BY <2>1, <2>3, <2>4, <1>i, <1>q, TextsFrame
  <2>8. ASSUME CountsRight PROVE CountsRight'
    <3>1. run'[r].pc = "judging" /\ \A q \in Runs : q # r => run'[q].pc = "idle"
      BY <2>1, <2>3, <2>4, <1>i, <1>q, RunUpdated DEF Active
    <3>2. ledger'[run[r].cand].state = "promoted"
      BY <2>2, <2>3, <1>i DEF TypeOK
    <3>3. \A c \in Candidates : c # run[r].cand => ledger'[c] = ledger[c]
      BY <2>3, <1>i DEF TypeOK
    <3>4. \A n \in Notes : \A c \in file[n].refs \ {0} : c \in Candidates
      BY <1>i DEF TypeOK, NoteFile, Texts
    <3>5. \A q \in Runs : q # r => run[q].pc # "recording"
      BY <2>1, <1>q DEF Active
    <3>6. \A n \in Notes : \A c \in file'[n].refs \ {0} : ledger'[c].state = "promoted"
      BY <2>3, <2>8, <3>2, <3>3, <3>4, <3>5 DEF CountsRight
    <3>7. \A c \in review' : ledger'[c].state = "review_routed"
      <4>1. \A c \in review : c \in Candidates /\ c # run[r].cand
        BY <2>1, <2>8, <1>i DEF CountsRight, Undecided, TypeOK
      <4>2. QED  BY <4>1, <2>3, <2>8, <3>3 DEF CountsRight
    <3>8. \A q \in Runs : run'[q].pc # "writing"
      BY <3>1
    <3>9. QED  BY <2>3, <2>8, <3>6, <3>7, <3>8 DEF CountsRight
  <2>9. QED  BY <2>6, <2>7, <2>8
<1>13. ASSUME NEW r \in Runs, Relate(r) PROVE Goal
  <2>1. PICK related \in SUBSET {n \in run[r].promoted : Exists(n) /\ ~file[n].related} :
          /\ file' = [n \in Notes |-> IF n \in related THEN [file[n] EXCEPT !.related = TRUE]
                                      ELSE file[n]]
          /\ run' = [run EXCEPT ![r] = [Idle EXCEPT !.pc = "finishing",
                                                    !.applied = (related # {})]]
    BY <1>13 DEF Relate
  <2>. DEFINE p == [Idle EXCEPT !.pc = "finishing", !.applied = (related # {})]
  <2>2. p.pc = "finishing" /\ p.applied = (related # {})
    BY DEF Idle
  <2>3. /\ Active(r) /\ run[r].pc = "relating" /\ synced' = Indexed(file)
        /\ UNCHANGED <<ledger, review>> /\ run' = [run EXCEPT ![r] = p]
    BY <1>13, <2>1 DEF Relate, Active
  <2>. HIDE DEF p
  <2>4. \A n \in Notes : file'[n].refs = file[n].refs /\ file'[n].count = file[n].count
    BY <2>1, <1>i DEF TypeOK, NoteFile
  <2>5. \A n \in Notes : n \notin related => file'[n] = file[n]
    BY <2>1
  <2>6. \A n \in Notes : synced'[n] = Parsed(file'[n]) \/ BehindIn(p, n)
    BY <2>2, <2>3, <2>5, <1>i, IndexedType DEF BehindIn, TypeOK
  <2>7. QED  BY <2>2, <2>3, <2>4, <2>6, <1>i, <1>q, BehindFrame, TextsFrame, CountsFrame
<1>14. ASSUME NEW c \in Candidates, NEW verdict,
              ledger' = Verdict(c, verdict), OneItemPerNote, CountsRight, c \in review
       PROVE  \A d \in Candidates :
                 ledger[d].state \in {"promoted", "review_routed"} /\ d # c
                    => ledger'[d] = ledger[d]
  <2>1. c \in Legacy
    BY <1>14, <1>i DEF CountsRight, LedgerSound
  <2>2. QED  BY <1>14, <2>1, <1>i DEF Verdict, LedgerSound, OneItemPerNote
<1>15. ASSUME NEW c \in Candidates, ApproveReviewItem(c) PROVE Goal
  <2>1. /\ run' = run /\ \A r \in Runs : ~Active(r)
        /\ file' = [file EXCEPT ![NoteOf[c]] = RenderNew(c)]
        /\ synced' = [synced EXCEPT ![NoteOf[c]] = RenderNew(c)]
        /\ ledger' = Verdict(c, "promoted") /\ review' = review \ {c} /\ c \in review
    BY <1>15 DEF ApproveReviewItem, MeetsRun
  <2>2. NoteOf[c] \in Notes
    BY PromotionAssumption
  <2>3. /\ file'[NoteOf[c]] = RenderNew(c) /\ synced'[NoteOf[c]] = RenderNew(c)
        /\ \A n \in Notes : n # NoteOf[c] => file'[n] = file[n] /\ synced'[n] = synced[n]
    BY <2>1, <2>2, <1>i DEF TypeOK
  <2>4. TableBehind' /\ TextsGrow'
    <3>1. Parsed(RenderNew(c)) = RenderNew(c)
      BY DEF Parsed, RenderNew
    <3>2. QED  BY <3>1, <2>1, <2>3 DEF TableBehind, BehindIn, TargetOf, TextsGrow, Active
  <2>7. RenderNew(c).refs = {c} /\ RenderNew(c).count = Cardinality(RenderNew(c).refs)
    BY NewText, CandidateTexts
  <2>5. ASSUME OneItemPerNote, CountsRight PROVE CountsRight'
    <3>1. \A n \in Notes : file'[n].count = Cardinality(file'[n].refs)
      <4>1. \A n \in Notes : file[n].count = Cardinality(file[n].refs)
        BY <2>5 DEF CountsRight
      <4>2. QED  BY <2>3, <2>7, <4>1
    <3>2. \A r \in Runs : run[r].pc = "idle" /\ run'[r].pc = "idle"
      BY <2>1 DEF Active
    <3>3. \A d \in Candidates : ledger[d].state \in {"promoted", "review_routed"} /\ d # c
                    => ledger'[d] = ledger[d]
      BY <1>14, <2>1, <2>5
    <3>4. ledger'[c].state = "promoted"
      <4>1. ledger[c].state = "review_routed" /\ ledger[c].target = NoteOf[c]
        BY <2>1, <2>5, <1>i DEF CountsRight, LedgerSound
      <4>2. QED  BY <2>1, <4>1, <1>i DEF Verdict, TypeOK, Row
    <3>5. \A n \in Notes : \A d \in file[n].refs \ {0} : d \in Candidates /\ ledger[d].state = "promoted"
      BY <3>2, <2>5, <1>i DEF CountsRight, TypeOK, NoteFile, Texts
    <3>6. \A n \in Notes : \A d \in file'[n].refs \ {0} : ledger'[d].state = "promoted"
      <4>1. ASSUME NEW n \in Notes, NEW d \in file'[n].refs \ {0} PROVE ledger'[d].state = "promoted"
        <5>1. CASE n = NoteOf[c]
          BY <5>1, <4>1, <2>3, <2>7, <3>4
        <5>2. CASE n # NoteOf[c]
          BY <5>2, <4>1, <2>3, <3>3, <3>4, <3>5
        <5>3. QED  BY <5>1, <5>2
      <4>2. QED  BY <4>1
    <3>7. \A d \in review' : ledger'[d].state = "review_routed"
      BY <2>1, <2>5, <3>3, <1>i DEF CountsRight, TypeOK
    <3>8. QED  BY <3>1, <3>2, <3>6, <3>7 DEF CountsRight
  <2>6. QED  BY <2>4, <2>5
<1>16. ASSUME NEW c \in Candidates, RejectReviewItem(c) PROVE Goal
  <2>1. /\ run' = run /\ \A r \in Runs : ~Active(r)
        /\ file' = file /\ synced' = synced
        /\ ledger' = Verdict(c, "rejected") /\ review' = review \ {c} /\ c \in review
    BY <1>16 DEF RejectReviewItem, MeetsRun
  <2>2. TableBehind' /\ TextsGrow'
    BY <2>1 DEF TableBehind, BehindIn, TargetOf, TextsGrow, Active
  <2>3. ASSUME OneItemPerNote, CountsRight PROVE CountsRight'
    <3>1. \A r \in Runs : run[r].pc = "idle" /\ run'[r].pc = "idle"
      BY <2>1 DEF Active
    <3>2. \A d \in Candidates : ledger[d].state \in {"promoted", "review_routed"} /\ d # c
                    => ledger'[d] = ledger[d]
      BY <1>14, <2>1, <2>3
    <3>3. ledger[c].state = "review_routed"
      BY <2>1, <2>3 DEF CountsRight
    <3>4. \A n \in Notes : \A d \in file[n].refs \ {0} : d \in Candidates /\ ledger[d].state = "promoted"
      BY <3>1, <2>3, <1>i DEF CountsRight, TypeOK, NoteFile, Texts
    <3>5. \A n \in Notes : \A d \in file'[n].refs \ {0} : ledger'[d].state = "promoted"
      BY <2>1, <3>2, <3>3, <3>4
    <3>6. \A d \in review' : ledger'[d].state = "review_routed"
      BY <2>1, <2>3, <3>2, <1>i DEF CountsRight, TypeOK
    <3>7. QED  BY <2>1, <2>3, <3>1, <3>5, <3>6 DEF CountsRight
  <2>4. QED  BY <2>2, <2>3
<1>17. CASE UNCHANGED vars
  BY <1>1, <1>17 DEF vars
<1>18. QED
  BY <1>2, <1>3, <1>4, <1>5, <1>6, <1>7, <1>8, <1>9, <1>10, <1>11, <1>12, <1>13, <1>15, <1>16,
     <1>17 DEF Next, RunStep

-----------------------------------------------------------------------------
(* The theorems.                                                           *)

LEMMA QuietOnce ==
    ASSUME TypeOK, [Next]_vars, crashes' = 0, ~overlapped'
    PROVE  Undisturbed
<1>1. crashes' = crashes \/ crashes' = crashes + 1
  BY DEF Next, RunStep, CandidateStored, DecisionAges, SyncVault, RequeueRejected, Fetch,
         ChunkDone, Reject, Judge, JudgeFails, Rename, Record, Relate, Finish, Crash,
         ApproveReviewItem, RejectReviewItem, vars
<1>2. overlapped => overlapped'
  BY DEF TypeOK, Next, RunStep, CandidateStored, DecisionAges, SyncVault, RequeueRejected, Fetch,
         ChunkDone, Reject, Judge, JudgeFails, Rename, Record, Relate, Finish, Crash,
         ApproveReviewItem, RejectReviewItem, MeetsRun, vars
<1>3. crashes \in Nat
  BY PromotionAssumption DEF TypeOK
<1>4. QED  BY <1>1, <1>2, <1>3 DEF Undisturbed

LEMMA PromotionStep == PromotionInv /\ [Next]_vars => PromotionInv'
<1>. SUFFICES ASSUME PromotionInv, [Next]_vars PROVE PromotionInv'
  OBVIOUS
<1>1. BaseInv'
  BY BaseStep DEF PromotionInv
<1>2. ~overlapped' => Alone'
  BY AloneStep DEF PromotionInv
<1>3. ASSUME Undisturbed' PROVE TableBehind' /\ TextsGrow'
  <2>1. crashes' = 0 /\ ~overlapped'
    BY <1>3 DEF Undisturbed
  <2>2. Undisturbed
    BY <2>1, QuietOnce DEF PromotionInv, BaseInv
  <2>3. BaseInv /\ Alone /\ TableBehind /\ TextsGrow
    BY <2>2 DEF PromotionInv, Undisturbed
  <2>4. QED  BY <2>1, <2>3, QuietStep
<1>4. QED  BY <1>1, <1>2, <1>3 DEF PromotionInv

\* Promotion's invariant holds in every reachable state.
THEOREM PromotionSound == Spec => []PromotionInv
<1>1. Init => PromotionInv
  BY InitBase
<1>2. QED  BY <1>1, PromotionStep, PTL DEF Spec

\* The stores, the files and what the runs hold have their types.
THEOREM PromotionTypeCorrect == Spec => []TypeOK
<1>1. PromotionInv => TypeOK
  BY DEF PromotionInv, BaseInv
<1>2. QED  BY <1>1, PromotionSound, PTL

\* However many processes promote, whatever crashes or is reviewed meanwhile:
\* a candidate waits for promotion exactly while it has no decision.
THEOREM DecidedOnce == Spec => []ReadyIffUndecided
<1>1. PromotionInv => ReadyIffUndecided
  BY DEF PromotionInv, BaseInv
<1>2. QED  BY <1>1, PromotionSound, PTL

\* Without crashes and overlapping runs a candidate is decided once, and no
\* note counts one of its candidates twice.
THEOREM CountedOnce == OneItemPerNote => (Spec => []CandidatesCountOnce)
<1>. SUFFICES ASSUME OneItemPerNote PROVE Spec => []CandidatesCountOnce
  OBVIOUS
<1>. DEFINE Inv == PromotionInv /\ (Undisturbed => CountsRight)
<1>1. Init => Inv
  BY InitBase
<1>2. Inv /\ [Next]_vars => Inv'
  <2>. SUFFICES ASSUME Inv, [Next]_vars PROVE Inv'
    OBVIOUS
  <2>1. PromotionInv'
    BY PromotionStep
  <2>2. ASSUME Undisturbed' PROVE CountsRight'
    <3>1. crashes' = 0 /\ ~overlapped'
      BY <2>2 DEF Undisturbed
    <3>2. Undisturbed
      BY <3>1, QuietOnce DEF PromotionInv, BaseInv
    <3>3. BaseInv /\ Alone /\ TableBehind /\ TextsGrow /\ CountsRight
      BY <3>2 DEF PromotionInv, Undisturbed
    <3>4. QED  BY <3>1, <3>3, QuietStep
  <2>3. QED  BY <2>1, <2>2
<1>3. Inv => CandidatesCountOnce
  BY DEF PromotionInv, BaseInv, Undisturbed, CountsRight, CandidatesCountOnce, NoSelfCorroboration
<1>4. QED  BY <1>1, <1>2, <1>3, PTL DEF Spec

\* Without crashes and overlapping runs no step takes text away from the wiki
\* but for a run that writes again a note it has promoted itself, and for a
\* page that is stale.
THEOREM TextKept == Spec => OnlyUnlistedNotesLoseText
<1>. DEFINE Kept == crashes' = 0 /\ ~overlapped' => \A n \in Notes :
                       \/ file[n].bodies \subseteq file'[n].bodies
                       \/ file[n].stale
                       \/ \E r \in Runs : n \in run[r].promoted
<1>1. PromotionInv /\ [Next]_vars => [Kept]_vars
  <2>. SUFFICES ASSUME PromotionInv, Next, crashes' = 0, ~overlapped', NEW n \in Notes,
                       ~file[n].stale, ~\E r \in Runs : n \in run[r].promoted
                PROVE  file[n].bodies \subseteq file'[n].bodies
    OBVIOUS
  <2>1. TypeOK /\ HandsFull
    BY DEF PromotionInv, BaseInv
  <2>2. TextsGrow
    BY <2>1, QuietOnce DEF PromotionInv
  <2>3. file' = file => file[n].bodies \subseteq file'[n].bodies
    OBVIOUS
  <2>4. ASSUME NEW c \in Candidates, ApproveReviewItem(c) PROVE file[n].bodies \subseteq file'[n].bodies
    <3>1. file' = [file EXCEPT ![NoteOf[c]] = RenderNew(c)] /\ file[NoteOf[c]] = NoFile
      BY <2>4 DEF ApproveReviewItem, Exists
    <3>2. NoFile.bodies = {}
      BY DEF NoFile
    <3>3. CASE n = NoteOf[c]
      BY <3>1, <3>2, <3>3
    <3>4. CASE n # NoteOf[c]
      BY <3>1, <3>4, <2>1 DEF TypeOK
    <3>5. QED  BY <3>3, <3>4
  <2>5. ASSUME NEW r \in Runs, Rename(r), file' # file PROVE file[n].bodies \subseteq file'[n].bodies
    <3>1. file' = [file EXCEPT ![run[r].path] = run[r].text] /\ run[r].pc = "writing"
      BY <2>5 DEF Rename
    <3>2. CASE n = run[r].path
      <4>1. file'[n] = run[r].text
        BY <3>1, <3>2, <2>1 DEF TypeOK
      <4>2. file[n].bodies \subseteq run[r].text.bodies
        BY <3>1, <3>2, <2>2 DEF TextsGrow
      <4>3. QED  BY <4>1, <4>2
    <3>3. CASE n # run[r].path
      BY <3>1, <3>3, <2>1 DEF TypeOK
    <3>4. QED  BY <3>2, <3>3
  <2>6. ASSUME NEW r \in Runs, Relate(r) PROVE file[n].bodies \subseteq file'[n].bodies
    <3>1. PICK related :
            file' = [m \in Notes |-> IF m \in related THEN [file[m] EXCEPT !.related = TRUE]
                                     ELSE file[m]]
      BY <2>6 DEF Relate
    <3>2. file[n] \in NoteFile
      BY <2>1 DEF TypeOK
    <3>3. QED  BY <3>1, <3>2 DEF NoteFile
  <2>7. \/ file' = file \/ (\E c \in Candidates : ApproveReviewItem(c))
        \/ (\E r \in Runs : Rename(r) \/ Relate(r))
    BY DEF Next, RunStep, CandidateStored, DecisionAges, SyncVault, RequeueRejected, Fetch,
           ChunkDone, Reject, Judge, JudgeFails, Record, Finish, Crash, RejectReviewItem
  <2>8. QED  BY <2>3, <2>4, <2>5, <2>6, <2>7
<1>2. QED  BY <1>1, PromotionSound, PTL DEF Spec, OnlyUnlistedNotesLoseText

\* Without crashes and overlapping runs a run that comes to its end leaves
\* the notes table as the files are that the parser takes.
THEOREM TableSynced == Spec => RunLeavesNotesSynced
<1>. DEFINE Leaves == \A r \in Runs : Active(r) /\ ~Active(r)' /\ crashes' = 0 /\ ~overlapped'
                                        => synced' = Indexed(file')
<1>1. PromotionInv /\ [Next]_vars => [Leaves]_vars
  <2>. SUFFICES ASSUME PromotionInv, Next, NEW q \in Runs, Active(q), ~Active(q)',
                       crashes' = 0, ~overlapped'
                PROVE  synced' = Indexed(file')
    OBVIOUS
  <2>1. TypeOK /\ HandsFull
    BY DEF PromotionInv, BaseInv
  <2>2. Alone /\ TableBehind
    BY <2>1, QuietOnce DEF PromotionInv, Undisturbed
  <2>3. ASSUME NEW r \in Runs, Finish(r) PROVE synced' = Indexed(file')
    <3>1. /\ Active(r) /\ run[r].pc = "finishing" /\ file' = file
          /\ synced' = (IF run[r].applied THEN Indexed(file) ELSE synced)
      BY <2>3 DEF Finish, Active
    <3>2. CASE run[r].applied
      BY <3>1, <3>2
    <3>3. CASE ~run[r].applied
      <4>1. \A p \in Runs : p # r => run[p].pc = "idle"
        BY <3>1, <2>2, OneRun DEF Active
      <4>2. \A p \in Runs : run[p].promoted = {}
        BY <3>1, <4>1, <2>1 DEF HandsFull, HandFull
      <4>3. \A p \in Runs, n \in Notes : ~BehindIn(run[p], n)
        BY <3>1, <3>3, <4>1, <4>2 DEF BehindIn
      <4>4. \A n \in Notes : synced[n] = Parsed(file[n])
        BY <4>3, <2>2 DEF TableBehind
      <4>5. synced = Indexed(file)
        BY <4>4, <2>1, IndexedType DEF TypeOK
      <4>6. QED  BY <3>1, <3>3, <4>5
    <3>4. QED  BY <3>2, <3>3
  <2>4. ASSUME NEW r \in Runs, NEW s, run' = [run EXCEPT ![r] = s], s.pc # "idle" PROVE FALSE
    <3>1. run'[r] = s /\ \A p \in Runs : p # r => run'[p] = run[p]
      BY <2>1, <2>4, RunUpdated
    <3>2. QED  BY <3>1, <2>4 DEF Active
  <2>5. ASSUME run' = run PROVE FALSE
    BY <2>5 DEF Active
  <2>p. \A r \in Runs : run[r] \in Process
    BY <2>1 DEF TypeOK
  <2>6. ASSUME NEW r \in Runs, RequeueRejected(r) \/ Relate(r) PROVE FALSE
    <3>1. PICK applied \in BOOLEAN :
             \/ run' = [run EXCEPT ![r] = [Idle EXCEPT !.pc = "fetching"]]
             \/ run' = [run EXCEPT ![r] = [Idle EXCEPT !.pc = "finishing", !.applied = applied]]
      BY <2>6 DEF RequeueRejected, Relate
    <3>2. [Idle EXCEPT !.pc = "fetching"].pc # "idle"
          /\ [Idle EXCEPT !.pc = "finishing", !.applied = applied].pc # "idle"
      BY DEF Idle
    <3>3. QED  BY <3>1, <3>2, <2>4
  <2>7. ASSUME NEW r \in Runs, Fetch(r) \/ ChunkDone(r) PROVE FALSE
    <3>1. PICK s : /\ run' = [run EXCEPT ![r] = s]
                   /\ \/ s = [run[r] EXCEPT !.pc = "fetching"]
                      \/ \E rows, last : s = [run[r] EXCEPT !.pc = "judging", !.rows = rows,
                                                            !.last = last]
                      \/ s = [Idle EXCEPT !.pc = "relating", !.promoted = run[r].promoted]
                      \/ s = [Idle EXCEPT !.pc = "finishing", !.promoted = run[r].promoted]
      BY <2>7 DEF Fetch, ChunkDone
    <3>2. s.pc # "idle"
      BY <3>1, <2>p, IdleType DEF Process
    <3>3. QED  BY <3>1, <3>2, <2>4
  <2>8. ASSUME NEW r \in Runs, NEW c \in Candidates, Reject(r, c) \/ Judge(r, c) PROVE FALSE
    <3>1. CASE Reject(r, c)
      <4>1. run' = [run EXCEPT ![r] = [run[r] EXCEPT !.rows = run[r].rows \ {c}]]
            /\ [run[r] EXCEPT !.rows = run[r].rows \ {c}].pc = "judging"
        BY <3>1, <2>p DEF Reject, Turn, Process
      <4>2. QED  BY <4>1, <2>4
    <3>2. CASE Judge(r, c)
      <4>1. PICK decision, target, path, text :
               run' = [run EXCEPT ![r] =
                 [run[r] EXCEPT !.pc = "writing", !.rows = run[r].rows \ {c}, !.cand = c,
                                !.decision = decision, !.target = target, !.path = path,
                                !.text = text]]
        BY <3>2 DEF Judge
      <4>2. [run[r] EXCEPT !.pc = "writing", !.rows = run[r].rows \ {c}, !.cand = c,
                           !.decision = decision, !.target = target, !.path = path,
                           !.text = text].pc # "idle"
        BY <2>p DEF Process
      <4>3. QED  BY <4>1, <4>2, <2>4
    <3>3. QED  BY <2>8, <3>1, <3>2
  <2>9. ASSUME NEW r \in Runs, Rename(r) \/ Record(r) PROVE FALSE
    <3>1. PICK s, promoted :
             /\ run' = [run EXCEPT ![r] = s]
             /\ \/ s = [run[r] EXCEPT !.pc = "recording", !.path = NoNote, !.text = NoFile]
                \/ s = [Between(r) EXCEPT !.promoted = promoted] \/ s = Between(r)
      BY <2>9 DEF Rename, Record, Counted
    <3>2. Between(r).pc = "judging" /\ Between(r) \in Process
      BY <2>1, BetweenType
    <3>3. s.pc # "idle"
      BY <3>1, <3>2, <2>p DEF Process
    <3>4. QED  BY <3>1, <3>3, <2>4
  <2>10. ASSUME NEW r \in Runs, Crash(r) \/ \E c \in Candidates : JudgeFails(r, c) PROVE FALSE
    BY <2>1, <2>10, PromotionAssumption DEF Crash, JudgeFails, TypeOK
  <2>11. ASSUME SyncVault \/ \E c \in Candidates : \/ CandidateStored(c) \/ DecisionAges(c)
                                                  \/ ApproveReviewItem(c) \/ RejectReviewItem(c)
         PROVE  FALSE
    BY <2>5, <2>11 DEF SyncVault, CandidateStored, DecisionAges, ApproveReviewItem, RejectReviewItem
  <2>12. QED  BY <2>3, <2>6, <2>7, <2>8, <2>9, <2>10, <2>11 DEF Next, RunStep
<1>2. QED  BY <1>1, PromotionSound, PTL DEF Spec, RunLeavesNotesSynced

==============================================================================
