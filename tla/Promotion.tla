------------------------------- MODULE Promotion -------------------------------
(***************************************************************************)
(* Promotion (promotion/worker.py, writer.py, decisions.py, renderer.py,   *)
(* review_ops.py): stored candidates become notes, files of the vault, and *)
(* each gets one row in the ledger promotion_decisions.  Files and ledger  *)
(* are separate stores; the notes table that decide() looks into follows   *)
(* the files only when sync_vault runs.  The daemon's job and the runs of  *)
(* other processes (inline, command line) exclude each other by nothing.   *)
(***************************************************************************)
EXTENDS Naturals, FiniteSets

CONSTANTS
    Candidates,     \* ids, in the order they are stored
    Notes,          \* note ids, one per type and title slug
    NoNote,
    NoteOf,         \* the note a candidate's own title stands for
    Similar,        \* other notes its text may match above min_candidate_score
    Refused,        \* candidates the gate or the confidence rule turns down
    Legacy,         \* routed to review before decide() stopped routing there
    Ingested,       \* notes whose page an ingest has written
    Runs,           \* processes that may run process_promotion_queue
    FaultBound      \* bound: crashes

ASSUME PromotionAssumption ==
    /\ Candidates \subseteq Nat \ {0}
    /\ NoNote \notin Notes
    /\ NoteOf \in [Candidates -> Notes]
    /\ Similar \in [Candidates -> SUBSET Notes]
    /\ Refused \subseteq Candidates
    /\ Legacy \subseteq Candidates /\ IsFiniteSet(Legacy)
    /\ Ingested \subseteq Notes
    /\ FaultBound \in Nat

VARIABLES
    state,          \* extraction_candidates.promotion_state ("absent": no row)
    ledger,         \* promotion_decisions, per candidate
    file,           \* the note files of the wiki
    synced,         \* the files as the notes table knows them
    review,         \* candidates with a file in wiki/review
    run,            \* per process: where it is and what it holds
    crashes,        \* history: crashes so far
    overlapped      \* history: two runs, or a run and a reviewer, met

vars == <<state, ledger, file, synced, review, run, crashes, overlapped>>

-----------------------------------------------------------------------------
(* A note file: whose bodies it contains, whose references (source_refs),  *)
(* both 0 for an ingest's, its corroboration_count (none counts as 1),     *)
(* whether a relation was appended, and whether its lifecycle_state is     *)
(* "stale", a word the parser does not know.                               *)

Texts == {0} \cup Candidates

NoteFile == [bodies : SUBSET Texts, refs : SUBSET Texts,
             count : Nat, related : BOOLEAN, stale : BOOLEAN]

NoFile == [bodies |-> {}, refs |-> {}, count |-> 0, related |-> FALSE, stale |-> FALSE]

Exists(n) == file[n] # NoFile

\* _render_new, and an ingest's page: one text; nothing of a file that may be there is looked at.
RenderNew(c) ==
    [bodies |-> {c}, refs |-> {c}, count |-> 1, related |-> FALSE, stale |-> FALSE]

\* What becomes of a page's lifecycle_state: a conflict may write "stale" or
\* "archived" over it, and nothing else takes "stale" away.
StaleAfter(stale, conflict) == conflict = "stale" \/ (stale /\ conflict # "archive")

\* Mutant: the merged body is the candidate's alone.
RenderReplacing(c, n, decision, conflict) ==
    [file[n] EXCEPT !.refs = @ \cup {c}, !.count = @ + 1,
                    !.bodies = IF decision = "update" THEN {c} ELSE @,
                    !.stale = StaleAfter(@, conflict)]

\* _render_existing: one observation more, and for "update" its text appended
\* unless it is there already.
RenderExisting(c, n, decision, conflict) ==
    [file[n] EXCEPT !.refs = @ \cup {c}, !.count = @ + 1,
                    !.bodies = IF decision = "update" THEN @ \cup {c} ELSE @,
                    !.stale = StaleAfter(@, conflict)]

States == {"absent", "promotion_ready", "promoted", "review_routed", "rejected"}

Row == [state : {"none", "promoted", "review_routed", "rejected"},
        decision : {"none", "new", "confirm", "update", "review", "rejected"},
        target : Notes \cup {NoNote},
        old : BOOLEAN]      \* created_at is retry_after_hours ago

NoRow == [state |-> "none", decision |-> "none", target |-> NoNote, old |-> FALSE]

Rejection == [state |-> "rejected", decision |-> "rejected", target |-> NoNote, old |-> FALSE]

Undecided(c) == ledger[c].state = "none"

Ready == {c \in Candidates : state[c] = "promotion_ready" /\ Undecided(c)}

Pcs == {"idle", "fetching", "judging", "writing", "recording", "relating", "finishing"}

\* rows and last: the chunk of candidates and _last_id; for the candidate in
\* hand, its decision and target, the path and the text to be written;
\* promoted: promoted_by_queue; applied: relations_applied > 0.
Process == [pc : Pcs, rows : SUBSET Candidates, last : {0} \cup Candidates,
            cand : {0} \cup Candidates, decision : {"none", "new", "confirm", "update"},
            target : Notes \cup {NoNote}, path : Notes \cup {NoNote}, text : NoteFile,
            promoted : SUBSET Notes, applied : BOOLEAN]

Idle == [pc |-> "idle", rows |-> {}, last |-> 0, cand |-> 0, decision |-> "none",
         target |-> NoNote, path |-> NoNote, text |-> NoFile,
         promoted |-> {}, applied |-> FALSE]

\* Nothing in hand.
Between(r) == [Idle EXCEPT !.pc = "judging", !.rows = run[r].rows, !.last = run[r].last,
                           !.promoted = run[r].promoted]

TypeOK ==
    /\ state \in [Candidates -> States]
    /\ ledger \in [Candidates -> Row]
    /\ file \in [Notes -> NoteFile] /\ synced \in [Notes -> NoteFile]
    /\ review \subseteq Candidates
    /\ run \in [Runs -> Process]
    /\ crashes \in 0..FaultBound
    /\ overlapped \in BOOLEAN

Init ==
    /\ state = [c \in Candidates |-> IF c \in Legacy THEN "review_routed" ELSE "absent"]
    /\ ledger = [c \in Candidates |->
                   IF c \in Legacy
                   THEN [state |-> "review_routed", decision |-> "review",
                         target |-> NoteOf[c], old |-> FALSE]
                   ELSE NoRow]
    /\ file = [n \in Notes |-> IF n \in Ingested THEN RenderNew(0) ELSE NoFile]
    /\ synced = file
    /\ review = Legacy
    /\ run = [r \in Runs |-> Idle]
    /\ crashes = 0
    /\ overlapped = FALSE

Active(r) == run[r].pc # "idle"

-----------------------------------------------------------------------------
(* Around the runs.                                                        *)

\* The last transaction of an extraction stores a valid candidate; ids only grow.
CandidateStored(c) ==
    /\ state[c] = "absent"
    /\ \A d \in Candidates : d < c => state[d] # "absent"
    /\ state' = [state EXCEPT ![c] = "promotion_ready"]
    /\ UNCHANGED <<ledger, file, synced, review, run, crashes, overlapped>>

DecisionAges(c) ==
    /\ ledger[c].state = "rejected" /\ ~ledger[c].old
    /\ ledger' = [ledger EXCEPT ![c].old = TRUE]
    /\ UNCHANGED <<state, file, synced, review, run, crashes, overlapped>>

\* sync_vault: a page the parser refuses loses its row.
Parsed(page) == IF page.stale THEN NoFile ELSE page

Indexed(files) == [n \in Notes |-> Parsed(files[n])]

\* Any other caller of it.
SyncVault ==
    /\ synced # Indexed(file)
    /\ synced' = Indexed(file)
    /\ UNCHANGED <<state, ledger, file, review, run, crashes, overlapped>>

-----------------------------------------------------------------------------
(* A run.                                                                  *)

Stale == {c \in Candidates : ledger[c].state = "rejected" /\ ledger[c].old}

\* Mutant: the DELETE lost its AND promotion_state = 'rejected'.
RequeuesAll(r) ==
    /\ run[r].pc = "idle"
    /\ state' = [c \in Candidates |-> IF ~Undecided(c) THEN "promotion_ready" ELSE state[c]]
    /\ ledger' = [c \in Candidates |-> NoRow]
    /\ run' = [run EXCEPT ![r] = [Idle EXCEPT !.pc = "fetching"]]
    /\ overlapped' = (overlapped \/ \E q \in Runs \ {r} : Active(q))
    /\ UNCHANGED <<file, synced, review, crashes>>

\* The old rejections, whoever rejected, get another chance.
RequeueRejected(r) ==
    /\ run[r].pc = "idle"
    /\ state' = [c \in Candidates |-> IF c \in Stale THEN "promotion_ready" ELSE state[c]]
    /\ ledger' = [c \in Candidates |-> IF c \in Stale THEN NoRow ELSE ledger[c]]
    /\ run' = [run EXCEPT ![r] = [Idle EXCEPT !.pc = "fetching"]]
    /\ overlapped' = (overlapped \/ \E q \in Runs \ {r} : Active(q))
    /\ UNCHANGED <<file, synced, review, crashes>>

\* The next chunk by id, or the end of the loop.
Fetch(r) ==
    /\ run[r].pc = "fetching"
    /\ LET rows == {c \in Ready : c > run[r].last}
       IN  run' = [run EXCEPT ![r] =
              IF rows # {}
              THEN [run[r] EXCEPT !.pc = "judging", !.rows = rows,
                                  !.last = CHOOSE c \in rows : \A d \in rows : d <= c]
              ELSE [Idle EXCEPT !.pc = IF run[r].promoted # {} THEN "relating" ELSE "finishing",
                                !.promoted = run[r].promoted]]
    /\ UNCHANGED <<state, ledger, file, synced, review, crashes, overlapped>>

ChunkDone(r) ==
    /\ run[r].pc = "judging" /\ run[r].rows = {}
    /\ run' = [run EXCEPT ![r].pc = "fetching"]
    /\ UNCHANGED <<state, ledger, file, synced, review, crashes, overlapped>>

\* The candidate whose turn it is.
Turn(r, c) == /\ run[r].pc = "judging" /\ c \in run[r].rows
              /\ \A d \in run[r].rows : c <= d

\* The gate or low_confidence: write_rejected, in a transaction of its own,
\* unless another process has decided meanwhile.
Reject(r, c) ==
    /\ Turn(r, c) /\ c \in Refused
    /\ IF Undecided(c)
       THEN /\ ledger' = [ledger EXCEPT ![c] = Rejection]
            /\ state' = [state EXCEPT ![c] = "rejected"]
       ELSE UNCHANGED <<ledger, state>>
    /\ run' = [run EXCEPT ![r].rows = @ \ {c}]
    /\ UNCHANGED <<file, synced, review, crashes, overlapped>>

Known(n) == synced[n] # NoFile

\* decide(): no match is "new"; the note of the same title, once synced, is
\* the top match and is confirmed or updated by how new the text is; another
\* match also may lose to "new" (too weak a similarity, the note is gone).
\* Several of those are a conflict, and the text that wins it may make the
\* page stale, or archived.
Decisions(c) ==
    LET own == NoteOf[c]
        others == {n \in Similar[c] : Known(n)}
        conflicts == IF Cardinality(others) > 1 THEN {"stale", "archive"} ELSE {}
    IN  IF Known(own) THEN {"confirm", "update"} \X {own} \X {"none"}
        ELSE {<<"new", NoNote, "none">>}
             \cup ({"confirm", "update"} \X others \X {"none"})
             \cup ({"update"} \X others \X conflicts)

\* decide() and render(): the text is made from the file as it is now.
Judge(r, c) ==
    /\ Turn(r, c) /\ c \notin Refused
    /\ \E d \in Decisions(c) :
          LET merging == d[1] # "new" /\ Exists(d[2])
          IN  run' = [run EXCEPT ![r] =
                 [run[r] EXCEPT !.pc = "writing", !.rows = run[r].rows \ {c}, !.cand = c,
                                !.decision = d[1], !.target = d[2],
                                !.path = IF merging THEN d[2] ELSE NoteOf[c],
                                !.text = IF merging THEN RenderExisting(c, d[2], d[1], d[3])
                                         ELSE RenderNew(c)]]
    /\ UNCHANGED <<state, ledger, file, synced, review, crashes, overlapped>>

\* The decision or the rendering raises; the candidate waits for a later run.
JudgeFails(r, c) ==
    /\ Turn(r, c) /\ c \notin Refused
    /\ crashes < FaultBound /\ crashes' = crashes + 1
    /\ run' = [run EXCEPT ![r].rows = @ \ {c}]
    /\ UNCHANGED <<state, ledger, file, synced, review, overlapped>>

\* target_note_id of the ledger row: the note decided upon, or the new one.
Target(r) == IF run[r].target # NoNote THEN run[r].target ELSE NoteOf[run[r].cand]

Counted(r) == [Between(r) EXCEPT !.promoted = run[r].promoted \cup {Target(r)}]

\* write_promotion, steps 1 to 6: nothing to do for a candidate in the ledger,
\* otherwise .tmp and os.rename, whatever is there.
Rename(r) ==
    /\ run[r].pc = "writing"
    /\ IF Undecided(run[r].cand)
       THEN /\ file' = [file EXCEPT ![run[r].path] = run[r].text]
            /\ run' = [run EXCEPT ![r] = [run[r] EXCEPT !.pc = "recording", !.path = NoNote,
                                                       !.text = NoFile]]
       ELSE /\ run' = [run EXCEPT ![r] = [Between(r) EXCEPT !.promoted =
                         (run[r].promoted \cup {ledger[run[r].cand].target}) \ {NoNote}]]
            /\ UNCHANGED file
    /\ UNCHANGED <<state, ledger, synced, review, crashes, overlapped>>

\* Steps 7 and 8 and the commit; the unique index turns away a second row.
Record(r) ==
    /\ run[r].pc = "recording"
    /\ LET c == run[r].cand
       IN  IF Undecided(c)
           THEN /\ ledger' = [ledger EXCEPT ![c] =
                        [state |-> "promoted", decision |-> run[r].decision,
                         target |-> Target(r), old |-> FALSE]]
                /\ state' = [state EXCEPT ![c] = "promoted"]
                /\ run' = [run EXCEPT ![r] = Counted(r)]
           ELSE /\ run' = [run EXCEPT ![r] = Between(r)]
                /\ UNCHANGED <<ledger, state>>
    /\ UNCHANGED <<file, synced, review, crashes, overlapped>>

\* sync_vault, then _apply_intra_source_relations: each note promoted in this
\* run may get a relation appended to its file.
Relate(r) ==
    /\ run[r].pc = "relating"
    /\ synced' = Indexed(file)
    /\ \E related \in SUBSET {n \in run[r].promoted : Exists(n) /\ ~file[n].related} :
          /\ file' = [n \in Notes |-> IF n \in related THEN [file[n] EXCEPT !.related = TRUE]
                                      ELSE file[n]]
          /\ run' = [run EXCEPT ![r] = [Idle EXCEPT !.pc = "finishing",
                                                    !.applied = (related # {})]]
    /\ UNCHANGED <<state, ledger, review, crashes, overlapped>>

\* Mutant: one sync per run is taken to be enough.
FinishUnsynced(r) ==
    /\ run[r].pc = "finishing"
    /\ run' = [run EXCEPT ![r] = Idle]
    /\ UNCHANGED <<state, ledger, file, synced, review, crashes, overlapped>>

\* A second sync_vault when relations were applied.
Finish(r) ==
    /\ run[r].pc = "finishing"
    /\ synced' = IF run[r].applied THEN Indexed(file) ELSE synced
    /\ run' = [run EXCEPT ![r] = Idle]
    /\ UNCHANGED <<state, ledger, file, review, crashes, overlapped>>

\* The process dies.
Crash(r) ==
    /\ Active(r)
    /\ crashes < FaultBound /\ crashes' = crashes + 1
    /\ run' = [run EXCEPT ![r] = Idle]
    /\ UNCHANGED <<state, ledger, file, synced, review, overlapped>>

-----------------------------------------------------------------------------
(* Review of the legacy items, by an operator or by auto_resolver.         *)

MeetsRun == overlapped' = (overlapped \/ \E r \in Runs : Active(r))

\* Mutant: the word of the log entry goes into the ledger.
VerdictAsLogged(c, verdict) ==
    [d \in Candidates |->
        IF ledger[d].state = "review_routed" /\ ledger[d].target = NoteOf[c]
        THEN [ledger[d] EXCEPT !.state = IF verdict = "promoted" THEN "approved" ELSE verdict]
        ELSE ledger[d]]

\* All rows routed to review with the item's note id follow the verdict.
Verdict(c, verdict) ==
    [d \in Candidates |->
        IF ledger[d].state = "review_routed" /\ ledger[d].target = NoteOf[c]
        THEN [ledger[d] EXCEPT !.state = verdict]
        ELSE ledger[d]]

\* The item becomes a note unless one of that name is there.
ApproveReviewItem(c) ==
    /\ c \in review /\ ~Exists(NoteOf[c])
    /\ ledger' = Verdict(c, "promoted")
    /\ file' = [file EXCEPT ![NoteOf[c]] = RenderNew(c)]
    /\ synced' = [synced EXCEPT ![NoteOf[c]] = RenderNew(c)]
    /\ review' = review \ {c}
    /\ MeetsRun
    /\ UNCHANGED <<state, run, crashes>>

RejectReviewItem(c) ==
    /\ c \in review
    /\ ledger' = Verdict(c, "rejected")
    /\ review' = review \ {c}
    /\ MeetsRun
    /\ UNCHANGED <<state, file, synced, run, crashes>>

-----------------------------------------------------------------------------
RunStep(r) ==
    \/ RequeueRejected(r) \/ Fetch(r) \/ ChunkDone(r)
    \/ \E c \in Candidates : Reject(r, c) \/ Judge(r, c)
    \/ Rename(r) \/ Record(r) \/ Relate(r) \/ Finish(r)

Next ==
    \/ \E c \in Candidates : \/ CandidateStored(c) \/ DecisionAges(c)
                             \/ ApproveReviewItem(c) \/ RejectReviewItem(c)
    \/ SyncVault
    \/ \E r \in Runs : RunStep(r) \/ Crash(r)
    \/ \E r \in Runs, c \in Candidates : JudgeFails(r, c)

Spec == Init /\ [][Next]_vars

-----------------------------------------------------------------------------
(* Properties.                                                             *)

\* A candidate waits for promotion exactly while the ledger says nothing of
\* it: none is waiting for ever, none comes up twice.
ReadyIffUndecided ==
    \A c \in Candidates : state[c] # "absent" =>
        (state[c] = "promotion_ready" <=> Undecided(c))

\* corroboration_count, on which a note's advance to verified and canonical
\* rests, counts distinct candidates: none corroborates itself, by a requeue,
\* a second run or a review.  (A crash between rename and commit, and two
\* runs at once, can make one do so.)
NoSelfCorroboration ==
    crashes = 0 /\ ~overlapped =>
        \A n \in Notes : file[n].count = Cardinality(file[n].refs)

\* No promotion, relation or review takes away text that is in the wiki, but
\* for a run that writes a note twice, which does not find what it wrote, and
\* a page made stale, which has no row by which a later run would find it.
OnlyUnlistedNotesLoseText ==
    [][ crashes' = 0 /\ ~overlapped' => \A n \in Notes :
          \/ file[n].bodies \subseteq file'[n].bodies
          \/ file[n].stale
          \/ \E r \in Runs : n \in run[r].promoted ]_vars

\* A candidate is decided once and counts once.
CandidatesCountOnce == ReadyIffUndecided /\ NoSelfCorroboration

\* When a run has come to its end, the notes table has every page it wrote,
\* relations too, and has no row of the pages it made stale.
RunLeavesNotesSynced ==
    [][ \A r \in Runs : Active(r) /\ ~Active(r)' /\ crashes' = 0 /\ ~overlapped'
          => synced' = Indexed(file') ]_vars

=============================================================================
