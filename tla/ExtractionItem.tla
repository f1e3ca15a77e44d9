---------------------------- MODULE ExtractionItem ----------------------------
(***************************************************************************)
(* What the attempts at one queue item leave in the database: the visual   *)
(* snippets and the window checkpoint, committed as the work goes on, and  *)
(* the candidates, kept in memory until a last transaction stores them     *)
(* with the "processed" mark (_process_item in extraction/worker.py).      *)
(*                                                                         *)
(* ExtractionQueue says how attempts come about; here a row is requeued    *)
(* whenever one of its sweeps may do it, and the subject is what an        *)
(* attempt finds of the ones before it, killed or complete, when the       *)
(* source may have changed in between.  The item is no exact duplicate.    *)
(***************************************************************************)
EXTENDS Naturals, FiniteSets

CONSTANTS
    Workers,        \* extraction subprocesses, each with the lane watching it
    WindowsOf,      \* the text windows of each version of the source's content
    Artifacts,      \* the artifacts (figures, tables) of the source
    VlmCap,         \* max_vlm_artifacts_per_item
    BatchSize,      \* max_windows_per_batch
    ClaimBound      \* bound: claims of the row

Versions == DOMAIN WindowsOf

ASSUME ItemAssumption ==
    /\ IsFiniteSet(Versions) /\ Versions # {}
    /\ Versions = 1..Cardinality(Versions)
    /\ WindowsOf \in [Versions -> Nat]
    /\ IsFiniteSet(Artifacts)
    /\ VlmCap \in Nat
    /\ BatchSize \in Nat \ {0}
    /\ ClaimBound \in Nat

VARIABLES
    content,        \* version of the source as it stands
    row,            \* extraction_queue: status, content_hash (0: NULL) and
                    \* completed_window_count
    cands,          \* extraction_candidates of the row
    decided,        \* some candidate has a row in promotion_decisions
    snippets,       \* extraction_visual_snippets, per artifact
    worker,         \* per subprocess: its progress and what it read
    claims,         \* claims so far
    overlap,        \* history: the row was claimed while an earlier claim's
                    \* worker was still at work
    interrupted     \* history: an attempt ended between its first window
                    \* checkpoint and its last transaction

vars == <<content, row, cands, decided, snippets, worker, claims, overlap, interrupted>>

-----------------------------------------------------------------------------
(* Windows.  A source without text is sent as one empty batch.             *)

Total(v) == IF WindowsOf[v] = 0 THEN 1 ELSE WindowsOf[v]

MaxTotal == CHOOSE n \in {Total(v) : v \in Versions} : \A v \in Versions : Total(v) <= n

\* Mutant: window_index counts a full batch for the last one too.
BatchEndUncapped(n, v) == n + BatchSize

\* Where the batch that begins at window n ends.
BatchEnd(n, v) == IF n + BatchSize < Total(v) THEN n + BatchSize ELSE Total(v)

BatchStarts(v) == {n \in 0..(Total(v) - 1) : n % BatchSize = 0}

\* The first batch an attempt resumed at window "start" does not skip.
FirstBatch(start, v) ==
    LET todo == {n \in BatchStarts(v) : BatchEnd(n, v) > start}
    IN  IF todo = {} THEN Total(v) ELSE CHOOSE n \in todo : \A m \in todo : n <= m

-----------------------------------------------------------------------------
Statuses == {"absent", "pending", "processing", "processed", "error"}

SnippetKinds == {"none", "described", "skipped"}

\* A candidate, by the window it came from; one stands for all of a window.
Found == [window : 0..(MaxTotal - 1), version : Versions]

Candidate == [index : Nat, found : Found]

Pcs == {"idle", "claimed", "opened", "vlm", "llm", "stored", "killed"}

\* start: start_window; base: existing_candidate_count; known: the snippets
\* loaded or made; at: window_index; all: all_candidates.
Worker == [pc : Pcs, start : 0..MaxTotal, version : Versions, base : Nat,
           known : [Artifacts -> SnippetKinds], at : 0..MaxTotal, all : SUBSET Found]

NoSnippets == [a \in Artifacts |-> "none"]

Idle == [pc |-> "idle", start |-> 0, version |-> 1, base |-> 0,
         known |-> NoSnippets, at |-> 0, all |-> {}]

TypeOK ==
    /\ content \in Versions
    /\ row \in [status : Statuses, hash : {0} \cup Versions, done : 0..MaxTotal]
    /\ cands \subseteq Candidate
    /\ decided \in BOOLEAN
    /\ snippets \in [Artifacts -> SnippetKinds]
    /\ worker \in [Workers -> Worker]
    /\ claims \in 0..ClaimBound
    /\ overlap \in BOOLEAN
    /\ interrupted \in BOOLEAN

Init ==
    /\ content = 1
    /\ row = [status |-> "absent", hash |-> 0, done |-> 0]
    /\ cands = {}
    /\ decided = FALSE
    /\ snippets = NoSnippets
    /\ worker = [w \in Workers |-> Idle]
    /\ claims = 0
    /\ overlap = FALSE
    /\ interrupted = FALSE

Working(w) == worker[w].pc \in {"claimed", "opened", "vlm", "llm"}

-----------------------------------------------------------------------------
(* The source and the queue row.                                           *)

\* The session or episode goes on, or reprocess_artifact reads new bytes.
ContentChanges ==
    /\ content + 1 \in Versions
    /\ content' = content + 1
    /\ UNCHANGED <<row, cands, decided, snippets, worker, claims, overlap, interrupted>>

\* Mutant: the upsert also sets completed_window_count = 0.
EnqueueResetsCheckpoint(hash) ==
    /\ row' = [row EXCEPT !.status = IF @ = "processing" THEN @ ELSE "pending", !.done = 0]
    /\ UNCHANGED <<content, cands, decided, snippets, worker, claims, overlap, interrupted>>

\* enqueue_extraction, by whoever ingested the source (its hash) or by a
\* backfill (none): hash is 0 for NULL.
EnqueueExtraction(hash) ==
    LET changed == hash # 0 /\ row.hash # 0 /\ hash # row.hash
    IN  /\ row' = [row EXCEPT
                     !.hash = IF hash # 0 THEN hash ELSE @,
                     !.status = IF \/ @ = "processing"
                                   \/ @ = "processed" /\ ~changed
                                THEN @ ELSE "pending"]
        /\ UNCHANGED <<content, cands, decided, snippets, worker, claims, overlap, interrupted>>

\* A sweep, the retry job or the operator gives the row another chance; a
\* worker may still be alive (see stolen in ExtractionQueue).
Requeue ==
    /\ row.status \in {"processing", "error"}
    /\ row' = [row EXCEPT !.status = "pending"]
    /\ UNCHANGED <<content, cands, decided, snippets, worker, claims, overlap, interrupted>>

\* The promotion worker records a decision about a stored candidate.
Decide ==
    /\ cands # {} /\ ~decided
    /\ decided' = TRUE
    /\ UNCHANGED <<content, row, cands, snippets, worker, claims, overlap, interrupted>>

-----------------------------------------------------------------------------
(* One attempt.                                                            *)

\* mark_processing and the spawn of the subprocess.
Claim(w) ==
    /\ worker[w].pc = "idle"
    /\ row.status = "pending"
    /\ claims < ClaimBound
    /\ claims' = claims + 1
    /\ overlap' = (overlap \/ \E v \in Workers : Working(v))
    /\ row' = [row EXCEPT !.status = "processing"]
    /\ worker' = [worker EXCEPT ![w] = [Idle EXCEPT !.pc = "claimed"]]
    /\ UNCHANGED <<content, cands, decided, snippets, interrupted>>

\* The subprocess reads its row, then opens the projection of its source.
OpenProjection(w) ==
    /\ worker[w].pc = "claimed"
    /\ worker' = [worker EXCEPT ![w] =
                    [@ EXCEPT !.pc = "opened", !.start = row.done, !.version = content]]
    /\ UNCHANGED <<content, row, cands, decided, snippets, claims, overlap, interrupted>>

\* Snippets described so far, by this attempt or an earlier one.
Described(w) == {a \in Artifacts : worker[w].known[a] = "described"}

\* Prior candidates are counted (a resumed attempt only), snippets loaded.
LoadPrior(w) ==
    /\ worker[w].pc = "opened"
    /\ worker' = [worker EXCEPT ![w] =
          [@ EXCEPT !.pc = "vlm", !.known = snippets,
                    !.base = IF worker[w].start > 0 THEN Cardinality(cands) ELSE 0]]
    /\ UNCHANGED <<content, row, cands, decided, snippets, claims, overlap, interrupted>>

\* describe() or the skipped placeholder, committed by upsert_visual_snippet.
DescribeArtifact(w, a) ==
    /\ worker[w].pc = "vlm"
    /\ worker[w].known[a] = "none"
    /\ LET kind == IF Cardinality(Described(w)) >= VlmCap THEN "skipped" ELSE "described"
       IN  /\ snippets' = [snippets EXCEPT ![a] = kind]
           /\ worker' = [worker EXCEPT ![w].known[a] = kind]
    /\ UNCHANGED <<content, row, cands, decided, claims, overlap, interrupted>>

BeginWindows(w) ==
    /\ worker[w].pc = "vlm"
    /\ \A a \in Artifacts : worker[w].known[a] # "none"
    /\ worker' = [worker EXCEPT ![w] =
          [@ EXCEPT !.pc = "llm", !.at = FirstBatch(worker[w].start, worker[w].version)]]
    /\ UNCHANGED <<content, row, cands, decided, snippets, claims, overlap, interrupted>>

FoundIn(n, m, v) == {[window |-> k, version |-> v] : k \in n..(m - 1)}

\* Mutant: the list in memory is assigned where it should be extended.
KeepsLastBatch(w) ==
    /\ worker[w].pc = "llm" /\ worker[w].at < Total(worker[w].version)
    /\ LET v == worker[w].version
           next == BatchEnd(worker[w].at, v)
       IN  /\ worker' = [worker EXCEPT ![w] =
                 [@ EXCEPT !.at = next, !.all = FoundIn(worker[w].at, next, v)]]
           /\ row' = [row EXCEPT !.done = next]
    /\ UNCHANGED <<content, cands, decided, snippets, claims, overlap, interrupted>>

\* One batch: the LLM call, its candidates added to the list in memory, the
\* checkpoint committed by update_window_checkpoint.
ExtractBatch(w) ==
    /\ worker[w].pc = "llm" /\ worker[w].at < Total(worker[w].version)
    /\ LET v == worker[w].version
           next == BatchEnd(worker[w].at, v)
       IN  /\ worker' = [worker EXCEPT ![w] =
                 [@ EXCEPT !.at = next,
                           !.all = worker[w].all \cup FoundIn(worker[w].at, next, v)]]
           /\ row' = [row EXCEPT !.done = next]
    /\ UNCHANGED <<content, cands, decided, snippets, claims, overlap, interrupted>>

ReadyToStore(w) == worker[w].pc = "llm" /\ worker[w].at = Total(worker[w].version)

IsResume(w) == worker[w].start > 0

Indices(w) == worker[w].base .. (worker[w].base + Cardinality(worker[w].all) - 1)

\* candidate_index is unique per row, and a decision keeps its candidate from
\* being deleted (foreign_keys = ON).
ConstraintsHold(w) ==
    IF IsResume(w) THEN \A c \in cands : c.index \notin Indices(w) ELSE ~decided

\* The order of the list in memory: by window.
Numbered(w) ==
    LET Before(f) == {g \in worker[w].all : g.window < f.window}
    IN  {[index |-> worker[w].base + Cardinality(Before(f)), found |-> f] :
            f \in worker[w].all}

\* append_candidates or replace_candidates, and mark_finished, in one
\* transaction.
Store(w) ==
    /\ ReadyToStore(w) /\ ConstraintsHold(w)
    /\ cands' = IF IsResume(w) THEN cands \cup Numbered(w) ELSE Numbered(w)
    /\ row' = [row EXCEPT !.status = "processed"]
    /\ worker' = [worker EXCEPT ![w].pc = "stored"]
    /\ UNCHANGED <<content, decided, snippets, claims, overlap, interrupted>>

\* An attempt that ends here takes candidates of checkpointed windows along.
HoldsUnstored(w) == worker[w].pc = "llm" /\ worker[w].all # {}

\* An inference timeout, any other exception or a constraint that fails the
\* last transaction: mark_error, and the subprocess is gone.
Fail(w) ==
    /\ Working(w)
    /\ row' = [row EXCEPT !.status = "error"]
    /\ interrupted' = (interrupted \/ HoldsUnstored(w))
    /\ worker' = [worker EXCEPT ![w] = Idle]
    /\ UNCHANGED <<content, cands, decided, snippets, claims, overlap>>

\* The lane sees no progress or the deadline and kills; mark_error follows.
KillOverdue(w) ==
    /\ Working(w) \/ worker[w].pc = "stored"
    /\ interrupted' = (interrupted \/ HoldsUnstored(w))
    /\ worker' = [worker EXCEPT ![w] = [Idle EXCEPT !.pc = "killed"]]
    /\ UNCHANGED <<content, row, cands, decided, snippets, claims, overlap>>

MarkTimeout(w) ==
    /\ worker[w].pc = "killed"
    /\ row' = [row EXCEPT !.status = "error"]
    /\ worker' = [worker EXCEPT ![w] = Idle]
    /\ UNCHANGED <<content, cands, decided, snippets, claims, overlap, interrupted>>

\* Killed by the system, or by the end of its lane; nobody marks the row.
Dies(w) ==
    /\ worker[w].pc # "idle"
    /\ interrupted' = (interrupted \/ HoldsUnstored(w))
    /\ worker' = [worker EXCEPT ![w] = Idle]
    /\ UNCHANGED <<content, row, cands, decided, snippets, claims, overlap>>

Attempt(w) ==
    \/ Claim(w) \/ OpenProjection(w) \/ LoadPrior(w)
    \/ \E a \in Artifacts : DescribeArtifact(w, a)
    \/ BeginWindows(w) \/ ExtractBatch(w) \/ Store(w)

Ends(w) == Fail(w) \/ KillOverdue(w) \/ MarkTimeout(w) \/ Dies(w)

Next ==
    \/ ContentChanges
    \/ \E hash \in {0, content} : EnqueueExtraction(hash)
    \/ Requeue \/ Decide
    \/ \E w \in Workers : Attempt(w) \/ Ends(w)

Spec == Init /\ [][Next]_vars

-----------------------------------------------------------------------------
(* Safety.  Two workers at one item are another module's subject; what is  *)
(* promised here is promised while attempts follow each other.             *)

DescribedSnippets == {a \in Artifacts : snippets[a] = "described"}

\* The cap on VLM calls holds for the item, not for each attempt at it: a
\* resumed attempt counts what earlier ones have described.
VlmCapForItem == ~overlap => Cardinality(DescribedSnippets) <= VlmCap

\* No window of one version of the source yields its candidates twice,
\* whatever kills, late timeouts and re-enqueues come between the attempts.
NoWindowTwice == ~overlap => \A c, d \in cands : c.found = d.found => c = d

\* The last transaction never runs into the unique index of candidates or
\* the decisions that refer to them: a first attempt finds nothing decided,
\* a resumed one numbers its candidates after all there are.
StoreNeverConflicts ==
    ~overlap => \A w \in Workers : ReadyToStore(w) => ConstraintsHold(w)

\* A stored candidate is never deleted: every attempt after the one that
\* stored it resumes.
CandidatesStay == [][~overlap => cands \subseteq cands']_vars

WindowsStored == {c.found.window : c \in cands}

\* If no attempt was cut off between a checkpoint and its last transaction
\* and the source has not changed, a processed item has all its windows.
CompleteUnlessInterrupted ==
    row.status = "processed" /\ ~overlap /\ ~interrupted /\ content = 1
      => WindowsStored = 0..(Total(1) - 1)

\* The attempts at an item add up to one: its cap on VLM calls holds for all
\* of them, and each window's candidates are stored once, by transactions
\* that succeed.
AttemptsAddUp == VlmCapForItem /\ NoWindowTwice /\ StoreNeverConflicts /\ CompleteUnlessInterrupted

\* CompleteUnlessInterrupted without the exception for interrupted attempts: what a resumed
\* attempt skips, an earlier one has stored.
ResumeLosesNothing ==
    row.status = "processed" /\ ~overlap /\ content = 1
      => WindowsStored = 0..(Total(1) - 1)

=============================================================================
