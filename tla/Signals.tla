-------------------------------- MODULE Signals --------------------------------
(***************************************************************************)
(* What the answers of searches teach: retrieve_context records a query    *)
(* and its hits, record_outcome labels them, and the jobs of the daemon    *)
(* derive from them passive feedback, the trust in notes, their importance *)
(* and the weights of the reranker.  A job holds the write lock from its   *)
(* job_runs row on, so that each is one step.                              *)
(***************************************************************************)
EXTENDS Integers, Sequences, FiniteSets, FiniteSetsExt, SequencesExt

CONSTANTS
    Knowledge,      \* ids of notes
    Tasks,          \* task ids of clients
    Sessions,       \* archive ids promotion decisions carry
    Attributions,   \* <<session, note>> pairs candidates may attribute
    Null,           \* SQL's NULL, where a session is expected
    TopK,           \* hits of a query
    HitLimit,       \* maintenance.passive_retrieval_hits_limit
    MinSamples,     \* trust.min_training_samples
    QueryBound,     \* bound on recorded queries
    OutcomeBound,   \* bound on calls of record_outcome
    VanishBound,    \* bound on notes whose rows a sync deletes
    FeedbackCap     \* rows of feedback are counted up to this number

ASSUME SignalsAssumption ==
    /\ TopK \in Nat /\ HitLimit \in Nat /\ MinSamples \in Nat
    /\ {QueryBound, OutcomeBound, VanishBound} \subseteq Nat /\ FeedbackCap \in Nat \ {0}
    /\ Attributions \subseteq Sessions \X Knowledge /\ IsFiniteSet(Attributions)
    /\ Null \notin Knowledge \cup Sessions

VARIABLES
    known,          \* notes with a row
    queries,        \* retrieval_queries, each with its retrieval_hits
    search,         \* task -> notes its search has found, or None
    outcomes,       \* task_outcomes: task -> the status of its row
    attributed,     \* <<session, note>> of promotion_decisions
    feedback,       \* note_passive_feedback: number of rows by key
    trust,          \* note_trust: note -> counts, or NoTrust
    importance,     \* note_importance: note -> the trust it is based on, or None
    weights,        \* the labels the row of rerank_weights is trained on; {}: no row
    recorded,       \* calls of record_outcome so far
    vanished        \* deletions so far

signalVars == <<known, queries, search, outcomes, attributed, feedback, trust, importance,
                weights, recorded, vanished>>

None == "none"
Labels == {"none", "yes", "no"}
Ranks == 1..TopK
Methods == {"extraction_inline", "maintenance_post_hoc"}
Keys == Knowledge \X (Sessions \cup {Null}) \X Methods
NoHit == [note |-> Null, useful |-> "none"]
NoTrust == [selected |-> 0, top1 |-> 0, top5 |-> 0, useful |-> 0, notUseful |-> 0, failure |-> 0]

\* Answers of a search: distinct notes, best first.
Rankings(found) == {s \in BoundedSeq(found, TopK) : s # <<>> /\ IsInjective(s)}

SignalsTypeOK ==
    /\ known \subseteq Knowledge
    /\ \A i \in DOMAIN queries :
          /\ queries[i].useful \in Labels /\ queries[i].top1 \in Labels
          /\ \A r \in Ranks : queries[i].hits[r].note \in Knowledge \cup {Null}
    /\ attributed \subseteq Attributions
    /\ feedback \in [Keys -> 0..FeedbackCap]
    /\ \A n \in Knowledge : n \notin known => trust[n] = NoTrust
    /\ importance \in [Knowledge -> {"good", "neutral", "bad", None}]
    /\ weights \subseteq Labels \ {"none"}
    /\ recorded \in 0..OutcomeBound

SignalsInit ==
    /\ known = Knowledge /\ queries = <<>>
    /\ search = [t \in Tasks |-> <<>>] /\ outcomes = [t \in Tasks |-> None]
    /\ attributed = {} /\ feedback = [k \in Keys |-> 0]
    /\ trust = [n \in Knowledge |-> NoTrust] /\ importance = [n \in Knowledge |-> None]
    /\ weights = {} /\ recorded = 0 /\ vanished = 0

-----------------------------------------------------------------------------
(* retrieve_context: the search, then the query and its hits in one        *)
(* transaction.                                                            *)

Searches(t, ranked) ==
    /\ search[t] = <<>> /\ Len(queries) < QueryBound
    /\ search' = [search EXCEPT ![t] = ranked]
    /\ UNCHANGED <<known, queries, outcomes, attributed, feedback, trust, importance, weights,
                   recorded, vanished>>

\* Nothing gives a query its archive_id.
Recorded(ranked) ==
    Append(queries,
           [session |-> Null, useful |-> "none", top1 |-> "none",
            hits |-> [r \in Ranks |-> IF r \in DOMAIN ranked THEN [note |-> ranked[r], useful |-> "none"]
                                      ELSE NoHit]])

\* Mutant: a connection that does not enforce foreign keys.
RecordsUnchecked(t) ==
    /\ search[t] # <<>> /\ Len(queries) < QueryBound
    /\ search' = [search EXCEPT ![t] = <<>>] /\ queries' = Recorded(search[t])
    /\ UNCHANGED <<known, outcomes, attributed, feedback, trust, importance, weights, recorded,
                   vanished>>

\* A hit on a note that has gone meanwhile fails its foreign key and takes
\* the transaction with it.
RecordsQuery(t) ==
    /\ search[t] # <<>> /\ Len(queries) < QueryBound
    /\ search' = [search EXCEPT ![t] = <<>>]
    /\ queries' = IF Range(search[t]) \subseteq known THEN Recorded(search[t]) ELSE queries
    /\ UNCHANGED <<known, outcomes, attributed, feedback, trust, importance, weights, recorded,
                   vanished>>

-----------------------------------------------------------------------------
(* record_outcome, by mark_failure and finish_task.                        *)

HitRanks(q) == {r \in Ranks : q.hits[r] # NoHit}
Coalesce(new, old) == IF new # "none" THEN new ELSE old

Labelled(q, status, useful, misleading) ==
    LET top == IF HitRanks(q) = {} THEN "none"
               ELSE IF q.hits[Min(HitRanks(q))].note \in useful THEN "yes"
               ELSE IF useful # {} THEN "no" ELSE "none"
    IN  [q EXCEPT
           !.useful = Coalesce(CASE status = "success" -> "yes"
                                 [] status = "failure" -> "no"
                                 [] OTHER -> "none", @),
           !.top1 = Coalesce(top, @),
           !.hits = [r \in Ranks |->
               CASE @[r].note \in misleading -> [@[r] EXCEPT !.useful = "no"]
                 [] @[r].note \in useful \ misleading -> [@[r] EXCEPT !.useful = "yes"]
                 [] OTHER -> @[r]]]

\* The row of the task is overwritten; labels of an earlier call stay.
RecordOutcome(t, i, status, useful, misleading) ==
    /\ recorded < OutcomeBound /\ recorded' = recorded + 1
    /\ outcomes' = [outcomes EXCEPT ![t] = status]
    /\ queries' = [queries EXCEPT ![i] = Labelled(@, status, useful, misleading)]
    /\ UNCHANGED <<known, attributed, feedback, trust, importance, weights, vanished>>

\* The failure is recorded, then the context resolved anew.
MarkFailure(t, i, ranked) ==
    /\ search[t] = <<>>
    /\ search' = [search EXCEPT ![t] = IF Len(queries) < QueryBound THEN ranked ELSE <<>>]
    /\ RecordOutcome(t, i, "failure", {}, {})

FinishTask(t, i, status, useful, misleading) ==
    /\ RecordOutcome(t, i, status, useful, misleading)
    /\ UNCHANGED search

-----------------------------------------------------------------------------
(* derive_passive_feedback, every 30 minutes and after a promotion.        *)

\* write_promotion stores what a promoted candidate attributes to notes.
PromotionAttributes(a) ==
    /\ a \notin attributed /\ attributed' = attributed \cup {a}
    /\ UNCHANGED <<known, queries, search, outcomes, feedback, trust, importance, weights,
                   recorded, vanished>>

\* Mutant: the unique key of the table holds for rows without a session too.
NewRowIfDistinct(rows, key) == rows[key] = 0

\* INSERT OR IGNORE: in a UNIQUE constraint no NULL equals another.
NewRow(rows, key) == key[2] = Null \/ rows[key] = 0

WriteFeedback(s, key) ==
    IF NewRow(s.rows, key)
    THEN [rows |-> [s.rows EXCEPT ![key] = Min({@ + 1, FeedbackCap})],
          affected |-> s.affected \cup {key[1]}]
    ELSE s

DeriveInline(s) ==
    FoldSet(LAMBDA a, acc : WriteFeedback(acc, <<a[2], a[1], "extraction_inline">>), s, attributed)

\* No inline row of a session equals NULL, so that it covers no hit.
AlreadyCovered(rows, n, session) ==
    session # Null /\ rows[<<n, session, "extraction_inline">>] > 0

DerivePostHoc(s, hits) ==
    FoldSet(LAMBDA h, acc :
                LET q == queries[h[1]]
                    n == q.hits[h[2]].note
                IN  IF AlreadyCovered(acc.rows, n, q.session) THEN acc
                    ELSE WriteFeedback(acc, <<n, q.session, "maintenance_post_hoc">>),
            s, hits)

AllHits == UNION {{i} \X HitRanks(queries[i]) : i \in DOMAIN queries}

\* compute_note_trust_stats.
Explicit(q, r) == Coalesce(q.hits[r].useful, q.useful)

TrustOf(n) ==
    LET mine == {h \in AllHits : queries[h[1]].hits[h[2]].note = n}
        Count(Test(_, _)) == Cardinality({h \in mine : Test(queries[h[1]], h[2])})
    IN  [selected |-> Cardinality(mine),
         top1 |-> Count(LAMBDA q, r : q.top1 = "yes" /\ r = 1),
         top5 |-> Count(LAMBDA q, r : q.useful = "yes" /\ r <= 5),
         useful |-> Count(LAMBDA q, r : Explicit(q, r) = "yes"),
         notUseful |-> Count(LAMBDA q, r : Explicit(q, r) = "no"),
         failure |-> Count(LAMBDA q, r : q.top1 = "no" /\ r = 1)]

HasHits(n) == \E h \in AllHits : queries[h[1]].hits[h[2]].note = n

\* The ids of hits are all NULL: which of them the LIMIT keeps is not said.
DeriveFeedback ==
    \E hits \in kSubset(Min({HitLimit, Cardinality(AllHits)}), AllHits) :
        LET done == DerivePostHoc(DeriveInline([rows |-> feedback, affected |-> {}]), hits)
        IN  /\ feedback' = done.rows
            /\ trust' = IF done.affected = {} THEN trust
                        ELSE [n \in Knowledge |-> IF HasHits(n) THEN TrustOf(n) ELSE trust[n]]
            /\ UNCHANGED <<known, queries, search, outcomes, attributed, importance, weights,
                           recorded, vanished>>

-----------------------------------------------------------------------------
(* wiki_importance_scoring and rerank_training.                            *)

\* Of the score only the sign of what trust adds to it is kept.
Standing(row) ==
    LET raw == 14 * row.top1 + 8 * row.top5 + 5 * row.useful - 9 * row.notUseful
               - 11 * row.failure
    IN  IF raw > 0 THEN "good" ELSE IF raw < 0 THEN "bad" ELSE "neutral"

\* Of a note without a row, what was computed last stays.
ScoreImportance ==
    /\ importance' = [n \in Knowledge |-> IF n \in known THEN Standing(trust[n])
                                          ELSE importance[n]]
    /\ UNCHANGED <<known, queries, search, outcomes, attributed, feedback, trust, weights,
                   recorded, vanished>>

\* Explicit labels first, then the one of the query for its best hit, then
\* passive feedback; that of a weak guess counts as use.
TrainingLabel(q, r) ==
    CASE Explicit(q, r) # "none" -> Explicit(q, r)
      [] Explicit(q, r) = "none" /\ q.top1 # "none" /\ r = 1 -> q.top1
      [] OTHER -> IF \E k \in Keys : k[1] = q.hits[r].note /\ feedback[k] > 0
                  THEN "yes" ELSE "none"

TrainReranker ==
    LET samples == {h \in AllHits : TrainingLabel(queries[h[1]], h[2]) # "none"}
    IN  /\ Cardinality(samples) >= MinSamples
        /\ weights' = {TrainingLabel(queries[h[1]], h[2]) : h \in samples}
        /\ UNCHANGED <<known, queries, search, outcomes, attributed, feedback, trust, importance,
                       recorded, vanished>>

-----------------------------------------------------------------------------

\* sync_vault deletes the row of a note, which takes its hits and its trust
\* along, by foreign keys, and leaves its importance; or it inserts it again.
NoteVanishes(n) ==
    /\ n \in known /\ vanished < VanishBound /\ vanished' = vanished + 1
    /\ known' = known \ {n}
    /\ queries' = [i \in DOMAIN queries |-> [queries[i] EXCEPT
          !.hits = [r \in Ranks |-> IF @[r].note = n THEN NoHit ELSE @[r]]]]
    /\ trust' = [trust EXCEPT ![n] = NoTrust]
    /\ UNCHANGED <<search, outcomes, attributed, feedback, importance, weights, recorded>>

NoteReturns(n) ==
    /\ n \notin known /\ known' = known \cup {n}
    /\ UNCHANGED <<queries, search, outcomes, attributed, feedback, trust, importance, weights,
                   recorded, vanished>>

SignalsNext ==
    \/ \E t \in Tasks :
          \/ RecordsQuery(t)
          \/ \E ranked \in Rankings(known) : \/ Searches(t, ranked)
                                             \/ \E i \in DOMAIN queries : MarkFailure(t, i, ranked)
          \/ \E i \in DOMAIN queries, status \in {"success", "failure", "partial"},
               useful \in kSubset(1, Knowledge) \cup {{}},
               misleading \in kSubset(1, Knowledge) \cup {{}} :
                 FinishTask(t, i, status, useful, misleading)
    \/ \E a \in Attributions : PromotionAttributes(a)
    \/ DeriveFeedback \/ ScoreImportance \/ TrainReranker
    \/ \E n \in Knowledge : NoteVanishes(n) \/ NoteReturns(n)

\* The daemon runs its jobs again and again.
SignalsFairness == WF_signalVars(DeriveFeedback) /\ WF_signalVars(ScoreImportance)

SignalsSpec == SignalsInit /\ [][SignalsNext]_signalVars /\ SignalsFairness

-----------------------------------------------------------------------------
(* Properties.                                                             *)

\* What clients report of a note reaches the trust in it, and the importance
\* built on that, again and again.  The job recomputes trust only when it has
\* written a row of feedback, and nothing else does.
OutcomeReachesTrust ==
    []<>(\A n \in known : HasHits(n) => /\ trust[n] = TrustOf(n)
                                        /\ importance[n] = Standing(trust[n]))
===============================================================================
