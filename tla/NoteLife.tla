------------------------------- MODULE NoteLife -------------------------------
(***************************************************************************)
(* The lifecycle_state of a note and those who write it: the promotion     *)
(* worker that corroborates or supersedes it, the hourly lifecycle audit   *)
(* that works from a snapshot of the rows, an operator at the file, and    *)
(* sync_vault, which copies what it can parse into the row.                *)
(***************************************************************************)
EXTENDS Integers, FiniteSets

CONSTANTS
    Pages,                 \* the notes followed, of many
    Old,                   \* those created lifecycle_drift_days ago
    VerifiedAt, CanonicalAt,   \* lifecycle_..._threshold; 2 and 4 in the renderer
    NoPage,                \* no note
    CountBound,            \* bound on corroborations
    OperatorBound          \* bound on changes by the operator

ASSUME LifeAssumption ==
    /\ VerifiedAt \in Nat /\ CanonicalAt \in Nat
    /\ CountBound \in Nat \ {0, 1} /\ OperatorBound \in Nat

VARIABLES
    page,        \* the file: lifecycle_state, corroboration_count, confidence
    row,         \* its row of notes, or Unindexed
    seen,        \* the file as the last sync saw it
    item,        \* its lifecycle_review item
    audit,       \* audit_lifecycle_states in progress
    promo,       \* the promotion in progress
    operated,    \* changes by the operator so far
    manual,      \* history: pages whose state the operator has set
    overlapped   \* history: pages written between another's read and write,
                 \* or put back to the text the sync had seen

lifeVars == <<page, row, seen, item, audit, promo, operated, manual, overlapped>>

\* LIFECYCLE_STATES of the parser, and what the renderer writes besides.
LifecycleStates == {"draft", "review", "verified", "canonical", "contested", "archived"}
Written == LifecycleStates \cup {"stale"}

Confidences == <<"low", "medium", "high">>
Rank(c) == CHOOSE k \in 1..3 : Confidences[k] = c

Page == [life : Written, count : 0..CountBound, conf : {"low", "medium", "high"}]
Unindexed == [life |-> "none"]

NoPromo == [at |-> NoPage]

LifeTypeOK ==
    /\ page \in [Pages -> Page] /\ seen \in [Pages -> Page \cup {Unindexed}]
    /\ row \in [Pages -> Page \cup {Unindexed}]
    /\ item \in [Pages -> {"none", "open", "resolved"}]
    /\ audit.pc \in {"idle", "scan", "read", "replaced"}
    /\ audit.todo \subseteq Pages /\ audit.locked \in BOOLEAN
    /\ operated \in 0..OperatorBound
    /\ manual \subseteq Pages /\ overlapped \subseteq Pages

LifeInit ==
    /\ page \in [Pages -> [life : {"draft"}, count : {0, 1}, conf : {"medium"}]]
    /\ row = [n \in Pages |-> Unindexed] /\ seen = row
    /\ item = [n \in Pages |-> "none"]
    /\ audit = [pc |-> "idle", todo |-> {}, at |-> NoPage, locked |-> FALSE]
    /\ promo = NoPromo
    /\ operated = 0 /\ manual = {} /\ overlapped = {}

-----------------------------------------------------------------------------
(* decide and _render_existing.                                            *)

\* What find_existing_candidates and the comparison of bodies may say.
Matches == [conf : {"low", "medium", "high"}, score : {"exact", "strong", "near", "weak"},
            rival : BOOLEAN, duplicate : BOOLEAN, novel : BOOLEAN,
            gap : {"glitch", "days", "stale"}]

\* _time_weighted_conflict: by the new and the old confidence, and the time
\* since the note was updated.
TimeWeighted(m, old) ==
    CASE old = "low" -> "supersedes_archive"
      [] m.conf = "high" /\ old = "medium" -> "supersedes_contested"
      [] m.conf = "high" /\ old = "high" /\ m.gap = "days" -> "supersedes_contested"
      [] m.conf = old /\ m.gap = "stale" -> "supersedes_stale"
      [] OTHER -> "conflict_corroborates"

\* What becomes of the note matched: a reason to write it, or "apart".
Decide(m, old) ==
    CASE m.conf = "low" -> "apart"
      [] m.conf # "low" /\ m.duplicate /\ m.score \in {"exact", "strong"} -> "confirm"
      [] m.conf # "low" /\ m.score \in {"near", "weak"} /\ m.rival -> TimeWeighted(m, old)
      [] m.conf # "low" /\ m.score = "exact" /\ ~m.duplicate ->
            (IF m.novel THEN "update" ELSE "confirm")
      [] m.conf # "low" /\ ((m.score = "strong" /\ ~m.duplicate) \/ (m.score = "near" /\ ~m.rival))
            -> "update"
      [] OTHER -> "apart"

Stronger(a, b) == IF Rank(a) > Rank(b) THEN a ELSE b
Lowered(c) == IF c = "low" THEN c ELSE Confidences[Rank(c) - 1]

\* int(corroboration_count or 1): the ingest writes a page without a counter,
\* and that, like a counter of 0, is one observation.
Observations(p) == IF p.count = 0 THEN 1 ELSE p.count

RenderExisting(p, why, conf) ==
    LET count == Observations(p) + 1
        life == CASE why \in {"confirm", "update"} /\ p.life = "draft" /\ count >= 2 -> "verified"
                  [] why \in {"confirm", "update"} /\ p.life = "verified" /\ count >= 4 -> "canonical"
                  [] why = "supersedes_stale" -> "stale"
                  [] why = "supersedes_contested"
                     /\ p.life \notin {"contested", "stale", "archived"} -> "contested"
                  [] why = "supersedes_archive" -> "archived"
                  [] OTHER -> p.life
        before == IF why = "supersedes_contested" THEN Lowered(p.conf) ELSE p.conf
    IN  [life |-> life, count |-> count, conf |-> Stronger(conf, before)]

Promote(n) ==
    /\ promo = NoPromo /\ row[n] # Unindexed /\ page[n].count < CountBound
    /\ \E text \in {RenderExisting(page[n], Decide(m, row[n].conf), m.conf) :
                      m \in {m \in Matches : Decide(m, row[n].conf) # "apart"}} :
         promo' = [at |-> n, read |-> page[n], text |-> text]
    /\ UNCHANGED <<page, row, seen, item, audit, operated, manual, overlapped>>

\* write_promotion: the text rendered then, whatever the file says now.
WritePromotion ==
    /\ promo # NoPromo
    /\ page' = [page EXCEPT ![promo.at] = promo.text]
    /\ overlapped' = overlapped \cup {n \in {promo.at} : page[n] # promo.read}
    /\ promo' = NoPromo
    /\ UNCHANGED <<row, seen, item, audit, operated, manual>>

-----------------------------------------------------------------------------
(* sync_vault, for one page; it waits while the audit holds the write lock. *)

SyncRow(p) == IF p.life \in LifecycleStates THEN p ELSE Unindexed

\* Mutant: the row keeps its state once it has one.
SyncKeepingLife(n) ==
    /\ seen[n] # page[n] /\ ~audit.locked
    /\ seen' = [seen EXCEPT ![n] = page[n]]
    /\ row' = [row EXCEPT ![n] = IF @ = Unindexed THEN SyncRow(page[n])
                                 ELSE [page[n] EXCEPT !.life = row[n].life]]
    /\ UNCHANGED <<page, item, audit, promo, operated, manual, overlapped>>

Sync(n) ==
    /\ seen[n] # page[n] /\ ~audit.locked
    /\ seen' = [seen EXCEPT ![n] = page[n]]
    /\ row' = [row EXCEPT ![n] = SyncRow(page[n])]
    /\ UNCHANGED <<page, item, audit, promo, operated, manual, overlapped>>

OperatorSets(n, life) ==
    /\ operated < OperatorBound /\ page[n].life # life
    /\ page' = [page EXCEPT ![n].life = life]
    /\ manual' = manual \cup {n}
    /\ operated' = operated + 1
    /\ overlapped' = overlapped \cup {m \in {n} : page'[m] = seen[m]}
    /\ UNCHANGED <<row, seen, item, audit, promo>>

OperatorResolves(n) ==
    /\ item[n] = "open"
    /\ item' = [item EXCEPT ![n] = "resolved"]
    /\ UNCHANGED <<page, row, seen, audit, promo, operated, manual, overlapped>>

-----------------------------------------------------------------------------
(* audit_lifecycle_states, within the job that has opened its job_runs row: *)
(* that INSERT began a transaction, which the first UPDATE commits.        *)

Target(r) ==
    CASE r.life \in {"draft", "verified"} /\ r.count >= CanonicalAt -> "canonical"
      [] r.life = "draft" /\ r.count >= VerifiedAt /\ r.count < CanonicalAt -> "verified"
      [] OTHER -> "none"

StartAudit ==
    /\ audit.pc = "idle"
    /\ audit' = [pc |-> "scan", rows |-> row, todo |-> {n \in Pages : row[n] # Unindexed},
                 at |-> NoPage, locked |-> TRUE]
    /\ UNCHANGED <<page, row, seen, item, promo, operated, manual, overlapped>>

\* create_review_item: a resolved item stays resolved.
AuditPasses(n) ==
    /\ audit.pc = "scan" /\ n \in audit.todo /\ Target(audit.rows[n]) = "none"
    /\ item' = [item EXCEPT ![n] =
                  IF audit.rows[n].life = "draft" /\ audit.rows[n].count = 0 /\ n \in Old /\ @ = "none"
                  THEN "open" ELSE @]
    /\ audit' = [audit EXCEPT !.todo = @ \ {n}]
    /\ UNCHANGED <<page, row, seen, promo, operated, manual, overlapped>>

\* _write_lifecycle_state reads the page there is now and puts the state in
\* that the row of the snapshot calls for.
AuditReads(n) ==
    /\ audit.pc = "scan" /\ n \in audit.todo /\ Target(audit.rows[n]) # "none"
    /\ audit' = [pc |-> "read", rows |-> audit.rows, todo |-> audit.todo \ {n}, at |-> n,
                 locked |-> audit.locked, read |-> page[n],
                 text |-> [page[n] EXCEPT !.life = Target(audit.rows[n])]]
    /\ UNCHANGED <<page, row, seen, item, promo, operated, manual, overlapped>>

AuditReplaces ==
    /\ audit.pc = "read"
    /\ page' = [page EXCEPT ![audit.at] = audit.text]
    /\ overlapped' = overlapped \cup {n \in {audit.at} : page[n] # audit.read}
    /\ audit' = [audit EXCEPT !.pc = "replaced"]
    /\ UNCHANGED <<row, seen, item, promo, operated, manual>>

AuditWriteFails ==
    /\ audit.pc = "read"
    /\ audit' = [audit EXCEPT !.pc = "scan"]
    /\ UNCHANGED <<page, row, seen, item, promo, operated, manual, overlapped>>

AuditUpdates ==
    /\ audit.pc = "replaced"
    /\ LET n == audit.at
       IN  /\ row' = [row EXCEPT ![n] = IF @ = Unindexed THEN @ ELSE [@ EXCEPT !.life = audit.text.life]]
           /\ overlapped' = overlapped \cup {m \in {n} : page[m] # audit.text}
    /\ audit' = [audit EXCEPT !.pc = "scan", !.locked = FALSE]
    /\ UNCHANGED <<page, seen, item, promo, operated, manual>>

\* The first UPDATE may be of a note that is none of Pages.
AuditUpdatesAnother ==
    /\ audit.pc = "scan" /\ audit.locked
    /\ audit' = [audit EXCEPT !.locked = FALSE]
    /\ UNCHANGED <<page, row, seen, item, promo, operated, manual, overlapped>>

EndAudit ==
    /\ audit.pc = "scan" /\ audit.todo = {}
    /\ audit' = [pc |-> "idle", todo |-> {}, at |-> NoPage, locked |-> FALSE]
    /\ UNCHANGED <<page, row, seen, item, promo, operated, manual, overlapped>>

AuditStep == \/ StartAudit \/ \E n \in Pages : AuditPasses(n) \/ AuditReads(n)
             \/ AuditReplaces \/ AuditWriteFails \/ AuditUpdates \/ AuditUpdatesAnother \/ EndAudit

LifeNext ==
    \/ \E n \in Pages : Promote(n) \/ Sync(n) \/ OperatorResolves(n)
    \/ \E n \in Pages, life \in {"canonical", "contested", "archived"} : OperatorSets(n, life)
    \/ WritePromotion
    \/ AuditStep

LifeSpec == LifeInit /\ [][LifeNext]_lifeVars

-----------------------------------------------------------------------------
(* Properties.                                                             *)

\* The audit is safe to rerun: what it has written for a row it would not
\* write again, nor anything else, until the row changes.
AuditSettles ==
    \A n \in Pages : row[n] # Unindexed /\ Target(row[n]) # "none" =>
        Target([row[n] EXCEPT !.life = Target(row[n])]) = "none"

\* Once a sync has seen a page as it is, its row says the same, whoever wrote
\* either and in whichever order; unless two of them overlapped, or an operator
\* undid what the audit wrote before a sync saw it: the hash is then the one the
\* sync has, and the state the audit's UPDATE left in the row stays.
RowFollowsPage ==
    \A n \in Pages :
        seen[n] = page[n] /\ n \notin overlapped /\ ~(audit.pc = "replaced" /\ audit.at = n)
            => row[n] = SyncRow(page[n])

\* A note nobody put there by hand is canonical only when its page counts as many
\* observations as the configuration asks for, the ingest of a page without a
\* counter being the first of them, although the audit decides on rows of an
\* earlier time and the promotion on the file; a lost update excepted.
CanonicalIsCorroborated ==
    \A n \in Pages :
        page[n].life = "canonical" /\ n \notin manual \cup overlapped => page[n].count >= CanonicalAt

\* Row and page tell one story of the note, it is the one the thresholds of the
\* configuration allow, and the hourly audit comes to rest in it.
LifecycleConsistent == RowFollowsPage /\ CanonicalIsCorroborated /\ AuditSettles

\* What promotion has written of a note is still a note to the next sync.
PromotedNoteStaysIndexed ==
    \A n \in Pages : seen[n] = page[n] => row[n] # Unindexed
=============================================================================
