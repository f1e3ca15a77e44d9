------------------------------ MODULE TaskPacket ------------------------------
(***************************************************************************)
(* begin_task, mark_failure and finish_task: hits become a memory packet   *)
(* with slots and caps, the packet is completed along the graph, finalized *)
(* and assessed, and what is emitted is chosen by branch; a weak packet is *)
(* followed by one focused retry.                                          *)
(***************************************************************************)
EXTENDS Integers, Sequences, FiniteSets, SequencesExt, Folds

CONSTANTS
    Note,          \* sequence of notes: type, chain (0: none), fresh, life,
                   \* rels (relations a hit shows), hint (words in its text)
    Edges,         \* graph_edges: <<source, relation, target>>
    Retired,       \* notes retired or past valid_to
    Thin,          \* notes whose summary says no more than the title
    Anchored,      \* notes that share a term with the query or a seed
    Intents,       \* what _trace_purpose may make of a request
    Budgets,       \* limits on primary and related memories
    HitBound, RetryHitBound,   \* bounds on hits of a retrieval, and of the retry
    MaxDepth, MaxAdded, MaxBranches    \* TRACE_MAX_...

VARIABLES
    phase, request, packet, frontier, added, seeds, directive, pass

taskVars == <<phase, request, packet, frontier, added, seeds, directive, pass>>

Notes == 1..Len(Note)

\* Chains are numbered, and there are no more of them than notes.
ASSUME TaskAssumption ==
    /\ Note \in Seq([type : STRING, chain : Nat, fresh : STRING, life : STRING,
                     rels : SUBSET STRING, hint : STRING])
    /\ \A n \in Notes : Note[n].chain <= Len(Note)
    /\ Budgets \subseteq [primary : Nat, related : Nat]
    /\ {HitBound, RetryHitBound, MaxDepth, MaxAdded, MaxBranches} \subseteq Nat

Slots == <<"primary", "episode", "topic", "timeline", "similarity", "contrast">>
SlotSet == {Slots[k] : k \in 1..Len(Slots)}
Doubtful == {"stale", "suspect", "contested"}
Withdrawn == {"contested", "archived"}

\* What is in T of the sequence s, in its order.
Filter(s, T) ==
    LET kept[i \in 0..Len(s)] ==
            IF i = 0 THEN <<>>
            ELSE IF s[i] \in T THEN Append(kept[i - 1], s[i]) ELSE kept[i - 1]
    IN  kept[Len(s)]

\* The members of S, lowest first.
InOrder(S) == Filter([k \in 1..(Len(Note) + 1) |-> k - 1], S)

\* A RuntimeMemory; rank 0 stands for None.  The rows of graph_expand have no
\* chain_id and no lifecycle_state: a hit found along an edge alone has neither.
Memory(n, rels, rank, fresh, via) ==
    [id |-> n, rels |-> rels, rank |-> rank, fresh |-> fresh, via |-> via,
     chain |-> IF via = "edge" THEN 0 ELSE Note[n].chain,
     life |-> IF via = "edge" THEN "none" ELSE Note[n].life]

EmptyPacket == [slots |-> [s \in SlotSet |-> <<>>], archive |-> FALSE,
                warned |-> {}, contested |-> {}]
NoDirective == [state |-> "none"]
NoRequest == [intent |-> "factual", budget |-> [primary |-> 0, related |-> 0],
              historical |-> FALSE]

TaskTypeOK ==
    /\ phase \in {"idle", "tracing", "assessed"}
    /\ DOMAIN packet.slots = SlotSet
    /\ added \subseteq Notes /\ Cardinality(added) <= MaxAdded
    /\ pass \in 0..2

TaskInit ==
    /\ phase = "idle" /\ request = NoRequest /\ packet = EmptyPacket
    /\ frontier = <<>> /\ added = {} /\ seeds = <<>> /\ directive = NoDirective
    /\ pass = 0

Ids(seq) == {seq[k].id : k \in 1..Len(seq)}

\* _canonical_packet_items: all slots, in this order.
CanonicalItems(p) == FlattenSeq([k \in 1..Len(Slots) |-> p.slots[Slots[k]]])

-----------------------------------------------------------------------------
(* _build_memory_packet.                                                   *)

PrimaryBucket(type) ==
    CASE type = "procedure" -> "procedure"
      [] type \in {"incident", "journal"} -> "episode"
      [] type \in {"decision", "concept", "source"} -> "fact"
      [] OTHER -> "context"

PrimaryBucketCap(bucket, maxPrimary) ==
    IF maxPrimary > 3 /\ bucket \in {"procedure", "fact"} THEN 2 ELSE 1

RelationBucket(type, rels) ==
    CASE rels \cap {"before", "after", "supersedes"} # {} -> "timeline"
      [] rels \cap {"before", "after", "supersedes"} = {} /\ "similar_to" \in rels -> "similarity"
      [] rels \cap {"before", "after", "supersedes", "similar_to"} = {}
         /\ "contrasts_with" \in rels -> "contrast"
      [] rels = {} /\ type \in {"incident", "journal"} -> "timeline"
      [] OTHER -> "topic"

\* The k-th hit; edged are those that only the graph channel found.
HitMemory(hs, edged, k) ==
    Memory(hs[k], Note[hs[k]].rels, k, Note[hs[k]].fresh, IF k \in edged THEN "edge" ELSE "hit")

\* The k-th hit, after those in acc.
TakePrimary(hs, maxPrimary, acc, k) ==
    LET bucket(h) == PrimaryBucket(Note[hs[h]].type)
    IN  IF /\ Len(acc) < maxPrimary
           /\ Cardinality({i \in DOMAIN acc : bucket(acc[i]) = bucket(k)})
                < PrimaryBucketCap(bucket(k), maxPrimary)
        THEN Append(acc, k) ELSE acc

PrimaryHits(hs, maxPrimary) ==
    FoldLeft(LAMBDA acc, k : TakePrimary(hs, maxPrimary, acc, k), <<>>, [k \in 1..Len(hs) |-> k])

CappedTo(seq, n) == SubSeq(seq, 1, IF Len(seq) < n THEN Len(seq) ELSE n)

BuildPacket(hs, edged, budget, archive) ==
    LET first == PrimaryHits(hs, budget.primary)
        rest == DOMAIN hs \ Range(first)
        related(b) == Filter([k \in 1..Len(hs) |-> k], {k \in rest :
                          RelationBucket(Note[hs[k]].type, Note[hs[k]].rels) = b})
        memories(ks) == [i \in 1..Len(ks) |-> HitMemory(hs, edged, ks[i])]
        hits == {HitMemory(hs, edged, k) : k \in 1..Len(hs)}
    IN  [slots |-> [s \in SlotSet |->
             CASE s = "primary" -> memories(first)
               [] s = "episode" -> <<>>
               [] OTHER -> memories(CappedTo(related(s), budget.related))],
         archive |-> archive,
         warned |-> {m.id : m \in {h \in hits : h.fresh \in Doubtful \/ h.life \in Withdrawn}},
         contested |-> {m.id : m \in {h \in hits : "contested" \in {h.fresh, h.life}}}]

\* _load_same_episode_context: notes of the first memory's chain, procedures
\* first.  Their freshness is not looked up.
TypeRank(type) == CASE type = "procedure" -> 0 [] type = "incident" -> 1
                    [] type = "decision" -> 2 [] type = "concept" -> 3 [] OTHER -> 4
ByType(S) == FlattenSeq([k \in 1..5 |-> InOrder({n \in S : TypeRank(Note[n].type) = k - 1})])

SameEpisode(p, maxRelated) ==
    LET first == p.slots["primary"][1]
        lead == first.id
        rows == ByType({n \in Notes \ {lead} : Note[n].chain = first.chain})
        usable == {n \in Notes \ Ids(p.slots["primary"]) :
                      Note[lead].type = "incident" =>
                          Note[n].type \in {"procedure", "decision", "concept"}}
        kept == CappedTo(Filter(CappedTo(rows, 2 * maxRelated), usable), maxRelated)
    IN  IF p.slots["primary"] = <<>> \/ first.chain = 0 THEN <<>>
        ELSE [k \in 1..Len(kept) |-> Memory(kept[k], {"part_of_chain"}, 0, "fresh", "episode")]

-----------------------------------------------------------------------------
(* Roles and _complete_trace_context.                                      *)

AssemblyRole(m) ==
    LET note == Note[m.id]
    IN  CASE "contested" \in {m.fresh, m.life} -> "caution"
          [] OTHER ->
             IF m.rels \cap {"failed_due_to", "caused_by"} # {}
                \/ note.type \in {"incident", "journal"} \/ note.hint = "fail" THEN "failed_attempt"
             ELSE IF note.type = "decision" \/ "linked_decision" \in m.rels THEN "decision_pivot"
             ELSE IF m.rels \cap {"supports_solution", "resolved_by"} # {} \/ note.hint = "success"
                  THEN "successful_resolution"
             ELSE IF note.type = "procedure" THEN "current_reusable_procedure"
             ELSE IF note.hint = "cause" THEN "diagnosis"
             ELSE IF m.rels \cap {"supersedes", "contrasts_with"} # {} THEN "caution"
             ELSE "context"

Solved == {"successful_resolution", "current_reusable_procedure"}

Required(intent) ==
    CASE intent = "historical" -> {"failed_attempt", "decision_pivot"} \cup Solved
      [] intent = "debugging" -> {"failed_attempt", "diagnosis"} \cup Solved
      [] intent = "comparison" -> {"decision_pivot", "caution"}
      [] intent = "implementation" -> {"decision_pivot", "current_reusable_procedure"}
      [] OTHER -> {}
Optional(intent) ==
    CASE intent = "historical" -> {"diagnosis", "caution", "context"}
      [] intent = "debugging" -> {"decision_pivot", "caution"}
      [] intent = "comparison" -> Solved \cup {"context"}
      [] intent = "implementation" ->
            {"failed_attempt", "diagnosis", "successful_resolution", "caution", "context"}
      [] OTHER -> {}

TraceAllowed == {"part_of_chain", "before", "after", "supersedes", "failed_due_to",
                 "supports_solution", "resolved_by", "linked_decision", "caused_by"}

ShouldRunTrace(intent, items) ==
    /\ intent # "factual"
    /\ \E k \in 1..Len(items) :
         \/ items[k].chain # 0
         \/ items[k].rels \cap TraceAllowed # {}
         \/ AssemblyRole(items[k]) \in Required(intent) \cup Optional(intent)

\* _trace_edges: by relation, those of reversed edges ("reverse_...") among the
\* others, then by target.  Relations that are not followed are left out.
TraceOrder == <<"after", "before", "caused_by", "failed_due_to", "linked_decision",
                "part_of_chain", "resolved_by">>
TraceRelations ==
    [k \in 1..7 |-> <<TraceOrder[k], FALSE>>]
    \o [k \in 1..7 |-> <<TraceOrder[k], TRUE>>]
    \o <<<<"supersedes", TRUE>>, <<"supports_solution", TRUE>>,
         <<"supersedes", FALSE>>, <<"supports_solution", FALSE>>>>

TraceEdges(n) ==
    LET along(r) == InOrder({m \in Notes :
                        (IF r[2] THEN <<m, r[1], n>> ELSE <<n, r[1], m>>) \in Edges})
    IN  FlattenSeq([k \in 1..Len(TraceRelations) |->
            [i \in 1..Len(along(TraceRelations[k])) |->
                <<TraceRelations[k][1], along(TraceRelations[k])[i]>>]])

TraceAdmitted(m, relation, intent, items) ==
    LET role == AssemblyRole(m)
        anchor == m.id \in Anchored
        missing == role \notin {AssemblyRole(items[k]) : k \in 1..Len(items)}
    IN  /\ role \in Required(intent) \cup Optional(intent)
        /\ anchor \/ relation \in {"failed_due_to", "supports_solution", "resolved_by", "supersedes"}
        /\ \/ role \in Required(intent) /\ missing
           \/ relation = "supersedes"
           \/ role \in {"caution", "diagnosis", "failed_attempt"}
              /\ intent \in {"debugging", "implementation", "historical"}
           \/ role \in Solved /\ intent \in {"debugging", "implementation"}
           \/ role \in Optional(intent) /\ anchor

TraceMemory(e) == Memory(e[2], {e[1]}, 0, Note[e[2]].fresh, "trace")
TraceSlot(e) == RelationBucket(Note[e[2]].type, {e[1]})

\* Mutant: the cap counts the notes of earlier items only.
TraceTakeUncapped(from, known, intent, acc, e) ==
    IF /\ e[2] \notin known \cup acc.new /\ e[2] \notin Retired
       /\ Cardinality(added) < MaxAdded
       /\ TraceAdmitted(TraceMemory(e), e[1], intent, seeds)
    THEN [new |-> acc.new \cup {e[2]},
          packet |-> [acc.packet EXCEPT !.slots[TraceSlot(e)] = Append(@, TraceMemory(e))],
          next |-> Append(acc.next, [id |-> e[2], depth |-> from.depth + 1])]
    ELSE acc

\* One edge of a frontier item, after those in acc.
TraceTake(from, known, intent, acc, e) ==
    IF /\ e[2] \notin known \cup acc.new /\ e[2] \notin Retired
       /\ Cardinality(added \cup acc.new) < MaxAdded
       /\ TraceAdmitted(TraceMemory(e), e[1], intent, seeds)
    THEN [new |-> acc.new \cup {e[2]},
          packet |-> [acc.packet EXCEPT !.slots[TraceSlot(e)] = Append(@, TraceMemory(e))],
          next |-> Append(acc.next, [id |-> e[2], depth |-> from.depth + 1])]
    ELSE acc

\* The edges of one frontier item, in order, until the cap.
TraceFrom(from, p, known, intent) ==
    FoldLeft(LAMBDA acc, e : TraceTake(from, known, intent, acc, e),
             [new |-> {}, packet |-> p, next |-> <<>>], TraceEdges(from.id))

-----------------------------------------------------------------------------
(* _finalize_memory_packet.                                                *)

\* The first slot keeps a memory; later ones give it their relations.
Dedupe(p) ==
    LET all == CanonicalItems(p)
        relsOf(n) == UNION {all[k].rels : k \in {j \in 1..Len(all) : all[j].id = n}}
        earlier(s) == UNION {Ids(p.slots[Slots[j]]) : j \in {i \in 1..Len(Slots) :
                          \E k \in 1..Len(Slots) : Slots[k] = s /\ i < k}}
        unique(s) == Filter(p.slots[s], {m \in Range(p.slots[s]) : m.id \notin earlier(s)})
    IN  [p EXCEPT !.slots = [s \in SlotSet |->
            [k \in 1..Len(unique(s)) |-> [unique(s)[k] EXCEPT !.rels = relsOf(unique(s)[k].id)]]]]

FunctionalRelations == {"before", "after", "supersedes", "failed_due_to", "supports_solution",
                        "linked_decision"}

RoleOrder(role) ==
    CASE role = "failed_attempt" -> 20 [] role = "diagnosis" -> 30 [] role = "decision_pivot" -> 40
      [] role = "successful_resolution" -> 50 [] role = "current_reusable_procedure" -> 60
      [] role = "caution" -> 70 [] OTHER -> 80

AssemblyOrder(m) == RoleOrder(AssemblyRole(m)) * 100 + (IF m.rank = 0 THEN 99 ELSE m.rank)

OnPath(m) == \/ m.chain # 0
             \/ AssemblyRole(m) # "context"
             \/ m.rels \cap FunctionalRelations # {}

FunctionalPath(p) ==
    LET candidates == Filter(CanonicalItems(p), {m \in Range(CanonicalItems(p)) : OnPath(m)})
    IN  IF Len(candidates) < 2 THEN <<>>
        ELSE SortSeq(candidates, LAMBDA a, b :
                 (AssemblyOrder(a) < AssemblyOrder(b)) \/ (AssemblyOrder(a) = AssemblyOrder(b) /\ a.id < b.id))

\* _build_assessment_reservoir: a branch per chain of the path, by the order
\* of their names; the first is selected, those beyond the limit are cut off.
BranchChains(p) ==
    InOrder({m.chain : m \in Range(FunctionalPath(p))})

Branches(p) == CappedTo(BranchChains(p), MaxBranches)

BranchOf(p, m) ==
    IF m \notin Range(FunctionalPath(p)) THEN 0
    ELSE CHOOSE k \in 1..Len(BranchChains(p)) : BranchChains(p)[k] = m.chain

\* Mutant: warnings of primary memories only.
PrimaryWarnings(p) ==
    {m.id : m \in {i \in {p.slots["primary"][k] : k \in 1..Len(p.slots["primary"])} :
        i.fresh \in Doubtful \/ i.life \in Withdrawn}}

WarningItems(p) ==
    {m.id : m \in {i \in {CanonicalItems(p)[k] : k \in 1..Len(CanonicalItems(p))} :
        i.id \in p.warned \/ i.fresh \in Doubtful \/ i.life \in Withdrawn}}

MissingRoles(roles) ==
    {r \in {"diagnosis"} : "failed_attempt" \in roles
                           /\ roles \cap {"diagnosis", "decision_pivot"} = {}}
    \cup {r \in {"success_resolution"} : "failed_attempt" \in roles /\ roles \cap Solved = {}}
    \cup {r \in {"context"} : roles \cap Solved # {} /\ roles \subseteq Solved \cup {"caution"}}

-----------------------------------------------------------------------------
(* assess_packet and the emission.                                         *)

RetrievalState(p, historical) ==
    LET primary == p.slots["primary"]
        fresh == {primary[k].fresh : k \in 1..Len(primary)}
    IN  IF p.contested # {} THEN "insufficient_contested"
        ELSE IF primary = <<>> THEN (IF p.archive THEN "partial" ELSE "insufficient_no_hit")
        ELSE IF historical THEN "sufficient_historical"
        ELSE IF fresh = {"stale"} THEN "insufficient_stale"
        ELSE IF "contested" \in fresh THEN "insufficient_contested"
        ELSE IF "suspect" \in fresh \/ Ids(primary) \cap Thin # {} \/ WarningItems(p) # {}
             THEN "partial"
        ELSE "sufficient_current"

RolesOf(seq) == {AssemblyRole(seq[k]) : k \in 1..Len(seq)}

\* factual: what _intent makes of the request, from other words than
\* _trace_purpose.
CompletionState(p, factual) ==
    LET path == FunctionalPath(p)
        primary == p.slots["primary"]
    IN  IF primary = <<>> /\ ~p.archive THEN "fragmentary"
        ELSE IF Len(Branches(p)) > 1 THEN "overabundant"
        ELSE IF factual THEN (IF primary # <<>> THEN "complete_path" ELSE "fragmentary")
        ELSE IF path = <<>>
             THEN (IF RolesOf(primary) \cap Solved # {} THEN "success_only" ELSE "fragmentary")
        ELSE IF MissingRoles(RolesOf(path)) # {} THEN "partial_chain"
        ELSE IF RolesOf(path) \cap Solved # {}
             THEN (IF RolesOf(path) \subseteq Solved THEN "success_only" ELSE "complete_path")
        ELSE "partial_chain"

\* _fresh_pipeline_threshold; the budget case needs an empty primary slot.
Threshold(p, state, completion) ==
    IF state = "insufficient_contested" THEN "contradiction_blocks_use"
    ELSE IF p.archive /\ p.slots["primary"] = <<>> /\ completion # "complete_path"
         THEN "archive_only_actionable"
    ELSE IF MissingRoles(RolesOf(FunctionalPath(p))) # {} /\ completion \in {"partial_chain", "fragmentary"}
         THEN "missing_required_role"
    ELSE IF state = "insufficient_no_hit" THEN "no_anchor" ELSE "none"

Insufficient == {"insufficient_contested", "insufficient_stale", "insufficient_no_hit"}

\* Mutant: the deferred branches are those next to the first only.
DeferNext(p, state, completion) == {k \in 1..Len(Branches(p)) : k = 2}

\* _select_branches.
SelectedBranches(p, state, completion) ==
    IF state \in Insufficient \/ completion = "fragmentary" \/ Branches(p) = <<>> THEN {} ELSE {1}
DeferredBranches(p, state, completion) ==
    (1..Len(Branches(p))) \ SelectedBranches(p, state, completion)

ReusePolicy(state, completion, threshold) ==
    IF threshold # "none" \/ state \in Insufficient THEN "research_fresh"
    ELSE IF state \in {"sufficient_historical", "partial"} \/ completion \in {"partial_chain", "fragmentary"}
         THEN "reuse_with_verification"
    ELSE "reuse"

FollowupPolicy(threshold, deferred) ==
    IF threshold \in {"missing_required_role", "contradiction_blocks_use", "no_anchor"}
    THEN "immediate_focused_requery"
    ELSE IF deferred # {} THEN "on_first_failure" ELSE "none"

AssessPacket(p, req, factual) ==
    LET state == RetrievalState(p, req.historical)
        completion == CompletionState(p, factual)
        threshold == Threshold(p, state, completion)
        deferred == DeferredBranches(p, state, completion)
    IN  [state |-> state, completion |-> completion, threshold |-> threshold,
         recommendation |-> ReusePolicy(state, completion, threshold),
         selected |-> SelectedBranches(p, state, completion), deferred |-> deferred,
         followup |-> FollowupPolicy(threshold, deferred)]

\* _selected_packet_view: once a branch is selected, memories of others go.
Shown(p, d) ==
    {m \in {CanonicalItems(p)[k] : k \in 1..Len(CanonicalItems(p))} :
        d.selected = {} \/ BranchOf(p, m) \in {0} \cup d.selected}

-----------------------------------------------------------------------------
(* The facade.                                                             *)

HitLists(n) == {s \in UNION {[1..k -> Notes] : k \in 0..n} :
                   \A i, j \in DOMAIN s : s[i] = s[j] => i = j}

\* resolve_task_context up to the trace: the packet built, and its episode.
Assemble(req, built) ==
    LET whole == [built EXCEPT !.slots["episode"] = SameEpisode(built, req.budget.related)]
        items == CanonicalItems(whole)
    IN  /\ request' = req
        /\ packet' = whole
        /\ seeds' = items
        /\ frontier' = IF ShouldRunTrace(req.intent, items)
                       THEN [k \in 1..Len(items) |-> [id |-> items[k].id, depth |-> 0]]
                       ELSE <<>>
        /\ added' = {} /\ directive' = NoDirective
        /\ phase' = "tracing"

\* What retrieve() returned: hits, those of them that only an edge led to, which
\* show its relation, and whether there are chunks of the archive.
Resolve(req, n) ==
    \E hs \in HitLists(n), archive \in BOOLEAN :
      \E edged \in SUBSET {k \in DOMAIN hs : Note[hs[k]].rels # {}} :
        Assemble(req, BuildPacket(hs, edged, req.budget, archive))

\* A historical temporality makes the intent historical.
Requests == {req \in [intent : Intents, budget : Budgets, historical : BOOLEAN] :
                req.historical => req.intent = "historical"}

\* begin_task, and mark_failure with the text of the failure.
BeginTask ==
    /\ phase = "idle"
    /\ \E req \in Requests : Resolve(req, HitBound)
    /\ pass' = 1

TraceMore == frontier # <<>> /\ Cardinality(added) < MaxAdded

TraceStep ==
    /\ phase = "tracing" /\ TraceMore
    /\ LET from == frontier[1]
           known == Ids(CanonicalItems(packet))
           found == TraceFrom(from, packet, known, request.intent)
       IN  IF from.depth >= MaxDepth
           THEN frontier' = Tail(frontier) /\ UNCHANGED <<packet, added>>
           ELSE /\ packet' = found.packet
                /\ added' = added \cup found.new
                /\ frontier' = Tail(frontier) \o found.next
    /\ UNCHANGED <<phase, request, seeds, directive, pass>>

FinalizePacket ==
    /\ phase = "tracing" /\ ~TraceMore
    /\ packet' = Dedupe(packet)
    /\ \E factual \in BOOLEAN :
          /\ request.intent = "implementation" => ~factual
          /\ directive' = AssessPacket(Dedupe(packet), request, factual)
    /\ frontier' = <<>> /\ phase' = "assessed"
    /\ UNCHANGED <<request, added, seeds, pass>>

\* should_auto_retry, where the caller asked for it: one more pass, with the
\* focused query.
AutoRetry ==
    /\ phase = "assessed" /\ pass = 1
    /\ directive.followup = "immediate_focused_requery"
    /\ Resolve(request, RetryHitBound)
    /\ pass' = 2

\* The answer is emitted; nothing of it is kept for the next call.
Emit ==
    /\ phase = "assessed"
    /\ phase' = "idle" /\ request' = NoRequest /\ packet' = EmptyPacket
    /\ added' = {} /\ seeds' = <<>> /\ directive' = NoDirective /\ pass' = 0
    /\ UNCHANGED frontier

TaskNext == BeginTask \/ TraceStep \/ FinalizePacket \/ AutoRetry \/ Emit

TaskSpec == TaskInit /\ [][TaskNext]_taskVars

-----------------------------------------------------------------------------
(* Properties.                                                             *)

\* "reuse" without verification is recommended only for a packet none of whose
\* notes is contested, archived, stale or suspect, in whichever slot it landed
\* and whether a search, a chain or the trace brought it there.  Excepted are
\* what nobody reads: the freshness of notes of the same episode, and the
\* lifecycle of a hit that only the graph channel found.
ReuseOnlyCurrent ==
    directive.state # "none" /\ directive.recommendation = "reuse" =>
        \A k \in 1..Len(CanonicalItems(packet)) :
            LET m == CanonicalItems(packet)[k]
            IN  /\ m.via # "edge" => Note[m.id].life \notin Withdrawn
                /\ m.via # "episode" => Note[m.id].fresh \notin Doubtful

\* A memory of the packet is shown, or is in a branch that the emission names
\* as deferred.  Excepted are branches beyond the limit, whose memories are
\* neither; no memory is in two slots.
ShownOrDeferred ==
    directive.state # "none" =>
        LET items == CanonicalItems(packet)
        IN  /\ \A j, k \in 1..Len(items) : items[j].id = items[k].id => j = k
            /\ \A k \in 1..Len(items) :
                 \/ items[k] \in Shown(packet, directive)
                 \/ BranchOf(packet, items[k]) \in directive.deferred
                 \/ BranchOf(packet, items[k]) > MaxBranches
=============================================================================
