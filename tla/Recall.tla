--------------------------------- MODULE Recall ---------------------------------
(***************************************************************************)
(* One search (retrieve of retrieval.py): the channels of recall.py, each  *)
(* a SELECT of its own between which other processes change the tables,    *)
(* the merge of what they find, and the choice of hits by reranker.py.     *)
(* Scores are floating-point numbers and left out: whatever a channel or   *)
(* the reranker orders by score may come in any order.  The record of the  *)
(* query is in Signals, for which an answer is any ranking of notes.  The  *)
(* archive channel, whose chunks are the hits when no page passes the      *)
(* gate, is left out.                                                      *)
(***************************************************************************)
EXTENDS Integers, Sequences, FiniteSets, FiniteSetsExt, SequencesExt

CONSTANTS
    Pages,          \* ids of notes
    ChainOf,        \* page -> its chain_id, or NoChain
    NoChain,
    Linked,         \* pairs {p, q} between which there is an edge
    ExactLimit,     \* limit of the exact channel
    FocalLimit,     \* graph.focal_limit
    ExpandLimit,    \* graph.expand_limit
    TopKs,          \* what callers ask for as top_k
    MinHits, MaxHits, PoolPart,     \* retrieval.min_hits, max_hits, 1/pool_fraction
    BudgetHits,     \* hits the context budget has room for
    ChainMin,       \* reranker.chain_diversity_min
    TurnBound       \* bound on changes of the tables during a search

ASSUME RecallAssumption ==
    /\ IsFiniteSet(Pages)
    /\ {ExactLimit, TurnBound} \subseteq Nat
    /\ TopKs \subseteq Int /\ {FocalLimit, ExpandLimit, MinHits, MaxHits, BudgetHits, ChainMin} \subseteq Int
    /\ PoolPart \in Nat \ {0}

VARIABLES
    current,        \* pages neither retired nor expired
    stage,          \* the next stage of the search
    topK,
    exact,          \* what the exact channel found, in its order
    direct,         \* what exact, BM25 and semantic channel found
    viaGraph,       \* what only the graph channel found
    answer,         \* the ranking that passed the gate, and the hits
    hidden,         \* history: pages not current at any time of the search
    turns

recallVars == <<current, stage, topK, exact, direct, viaGraph, answer, hidden, turns>>

Stages == {"exact", "bm25", "semantic", "graph", "rerank", "done"}

RecallTypeOK ==
    /\ current \subseteq Pages /\ hidden \subseteq Pages
    /\ stage \in Stages /\ topK \in TopKs
    /\ Range(exact) \subseteq Pages /\ Len(exact) <= ExactLimit
    /\ direct \subseteq Pages /\ viaGraph \subseteq Pages \ direct
    /\ Range(answer.hits) \subseteq Range(answer.passing)
    /\ Range(answer.passing) \subseteq direct \cup viaGraph
    /\ turns \in 0..TurnBound

RecallInit ==
    /\ current \in SUBSET Pages /\ hidden = Pages \ current
    /\ stage = "exact" /\ topK \in TopKs
    /\ exact = <<>> /\ direct = {} /\ viaGraph = {}
    /\ answer = [passing |-> <<>>, hits |-> <<>>]
    /\ turns = 0

-----------------------------------------------------------------------------
(* recall.                                                                 *)

Rankings(found) == {s \in BoundedSeq(found, Cardinality(found)) : IsInjective(s)}

RunExactChannel ==
    /\ stage = "exact" /\ stage' = "bm25"
    /\ \E s \in Rankings(current) :
          Len(s) <= ExactLimit /\ exact' = s /\ direct' = Range(s)
    /\ UNCHANGED <<current, topK, viaGraph, answer, hidden, turns>>

(* Both find up to 4 * top_k; a candidate found again is merged.           *)
FindMore(next) ==
    /\ \E found \in SUBSET current :
          Cardinality(found) <= 4 * topK /\ direct' = direct \cup found
    /\ stage' = next
    /\ UNCHANGED <<current, topK, exact, viaGraph, answer, hidden, turns>>

RunBm25Channel == stage = "bm25" /\ FindMore("semantic")
RunSemanticChannel == stage = "semantic" /\ FindMore("graph")

(* The first by seed score: exact matches, then others in any order.       *)
Focal ==
    LET first == Range(SubSeq(exact, 1, Min({FocalLimit, Len(exact)})))
        others == direct \ Range(exact)
        room == Min({FocalLimit - Cardinality(first), Cardinality(others)})
    IN  {first \cup more : more \in kSubset(room, others)}

Nearby(focal, shown) == {p \in shown \ focal : \E f \in focal : {p, f} \in Linked}

(* The rows of the expansion have no chain_id; merged into a direct        *)
(* candidate, they leave it its own.                                       *)
RunGraphChannel ==
    /\ stage = "graph" /\ stage' = "rerank"
    /\ \E focal \in Focal :
          LET near == Nearby(focal, current)
          IN  \E found \in kSubset(Min({ExpandLimit, Cardinality(near)}), near) :
                viaGraph' = found \ direct
    /\ UNCHANGED <<current, topK, exact, direct, answer, hidden, turns>>

-----------------------------------------------------------------------------
(* rerank.                                                                 *)

DynamicTopK(pool) ==
    LET ceiling == (pool + PoolPart - 1) \div PoolPart
        asked == IF topK > 0 THEN {topK} ELSE {}
    IN  Max({1, Min({Max({MinHits, ceiling}), MaxHits, Max({1, BudgetHits})} \cup asked)})

(* The chain a candidate is known to have.                                 *)
CandidateChain(p) == IF p \in viaGraph THEN NoChain ELSE ChainOf[p]

ChainCap(k) == Max({ChainMin, (k + 2) \div 3})

\* Mutant: a page whose chain is full is out.
ConsiderDropping(k, acc, p) ==
    LET c == CandidateChain(p)
        full == c # NoChain
                /\ Cardinality({q \in Range(acc.selected) : CandidateChain(q) = c}) >= ChainCap(k)
    IN  IF Len(acc.selected) >= k \/ full THEN acc
        ELSE [acc EXCEPT !.selected = Append(@, p)]

(* The loop over the ranking: a page whose chain is full waits.            *)
Consider(k, acc, p) ==
    LET c == CandidateChain(p)
        full == c # NoChain
                /\ Cardinality({q \in Range(acc.selected) : CandidateChain(q) = c}) >= ChainCap(k)
    IN  IF Len(acc.selected) >= k THEN acc
        ELSE IF full THEN [acc EXCEPT !.deferred = Append(@, p)]
        ELSE [acc EXCEPT !.selected = Append(@, p)]

TopKWithDiversity(passing, k) ==
    LET loop == FoldLeft(LAMBDA acc, p : Consider(k, acc, p),
                         [selected |-> <<>>, deferred |-> <<>>], passing)
        all == loop.selected \o loop.deferred
    IN  SubSeq(all, 1, Min({k, Len(all)}))

(* Exact matches come first and pass the gate, the others as they score.   *)
Rerank ==
    /\ stage = "rerank" /\ stage' = "done"
    /\ \E others \in Rankings((direct \cup viaGraph) \ Range(exact)) :
          LET passing == exact \o others
          IN  answer' = [passing |-> passing,
                         hits |-> TopKWithDiversity(passing, DynamicTopK(Len(passing)))]
    /\ UNCHANGED <<current, topK, exact, direct, viaGraph, hidden, turns>>

-----------------------------------------------------------------------------

(* A sync between two stages takes a page away, retires it, or brings one. *)
TablesChange(p) ==
    /\ stage # "done" /\ turns < TurnBound /\ turns' = turns + 1
    /\ current' = IF p \in current THEN current \ {p} ELSE current \cup {p}
    /\ hidden' = hidden \ current'
    /\ UNCHANGED <<stage, topK, exact, direct, viaGraph, answer>>

RecallNext ==
    \/ RunExactChannel \/ RunBm25Channel \/ RunSemanticChannel \/ RunGraphChannel \/ Rerank
    \/ \E p \in Pages : TablesChange(p)

RecallSpec == RecallInit /\ [][RecallNext]_recallVars

-----------------------------------------------------------------------------
(* Properties.                                                             *)

Place(s, p) == CHOOSE i \in DOMAIN s : s[i] = p
Better(p, q) == Place(answer.passing, p) < Place(answer.passing, q)
InChain(c) == {p \in Range(answer.hits) : CandidateChain(p) = c}
Full(c) == c # NoChain /\ Cardinality(InChain(c)) >= ChainCap(DynamicTopK(Len(answer.passing)))

(* As many hits as there is room for, no page twice.                       *)
RoomIsUsed ==
    /\ IsInjective(answer.hits)
    /\ Len(answer.hits) = Min({DynamicTopK(Len(answer.passing)), Len(answer.passing)})

(* A page is passed over for a worse one only for its chain, and a chain   *)
(* goes beyond its cap only when nothing else is left.                     *)
CapsAreFair ==
    /\ \A p \in Range(answer.passing) \ Range(answer.hits), q \in Range(answer.hits) :
          Better(p, q) => Full(CandidateChain(p))
    /\ \A c \in Range(ChainOf) :
          Full(c) /\ Cardinality(InChain(c)) > ChainCap(DynamicTopK(Len(answer.passing))) =>
              \A p \in Range(answer.passing) \ Range(answer.hits) : Full(CandidateChain(p))

(* A page that was retired or expired all along is found by no channel.    *)
SearchAnswers ==
    stage = "done" =>
        /\ RoomIsUsed /\ CapsAreFair
        /\ Range(answer.hits) \cap hidden = {}
=============================================================================
