------------------------------ MODULE ReviewQueue ------------------------------
(***************************************************************************)
(* The items of wiki/review, file by file: approve_review_item and         *)
(* reject_review_item (promotion/review_ops.py) as two callers of them     *)
(* take their steps, the interactive review of an operator (review_tui.py) *)
(* and wiki_auto_resolve_review (auto_resolver.py).  decide() routes       *)
(* nothing to review any more, so that the resolver, which asks a model    *)
(* only when it does, approves or rejects by the rules alone.              *)
(***************************************************************************)
EXTENDS Integers, Sequences, FiniteSets, SequencesExt

CONSTANTS
    Items,          \* review items, numbered by created_at
    NoteIds,
    IdOf,           \* item -> the id of the note it would become
    Refusals,       \* items that the gate or decide() turns down now
    ReviewStopBound \* bound: processes that die

ASSUME ReviewAssumption ==
    /\ Items \subseteq Nat \ {0} /\ IsFiniteSet(Items)
    /\ IdOf \in [Items -> NoteIds]
    /\ ReviewStopBound \in Nat

VARIABLES
    pending,        \* items with a file in wiki/review
    routed,         \* item -> promotion_state of its row in promotion_decisions
    page,           \* note id -> the item its file is made of, NoPage or Foreign
    tmp,            \* note id -> the item in <final>.tmp, or NoPage
    caller,         \* the operator's session and the resolver's run
    rejections,     \* history: items some caller has rejected
    met,            \* history: both callers worked at once
    reviewStops

reviewVars == <<pending, routed, page, tmp, caller, rejections, met, reviewStops>>

Operator == "operator"
Resolver == "resolver"
Callers == {Operator, Resolver}
NoPage == 0
Foreign == -1
Away == [pc |-> "away", list |-> <<>>, index |-> 1]

ReviewTypeOK ==
    /\ pending \subseteq Items /\ rejections \subseteq Items
    /\ routed \in [Items -> {"review_routed", "promoted", "rejected"}]
    /\ page \in [NoteIds -> Items \cup {NoPage, Foreign}]
    /\ tmp \in [NoteIds -> Items \cup {NoPage}]
    /\ \A p \in Callers : caller[p].index \in 1..Len(caller[p].list) + 1

ReviewInit ==
    /\ pending = Items /\ routed = [i \in Items |-> "review_routed"]
    /\ page = [n \in NoteIds |-> NoPage] /\ tmp = page
    /\ caller = [p \in Callers |-> Away]
    /\ rejections = {} /\ met = FALSE /\ reviewStops = 0

At(p, pc) == caller[p].pc = pc
Item(p) == caller[p].list[caller[p].index]
NoteAt(p) == IdOf[Item(p)]
Goes(p, pc) == caller' = [caller EXCEPT ![p].pc = pc]

\* list_review_items: what is there now, oldest first.
Starts(p) ==
    /\ At(p, "away") /\ pending # {}
    /\ \E items \in [1..Cardinality(pending) -> pending] :
          /\ \A k, m \in DOMAIN items : k < m => items[k] < items[m]
          /\ caller' = [caller EXCEPT ![p] = [pc |-> "choosing", list |-> items, index |-> 1]]
    /\ met' = (met \/ \E q \in Callers \ {p} : ~At(q, "away"))
    /\ UNCHANGED <<pending, routed, page, tmp, rejections, reviewStops>>

\* The end of the list, or q.
Ends(p) ==
    /\ At(p, "choosing")
    /\ caller[p].index > Len(caller[p].list) \/ p = Operator
    /\ caller' = [caller EXCEPT ![p] = Away]
    /\ UNCHANGED <<pending, routed, page, tmp, rejections, met, reviewStops>>

-----------------------------------------------------------------------------
(* What follows a call.  The session drops an item that is done and shows  *)
(* it again after an error; the resolver goes on in either case.           *)

AfterSuccess(p) ==
    LET c == caller[p]
    IN  caller' = [caller EXCEPT ![p] =
           IF p = Operator THEN [c EXCEPT !.pc = "choosing", !.list = RemoveAt(c.list, c.index)]
           ELSE [c EXCEPT !.pc = "choosing", !.index = c.index + 1]]

AfterError(p) ==
    LET c == caller[p]
    IN  caller' = [caller EXCEPT ![p] =
           IF p = Operator THEN [c EXCEPT !.pc = "choosing"]
           ELSE [c EXCEPT !.pc = "choosing", !.index = c.index + 1]]

Choosing(p) == At(p, "choosing") /\ caller[p].index <= Len(caller[p].list)

\* Skip and back.
Turns ==
    /\ \E step \in {-1, 1} :
          /\ Choosing(Operator) /\ caller[Operator].index + step >= 1
          /\ caller' = [caller EXCEPT ![Operator].index = @ + step]
    /\ UNCHANGED <<pending, routed, page, tmp, rejections, met, reviewStops>>

-----------------------------------------------------------------------------
(* approve_review_item.                                                    *)

\* The resolver approves what gate and decide() let pass.
WantsApproval(p) == Choosing(p) /\ (p = Resolver => Item(p) \notin Refusals)

\* The item is gone: FileNotFoundError.  Its note exists: FileExistsError,
\* upon which the resolver rejects.  Otherwise the text goes to <final>.tmp.
ApproveChecks(p) ==
    /\ WantsApproval(p)
    /\ CASE Item(p) \notin pending -> AfterError(p) /\ UNCHANGED tmp
         [] Item(p) \in pending /\ page[NoteAt(p)] # NoPage ->
               Goes(p, IF p = Resolver THEN "rejecting" ELSE "choosing") /\ UNCHANGED tmp
         [] OTHER -> Goes(p, "committing") /\ tmp' = [tmp EXCEPT ![NoteAt(p)] = Item(p)]
    /\ UNCHANGED <<pending, routed, page, rejections, met, reviewStops>>

\* All rows routed to review for the note follow.
Follow(n, verdict) ==
    routed' = [i \in Items |-> IF IdOf[i] = n /\ routed[i] = "review_routed" THEN verdict
                               ELSE routed[i]]

\* Mutant: the item is removed before its text is in place.
ApproveCommitsUnlinking(p) ==
    /\ At(p, "committing") /\ Follow(NoteAt(p), "promoted")
    /\ Goes(p, "renaming")
    /\ pending' = pending \ {Item(p)}
    /\ UNCHANGED <<page, tmp, rejections, met, reviewStops>>

ApproveCommits(p) ==
    /\ At(p, "committing") /\ Follow(NoteAt(p), "promoted")
    /\ Goes(p, "renaming")
    /\ UNCHANGED <<pending, page, tmp, rejections, met, reviewStops>>

\* os.rename takes whatever is in the file, or fails if another took it.
ApproveRenames(p) ==
    /\ At(p, "renaming")
    /\ IF tmp[NoteAt(p)] = NoPage THEN AfterError(p) /\ UNCHANGED <<page, tmp>>
       ELSE /\ page' = [page EXCEPT ![NoteAt(p)] = tmp[NoteAt(p)]]
            /\ tmp' = [tmp EXCEPT ![NoteAt(p)] = NoPage]
            /\ Goes(p, "unlinking")
    /\ UNCHANGED <<pending, routed, rejections, met, reviewStops>>

\* item.path.unlink(), which fails when the file is gone; then sync_vault and
\* the log.
ApproveUnlinks(p) ==
    /\ At(p, "unlinking")
    /\ pending' = pending \ {Item(p)}
    /\ IF Item(p) \in pending THEN AfterSuccess(p) /\ UNCHANGED tmp
       ELSE AfterError(p) /\ tmp' = [tmp EXCEPT ![NoteAt(p)] = NoPage]
    /\ UNCHANGED <<routed, page, rejections, met, reviewStops>>

-----------------------------------------------------------------------------
(* reject_review_item.                                                     *)

WantsRejection(p) ==
    \/ At(p, "rejecting")
    \/ Choosing(p) /\ (p = Resolver => Item(p) \in Refusals)

RejectCommits(p) ==
    /\ WantsRejection(p)
    /\ IF Item(p) \in pending
       THEN /\ Follow(NoteAt(p), "rejected") /\ Goes(p, "discarding")
            /\ rejections' = rejections \cup {Item(p)}
       ELSE AfterError(p) /\ UNCHANGED <<routed, rejections>>
    /\ UNCHANGED <<pending, page, tmp, met, reviewStops>>

RejectUnlinks(p) ==
    /\ At(p, "discarding")
    /\ pending' = pending \ {Item(p)}
    /\ IF Item(p) \in pending THEN AfterSuccess(p) ELSE AfterError(p)
    /\ UNCHANGED <<routed, page, tmp, rejections, met, reviewStops>>

-----------------------------------------------------------------------------

\* A promotion run or an editor makes a note of that name.
NoteAppears(n) ==
    /\ page[n] = NoPage /\ page' = [page EXCEPT ![n] = Foreign]
    /\ UNCHANGED <<pending, routed, tmp, caller, rejections, met, reviewStops>>

CallerDies(p) ==
    /\ ~At(p, "away") /\ reviewStops < ReviewStopBound
    /\ reviewStops' = reviewStops + 1
    /\ caller' = [caller EXCEPT ![p] = Away]
    /\ UNCHANGED <<pending, routed, page, tmp, rejections, met>>

ReviewNext ==
    \/ \E p \in Callers :
          \/ Starts(p) \/ Ends(p) \/ CallerDies(p)
          \/ ApproveChecks(p) \/ ApproveCommits(p) \/ ApproveRenames(p) \/ ApproveUnlinks(p)
          \/ RejectCommits(p) \/ RejectUnlinks(p)
    \/ Turns
    \/ \E n \in NoteIds : NoteAppears(n)

ReviewSpec == ReviewInit /\ [][ReviewNext]_reviewVars

-----------------------------------------------------------------------------
(* Properties.                                                             *)

\* Of an item whose note no other item would become: its text leaves review
\* only for the wiki, or because a caller rejected it, however the steps of
\* the callers meet and whoever dies.
NoSilentDiscard ==
    \A i \in Items \ pending :
        (\A j \in Items \ {i} : IdOf[j] # IdOf[i]) => page[IdOf[i]] = i \/ i \in rejections

\* Once nobody is at it, the ledger says of such an item what became of its
\* text; only callers that met, or one that died, can part the two.
VerdictMatchesWiki ==
    ~met /\ reviewStops = 0 /\ (\A p \in Callers : caller[p].pc \in {"away", "choosing"}) =>
        \A i \in Items : (\A j \in Items \ {i} : IdOf[j] # IdOf[i]) =>
            /\ i \in pending <=> routed[i] = "review_routed"
            /\ routed[i] = "promoted" <=> page[IdOf[i]] = i

\* What was routed to review ends in the wiki or is rejected, and the ledger
\* says which.
VerdictsKept == NoSilentDiscard /\ VerdictMatchesWiki
=============================================================================
