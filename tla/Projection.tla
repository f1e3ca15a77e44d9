------------------------------ MODULE Projection ------------------------------
(***************************************************************************)
(* Texts on their way to a model: the windows of paragraphs that extraction *)
(* works through, the events of an episode put together without the        *)
(* repetition of cumulative messages, and the lease under which a worker   *)
(* reads both.  Each is the loop of the code, one action per element.      *)
(***************************************************************************)
EXTENDS Integers, Sequences, SequencesExt, Folds

CONSTANTS
    TokenTarget, TokenOverlap,   \* ProjectionOptions
    ParagraphSizes,              \* tokens a paragraph may have
    ParagraphBound,              \* bound on paragraphs of a text
    Letters, WordLength,         \* texts of events: words over Letters
    EventsBound,                 \* bound on events of an episode
    IdleTtl, HardTtl, LeaseTime  \* lease seconds, and bound on the clock

\* The estimate of a paragraph's tokens is never negative.
ASSUME ProjectionAssumption ==
    /\ ParagraphSizes \subseteq Nat /\ ParagraphBound \in Nat \ {0}
    /\ WordLength \in Nat /\ {TokenTarget, TokenOverlap} \subseteq Int

\* The lifetimes of a lease are those of ProjectionOptions, which nobody
\* changes: half an hour when idle, six hours in all.
ASSUME LeaseAssumption == {IdleTtl, HardTtl, LeaseTime} \subseteq Nat /\ IdleTtl <= HardTtl

VARIABLES
    paragraphs,   \* token counts of the paragraphs read so far
    parts,        \* window_parts: [lo, hi], an interval of paragraphs
    windows,      \* windows emitted
    ended,        \* the text has ended
    retained, previous, lastEvent,   \* assemble_session_projection
    clock, lease                     \* the lease of one projection

projectionVars ==
    <<paragraphs, parts, windows, ended, retained, previous, lastEvent, clock, lease>>
windowVars == <<paragraphs, parts, windows, ended>>
eventVars == <<retained, previous, lastEvent>>
leaseVars == <<clock, lease>>

EventTexts == UNION {[1..n -> Letters] : n \in 0..WordLength}
Interval == [lo : 1..ParagraphBound, hi : 0..ParagraphBound]
NoLease == [open |-> FALSE, idle |-> 0, hard |-> 0]

ProjectionTypeOK ==
    /\ paragraphs \in Seq(ParagraphSizes)
    /\ parts \in Interval /\ parts.hi = Len(paragraphs)
    /\ windows \in Seq(Interval) /\ ended \in BOOLEAN
    /\ previous \in EventTexts /\ lastEvent \in EventTexts
    /\ retained \in Seq(EventTexts \ {<<>>})
    /\ clock \in 0..LeaseTime
    /\ lease.idle <= lease.hard

ProjectionInit ==
    /\ paragraphs = <<>> /\ parts = [lo |-> 1, hi |-> 0] /\ windows = <<>> /\ ended = FALSE
    /\ retained = <<>> /\ previous = <<>> /\ lastEvent = <<>>
    /\ clock = 0 /\ lease = NoLease

-----------------------------------------------------------------------------
(* iter_text_windows.                                                      *)

Tokens(ps, lo, hi) == FoldLeft(LAMBDA a, b : a + b, 0, SubSeq(ps, lo, hi))

Slack == (TokenTarget * 12) \div 10     \* int(token_target * 1.2)

\* _overlap_paragraphs: the last paragraphs that fit, and at least one.
OverlapStart(ps, w) ==
    IF TokenOverlap <= 0 THEN w.hi + 1
    ELSE CHOOSE i \in w.lo..w.hi :
            /\ i = w.hi \/ Tokens(ps, i, w.hi) <= TokenOverlap
            /\ i = w.lo \/ Tokens(ps, i - 1, w.hi) > TokenOverlap

Overflows(ps, w, size) == w.hi >= w.lo /\ Tokens(ps, w.lo, w.hi) + size > Slack

TakeParagraph(size) ==
    /\ ~ended /\ Len(paragraphs) < ParagraphBound
    /\ paragraphs' = Append(paragraphs, size)
    /\ IF Overflows(paragraphs, parts, size)
       THEN /\ windows' = Append(windows, parts)
            /\ parts' = [lo |-> OverlapStart(paragraphs, parts), hi |-> parts.hi + 1]
       ELSE /\ parts' = [parts EXCEPT !.hi = @ + 1]
            /\ UNCHANGED windows
    /\ UNCHANGED ended

EndText ==
    /\ ~ended /\ ended' = TRUE
    /\ windows' = IF parts.hi >= parts.lo THEN Append(windows, parts) ELSE windows
    /\ UNCHANGED <<paragraphs, parts>>

-----------------------------------------------------------------------------
(* assemble_session_projection.                                            *)

Without(text, prefix) == SubSeq(text, Len(prefix) + 1, Len(text))

\* Mutant: what a cumulative message continues stays the old one.
KeptPrevious(text) == IF previous # <<>> /\ IsPrefix(previous, text) THEN previous ELSE text

NextPrevious(text) == text

TakeEvent(text) ==
    /\ Len(retained) < EventsBound
    /\ IF text = <<>> THEN UNCHANGED eventVars
       ELSE /\ lastEvent' = text
            /\ IF previous # <<>> /\ IsPrefix(previous, text)
               THEN IF text = previous THEN UNCHANGED <<retained, previous>>
                    ELSE /\ retained' = Append(retained, Without(text, previous))
                         /\ previous' = NextPrevious(text)
               ELSE /\ retained' = Append(retained, text)
                    /\ previous' = text

-----------------------------------------------------------------------------
(* The lease: every access renews it up to the hard limit.                 *)

LeastOf(a, b) == IF a < b THEN a ELSE b

OpenProjection ==
    /\ ~lease.open
    /\ lease' = [open |-> TRUE, idle |-> clock + IdleTtl, hard |-> clock + HardTtl]
    /\ UNCHANGED clock

LeaseExpired == clock >= lease.hard \/ clock >= lease.idle

\* iter_text_windows and iter_artifacts of the service: KeyError when too late.
RequireLease ==
    /\ lease.open
    /\ lease' = IF LeaseExpired THEN NoLease
                ELSE [lease EXCEPT !.idle = LeastOf(clock + IdleTtl, lease.hard)]
    /\ UNCHANGED clock

CloseProjection == lease.open /\ lease' = NoLease /\ UNCHANGED clock

Second == clock < LeaseTime /\ clock' = clock + 1 /\ UNCHANGED lease

WindowStep == EndText \/ \E size \in ParagraphSizes : TakeParagraph(size)
EventStep == \E text \in EventTexts : TakeEvent(text)
LeaseStep == OpenProjection \/ RequireLease \/ CloseProjection \/ Second

ProjectionNext ==
    \/ WindowStep /\ UNCHANGED <<eventVars, leaseVars>>
    \/ EventStep /\ UNCHANGED <<windowVars, leaseVars>>
    \/ LeaseStep /\ UNCHANGED <<windowVars, eventVars>>

ProjectionSpec == ProjectionInit /\ [][ProjectionNext]_projectionVars

-----------------------------------------------------------------------------
(* Properties.                                                             *)

\* The windows of a text: each paragraph is in one, in order, and each window
\* but the first brings something new (the next one may repeat all of it, when
\* a short window is followed by a long paragraph); one is longer than the
\* slack only if it is a carried-over end and one paragraph, whose size
\* nothing bounds.  An attempt that skips finished windows relies on this.
WindowsCover ==
    /\ ended /\ paragraphs # <<>> =>
          windows # <<>> /\ windows[1].lo = 1 /\ Last(windows).hi = Len(paragraphs)
    /\ \A k \in 1..Len(windows) - 1 :
          LET v == windows[k] w == windows[k + 1]
          IN  v.lo <= w.lo /\ v.hi < w.hi /\ w.lo <= v.hi + 1
    /\ \A k \in 1..Len(windows) :
          LET w == windows[k]
              firstNew == IF k = 1 THEN 1 ELSE windows[k - 1].hi + 1
          IN  Tokens(paragraphs, w.lo, w.hi) > Slack => w.hi = firstNew

\* What is kept of an episode's events ends with the whole of the last event,
\* put together from the pieces kept since the message it builds on: the
\* collapse of cumulative messages loses nothing and repeats nothing.
EventsRebuilt ==
    retained # <<>> =>
        \E k \in 1..Len(retained) : FlattenSeq(SubSeq(retained, k, Len(retained))) = lastEvent

\* Neither of the two cuts text off, and so nothing is kept from extraction.
ProjectionKeepsText == WindowsCover /\ EventsRebuilt
=============================================================================
