------------------------------ MODULE WorkProofs ------------------------------
(***************************************************************************)
(* Proofs about those who work with the vault: what is routed to review    *)
(* ends in the wiki or is rejected, for any number of items and notes; the *)
(* player of the game keeps bookmarks and trail, for every vault; a search *)
(* answers with what was current, for every set of pages; and a task's     *)
(* packet hides nothing it holds and recommends reuse of current notes     *)
(* only, for every vault, request and list of hits.                        *)
(***************************************************************************)
EXTENDS MCWork, OrderLemmas, SequenceTheorems, FiniteSetsExt

-----------------------------------------------------------------------------
(* The review: the inductive invariant.                                    *)

Busy == {"committing", "renaming", "unlinking", "rejecting", "discarding"}
CallerRow == [pc : {"away", "choosing"} \cup Busy, list : Seq(Items), index : Nat]

Fits(c) ==
    /\ c.index \in 1..Len(c.list) + 1
    /\ c.pc \in Busy => c.index <= Len(c.list)

ReviewType ==
    /\ pending \subseteq Items /\ rejections \subseteq Items
    /\ routed \in [Items -> {"review_routed", "promoted", "rejected"}]
    /\ page \in [NoteIds -> Items \cup {NoPage, Foreign}]
    /\ tmp \in [NoteIds -> Items \cup {NoPage}]
    /\ caller \in [Callers -> CallerRow] /\ \A p \in Callers : Fits(caller[p])
    /\ reviewStops \in Nat

\* No other item would become the same note.
Sole(i) == \A j \in Items \ {i} : IdOf[j] # IdOf[i]

Hand(p, i) == caller[p].pc \in Busy /\ Item(p) = i

Undisturbed == ~met /\ reviewStops = 0

\* What is known of an item nobody has in hand, and of one that p has, while
\* callers do not meet.
Settled(i) ==
    /\ i \in pending <=> routed[i] = "review_routed"
    /\ routed[i] = "promoted" <=> page[IdOf[i]] = i

Stage(pc, i) ==
    /\ i \in pending
    /\ routed[i] = CASE pc \in {"rejecting", "committing"} -> "review_routed"
                     [] pc \in {"renaming", "unlinking"} -> "promoted"
                     [] OTHER -> "rejected"
    /\ page[IdOf[i]] = i <=> pc = "unlinking"
    /\ pc \in {"committing", "renaming"} => tmp[IdOf[i]] = i

ItemSound(i) ==
    /\ page[IdOf[i]] \in {NoPage, Foreign, i} /\ tmp[IdOf[i]] \in {NoPage, i}
    /\ i \notin pending => page[IdOf[i]] = i \/ i \in rejections
    /\ \A p \in Callers : Hand(p, i) =>
          /\ At(p, "unlinking") => page[IdOf[i]] = i
          /\ At(p, "discarding") => i \in rejections
    /\ Undisturbed => IF \E p \in Callers : Hand(p, i)
                      THEN \A p \in Callers : Hand(p, i) => Stage(caller[p].pc, i)
                      ELSE Settled(i)

\* Callers that have not met work one at a time.
OneWorks == Undisturbed => \A p, q \in Callers : p # q => At(p, "away") \/ At(q, "away")

ReviewInv ==
    /\ ReviewType /\ OneWorks
    /\ \A i \in Items : Sole(i) => ItemSound(i)

-----------------------------------------------------------------------------
(* What steps have in common.                                              *)

LEMMA CallerFacts ==
    ASSUME ReviewInv, NEW p \in Callers, NEW c, c = caller[p]
    PROVE  /\ c \in CallerRow /\ Len(c.list) \in Nat /\ c.index \in 1..Len(c.list) + 1
           /\ c.pc \in Busy => c.index <= Len(c.list)
           /\ c.index <= Len(c.list) => Item(p) \in Items /\ NoteAt(p) \in NoteIds
<1>1. c \in CallerRow /\ Fits(c)
  BY DEF ReviewInv, ReviewType
<1>2. c.list \in Seq(Items) /\ Len(c.list) \in Nat /\ c.index \in Nat
  BY <1>1, LenProperties DEF CallerRow
<1>3. c.index <= Len(c.list) => Item(p) \in Items
  <2>1. c.index <= Len(c.list) => c.index \in 1..Len(c.list)
    BY <1>1, <1>2 DEF Fits
  <2>2. QED  BY <1>2, <2>1, ElementOfSeq DEF Item
<1>4. QED  BY <1>1, <1>2, <1>3, ReviewAssumption DEF Fits, NoteAt

\* One caller goes on; the other stays where it is.
LEMMA CallerGoes ==
    ASSUME ReviewInv, NEW p \in Callers, NEW s \in CallerRow, Fits(s),
           caller' = [caller EXCEPT ![p] = s]
    PROVE  /\ caller' \in [Callers -> CallerRow] /\ \A q \in Callers : Fits(caller'[q])
           /\ caller'[p] = s /\ \A q \in Callers \ {p} : caller'[q] = caller[q]
           /\ \A q \in Callers \ {p} : \A i : Hand(q, i)' <=> Hand(q, i)
           /\ \A i : Hand(p, i)' <=> s.pc \in Busy /\ s.list[s.index] = i
           /\ \A pc : At(p, pc)' <=> s.pc = pc
BY DEF ReviewInv, ReviewType, Hand, At, Item

\* Files, notes and ledger rows of other items than that of note n stay.
Confined(n) ==
    /\ \A m \in NoteIds \ {n} : page'[m] = page[m] /\ tmp'[m] = tmp[m]
    /\ \A j \in Items : IdOf[j] # n => routed'[j] = routed[j] /\ (j \in pending' <=> j \in pending)
    /\ rejections \subseteq rejections' /\ (Undisturbed' => Undisturbed)

\* An item keeps what is known of it when a caller that goes on has nothing to
\* do with it.
LEMMA ItemStays ==
    ASSUME ReviewInv, NEW p \in Callers, NEW s \in CallerRow, Fits(s),
           caller' = [caller EXCEPT ![p] = s],
           NEW n, Confined(n), NEW j \in Items, ItemSound(j), IdOf[j] # n,
           ~Hand(p, j), ~Hand(p, j)'
    PROVE  ItemSound(j)'
<1>1. /\ page'[IdOf[j]] = page[IdOf[j]] /\ tmp'[IdOf[j]] = tmp[IdOf[j]]
      /\ routed'[j] = routed[j] /\ (j \in pending' <=> j \in pending)
      /\ rejections \subseteq rejections' /\ (Undisturbed' => Undisturbed)
  BY ReviewAssumption DEF Confined
<1>2. \A q \in Callers : Hand(q, j)' => Hand(q, j) /\ caller'[q] = caller[q]
  BY CallerGoes
<1>3. \A q \in Callers : Hand(q, j) => Hand(q, j)'
  BY CallerGoes
<1>4. Settled(j) => Settled(j)'
  BY <1>1 DEF Settled
<1>5. \A pc : Stage(pc, j) => Stage(pc, j)'
  BY <1>1 DEF Stage
<1>6. Undisturbed' => IF \E q \in Callers : Hand(q, j)'
                      THEN \A q \in Callers : Hand(q, j)' => Stage(caller[q].pc, j)'
                      ELSE Settled(j)'
  <2>. SUFFICES ASSUME Undisturbed' PROVE IF \E q \in Callers : Hand(q, j)'
                      THEN \A q \in Callers : Hand(q, j)' => Stage(caller[q].pc, j)'
                      ELSE Settled(j)'
    OBVIOUS
  <2>1. CASE \E q \in Callers : Hand(q, j)'
    <3>1. ASSUME NEW q \in Callers, Hand(q, j)' PROVE Stage(caller[q].pc, j)'
      <4>1. PICK pc : pc = caller[q].pc
        OBVIOUS
      <4>2. Stage(pc, j)
        BY <1>1, <1>2, <3>1, <4>1 DEF ItemSound
      <4>3. caller'[q].pc = pc
        BY <1>2, <3>1, <4>1
      <4>4. Stage(pc, j)'
        BY <1>5, <4>2
      <4>5. QED  BY <4>3, <4>4 DEF Stage
    <3>2. QED  BY <2>1, <3>1
  <2>2. CASE ~\E q \in Callers : Hand(q, j)'
    BY <1>1, <1>3, <1>4, <2>2 DEF ItemSound
  <2>3. QED  BY <2>1, <2>2
<1>7. QED  BY <1>1, <1>2, <1>6 DEF ItemSound, At

\* Callers that do not meet: when one is at work, the other has nothing in hand.
LEMMA OtherAway ==
    ASSUME ReviewInv, Undisturbed, NEW p \in Callers, ~At(p, "away")
    PROVE  \A q \in Callers \ {p} : \A i : ~Hand(q, i)
BY DEF ReviewInv, OneWorks, Hand, At, Busy

\* The invariant of a step of a caller that has item i, or takes it in hand:
\* what is left to show is what becomes of this item.
LEMMA OneItem ==
    ASSUME ReviewInv, NEW p \in Callers, NEW s \in CallerRow, Fits(s),
           caller' = [caller EXCEPT ![p] = s],
           ~At(p, "away"), UNCHANGED <<met, reviewStops>>,
           NEW i \in Items, caller[p].pc \in Busy => Item(p) = i,
           s.pc \in Busy => s.list[s.index] = i,
           Confined(IdOf[i]),
           pending' \subseteq Items, rejections' \subseteq Items,
           routed' \in [Items -> {"review_routed", "promoted", "rejected"}],
           page' \in [NoteIds -> Items \cup {NoPage, Foreign}],
           tmp' \in [NoteIds -> Items \cup {NoPage}],
           Sole(i) => ItemSound(i)'
    PROVE  ReviewInv'
<1>1. ReviewType'
  BY CallerGoes DEF ReviewInv, ReviewType
<1>2. OneWorks'
  BY CallerGoes DEF ReviewInv, OneWorks, Undisturbed, At
<1>3. ASSUME NEW j \in Items, Sole(j)' PROVE ItemSound(j)'
  <2>1. Sole(j)
    BY <1>3 DEF Sole
  <2>2. CASE j = i
    BY <2>1, <2>2
  <2>3. CASE j # i
    <3>1. IdOf[j] # IdOf[i] /\ ItemSound(j)
      BY <2>1, <2>3 DEF Sole, ReviewInv
    <3>2. ~Hand(p, j) /\ ~Hand(p, j)'
      BY <2>3, CallerGoes DEF Hand
    <3>3. QED  BY <3>1, <3>2, ItemStays
  <2>4. QED  BY <2>2, <2>3
<1>4. QED  BY <1>1, <1>2, <1>3 DEF ReviewInv

\* What is left to show of the item itself, when callers have not met.
LEMMA SoleItem ==
    ASSUME ReviewInv, NEW p \in Callers, NEW s \in CallerRow, Fits(s),
           caller' = [caller EXCEPT ![p] = s],
           ~At(p, "away"), UNCHANGED <<met, reviewStops>>,
           NEW i \in Items, Sole(i), rejections \subseteq rejections',
           page'[IdOf[i]] \in {NoPage, Foreign, i}, tmp'[IdOf[i]] \in {NoPage, i},
           page[IdOf[i]] = i => page'[IdOf[i]] = i,
           i \notin pending' => page'[IdOf[i]] = i \/ i \in rejections',
           s.pc \in Busy => s.list[s.index] = i,
           s.pc = "unlinking" => page'[IdOf[i]] = i,
           s.pc = "discarding" => i \in rejections',
           Undisturbed => IF s.pc \in Busy THEN Stage(s.pc, i)' ELSE Settled(i)'
    PROVE  ItemSound(i)'
<1>0. ItemSound(i)
  BY DEF ReviewInv
<1>1. ASSUME NEW q \in Callers, Hand(q, i)'
      PROVE  /\ At(q, "unlinking")' => page'[IdOf[i]] = i
             /\ At(q, "discarding")' => i \in rejections'
  <2>1. CASE q = p
    BY <2>1, CallerGoes
  <2>2. CASE q # p
    BY <1>0, <1>1, <2>2, CallerGoes DEF ItemSound, At
  <2>3. QED  BY <2>1, <2>2
<1>2. ASSUME Undisturbed' PROVE
         IF \E q \in Callers : Hand(q, i)'
         THEN \A q \in Callers : Hand(q, i)' => Stage(caller[q].pc, i)'
         ELSE Settled(i)'
  <2>1. Undisturbed
    BY <1>2 DEF Undisturbed
  <2>2. \A q \in Callers \ {p} : ~Hand(q, i)'
    BY <2>1, OtherAway, CallerGoes
  <2>3. Hand(p, i)' <=> s.pc \in Busy
    BY CallerGoes
  <2>4. caller'[p].pc = s.pc
    BY CallerGoes
  <2>5. CASE s.pc \in Busy
    <3>1. PICK pc : pc = s.pc
      OBVIOUS
    <3>2. Stage(pc, i)'
      BY <2>1, <2>5, <3>1
    <3>3. Stage(caller[p].pc, i)'
      BY <2>4, <3>1, <3>2 DEF Stage
    <3>4. QED  BY <2>2, <2>3, <2>5, <3>3
  <2>6. CASE s.pc \notin Busy
    <3>1. \A q \in Callers : ~Hand(q, i)'
      BY <2>2, <2>3, <2>6
    <3>2. QED  BY <2>1, <2>6, <3>1
  <2>7. QED  BY <2>5, <2>6
<1>3. QED  BY <1>1, <1>2 DEF ItemSound

LEMMA OneDropped ==
    ASSUME NEW q \in Seq(Items), NEW k \in 1..Len(q)
    PROVE  RemoveAt(q, k) \in Seq(Items) /\ Len(RemoveAt(q, k)) = Len(q) - 1
<1>1. PICK n \in Nat : n = Len(q)
  BY LenProperties
<1>2. \A i \in 1..n : q[i] \in Items
  BY <1>1, ElementOfSeq
<1>3. k - 1 \in Int /\ k + 1 \in Int /\ k \in 1..n
  BY <1>1
<1>4. PICK u : u = SubSeq(q, 1, k - 1)
  OBVIOUS
<1>5. PICK v : v = SubSeq(q, k + 1, n)
  OBVIOUS
<1>6. u \in Seq(Items) /\ Len(u) = k - 1
  <2>1. \A i \in 1..k - 1 : q[i] \in Items
    BY <1>2, <1>3
  <2>2. u \in Seq(Items) /\ Len(u) = IF 1 <= k - 1 THEN k - 1 - 1 + 1 ELSE 0
    BY <1>3, <1>4, <2>1, SubSeqProperties
  <2>3. QED  BY <1>3, <2>2
<1>7. v \in Seq(Items) /\ Len(v) = n - k
  <2>1. \A i \in k + 1..n : q[i] \in Items
    BY <1>2, <1>3
  <2>2. v \in Seq(Items) /\ Len(v) = IF k + 1 <= n THEN n - (k + 1) + 1 ELSE 0
    BY <1>3, <1>5, <2>1, SubSeqProperties
  <2>3. QED  BY <1>3, <2>2
<1>8. u \o v \in Seq(Items) /\ Len(u \o v) = Len(u) + Len(v)
  BY <1>6, <1>7, ConcatProperties
<1>9. RemoveAt(q, k) = u \o v
  BY <1>1, <1>4, <1>5 DEF RemoveAt
<1>10. Len(u) + Len(v) = n - 1
  BY <1>3, <1>6, <1>7
<1>11. QED  BY <1>1, <1>8, <1>9, <1>10

\* Where a call ends, whichever way.
LEMMA AfterCall ==
    ASSUME ReviewInv, NEW p \in Callers, NEW c, c = caller[p], c.index <= Len(c.list),
           AfterSuccess(p) \/ AfterError(p)
    PROVE  \E s \in CallerRow : Fits(s) /\ s.pc = "choosing" /\ caller' = [caller EXCEPT ![p] = s]
<1>1. /\ c \in CallerRow /\ c.list \in Seq(Items) /\ Len(c.list) \in Nat
      /\ c.index \in 1..Len(c.list)
  BY CallerFacts DEF CallerRow
<1>2. PICK l \in Seq(Items) : l = RemoveAt(c.list, c.index) /\ Len(l) = Len(c.list) - 1
  <2>1. PICK q \in Seq(Items) : q = c.list
    BY <1>1
  <2>2. PICK k \in 1..Len(q) : k = c.index
    BY <1>1, <2>1
  <2>3. QED  BY <2>1, <2>2, OneDropped
<1>3. PICK stays : stays = [c EXCEPT !.pc = "choosing"]
  OBVIOUS
<1>4. PICK goesOn : goesOn = [c EXCEPT !.pc = "choosing", !.index = c.index + 1]
  OBVIOUS
<1>5. PICK drops : drops = [c EXCEPT !.pc = "choosing", !.list = l]
  OBVIOUS
<1>6. \A s \in {stays, goesOn, drops} : s \in CallerRow /\ Fits(s) /\ s.pc = "choosing"
  <2>1. /\ stays \in CallerRow /\ goesOn \in CallerRow /\ drops \in CallerRow
    <3>1. c.index \in Nat /\ c.index + 1 \in Nat
      BY <1>1 DEF CallerRow
    <3>2. QED  BY <1>1, <1>2, <1>3, <1>4, <1>5, <3>1 DEF CallerRow
  <2>2. /\ stays.pc = "choosing" /\ goesOn.pc = "choosing" /\ drops.pc = "choosing"
        /\ stays.list = c.list /\ goesOn.list = c.list /\ drops.list = l
        /\ stays.index = c.index /\ goesOn.index = c.index + 1 /\ drops.index = c.index
    BY <1>1, <1>2, <1>3, <1>4, <1>5 DEF CallerRow
  <2>3. /\ c.index \in 1..Len(c.list) + 1 /\ c.index + 1 \in 1..Len(c.list) + 1
        /\ c.index \in 1..Len(l) + 1
    BY <1>1, <1>2
  <2>4. Fits(stays) /\ Fits(goesOn) /\ Fits(drops)
    BY <2>2, <2>3 DEF Fits, Busy
  <2>5. QED  BY <2>1, <2>2, <2>4
<1>7. \E s \in {stays, goesOn, drops} : caller' = [caller EXCEPT ![p] = s]
  <2>1. CASE AfterSuccess(p) /\ p = Operator
    <3>1. caller' = [caller EXCEPT ![p] =
             [caller[p] EXCEPT !.pc = "choosing", !.list = RemoveAt(caller[p].list, caller[p].index)]]
      BY <2>1 DEF AfterSuccess
    <3>2. QED  BY <1>2, <1>5, <3>1
  <2>2. CASE AfterError(p) /\ p = Operator
    <3>1. caller' = [caller EXCEPT ![p] = [caller[p] EXCEPT !.pc = "choosing"]]
      BY <2>2 DEF AfterError
    <3>2. QED  BY <1>3, <3>1
  <2>3. CASE p # Operator
    <3>1. caller' = [caller EXCEPT ![p] =
             [caller[p] EXCEPT !.pc = "choosing", !.index = caller[p].index + 1]]
      BY <2>3 DEF AfterSuccess, AfterError
    <3>2. QED  BY <1>4, <3>1
  <2>4. QED  BY <2>1, <2>2, <2>3
<1>8. QED  BY <1>6, <1>7

-----------------------------------------------------------------------------
(* Steps that take nothing in hand.                                        *)

LEMMA ReviewFacts ==
    ASSUME ReviewInv
    PROVE  /\ ReviewType /\ OneWorks /\ \A i \in Items : Sole(i) => ItemSound(i)
           /\ pending \subseteq Items /\ rejections \subseteq Items
           /\ routed \in [Items -> {"review_routed", "promoted", "rejected"}]
           /\ page \in [NoteIds -> Items \cup {NoPage, Foreign}]
           /\ tmp \in [NoteIds -> Items \cup {NoPage}]
           /\ caller \in [Callers -> CallerRow] /\ reviewStops \in Nat
BY DEF ReviewInv, ReviewType

\* A caller that had nothing in hand has nothing in hand after.
LEMMA FreeHands ==
    ASSUME ReviewInv, NEW p \in Callers, NEW s \in CallerRow, Fits(s),
           caller' = [caller EXCEPT ![p] = s],
           UNCHANGED <<pending, routed, page, tmp, rejections>>,
           Undisturbed' => Undisturbed /\ caller[p].pc \notin Busy,
           s.pc \notin Busy, reviewStops' \in Nat, OneWorks'
    PROVE  ReviewInv'
<1>1. ReviewType'
  BY CallerGoes DEF ReviewInv, ReviewType
<1>2. ASSUME NEW j \in Items, Sole(j)' PROVE ItemSound(j)'
  <2>1. ItemSound(j)
    BY <1>2 DEF ReviewInv, Sole
  <2>2. \A q \in Callers : Hand(q, j)' => Hand(q, j) /\ caller'[q] = caller[q]
    BY CallerGoes
  <2>3. Undisturbed' => \A q \in Callers : Hand(q, j) => Hand(q, j)'
    <3>1. Undisturbed' => ~Hand(p, j)
      BY DEF Hand
    <3>2. \A q \in Callers \ {p} : Hand(q, j) => Hand(q, j)'
      BY CallerGoes
    <3>3. QED  BY <3>1, <3>2
  <2>4. Undisturbed' => Undisturbed
    OBVIOUS
  <2>5. ASSUME Undisturbed' PROVE
           IF \E q \in Callers : Hand(q, j)'
           THEN \A q \in Callers : Hand(q, j)' => Stage(caller[q].pc, j)'
           ELSE Settled(j)'
    <3>1. CASE \E q \in Callers : Hand(q, j)'
      <4>1. ASSUME NEW q \in Callers, Hand(q, j)' PROVE Stage(caller[q].pc, j)'
        <5>1. Stage(caller[q].pc, j) /\ caller'[q] = caller[q]
          BY <2>1, <2>2, <2>4, <2>5, <4>1 DEF ItemSound
        <5>2. QED  BY <5>1 DEF Stage
      <4>2. QED  BY <3>1, <4>1
    <3>2. CASE ~\E q \in Callers : Hand(q, j)'
      <4>1. Settled(j)
        BY <2>1, <2>3, <2>4, <2>5, <3>2 DEF ItemSound
      <4>2. QED  BY <3>2, <4>1 DEF Settled
    <3>3. QED  BY <3>1, <3>2
  <2>6. QED  BY <2>1, <2>2, <2>5 DEF ItemSound, At
<1>3. QED  BY <1>1, <1>2 DEF ReviewInv

LEMMA StartsKeeps ==
    ASSUME ReviewInv, NEW p \in Callers, Starts(p)
    PROVE  ReviewInv'
<1>1. PICK items \in [1..Cardinality(pending) -> pending] :
         caller' = [caller EXCEPT ![p] = [pc |-> "choosing", list |-> items, index |-> 1]]
  BY DEF Starts
<1>2. PICK s : s = [pc |-> "choosing", list |-> items, index |-> 1]
  OBVIOUS
<1>3. /\ caller[p].pc = "away"
      /\ met' = (met \/ \E q \in Callers \ {p} : ~At(q, "away"))
      /\ UNCHANGED <<pending, routed, page, tmp, rejections, reviewStops>>
  BY DEF Starts, At
<1>4. items \in Seq(Items) /\ Len(items) \in Nat
  <2>1. Cardinality(pending) \in Nat
    <3>1. IsFiniteSet(pending)
      BY ReviewFacts, ReviewAssumption, FS_Subset
    <3>2. QED  BY <3>1, FS_CardinalityType
  <2>2. PICK n \in Nat : n = Cardinality(pending)
    BY <2>1
  <2>3. items \in [1..n -> Items]
    BY <2>2, ReviewFacts
  <2>4. items \in Seq(Items)
    BY <2>3 DEF Seq
  <2>5. QED  BY <2>4, LenProperties
<1>5. s \in CallerRow /\ Fits(s) /\ s.pc = "choosing"
  <2>1. 1 \in 1..Len(items) + 1
    BY <1>4
  <2>2. QED  BY <1>2, <1>4, <2>1 DEF CallerRow, Fits, Busy
<1>6. caller' = [caller EXCEPT ![p] = s]
  BY <1>1, <1>2
<1>7. Undisturbed' => Undisturbed /\ \A q \in Callers \ {p} : At(q, "away")
  BY <1>3 DEF Undisturbed
<1>8. OneWorks'
  BY <1>5, <1>6, <1>7, CallerGoes DEF OneWorks, At
<1>9. QED  BY <1>3, <1>5, <1>6, <1>7, <1>8, ReviewFacts, FreeHands DEF Busy

LEMMA EndsKeeps ==
    ASSUME ReviewInv, NEW p \in Callers, Ends(p) \/ CallerDies(p)
    PROVE  ReviewInv'
<1>1. PICK s : s = Away
  OBVIOUS
<1>2. s \in CallerRow /\ Fits(s) /\ s.pc = "away"
  <2>1. <<>> \in Seq(Items) /\ Len(<<>>) = 0 /\ 1 \in 1..Len(<<>>) + 1
    BY EmptySeq
  <2>2. QED  BY <1>1, <2>1 DEF Away, CallerRow, Fits, Busy
<1>3. /\ caller' = [caller EXCEPT ![p] = s]
      /\ UNCHANGED <<pending, routed, page, tmp, rejections, met>>
      /\ \/ reviewStops' = reviewStops /\ caller[p].pc = "choosing"
         \/ reviewStops' = reviewStops + 1
  BY <1>1 DEF Ends, CallerDies, At
<1>4. reviewStops' \in Nat /\ (Undisturbed' => Undisturbed /\ caller[p].pc \notin Busy)
  <2>1. reviewStops' \in Nat /\ (reviewStops' = 0 => reviewStops = 0 /\ caller[p].pc = "choosing")
    BY <1>3, ReviewFacts
  <2>2. QED  BY <1>3, <2>1 DEF Undisturbed, Busy
<1>5. OneWorks'
  BY <1>2, <1>3, <1>4, CallerGoes DEF ReviewInv, OneWorks, At
<1>6. QED  BY <1>2, <1>3, <1>4, <1>5, FreeHands DEF Busy

LEMMA TurnsKeeps ==
    ASSUME ReviewInv, Turns
    PROVE  ReviewInv'
<1>1. PICK p \in Callers : p = Operator
  BY DEF Callers
<1>2. PICK c : c = caller[p]
  OBVIOUS
<1>3. PICK step \in {-1, 1} :
         /\ c.pc = "choosing" /\ c.index <= Len(c.list) /\ c.index + step >= 1
         /\ caller' = [caller EXCEPT ![p].index = c.index + step]
  BY <1>1, <1>2 DEF Turns, Choosing, At
<1>4. PICK s : s = [c EXCEPT !.index = c.index + step]
  OBVIOUS
<1>5. caller' = [caller EXCEPT ![p] = s]
  BY <1>2, <1>3, <1>4
<1>6. c \in CallerRow /\ Len(c.list) \in Nat /\ c.index \in 1..Len(c.list) + 1
  BY <1>2, CallerFacts
<1>7. c.index + step \in 1..Len(c.list) + 1 /\ c.index + step \in Nat
  <2>1. PICK n \in Nat : n = Len(c.list)
    BY <1>6
  <2>2. PICK k \in Nat : k = c.index
    BY <1>6 DEF CallerRow
  <2>3. k <= n /\ k + step >= 1
    BY <1>3, <2>1, <2>2
  <2>4. k + step \in 1..n + 1 /\ k + step \in Nat
    BY <2>3
  <2>5. QED  BY <2>1, <2>2, <2>4
<1>8. s \in CallerRow /\ Fits(s) /\ s.pc = "choosing"
  BY <1>3, <1>4, <1>6, <1>7 DEF CallerRow, Fits, Busy
<1>9. UNCHANGED <<pending, routed, page, tmp, rejections, met, reviewStops>>
  BY DEF Turns
<1>10. OneWorks'
  BY <1>2, <1>3, <1>5, <1>8, <1>9, CallerGoes DEF ReviewInv, OneWorks, At, Undisturbed
<1>11. QED
  BY <1>2, <1>3, <1>5, <1>8, <1>9, <1>10, ReviewFacts, FreeHands DEF Busy, Undisturbed

\* A note of somebody else's takes a free name.
LEMMA AppearsKeeps ==
    ASSUME ReviewInv, NEW n \in NoteIds, NoteAppears(n)
    PROVE  ReviewInv'
<1>1. /\ page[n] = NoPage /\ page' = [page EXCEPT ![n] = Foreign]
      /\ UNCHANGED <<pending, routed, tmp, caller, rejections, met, reviewStops>>
  BY DEF NoteAppears
<1>2. /\ page' \in [NoteIds -> Items \cup {NoPage, Foreign}] /\ page'[n] = Foreign
      /\ \A m \in NoteIds \ {n} : page'[m] = page[m]
  BY <1>1, ReviewFacts
<1>3. ReviewType'
  BY <1>1, <1>2, ReviewFacts DEF ReviewType
<1>4. OneWorks'
  BY <1>1 DEF ReviewInv, OneWorks, Undisturbed, At
<1>5. ASSUME NEW j \in Items, Sole(j)' PROVE ItemSound(j)'
  <2>1. ItemSound(j)
    BY <1>5 DEF ReviewInv, Sole
  <2>2. IdOf[j] \in NoteIds /\ j # NoPage /\ j # Foreign
    BY ReviewAssumption DEF NoPage, Foreign
  <2>3. /\ page'[IdOf[j]] \in {NoPage, Foreign, j}
        /\ page'[IdOf[j]] = j <=> page[IdOf[j]] = j
    BY <1>1, <1>2, <2>1, <2>2 DEF ItemSound
  <2>4. \A q \in Callers : Hand(q, j)' <=> Hand(q, j)
    BY <1>1 DEF Hand, Item
  <2>5. Undisturbed' <=> Undisturbed
    BY <1>1 DEF Undisturbed
  <2>6. Settled(j)' <=> Settled(j)
    BY <1>1, <2>3 DEF Settled
  <2>7. \A q \in Callers : Stage(caller[q].pc, j)' <=> Stage(caller[q].pc, j)
    BY <1>1, <2>3 DEF Stage
  <2>8. QED  BY <1>1, <2>1, <2>3, <2>4, <2>5, <2>6, <2>7 DEF ItemSound, At
<1>6. QED  BY <1>3, <1>4, <1>5 DEF ReviewInv

-----------------------------------------------------------------------------
(* Steps of the two calls.                                                 *)

\* What p's item is, and what is known of it when no other would become its
\* note: as long as callers do not meet, all of it is known.
LEMMA InHandFacts ==
    ASSUME ReviewInv, NEW p \in Callers, NEW c, c = caller[p], NEW i, i = c.list[c.index],
           c.pc \in Busy \/ Choosing(p)
    PROVE  /\ c \in CallerRow /\ Fits(c) /\ c.index <= Len(c.list) /\ ~At(p, "away")
           /\ Item(p) = i /\ NoteAt(p) = IdOf[i] /\ i \in Items /\ IdOf[i] \in NoteIds
           /\ i # NoPage /\ i # Foreign
           /\ Sole(i) => ItemSound(i)
           /\ Sole(i) /\ c.pc = "unlinking" => page[IdOf[i]] = i
           /\ Sole(i) /\ c.pc = "discarding" => i \in rejections
           /\ Undisturbed /\ Sole(i) => IF c.pc \in Busy THEN Stage(c.pc, i) ELSE Settled(i)
<1>1. c \in CallerRow /\ Fits(c) /\ c.index <= Len(c.list)
  BY CallerFacts DEF ReviewInv, ReviewType, Choosing
<1>2. Item(p) = i /\ NoteAt(p) = IdOf[i] /\ i \in Items /\ IdOf[i] \in NoteIds
  BY <1>1, CallerFacts DEF Item, NoteAt
<1>3. ~At(p, "away")
  BY DEF At, Busy, Choosing
<1>4. i # NoPage /\ i # Foreign
  BY <1>2, ReviewAssumption DEF NoPage, Foreign
<1>5. Sole(i) => ItemSound(i)
  BY <1>2 DEF ReviewInv
<1>6. Hand(p, i) <=> c.pc \in Busy
  BY <1>2 DEF Hand
<1>7. /\ Sole(i) /\ c.pc = "unlinking" => page[IdOf[i]] = i
      /\ Sole(i) /\ c.pc = "discarding" => i \in rejections
  BY <1>5, <1>6 DEF ItemSound, At, Busy
<1>8. ASSUME Undisturbed, Sole(i) PROVE IF c.pc \in Busy THEN Stage(c.pc, i) ELSE Settled(i)
  <2>1. \A q \in Callers \ {p} : ~Hand(q, i)
    BY <1>3, <1>8, OtherAway
  <2>2. CASE c.pc \in Busy
    BY <1>5, <1>6, <1>8, <2>2 DEF ItemSound
  <2>3. CASE c.pc \notin Busy
    BY <1>5, <1>6, <1>8, <2>1, <2>3 DEF ItemSound
  <2>4. QED  BY <2>2, <2>3
<1>9. QED  BY <1>1, <1>2, <1>3, <1>4, <1>5, <1>7, <1>8

\* From one place in a call to the next, with the same item.
LEMMA Onward ==
    ASSUME ReviewInv, NEW p \in Callers, NEW c, c = caller[p], NEW i, i = c.list[c.index],
           c.pc \in Busy \/ Choosing(p), NEW pc \in Busy \cup {"choosing"}, Goes(p, pc)
    PROVE  \E s \in CallerRow : /\ Fits(s) /\ s.pc = pc /\ s.list[s.index] = i
                                /\ caller' = [caller EXCEPT ![p] = s]
<1>1. c \in CallerRow /\ Fits(c) /\ c.index <= Len(c.list)
  BY InHandFacts
<1>2. PICK s : s = [c EXCEPT !.pc = pc]
  OBVIOUS
<1>3. s \in CallerRow /\ s.pc = pc /\ s.list = c.list /\ s.index = c.index
  BY <1>1, <1>2 DEF CallerRow
<1>4. Fits(s)
  BY <1>1, <1>3 DEF Fits
<1>5. caller' = [caller EXCEPT ![p] = s]
  BY <1>2 DEF Goes
<1>6. QED  BY <1>3, <1>4, <1>5

\* A caller goes on in its call and changes nothing but its own <final>.tmp.
LEMMA ChecksKeeps ==
    ASSUME ReviewInv, NEW p \in Callers, ApproveChecks(p)
    PROVE  ReviewInv'
<1>1. PICK c : c = caller[p]
  OBVIOUS
<1>2. PICK i : i = c.list[c.index]
  OBVIOUS
<1>3. Choosing(p) /\ c.pc = "choosing" /\ UNCHANGED <<pending, routed, page, rejections, met, reviewStops>>
  BY <1>1 DEF ApproveChecks, WantsApproval, Choosing, At
<1>4. /\ ~At(p, "away") /\ c.index <= Len(c.list)
      /\ Item(p) = i /\ NoteAt(p) = IdOf[i] /\ i \in Items /\ IdOf[i] \in NoteIds
      /\ i # NoPage /\ i # Foreign /\ (Sole(i) => ItemSound(i))
      /\ Undisturbed /\ Sole(i) => Settled(i)
  BY <1>1, <1>2, <1>3, InHandFacts DEF Busy
<1>5. CASE i \notin pending
  <2>1. AfterError(p) /\ tmp' = tmp
    BY <1>4, <1>5 DEF ApproveChecks
  <2>2. PICK s \in CallerRow : Fits(s) /\ s.pc = "choosing" /\ caller' = [caller EXCEPT ![p] = s]
    BY <1>1, <1>4, <2>1, AfterCall
  <2>3. Confined(IdOf[i])
    BY <1>3, <2>1 DEF Confined, Undisturbed
  <2>4. ASSUME Sole(i) PROVE ItemSound(i)'
    <3>1. Undisturbed => Settled(i)'
      BY <1>3, <1>4, <2>4 DEF Settled
    <3>2. /\ page'[IdOf[i]] = page[IdOf[i]] /\ tmp'[IdOf[i]] = tmp[IdOf[i]]
          /\ page[IdOf[i]] \in {NoPage, Foreign, i} /\ tmp[IdOf[i]] \in {NoPage, i}
          /\ i \notin pending' => page[IdOf[i]] = i \/ i \in rejections
      BY <1>3, <1>4, <2>1, <2>4 DEF ItemSound
    <3>3. s.pc \notin Busy /\ s.pc # "unlinking" /\ s.pc # "discarding"
      BY <2>2 DEF Busy
    <3>4. UNCHANGED <<met, reviewStops, rejections>>
      BY <1>3, <2>1
    <3>5. QED  BY <1>4, <2>2, <2>4, <3>1, <3>2, <3>3, <3>4, SoleItem
  <2>5. QED  BY <1>1, <1>3, <1>4, <2>1, <2>2, <2>3, <2>4, OneItem, ReviewFacts DEF Busy
<1>6. CASE i \in pending /\ page[IdOf[i]] # NoPage
  <2>1. PICK pc \in {"rejecting", "choosing"} : Goes(p, pc) /\ tmp' = tmp
    BY <1>4, <1>6 DEF ApproveChecks
  <2>2. pc \in Busy \cup {"choosing"}
    BY DEF Busy
  <2>3. PICK s \in CallerRow : /\ Fits(s) /\ s.pc = pc /\ s.list[s.index] = i
                               /\ caller' = [caller EXCEPT ![p] = s]
    BY <1>1, <1>2, <1>3, <2>1, <2>2, Onward
  <2>4. Confined(IdOf[i])
    BY <1>3, <2>1 DEF Confined, Undisturbed
  <2>5. ASSUME Sole(i) PROVE ItemSound(i)'
    <3>1. Undisturbed => Settled(i)'
      BY <1>3, <1>4, <2>5 DEF Settled
    <3>2. Undisturbed => Stage("rejecting", i)'
      BY <1>3, <1>4, <1>6, <2>1, <2>5 DEF Settled, Stage
    <3>3. Undisturbed => IF s.pc \in Busy THEN Stage(s.pc, i)' ELSE Settled(i)'
      BY <2>1, <2>3, <3>1, <3>2 DEF Busy
    <3>4. QED  BY <1>3, <1>4, <1>6, <2>1, <2>3, <2>5, <3>3, SoleItem DEF ItemSound
  <2>6. QED  BY <1>1, <1>3, <1>4, <2>1, <2>3, <2>4, <2>5, OneItem, ReviewFacts DEF Busy
<1>7. CASE i \in pending /\ page[IdOf[i]] = NoPage
  <2>1. Goes(p, "committing") /\ tmp' = [tmp EXCEPT ![IdOf[i]] = i]
    BY <1>4, <1>7 DEF ApproveChecks
  <2>2. PICK s \in CallerRow : /\ Fits(s) /\ s.pc = "committing" /\ s.list[s.index] = i
                               /\ caller' = [caller EXCEPT ![p] = s]
    BY <1>1, <1>2, <1>3, <2>1, Onward DEF Busy
  <2>3. /\ tmp' \in [NoteIds -> Items \cup {NoPage}] /\ tmp'[IdOf[i]] = i
        /\ \A m \in NoteIds \ {IdOf[i]} : tmp'[m] = tmp[m]
    BY <1>4, <2>1, ReviewFacts
  <2>4. Confined(IdOf[i])
    BY <1>3, <2>3 DEF Confined, Undisturbed
  <2>5. ASSUME Sole(i) PROVE ItemSound(i)'
    <3>1. Undisturbed => Stage("committing", i)'
      BY <1>3, <1>4, <1>7, <2>3, <2>5 DEF Settled, Stage
    <3>2. Undisturbed => IF s.pc \in Busy THEN Stage(s.pc, i)' ELSE Settled(i)'
      BY <2>2, <3>1 DEF Busy
    <3>3. QED  BY <1>3, <1>4, <1>7, <2>2, <2>3, <2>5, <3>2, SoleItem DEF ItemSound
  <2>6. QED  BY <1>1, <1>3, <1>4, <2>2, <2>3, <2>4, <2>5, OneItem, ReviewFacts DEF Busy
<1>8. QED  BY <1>5, <1>6, <1>7

\* The ledger rows that follow are rows for the note of the item, and leave
\* routed what is not.
LEMMA ReviewFollowed ==
    ASSUME ReviewInv, NEW i \in Items, NEW verdict \in {"promoted", "rejected"},
           Follow(IdOf[i], verdict)
    PROVE  /\ routed' \in [Items -> {"review_routed", "promoted", "rejected"}]
           /\ \A j \in Items : IdOf[j] # IdOf[i] => routed'[j] = routed[j]
           /\ routed[i] = "review_routed" => routed'[i] = verdict
           /\ routed[i] # "review_routed" => routed'[i] = routed[i]
BY ReviewFacts DEF Follow

LEMMA CommitsKeeps ==
    ASSUME ReviewInv, NEW p \in Callers, ApproveCommits(p)
    PROVE  ReviewInv'
<1>1. PICK c : c = caller[p]
  OBVIOUS
<1>2. PICK i : i = c.list[c.index]
  OBVIOUS
<1>3. /\ c.pc = "committing" /\ c.pc \in Busy /\ Goes(p, "renaming") /\ Follow(NoteAt(p), "promoted")
      /\ UNCHANGED <<pending, page, tmp, rejections, met, reviewStops>>
  BY <1>1 DEF ApproveCommits, At, Busy
<1>4. /\ ~At(p, "away")
      /\ Item(p) = i /\ NoteAt(p) = IdOf[i] /\ i \in Items
      /\ Sole(i) => ItemSound(i)
      /\ Undisturbed /\ Sole(i) => Stage("committing", i)
  BY <1>1, <1>2, <1>3, InHandFacts
<1>5. /\ routed' \in [Items -> {"review_routed", "promoted", "rejected"}]
      /\ \A j \in Items : IdOf[j] # IdOf[i] => routed'[j] = routed[j]
      /\ routed[i] = "review_routed" => routed'[i] = "promoted"
  BY <1>3, <1>4, ReviewFollowed
<1>6. PICK s \in CallerRow : /\ Fits(s) /\ s.pc = "renaming" /\ s.list[s.index] = i
                             /\ caller' = [caller EXCEPT ![p] = s]
  BY <1>1, <1>2, <1>3, Onward DEF Busy
<1>7. Confined(IdOf[i])
  BY <1>3, <1>5 DEF Confined, Undisturbed
<1>8. ASSUME Sole(i) PROVE ItemSound(i)'
  <2>1. Undisturbed => Stage("renaming", i)'
    BY <1>3, <1>4, <1>5, <1>8 DEF Stage
  <2>2. Undisturbed => IF s.pc \in Busy THEN Stage(s.pc, i)' ELSE Settled(i)'
    BY <1>6, <2>1 DEF Busy
  <2>3. QED  BY <1>3, <1>4, <1>6, <1>8, <2>2, SoleItem DEF ItemSound
<1>9. QED  BY <1>1, <1>3, <1>4, <1>5, <1>6, <1>7, <1>8, OneItem, ReviewFacts

LEMMA RenamesKeeps ==
    ASSUME ReviewInv, NEW p \in Callers, ApproveRenames(p)
    PROVE  ReviewInv'
<1>1. PICK c : c = caller[p]
  OBVIOUS
<1>2. PICK i : i = c.list[c.index]
  OBVIOUS
<1>3. /\ c.pc = "renaming" /\ c.pc \in Busy
      /\ UNCHANGED <<pending, routed, rejections, met, reviewStops>>
  BY <1>1 DEF ApproveRenames, At, Busy
<1>4. /\ ~At(p, "away") /\ c.index <= Len(c.list)
      /\ Item(p) = i /\ NoteAt(p) = IdOf[i] /\ i \in Items /\ IdOf[i] \in NoteIds
      /\ i # NoPage /\ i # Foreign
      /\ Sole(i) => ItemSound(i)
      /\ Undisturbed /\ Sole(i) => Stage("renaming", i)
  BY <1>1, <1>2, <1>3, InHandFacts
<1>5. CASE tmp[IdOf[i]] = NoPage
  <2>1. AfterError(p) /\ UNCHANGED <<page, tmp>>
    BY <1>4, <1>5 DEF ApproveRenames
  <2>2. PICK s \in CallerRow : Fits(s) /\ s.pc = "choosing" /\ caller' = [caller EXCEPT ![p] = s]
    BY <1>1, <1>4, <2>1, AfterCall
  <2>3. Confined(IdOf[i])
    BY <1>3, <2>1 DEF Confined, Undisturbed
  <2>4. ASSUME Sole(i) PROVE ItemSound(i)'
    <3>1. ~Undisturbed
      BY <1>4, <1>5, <2>4 DEF Stage
    <3>2. /\ page'[IdOf[i]] = page[IdOf[i]] /\ tmp'[IdOf[i]] = tmp[IdOf[i]]
          /\ page[IdOf[i]] \in {NoPage, Foreign, i} /\ tmp[IdOf[i]] \in {NoPage, i}
          /\ i \notin pending' => page[IdOf[i]] = i \/ i \in rejections
      BY <1>3, <1>4, <2>1, <2>4 DEF ItemSound
    <3>3. s.pc \notin Busy /\ s.pc # "unlinking" /\ s.pc # "discarding"
      BY <2>2 DEF Busy
    <3>4. UNCHANGED <<met, reviewStops, rejections>>
      BY <1>3, <2>1
    <3>5. QED  BY <1>4, <2>2, <2>4, <3>1, <3>2, <3>3, <3>4, SoleItem
  <2>5. QED  BY <1>1, <1>3, <1>4, <2>1, <2>2, <2>3, <2>4, OneItem, ReviewFacts DEF Busy
<1>6. CASE tmp[IdOf[i]] # NoPage
  <2>1. /\ page' = [page EXCEPT ![IdOf[i]] = tmp[IdOf[i]]]
        /\ tmp' = [tmp EXCEPT ![IdOf[i]] = NoPage]
        /\ Goes(p, "unlinking")
    BY <1>4, <1>6 DEF ApproveRenames
  <2>2. PICK s \in CallerRow : /\ Fits(s) /\ s.pc = "unlinking" /\ s.list[s.index] = i
                               /\ caller' = [caller EXCEPT ![p] = s]
    BY <1>1, <1>2, <1>3, <2>1, Onward DEF Busy
  <2>3. /\ tmp' \in [NoteIds -> Items \cup {NoPage}] /\ tmp'[IdOf[i]] = NoPage
        /\ page' \in [NoteIds -> Items \cup {NoPage, Foreign}] /\ page'[IdOf[i]] = tmp[IdOf[i]]
        /\ \A m \in NoteIds \ {IdOf[i]} : tmp'[m] = tmp[m] /\ page'[m] = page[m]
    BY <1>4, <2>1, ReviewFacts
  <2>4. Confined(IdOf[i])
    BY <1>3, <2>3 DEF Confined, Undisturbed
  <2>5. ASSUME Sole(i) PROVE ItemSound(i)'
    <3>1. page'[IdOf[i]] = i
      BY <1>4, <1>6, <2>3, <2>5 DEF ItemSound
    <3>2. Undisturbed => Stage("unlinking", i)'
      BY <1>3, <1>4, <2>5, <3>1 DEF Stage
    <3>3. Undisturbed => IF s.pc \in Busy THEN Stage(s.pc, i)' ELSE Settled(i)'
      BY <2>2, <3>2 DEF Busy
    <3>4. QED  BY <1>3, <1>4, <2>2, <2>3, <2>5, <3>1, <3>3, SoleItem
  <2>6. QED  BY <1>1, <1>3, <1>4, <2>2, <2>3, <2>4, <2>5, OneItem, ReviewFacts
<1>7. QED  BY <1>5, <1>6

LEMMA UnlinksKeeps ==
    ASSUME ReviewInv, NEW p \in Callers, ApproveUnlinks(p) \/ RejectUnlinks(p)
    PROVE  ReviewInv'
<1>1. PICK c : c = caller[p]
  OBVIOUS
<1>2. PICK i : i = c.list[c.index]
  OBVIOUS
<1>3. /\ c.pc \in {"unlinking", "discarding"} /\ c.pc \in Busy
      /\ UNCHANGED <<routed, page, rejections, met, reviewStops>>
  BY <1>1 DEF ApproveUnlinks, RejectUnlinks, At, Busy
<1>4. /\ ~At(p, "away") /\ c.index <= Len(c.list)
      /\ Item(p) = i /\ NoteAt(p) = IdOf[i] /\ i \in Items /\ IdOf[i] \in NoteIds
      /\ Sole(i) => ItemSound(i)
      /\ Sole(i) /\ c.pc = "unlinking" => page[IdOf[i]] = i
      /\ Sole(i) /\ c.pc = "discarding" => i \in rejections
      /\ Undisturbed /\ Sole(i) => Stage(c.pc, i)
  BY <1>1, <1>2, <1>3, InHandFacts
<1>5. /\ AfterSuccess(p) \/ AfterError(p)
      /\ pending' = pending \ {i}
      /\ tmp' = tmp \/ tmp' = [tmp EXCEPT ![IdOf[i]] = NoPage]
  BY <1>4 DEF ApproveUnlinks, RejectUnlinks
<1>6. PICK s \in CallerRow : Fits(s) /\ s.pc = "choosing" /\ caller' = [caller EXCEPT ![p] = s]
  BY <1>1, <1>4, <1>5, AfterCall
<1>7. /\ tmp' \in [NoteIds -> Items \cup {NoPage}]
      /\ tmp'[IdOf[i]] \in {tmp[IdOf[i]], NoPage}
      /\ \A m \in NoteIds \ {IdOf[i]} : tmp'[m] = tmp[m]
  BY <1>4, <1>5, ReviewFacts
<1>8. Confined(IdOf[i])
  BY <1>3, <1>5, <1>7 DEF Confined, Undisturbed
<1>9. ASSUME Sole(i) PROVE ItemSound(i)'
  <2>1. Undisturbed => Settled(i)'
    BY <1>3, <1>4, <1>5, <1>9 DEF Stage, Settled
  <2>2. s.pc \notin Busy
    BY <1>6 DEF Busy
  <2>3. page[IdOf[i]] = i \/ i \in rejections
    BY <1>3, <1>4, <1>9
  <2>4. /\ page[IdOf[i]] \in {NoPage, Foreign, i} /\ tmp'[IdOf[i]] \in {NoPage, i}
    BY <1>4, <1>7, <1>9 DEF ItemSound
  <2>5. QED  BY <1>3, <1>4, <1>6, <1>9, <2>1, <2>2, <2>3, <2>4, SoleItem DEF Busy
<1>10. pending' \subseteq Items
  BY <1>5, ReviewFacts
<1>11. QED  BY <1>1, <1>3, <1>4, <1>6, <1>7, <1>8, <1>9, <1>10, OneItem, ReviewFacts DEF Busy

LEMMA RejectsKeeps ==
    ASSUME ReviewInv, NEW p \in Callers, RejectCommits(p)
    PROVE  ReviewInv'
<1>1. PICK c : c = caller[p]
  OBVIOUS
<1>2. PICK i : i = c.list[c.index]
  OBVIOUS
<1>3. /\ c.pc = "rejecting" \/ (Choosing(p) /\ c.pc = "choosing")
      /\ c.pc \in Busy \/ Choosing(p)
      /\ UNCHANGED <<pending, page, tmp, met, reviewStops>>
  BY <1>1 DEF RejectCommits, WantsRejection, At, Busy, Choosing
<1>4. /\ ~At(p, "away") /\ c.index <= Len(c.list)
      /\ Item(p) = i /\ NoteAt(p) = IdOf[i] /\ i \in Items
      /\ Sole(i) => ItemSound(i)
      /\ Undisturbed /\ Sole(i) => IF c.pc \in Busy THEN Stage(c.pc, i) ELSE Settled(i)
  BY <1>1, <1>2, <1>3, InHandFacts
<1>5. Undisturbed /\ Sole(i) => Settled(i)
  BY <1>3, <1>4 DEF Busy, Stage, Settled
<1>6. CASE i \notin pending
  <2>1. AfterError(p) /\ UNCHANGED <<routed, rejections>>
    BY <1>4, <1>6 DEF RejectCommits
  <2>2. PICK s \in CallerRow : Fits(s) /\ s.pc = "choosing" /\ caller' = [caller EXCEPT ![p] = s]
    BY <1>1, <1>4, <2>1, AfterCall
  <2>3. Confined(IdOf[i])
    BY <1>3, <2>1 DEF Confined, Undisturbed
  <2>4. ASSUME Sole(i) PROVE ItemSound(i)'
    <3>1. Undisturbed => Settled(i)'
      BY <1>3, <1>5, <2>1, <2>4 DEF Settled
    <3>2. /\ page'[IdOf[i]] = page[IdOf[i]] /\ tmp'[IdOf[i]] = tmp[IdOf[i]]
          /\ page[IdOf[i]] \in {NoPage, Foreign, i} /\ tmp[IdOf[i]] \in {NoPage, i}
          /\ i \notin pending' => page[IdOf[i]] = i \/ i \in rejections
      BY <1>3, <1>4, <2>1, <2>4 DEF ItemSound
    <3>3. s.pc \notin Busy /\ s.pc # "unlinking" /\ s.pc # "discarding"
      BY <2>2 DEF Busy
    <3>4. UNCHANGED <<met, reviewStops, rejections>>
      BY <1>3, <2>1
    <3>5. QED  BY <1>4, <2>2, <2>4, <3>1, <3>2, <3>3, <3>4, SoleItem
  <2>5. QED  BY <1>1, <1>3, <1>4, <2>1, <2>2, <2>3, <2>4, OneItem, ReviewFacts DEF Busy
<1>7. CASE i \in pending
  <2>1. Follow(IdOf[i], "rejected") /\ Goes(p, "discarding") /\ rejections' = rejections \cup {i}
    BY <1>4, <1>7 DEF RejectCommits
  <2>2. /\ routed' \in [Items -> {"review_routed", "promoted", "rejected"}]
        /\ \A j \in Items : IdOf[j] # IdOf[i] => routed'[j] = routed[j]
        /\ routed[i] = "review_routed" => routed'[i] = "rejected"
    BY <1>4, <2>1, ReviewFollowed
  <2>3. PICK s \in CallerRow : /\ Fits(s) /\ s.pc = "discarding" /\ s.list[s.index] = i
                               /\ caller' = [caller EXCEPT ![p] = s]
    BY <1>1, <1>2, <1>3, <2>1, Onward DEF Busy
  <2>4. Confined(IdOf[i])
    BY <1>3, <2>1, <2>2 DEF Confined, Undisturbed
  <2>5. ASSUME Sole(i) PROVE ItemSound(i)'
    <3>1. Undisturbed => Stage("discarding", i)'
      BY <1>3, <1>5, <1>7, <2>2, <2>5 DEF Settled, Stage
    <3>2. Undisturbed => IF s.pc \in Busy THEN Stage(s.pc, i)' ELSE Settled(i)'
      BY <2>3, <3>1 DEF Busy
    <3>3. QED  BY <1>3, <1>4, <2>1, <2>3, <2>5, <3>2, SoleItem DEF ItemSound
  <2>6. rejections' \subseteq Items
    BY <1>4, <2>1, ReviewFacts
  <2>7. QED  BY <1>1, <1>3, <1>4, <2>2, <2>3, <2>4, <2>5, <2>6, OneItem, ReviewFacts DEF Busy
<1>8. QED  BY <1>6, <1>7

-----------------------------------------------------------------------------
(* The theorem of the review.                                              *)

LEMMA ReviewStart == ReviewInit => ReviewInv
<1>. SUFFICES ASSUME ReviewInit PROVE ReviewInv
  OBVIOUS
<1>1. Away \in CallerRow /\ Fits(Away) /\ Away.pc = "away"
  <2>1. <<>> \in Seq(Items) /\ Len(<<>>) = 0 /\ 1 \in 1..Len(<<>>) + 1
    BY EmptySeq
  <2>2. QED  BY <2>1 DEF Away, CallerRow, Fits, Busy
<1>2. caller \in [Callers -> CallerRow] /\ \A p \in Callers : caller[p] = Away
  BY <1>1 DEF ReviewInit
<1>3. ReviewType
  BY <1>1, <1>2 DEF ReviewInit, ReviewType
<1>4. OneWorks
  BY <1>1, <1>2 DEF OneWorks, At
<1>5. ASSUME NEW i \in Items PROVE ItemSound(i)
  <2>1. IdOf[i] \in NoteIds /\ i # NoPage
    BY ReviewAssumption DEF NoPage
  <2>2. page[IdOf[i]] = NoPage /\ tmp[IdOf[i]] = NoPage /\ i \in pending /\ routed[i] = "review_routed"
    BY <2>1 DEF ReviewInit
  <2>3. \A p \in Callers : ~Hand(p, i)
    BY <1>1, <1>2 DEF Hand, Busy
  <2>4. Settled(i)
    BY <2>1, <2>2 DEF Settled
  <2>5. QED  BY <2>2, <2>3, <2>4 DEF ItemSound
<1>6. QED  BY <1>3, <1>4, <1>5 DEF ReviewInv

LEMMA ReviewKeeps == ReviewInv /\ [ReviewNext]_reviewVars => ReviewInv'
<1>. SUFFICES ASSUME ReviewInv, [ReviewNext]_reviewVars PROVE ReviewInv'
  OBVIOUS
<1>1. ASSUME NEW p \in Callers,
             \/ Starts(p) \/ Ends(p) \/ CallerDies(p)
             \/ ApproveChecks(p) \/ ApproveCommits(p) \/ ApproveRenames(p) \/ ApproveUnlinks(p)
             \/ RejectCommits(p) \/ RejectUnlinks(p)
      PROVE  ReviewInv'
  BY <1>1, StartsKeeps, EndsKeeps, ChecksKeeps, CommitsKeeps, RenamesKeeps, UnlinksKeeps,
     RejectsKeeps
<1>2. CASE Turns
  BY <1>2, TurnsKeeps
<1>3. CASE \E n \in NoteIds : NoteAppears(n)
  BY <1>3, AppearsKeeps
<1>4. CASE UNCHANGED reviewVars
  <2>1. ReviewType'
    BY <1>4 DEF reviewVars, ReviewInv, ReviewType
  <2>2. OneWorks'
    BY <1>4 DEF reviewVars, ReviewInv, OneWorks, Undisturbed, At
  <2>3. ASSUME NEW i \in Items, Sole(i)' PROVE ItemSound(i)'
    <3>1. ItemSound(i)
      BY <2>3 DEF ReviewInv, Sole
    <3>2. UNCHANGED <<pending, routed, page, tmp, caller, rejections, met, reviewStops>>
      BY <1>4 DEF reviewVars
    <3>3. \A q \in Callers : Hand(q, i)' <=> Hand(q, i)
      BY <3>2 DEF Hand, Item
    <3>4. \A q \in Callers : Stage(caller[q].pc, i)' <=> Stage(caller[q].pc, i)
      BY <3>2 DEF Stage
    <3>5. QED  BY <3>1, <3>2, <3>3, <3>4 DEF ItemSound, Undisturbed, Settled, At
  <2>4. QED  BY <2>1, <2>2, <2>3 DEF ReviewInv
<1>5. QED  BY <1>1, <1>2, <1>3, <1>4 DEF ReviewNext

LEMMA VerdictsHold == ReviewInv => VerdictsKept
<1>. SUFFICES ASSUME ReviewInv PROVE VerdictsKept
  OBVIOUS
<1>1. NoSilentDiscard
  BY DEF ReviewInv, NoSilentDiscard, Sole, ItemSound
<1>2. VerdictMatchesWiki
  <2>. SUFFICES ASSUME ~met, reviewStops = 0,
                       \A p \in Callers : caller[p].pc \in {"away", "choosing"},
                       NEW i \in Items, Sole(i)
                PROVE  Settled(i)
    BY DEF VerdictMatchesWiki, Sole, Settled
  <2>1. \A p \in Callers : ~Hand(p, i)
    BY DEF Hand, Busy
  <2>2. QED  BY <2>1 DEF ReviewInv, ItemSound, Undisturbed
<1>3. QED  BY <1>1, <1>2 DEF VerdictsKept

\* Whoever approves and rejects what was routed to review, together or one
\* after the other, and whoever dies at it: an item that alone would become
\* its note leaves review for the wiki or because it was rejected; and while
\* callers do not meet and none dies, the ledger says which.
THEOREM VerdictsAreKept == ReviewSpec => []VerdictsKept
BY ReviewStart, ReviewKeeps, VerdictsHold, PTL DEF ReviewSpec

-----------------------------------------------------------------------------
(* The game: what the loop's memory can hold.                              *)

StepNames == {"source", "title", "summary", "type", "confirm", "archived", "error"}
OverlayRow == [mode : Modes, items : SUBSET Refs, step : StepNames \cup {"none"}]
TrailRow == [source : Wiki \cup {NoRef}, sections : SUBSET {Section[ref] : ref \in Refs}]
StateRow == [scene : {"library", "vault"}, refs : SUBSET Refs] \cup {NoState}

\* The ritual is at one of its steps; what the picker offers are sessions.
GoodOverlay(overlay) ==
    /\ overlay \in OverlayRow
    /\ overlay.mode = "intake" => overlay.step \in StepNames
    /\ overlay.mode = "picker" => overlay.items \subseteq Books

GameMemory ==
    [overlay : OverlayRow, back : OverlayRow,
     entry : Wiki \cup {NoRef}, session : Books \cup {NoRef}, carried : Refs \cup {NoRef},
     target : Wiki \cup {NoRef}, highlighted : Books \cup {NoRef},
     trail : TrailRow, scene : {"library", "vault"}, bookmarks : SUBSET Refs]

Sane(g) == g \in GameMemory /\ GoodOverlay(g.overlay) /\ GoodOverlay(g.back)

Follows(g, world) ==
    g.trail.source # NoRef => g.trail.source \in world /\ g.trail = TrailOf(g.trail.source, world)

GameInv ==
    /\ GameTypeOK /\ Sane(game) /\ stateFile \in StateRow
    /\ BookmarksSurvive
    /\ Running => Follows(game, loaded)

\* h is a memory with the bookmarks and the trail of g.
Like(h, g) == Sane(h) /\ h.bookmarks = g.bookmarks /\ h.trail = g.trail

LEMMA OverlaysGood ==
    /\ \A mode \in Modes \ {"intake", "picker"} : \A items \in SUBSET Refs : GoodOverlay(Overlay(mode, items))
    /\ \A books \in SUBSET Books : GoodOverlay(Overlay("picker", books))
    /\ \A step \in StepNames : GoodOverlay(IntakeAt(step))
    /\ GoodOverlay(Closed) /\ GoodOverlay(Inspect)
<1>0. \A books \in SUBSET Books : GoodOverlay(Overlay("picker", books))
  BY DEF GoodOverlay, OverlayRow, Overlay, Modes, Refs
<1>1. \A mode \in Modes \ {"intake", "picker"} : \A items \in SUBSET Refs : GoodOverlay(Overlay(mode, items))
  BY DEF GoodOverlay, OverlayRow, Overlay
<1>2. ASSUME NEW step \in StepNames PROVE GoodOverlay(IntakeAt(step))
  BY DEF GoodOverlay, OverlayRow, Overlay, IntakeAt, Modes
<1>3. /\ {} \in SUBSET Refs
      /\ "none" \in Modes \ {"intake", "picker"} /\ "inspect" \in Modes \ {"intake", "picker"}
  BY DEF Modes
<1>4. QED  BY <1>0, <1>1, <1>2, <1>3 DEF Closed, Inspect

LEMMA OverlayShown ==
    ASSUME NEW g, Sane(g), NEW o, GoodOverlay(o)
    PROVE  Like(Shows(g, o), g) /\ Like(Descend(g, o), g)
<1>1. g \in GameMemory /\ o \in OverlayRow /\ g.overlay \in OverlayRow
  BY DEF Sane, GoodOverlay, GameMemory
<1>2. Like(Shows(g, o), g)
  <2>1. PICK h : h = [g EXCEPT !.overlay = o]
    OBVIOUS
  <2>2. h \in GameMemory /\ h.overlay = o /\ h.back = g.back /\ h.bookmarks = g.bookmarks
        /\ h.trail = g.trail
    BY <1>1, <2>1 DEF GameMemory
  <2>3. QED  BY <2>1, <2>2 DEF Like, Sane, Shows
<1>3. Like(Descend(g, o), g)
  <2>1. PICK h : h = [g EXCEPT !.back = g.overlay, !.overlay = o]
    OBVIOUS
  <2>2. h \in GameMemory /\ h.overlay = o /\ h.back = g.overlay /\ h.bookmarks = g.bookmarks
        /\ h.trail = g.trail
    BY <1>1, <2>1 DEF GameMemory
  <2>3. QED  BY <2>1, <2>2 DEF Like, Sane, Descend
<1>4. QED  BY <1>2, <1>3

LEMMA Focused == ASSUME NEW g, Sane(g), NEW ref \in Refs PROVE Like(Focus(g, ref), g)
<1>1. g \in GameMemory
  BY DEF Sane
<1>2. PICK h : h = Focus(g, ref)
  OBVIOUS
<1>3. h \in GameMemory /\ h.overlay = g.overlay /\ h.back = g.back /\ h.bookmarks = g.bookmarks
      /\ h.trail = g.trail
  BY <1>1, <1>2 DEF Focus, GameMemory, Refs
<1>4. QED  BY <1>2, <1>3 DEF Like, Sane

LEMMA Jumped ==
    ASSUME NEW g, Sane(g), NEW book \in Books, NEW open \in BOOLEAN
    PROVE  Like(JumpToSession(g, book, open), g)
<1>1. g \in GameMemory /\ GoodOverlay(Inspect) /\ GoodOverlay(Closed)
  BY OverlaysGood DEF Sane
<1>2. PICK o : o = IF open THEN Inspect ELSE Closed
  OBVIOUS
<1>3. GoodOverlay(o) /\ o \in OverlayRow
  BY <1>1, <1>2 DEF GoodOverlay
<1>4. PICK h : h = JumpToSession(g, book, open)
  OBVIOUS
<1>5. h \in GameMemory /\ h.overlay = o /\ h.back = g.back /\ h.bookmarks = g.bookmarks
      /\ h.trail = g.trail
  BY <1>1, <1>2, <1>3, <1>4 DEF JumpToSession, GameMemory
<1>6. QED  BY <1>3, <1>4, <1>5 DEF Like, Sane

LEMMA AtCounter ==
    ASSUME NEW g, Sane(g)
    PROVE  Like(CounterMenu(g), g) /\ Like(CloseCounter(g), g)
<1>1. g \in GameMemory /\ GoodOverlay(Overlay("counter-menu", {})) /\ GoodOverlay(Closed)
  BY OverlaysGood DEF Sane, Modes
<1>2. Overlay("counter-menu", {}) \in OverlayRow /\ Closed \in OverlayRow
  BY <1>1 DEF GoodOverlay
<1>3. Like(CounterMenu(g), g)
  <2>1. PICK h : h = CounterMenu(g)
    OBVIOUS
  <2>2. PICK o : o = Overlay("counter-menu", {})
    OBVIOUS
  <2>3. h \in GameMemory /\ h.overlay = o /\ h.back = g.back /\ h.bookmarks = g.bookmarks
        /\ h.trail = g.trail
    BY <1>1, <1>2, <2>1, <2>2 DEF CounterMenu, GameMemory
  <2>4. QED  BY <1>1, <2>1, <2>2, <2>3 DEF Like, Sane
<1>4. Like(CloseCounter(g), g)
  <2>1. PICK h : h = CloseCounter(g)
    OBVIOUS
  <2>2. h \in GameMemory /\ h.overlay = Closed /\ h.back = Closed /\ h.bookmarks = g.bookmarks
        /\ h.trail = g.trail
    BY <1>1, <1>2, <2>1 DEF CloseCounter, GameMemory
  <2>3. QED  BY <1>1, <2>1, <2>2 DEF Like, Sane
<1>5. QED  BY <1>3, <1>4

LEMMA Candidates ==
    ASSUME NEW note \in Wiki
    PROVE  JumpCandidates(note) \subseteq Books /\ RelatedIn(note, loaded) \subseteq Wiki
BY GameAssumption DEF JumpCandidates, RelatedIn

LEMMA MaterialsShown ==
    ASSUME NEW g, Sane(g), loaded \subseteq Refs
    PROVE  Like(CounterLinks(g), g)
<1>1. g \in GameMemory /\ g.carried \in Refs \cup {NoRef}
  BY DEF Sane, GameMemory
<1>2. PICK links : links = IF g.carried \in Wiki
                             THEN {g.carried} \cup RelatedIn(g.carried, loaded)
                                    \cup JumpCandidates(g.carried)
                             ELSE {g.carried} \cup {n \in Wiki \cap loaded : g.carried \in SourcesOf[n]}
  OBVIOUS
<1>3. PICK items : items = IF g.carried \in loaded THEN links ELSE {}
  OBVIOUS
<1>4. items \in SUBSET Refs
  BY <1>2, <1>3, Candidates DEF Refs
<1>5. PICK o : o = Overlay("counter-links", items)
  OBVIOUS
<1>6. GoodOverlay(o) /\ o \in OverlayRow
  BY <1>4, <1>5, OverlaysGood DEF Modes, GoodOverlay
<1>7. PICK h : h = CounterLinks(g)
  OBVIOUS
<1>8. h = [g EXCEPT !.overlay = o, !.target = IF g.carried \in Wiki \cap loaded THEN g.carried ELSE g.target]
  BY <1>2, <1>3, <1>5, <1>7 DEF CounterLinks
<1>9. h \in GameMemory /\ h.overlay = o /\ h.back = g.back /\ h.bookmarks = g.bookmarks
      /\ h.trail = g.trail
  BY <1>1, <1>6, <1>8 DEF GameMemory
<1>10. QED  BY <1>6, <1>7, <1>9 DEF Like, Sane

LEMMA ListOpened ==
    ASSUME NEW g, Sane(g)
    PROVE  /\ Sane(BookmarksOverlay(g)) /\ BookmarksOverlay(g).trail = g.trail
           /\ BookmarksOverlay(g).bookmarks = g.bookmarks \cap loaded
<1>1. g \in GameMemory /\ g.bookmarks \subseteq Refs
  BY DEF Sane, GameMemory
<1>2. PICK marks : marks = g.bookmarks \cap loaded
  OBVIOUS
<1>3. PICK o : o = Overlay("bookmarks", marks)
  OBVIOUS
<1>4. GoodOverlay(o) /\ o \in OverlayRow /\ marks \in SUBSET Refs
  BY <1>1, <1>2, <1>3, OverlaysGood DEF Modes, GoodOverlay
<1>5. PICK h : h = BookmarksOverlay(g)
  OBVIOUS
<1>6. h = [g EXCEPT !.bookmarks = marks, !.overlay = o]
  BY <1>2, <1>3, <1>5 DEF BookmarksOverlay
<1>7. h \in GameMemory /\ h.overlay = o /\ h.back = g.back /\ h.bookmarks = marks
      /\ h.trail = g.trail
  BY <1>1, <1>4, <1>6 DEF GameMemory
<1>8. QED  BY <1>2, <1>4, <1>5, <1>7 DEF Sane

\* The trail a handler lays or clears.
LEMMA Laid ==
    ASSUME NEW g, Sane(g), NEW trail \in {NoTrail} \cup {TrailOf(note, loaded) : note \in Wiki \cap loaded},
           NEW h, h = [g EXCEPT !.trail = trail]
    PROVE  Sane(h) /\ h.bookmarks = g.bookmarks /\ Follows(h, loaded)
<1>1. g \in GameMemory
  BY DEF Sane
<1>2. NoTrail \in TrailRow /\ NoTrail.source = NoRef
  BY DEF NoTrail, TrailRow
<1>3. ASSUME NEW note \in Wiki PROVE TrailOf(note, loaded) \in TrailRow /\ TrailOf(note, loaded).source = note
  <2>1. RelatedSections(note, loaded) \in SUBSET {Section[ref] : ref \in Refs}
    BY Candidates DEF RelatedSections, Refs
  <2>2. QED  BY <2>1 DEF TrailOf, TrailRow
<1>4. trail \in TrailRow
  BY <1>2, <1>3
<1>5. h \in GameMemory /\ h.overlay = g.overlay /\ h.back = g.back /\ h.bookmarks = g.bookmarks
      /\ h.trail = trail
  BY <1>1, <1>4 DEF GameMemory
<1>6. Follows(h, loaded)
  BY <1>2, <1>3, <1>5 DEF Follows
<1>7. QED  BY <1>5, <1>6 DEF Sane

-----------------------------------------------------------------------------
(* How a handler ends.                                                     *)

\* What a sane memory is, as the type invariant says it.
LEMMA MemoryTyped ==
    ASSUME NEW g, Sane(g)
    PROVE  /\ g.overlay.mode \in Modes /\ g.back.mode \in Modes
           /\ g.overlay.items \subseteq Refs /\ g.bookmarks \subseteq Refs
           /\ {g.entry, g.target} \subseteq Wiki \cup {NoRef}
           /\ {g.session, g.highlighted} \subseteq Books \cup {NoRef}
           /\ g.carried \in Refs \cup {NoRef}
<1>1. g \in GameMemory /\ g.overlay \in OverlayRow /\ g.back \in OverlayRow
  BY DEF Sane, GoodOverlay
<1>2. QED  BY <1>1 DEF GameMemory, OverlayRow

LEMMA BecomesKeeps ==
    ASSUME GameInv, NEW g, Becomes(g), Sane(g), g.bookmarks = game.bookmarks,
           Running => Follows(g, loaded)
    PROVE  GameInv'
<1>1. GameTypeOK'
  BY MemoryTyped DEF GameInv, GameTypeOK, Becomes, worldVars, fileVars
<1>2. BookmarksSurvive'
  BY DEF GameInv, BookmarksSurvive, Running, KeptOnDisk, Becomes, fileVars
<1>3. Running' => Follows(game', loaded')
  BY DEF Running, Becomes, worldVars
<1>4. QED  BY <1>1, <1>2, <1>3 DEF GameInv, Becomes, fileVars, Follows

\* A handler that leaves bookmarks and trail alone.
LEMMA LikeKeeps ==
    ASSUME GameInv, NEW g, Becomes(g), Like(g, game)
    PROVE  GameInv'
<1>1. Running => Follows(g, loaded)
  BY DEF GameInv, Like, Follows
<1>2. QED  BY <1>1, BecomesKeeps DEF Like

LEMMA SavingKeeps ==
    ASSUME GameInv, NEW g, NEW marks, BecomesSaving(g, marks), Sane(g), g.trail = game.trail,
           \/ marks = bookmarksFile /\ g.bookmarks \subseteq game.bookmarks
           \/ marks \in SUBSET Refs /\ g.bookmarks \subseteq marks
    PROVE  GameInv'
<1>1. marks = Unreadable \/ marks \subseteq Refs
  BY DEF GameInv, GameTypeOK
<1>2. GameTypeOK'
  BY <1>1, MemoryTyped DEF GameInv, GameTypeOK, BecomesSaving, worldVars
<1>3. Running' => game'.bookmarks \subseteq KeptOnDisk'
  <2>1. CASE marks = bookmarksFile /\ g.bookmarks \subseteq game.bookmarks
    BY <2>1 DEF GameInv, BookmarksSurvive, Running, KeptOnDisk, BecomesSaving
  <2>2. CASE marks \in SUBSET Refs /\ g.bookmarks \subseteq marks
    <3>1. marks # Unreadable
      BY <2>2, GameAssumption DEF Unreadable
    <3>2. QED  BY <2>2, <3>1 DEF KeptOnDisk, BecomesSaving
  <2>3. QED  BY <2>1, <2>2
<1>4. Running' => Follows(game', loaded')
  BY DEF GameInv, Running, BecomesSaving, worldVars, Follows
<1>5. QED  BY <1>2, <1>3, <1>4 DEF GameInv, BecomesSaving, BookmarksSurvive, Follows

LEMMA OffSane == Sane(Off) /\ Off.bookmarks = {} /\ Off.trail = NoTrail
<1>1. GoodOverlay(Closed) /\ Closed \in OverlayRow /\ NoTrail \in TrailRow
  BY OverlaysGood DEF GoodOverlay, NoTrail, TrailRow
<1>2. QED  BY <1>1 DEF Off, Runtime, Sane, GameMemory

LEMMA ExitKeeps ==
    ASSUME GameInv, Exits, stateFile' \in StateRow, dismissed' = dismissed,
           bookmarksFile' = Unreadable \/ bookmarksFile' \subseteq Refs
    PROVE  GameInv'
<1>1. GameTypeOK'
  BY OffSane, MemoryTyped DEF GameInv, GameTypeOK, Exits
<1>2. ~Running'
  BY DEF Exits, Running
<1>3. QED  BY <1>1, <1>2, OffSane DEF GameInv, BookmarksSurvive, Exits

LEMMA ReadsKeeps ==
    ASSUME GameInv, NEW ref, NEW g, Reads(ref, g), Like(g, game)
    PROVE  GameInv'
<1>1. CASE ref \in loaded \cap disk
  BY <1>1, LikeKeeps DEF Reads
<1>2. CASE ref \notin loaded \cap disk
  <2>1. Exits /\ UNCHANGED fileVars
    BY <1>2 DEF Reads
  <2>2. QED  BY <2>1, ExitKeeps DEF fileVars, GameInv, GameTypeOK
<1>3. QED  BY <1>1, <1>2

-----------------------------------------------------------------------------
(* The steps of the game: starting, ending, the polls.                     *)

LEMMA GameStart == GameInit => GameInv
<1>. SUFFICES ASSUME GameInit PROVE GameInv
  OBVIOUS
<1>1. PICK files \in EarlierFiles : bookmarksFile = files.bookmarks /\ stateFile = files.state
  BY DEF GameInit
<1>2. (bookmarksFile = Unreadable \/ bookmarksFile \subseteq Refs) /\ stateFile \in StateRow
  BY <1>1, GameAssumption DEF StateRow
<1>3. GameTypeOK
  <2>1. dismissed \in BOOLEAN
    BY DEF GameInit
  <2>2. edits \in 0..GameEditBound /\ starts \in 0..StartBound
    BY GameAssumption DEF GameInit
  <2>3. disk \subseteq Refs /\ loaded \subseteq Refs
    BY GameAssumption DEF GameInit
  <2>4. loop \in {"stopped", "starting", "running"} /\ dirty \in BOOLEAN /\ game = Off
    BY DEF GameInit
  <2>5. QED  BY <1>2, <2>1, <2>2, <2>3, <2>4, OffSane, MemoryTyped DEF GameTypeOK
<1>4. ~Running
  BY DEF GameInit, Running
<1>5. QED  BY <1>2, <1>3, <1>4, OffSane DEF GameInit, GameInv, BookmarksSurvive

LEMMA LoadWorldKeeps == ASSUME GameInv, LoadWorld PROVE GameInv'
<1>1. GameTypeOK'
  BY GameAssumption DEF LoadWorld, GameInv, GameTypeOK, fileVars
<1>2. ~Running'
  BY DEF LoadWorld, Running
<1>3. QED  BY <1>1, <1>2 DEF LoadWorld, GameInv, BookmarksSurvive, fileVars

LEMMA RunGameKeeps == ASSUME GameInv, RunGame PROVE GameInv'
<1>1. PICK fits \in BOOLEAN :
        LET saved == fits /\ stateFile # NoState
            refs == IF bookmarksFile # Unreadable THEN bookmarksFile
                    ELSE IF saved THEN stateFile.refs ELSE {}
        IN  game' = Runtime(refs \cap loaded,
                            IF saved THEN stateFile.scene ELSE "library",
                            IF dismissed THEN Closed ELSE Overlay("onboarding", {}))
  BY DEF RunGame
<1>2. PICK refs : refs = IF bookmarksFile # Unreadable THEN bookmarksFile
                         ELSE IF fits /\ stateFile # NoState THEN stateFile.refs ELSE {}
  OBVIOUS
<1>3. PICK scene : scene = IF fits /\ stateFile # NoState THEN stateFile.scene ELSE "library"
  OBVIOUS
<1>4. PICK o : o = IF dismissed THEN Closed ELSE Overlay("onboarding", {})
  OBVIOUS
<1>5. game' = Runtime(refs \cap loaded, scene, o)
  BY <1>1, <1>2, <1>3, <1>4
<1>6. refs \subseteq KeptOnDisk
  BY <1>2 DEF KeptOnDisk
<1>7. scene \in {"library", "vault"} /\ refs \cap loaded \in SUBSET Refs
  BY <1>2, <1>3 DEF GameInv, GameTypeOK, StateRow
<1>8. GoodOverlay(o) /\ o \in OverlayRow /\ GoodOverlay(Closed) /\ Closed \in OverlayRow /\ NoTrail \in TrailRow
  BY <1>4, OverlaysGood DEF GoodOverlay, Modes, NoTrail, TrailRow
<1>9. Sane(game') /\ game'.bookmarks = refs \cap loaded /\ game'.trail = NoTrail
  BY <1>5, <1>7, <1>8 DEF Runtime, Sane, GameMemory
<1>10. GameTypeOK'
  BY <1>9, MemoryTyped DEF RunGame, GameInv, GameTypeOK, fileVars
<1>11. BookmarksSurvive'
  BY <1>6, <1>9 DEF BookmarksSurvive, KeptOnDisk, RunGame, fileVars
<1>12. Follows(game', loaded')
  BY <1>9 DEF Follows, NoTrail
<1>13. QED  BY <1>9, <1>10, <1>11, <1>12 DEF GameInv, RunGame, fileVars, Follows

LEMMA EndingsKeep == ASSUME GameInv, QuitSaving \/ CloseWindow \/ KilledWhileSaving PROVE GameInv'
<1>1. game.bookmarks \subseteq Refs /\ game.scene \in {"library", "vault"}
  BY DEF GameInv, Sane, GameMemory
<1>2. CASE QuitSaving
  BY <1>1, <1>2, ExitKeeps DEF QuitSaving, StateRow
<1>3. CASE CloseWindow
  BY <1>3, ExitKeeps DEF CloseWindow, fileVars, GameInv, GameTypeOK
<1>4. CASE KilledWhileSaving
  BY <1>1, <1>4, ExitKeeps DEF KilledWhileSaving, StateRow, GameInv
<1>5. QED  BY <1>2, <1>3, <1>4

LEMMA VaultChangesKeeps == ASSUME GameInv, VaultChanges PROVE GameInv'
<1>1. disk' \subseteq Refs
  BY DEF VaultChanges, GameInv, GameTypeOK
<1>2. GameTypeOK'
  BY <1>1, GameAssumption DEF VaultChanges, GameInv, GameTypeOK, fileVars
<1>3. BookmarksSurvive'
  BY DEF VaultChanges, GameInv, BookmarksSurvive, Running, KeptOnDisk, fileVars
<1>4. Running' => Follows(game', loaded')
  BY DEF VaultChanges, GameInv, Running, Follows
<1>5. QED  BY <1>2, <1>3, <1>4 DEF VaultChanges, GameInv, fileVars, Follows

\* A reload keeps the bookmarks that are still there, saves them if it drops
\* one, and relays the trail in the new world.
LEMMA ReloadKeeps == ASSUME GameInv, ReloadWorld PROVE GameInv'
<1>1. game \in GameMemory /\ disk \subseteq Refs
  BY DEF GameInv, GameTypeOK, Sane
<1>2. PICK trail : trail = KeptTrail(game, disk)
  OBVIOUS
<1>3. /\ trail \in TrailRow
      /\ trail.source # NoRef => trail.source \in disk /\ trail = TrailOf(trail.source, disk)
  <2>1. NoTrail \in TrailRow /\ NoTrail.source = NoRef
    BY DEF NoTrail, TrailRow
  <2>2. game.trail \in TrailRow /\ game.trail.source \in Wiki \cup {NoRef} /\ NoRef \notin disk
    BY <1>1, GameAssumption DEF GameMemory, TrailRow
  <2>3. ASSUME NEW note \in Wiki
        PROVE  TrailOf(note, disk) \in TrailRow /\ TrailOf(note, disk).source = note
    <3>1. RelatedSections(note, disk) \in SUBSET {Section[ref] : ref \in Refs}
      BY GameAssumption DEF RelatedSections, RelatedIn, Refs
    <3>2. QED  BY <3>1 DEF TrailOf, TrailRow
  <2>4. QED  BY <1>2, <2>1, <2>2, <2>3 DEF KeptTrail
<1>4. PICK f : f = KeptFocus(game, disk)
  OBVIOUS
<1>5. /\ f \in GameMemory /\ f.overlay = game.overlay /\ f.back = game.back
      /\ f.bookmarks = game.bookmarks
  BY <1>1, <1>4 DEF KeptFocus, GameMemory
<1>6. PICK h : h = game'
  OBVIOUS
<1>7. h = [f EXCEPT !.trail = trail, !.bookmarks = f.bookmarks \cap disk]
  BY <1>2, <1>4, <1>6 DEF ReloadWorld
<1>8. /\ h \in GameMemory /\ h.overlay = game.overlay /\ h.back = game.back
      /\ h.bookmarks = game.bookmarks \cap disk /\ h.trail = trail
  BY <1>1, <1>3, <1>5, <1>7 DEF GameMemory
<1>9. Sane(h)
  BY <1>8 DEF GameInv, Sane
<1>10. Follows(h, disk)
  BY <1>3, <1>8 DEF Follows
<1>11. game.bookmarks \subseteq Refs
  BY <1>1 DEF GameMemory
<1>12. GameTypeOK'
  BY <1>6, <1>9, <1>11, MemoryTyped DEF ReloadWorld, GameInv, GameTypeOK, FileAfterSync
<1>13. BookmarksSurvive'
  <2>1. CASE game.bookmarks \subseteq disk
    BY <1>6, <1>8, <2>1 DEF ReloadWorld, FileAfterSync, GameInv, BookmarksSurvive, Running, KeptOnDisk
  <2>2. CASE ~(game.bookmarks \subseteq disk)
    <3>1. game.bookmarks \cap disk # Unreadable
      BY <1>11, GameAssumption DEF Unreadable
    <3>2. QED  BY <1>6, <1>8, <2>2, <3>1 DEF ReloadWorld, FileAfterSync, BookmarksSurvive, KeptOnDisk
  <2>3. QED  BY <2>1, <2>2
<1>14. QED  BY <1>6, <1>9, <1>10, <1>12, <1>13 DEF ReloadWorld, GameInv, Follows

-----------------------------------------------------------------------------
(* The steps of the game: the keys.                                        *)

\* The step before and the step after, in the intake ritual.
LEMMA StepBack ==
    ASSUME GoodOverlay(game.overlay), game.overlay.mode = "intake",
           game.overlay.step \notin {"source", "archived", "error"}
    PROVE  /\ IntakeSteps[IntakeStep - 1] \in StepNames
           /\ \A step : IntakeSteps[IntakeStep - 1] = step =>
                Steps(IntakeAt(step)) < Steps(game.overlay)
<1>1. game.overlay.step \in {"title", "summary", "type", "confirm"}
  BY DEF GoodOverlay, StepNames
<1>2. \A n \in {1, 2, 3, 4, 5} : IntakeSteps[n] = CASE n = 1 -> "source" [] n = 2 -> "title"
                                [] n = 3 -> "summary" [] n = 4 -> "type" [] n = 5 -> "confirm"
  BY DEF IntakeSteps
<1>3. PICK n \in 2..5 : IntakeSteps[n] = game.overlay.step
  BY <1>1, <1>2
<1>4. IntakeStep \in 1..5 /\ IntakeSteps[IntakeStep] = game.overlay.step
  BY <1>3 DEF IntakeStep
<1>5. IntakeStep = n
  BY <1>1, <1>2, <1>3, <1>4
<1>6. \A step \in StepNames : Steps(IntakeAt(step)) =
         CASE step = "source" -> 1 [] step = "title" -> 2 [] step = "summary" -> 3
           [] step = "type" -> 4 [] step = "confirm" -> 5 [] OTHER -> 6
  BY DEF Steps, IntakeAt, Overlay
<1>7. Steps(game.overlay) = n
  BY <1>1, <1>2, <1>3 DEF Steps
<1>8. IntakeSteps[n - 1] \in StepNames /\ Steps(IntakeAt(IntakeSteps[n - 1])) = n - 1
  BY <1>2, <1>6 DEF StepNames
<1>9. QED  BY <1>5, <1>7, <1>8

LEMMA StepOn ==
    ASSUME GoodOverlay(game.overlay), game.overlay.mode = "intake",
           game.overlay.step \in {"source", "title", "summary", "type"}
    PROVE  IntakeSteps[IntakeStep + 1] \in StepNames
<1>1. \A n \in {1, 2, 3, 4, 5} : IntakeSteps[n] = CASE n = 1 -> "source" [] n = 2 -> "title"
                                [] n = 3 -> "summary" [] n = 4 -> "type" [] n = 5 -> "confirm"
  BY DEF IntakeSteps
<1>2. PICK n \in 1..4 : IntakeSteps[n] = game.overlay.step
  BY <1>1
<1>3. IntakeStep \in 1..5 /\ IntakeSteps[IntakeStep] = game.overlay.step
  BY <1>2 DEF IntakeStep
<1>4. IntakeStep = n
  BY <1>1, <1>2, <1>3
<1>5. QED  BY <1>1, <1>4 DEF StepNames

\* Handlers that only open or close overlays.
LEMMA RoomKeeps ==
    ASSUME GameInv,
           \/ TakeStairs \/ VisitCounter \/ ReadBoard \/ OpenShelf \/ OpenSkinPicker \/ ConfirmSkin
           \/ CloseBookmarks \/ AskBoard \/ SummonLinks \/ BackToActions \/ Summarize \/ PlaceBack
    PROVE  GameInv'
<1>1. Sane(game) /\ game \in GameMemory /\ loaded \subseteq Refs
  BY DEF GameInv, GameTypeOK, Sane
<1>2. GoodOverlay(Closed) /\ GoodOverlay(Inspect) /\ Closed \in OverlayRow /\ Inspect \in OverlayRow
  BY OverlaysGood DEF GoodOverlay
<1>3. CASE TakeStairs
  <2>1. PICK scene \in {"library", "vault"} : Becomes([game EXCEPT !.scene = scene, !.overlay = Closed])
    BY <1>3 DEF TakeStairs
  <2>2. PICK h : h = [game EXCEPT !.scene = scene, !.overlay = Closed]
    OBVIOUS
  <2>3. h \in GameMemory /\ h.overlay = Closed /\ h.back = game.back
        /\ h.bookmarks = game.bookmarks /\ h.trail = game.trail
    BY <1>1, <1>2, <2>2 DEF GameMemory
  <2>4. Like(h, game)
    BY <1>1, <1>2, <2>3 DEF Like, Sane
  <2>5. QED  BY <2>1, <2>2, <2>4, LikeKeeps
<1>4. CASE VisitCounter
  <2>1. GoodOverlay(Overlay("daemon", {}))
    BY OverlaysGood DEF Modes
  <2>2. PICK h \in {CounterMenu(game), Shows(game, Overlay("daemon", {})), Shows(game, Inspect)} :
          Becomes(h)
    BY <1>4 DEF VisitCounter
  <2>3. Like(h, game)
    BY <1>1, <1>2, <2>1, <2>2, AtCounter, OverlayShown
  <2>4. QED  BY <2>2, <2>3, LikeKeeps
<1>5. CASE ReadBoard \/ OpenShelf
  <2>1. PICK mode \in {"board", "shelf"}, items \in SUBSET Refs :
          Becomes([game EXCEPT !.overlay = Overlay(mode, items), !.back = Closed])
    <3>1. CASE ReadBoard
      BY <3>1 DEF ReadBoard
    <3>2. CASE OpenShelf
      BY <1>1, <3>2 DEF OpenShelf
    <3>3. QED  BY <1>5, <3>1, <3>2
  <2>2. PICK o : o = Overlay(mode, items)
    OBVIOUS
  <2>3. GoodOverlay(o) /\ o \in OverlayRow
    BY <2>2, OverlaysGood DEF GoodOverlay, Modes
  <2>4. PICK h : h = [game EXCEPT !.overlay = o, !.back = Closed]
    OBVIOUS
  <2>5. h \in GameMemory /\ h.overlay = o /\ h.back = Closed
        /\ h.bookmarks = game.bookmarks /\ h.trail = game.trail
    BY <1>1, <1>2, <2>3, <2>4 DEF GameMemory
  <2>6. Like(h, game)
    BY <1>2, <2>3, <2>5 DEF Like, Sane
  <2>7. QED  BY <2>1, <2>2, <2>4, <2>6, LikeKeeps
<1>6. CASE OpenSkinPicker \/ ConfirmSkin \/ CloseBookmarks
  <2>1. PICK o \in {Overlay("skin-picker", {}), Closed} : Becomes(Shows(game, o))
    BY <1>6 DEF OpenSkinPicker, ConfirmSkin, CloseBookmarks
  <2>2. GoodOverlay(o)
    BY <1>2, <2>1, OverlaysGood DEF Modes
  <2>3. QED  BY <1>1, <2>1, <2>2, OverlayShown, LikeKeeps
<1>7. CASE AskBoard
  <2>1. PICK o \in {Overlay("board-maintenance", {}), Inspect} : Becomes(Descend(game, o))
    BY <1>7 DEF AskBoard
  <2>2. GoodOverlay(o)
    BY <1>2, <2>1, OverlaysGood DEF Modes
  <2>3. QED  BY <1>1, <2>1, <2>2, OverlayShown, LikeKeeps
<1>8. CASE SummonLinks
  BY <1>1, <1>8, MaterialsShown, LikeKeeps DEF SummonLinks
<1>9. CASE BackToActions \/ PlaceBack
  BY <1>1, <1>9, AtCounter, LikeKeeps DEF BackToActions, PlaceBack
<1>10. CASE Summarize
  <2>1. PICK menu : menu = Overlay("counter-menu", {})
    OBVIOUS
  <2>2. GoodOverlay(menu) /\ menu \in OverlayRow
    BY <2>1, OverlaysGood DEF GoodOverlay, Modes
  <2>3. PICK c : c = CounterMenu(game)
    OBVIOUS
  <2>4. Like(c, game) /\ c \in GameMemory
    BY <1>1, <2>3, AtCounter DEF Like, Sane
  <2>5. PICK h : h = [c EXCEPT !.overlay = Inspect, !.back = menu]
    OBVIOUS
  <2>6. h \in GameMemory /\ h.overlay = Inspect /\ h.back = menu
        /\ h.bookmarks = c.bookmarks /\ h.trail = c.trail
    BY <1>2, <2>2, <2>4, <2>5 DEF GameMemory
  <2>7. Like(h, game)
    BY <1>2, <2>2, <2>4, <2>6 DEF Like, Sane
  <2>8. QED  BY <1>10, <2>1, <2>3, <2>5, <2>7, LikeKeeps DEF Summarize
<1>11. QED  BY <1>3, <1>4, <1>5, <1>6, <1>7, <1>8, <1>9, <1>10

LEMMA DismissKeeps == ASSUME GameInv, DismissOnboarding PROVE GameInv'
<1>1. Like(Shows(game, Closed), game)
  BY OverlaysGood, OverlayShown DEF GameInv
<1>2. Sane(game') /\ game'.bookmarks = game.bookmarks /\ game'.trail = game.trail
  BY <1>1 DEF DismissOnboarding, Like
<1>3. GameTypeOK'
  BY <1>2, MemoryTyped DEF DismissOnboarding, GameInv, GameTypeOK, worldVars
<1>4. BookmarksSurvive'
  BY <1>2 DEF DismissOnboarding, GameInv, BookmarksSurvive, Running, KeptOnDisk
<1>5. Running' => Follows(game', loaded')
  BY <1>2 DEF DismissOnboarding, GameInv, Running, Follows, worldVars
<1>6. QED  BY <1>2, <1>3, <1>4, <1>5 DEF DismissOnboarding, GameInv, Follows

LEMMA EscapeKeeps == ASSUME GameInv, Escape PROVE GameInv'
<1>1. Sane(game) /\ game \in GameMemory /\ GoodOverlay(game.overlay) /\ GoodOverlay(game.back)
  BY DEF GameInv, Sane
<1>2. GoodOverlay(Closed) /\ Closed \in OverlayRow
  BY OverlaysGood DEF GoodOverlay
<1>3. Like(EscapeOverlay(game), game)
  <2>1. PICK h : h = EscapeOverlay(game)
    OBVIOUS
  <2>2. h \in GameMemory /\ h.overlay = game.back /\ h.back = Closed
        /\ h.bookmarks = game.bookmarks /\ h.trail = game.trail
    BY <1>1, <1>2, <2>1 DEF EscapeOverlay, GameMemory
  <2>3. QED  BY <1>1, <1>2, <2>1, <2>2 DEF Like, Sane
<1>4. ASSUME NEW step \in StepNames PROVE Like(Shows(game, IntakeAt(step)), game)
  BY <1>1, OverlaysGood, OverlayShown
<1>5. \/ \E h \in {Shows(game, Closed), CloseCounter(game), CounterMenu(game), EscapeOverlay(game)} : Becomes(h)
      \/ \E step \in StepNames : Becomes(Shows(game, IntakeAt(step)))
  <2>1. CASE game.overlay.mode \in {"skin-picker", "counter-menu", "counter-links"}
    BY <2>1 DEF Escape
  <2>2. CASE game.overlay.mode = "intake" /\ game.overlay.step \in {"archived", "error"}
    BY <2>2 DEF Escape, StepNames
  <2>3. CASE game.overlay.mode = "intake" /\ game.overlay.step \notin {"source", "archived", "error"}
    <3>1. Becomes(Shows(game, IntakeAt(IntakeSteps[IntakeStep - 1])))
      BY <2>3 DEF Escape
    <3>2. IntakeSteps[IntakeStep - 1] \in StepNames
      BY <1>1, <2>3, StepBack
    <3>3. QED  BY <3>1, <3>2
  <2>4. CASE /\ game.overlay.mode \notin {"skin-picker", "counter-menu", "counter-links"}
             /\ ~(game.overlay.mode = "intake" /\ game.overlay.step # "source")
    BY <2>4 DEF Escape
  <2>5. QED  BY <2>1, <2>2, <2>3, <2>4
<1>6. CASE \E step \in StepNames : Becomes(Shows(game, IntakeAt(step)))
  BY <1>4, <1>6, LikeKeeps
<1>7. CASE \E h \in {Shows(game, Closed), CloseCounter(game), CounterMenu(game), EscapeOverlay(game)} : Becomes(h)
  BY <1>1, <1>2, <1>3, <1>7, AtCounter, OverlayShown, LikeKeeps
<1>8. QED  BY <1>5, <1>6, <1>7

LEMMA OpenItemKeeps == ASSUME GameInv, OpenItem PROVE GameInv'
<1>1. PICK ref \in game.overlay.items : Reads(ref, Focus(Descend(game, Inspect), ref))
  BY DEF OpenItem
<1>2. Sane(game) /\ ref \in Refs
  BY <1>1 DEF GameInv, GameTypeOK
<1>3. PICK d : d = Descend(game, Inspect)
  OBVIOUS
<1>4. Like(d, game)
  BY <1>2, <1>3, OverlaysGood, OverlayShown
<1>5. Like(Focus(d, ref), d)
  BY <1>2, <1>4, Focused DEF Like
<1>6. Like(Focus(d, ref), game)
  BY <1>4, <1>5 DEF Like
<1>7. QED  BY <1>1, <1>3, <1>6, ReadsKeeps

\* Handlers that lay or clear the trail.
LEMMA TrailKeeps == ASSUME GameInv, ClearTrailKey \/ FollowThread \/ AskDaemon PROVE GameInv'
<1>1. Sane(game) /\ game \in GameMemory
  BY DEF GameInv, Sane
<1>2. Like(Descend(game, Inspect), game)
  BY <1>1, OverlaysGood, OverlayShown
<1>3. NoRef \notin loaded /\ game.entry \in Wiki \cup {NoRef} /\ game.target \in Wiki \cup {NoRef}
  BY <1>1, GameAssumption DEF GameInv, GameTypeOK, GameMemory
<1>4. ASSUME NEW g, Like(g, game),
             NEW trail \in {NoTrail} \cup {TrailOf(note, loaded) : note \in Wiki \cap loaded},
             Becomes([g EXCEPT !.trail = trail])
      PROVE  GameInv'
  <2>1. PICK h : h = [g EXCEPT !.trail = trail]
    OBVIOUS
  <2>2. Sane(h) /\ h.bookmarks = game.bookmarks /\ Follows(h, loaded)
    BY <1>4, <2>1, Laid DEF Like
  <2>3. QED  BY <1>4, <2>1, <2>2, BecomesKeeps
<1>5. CASE ClearTrailKey \/ (FollowThread /\ game.trail.source = game.entry)
  <2>1. Becomes([game EXCEPT !.trail = NoTrail])
    BY <1>5 DEF ClearTrailKey, FollowThread
  <2>2. Like(game, game)
    BY <1>1 DEF Like
  <2>3. QED  BY <1>4, <2>1, <2>2
<1>6. CASE FollowThread /\ game.trail.source # game.entry
  <2>1. /\ game.entry \in Wiki \cap loaded
        /\ Becomes([Descend(game, Inspect) EXCEPT !.trail = TrailOf(game.entry, loaded)])
    BY <1>3, <1>6 DEF FollowThread
  <2>2. PICK trail : trail = TrailOf(game.entry, loaded)
    OBVIOUS
  <2>3. QED  BY <1>2, <1>4, <2>1, <2>2
<1>7. CASE AskDaemon
  <2>1. Like(Descend(game, IntakeAt("source")), game)
    BY <1>1, OverlaysGood, OverlayShown DEF StepNames
  <2>2. CASE Becomes(Descend(game, IntakeAt("source"))) \/ Becomes(Descend(game, Inspect))
    BY <1>2, <2>1, <2>2, LikeKeeps
  <2>3. CASE /\ DaemonTopic \in loaded
             /\ Becomes([Descend(game, Inspect) EXCEPT !.trail = TrailOf(DaemonTopic, loaded)])
    <3>1. DaemonTopic \in Wiki \cap loaded
      BY <1>3, <2>3 DEF DaemonTopic
    <3>2. PICK trail : trail = TrailOf(DaemonTopic, loaded)
      OBVIOUS
    <3>3. QED  BY <1>2, <1>4, <2>3, <3>1, <3>2
  <2>4. QED  BY <1>7, <2>2, <2>3 DEF AskDaemon
<1>8. QED  BY <1>5, <1>6, <1>7

\* Handlers that lead to a session or offer several.
LEMMA JumpsKeep == ASSUME GameInv, JumpToSource \/ PickSource \/ Teleport PROVE GameInv'
<1>1. Sane(game) /\ loaded \subseteq Refs /\ NoRef \notin loaded
  BY GameAssumption DEF GameInv, GameTypeOK
<1>2. ASSUME NEW books \in SUBSET Books PROVE Like(Shows(game, Overlay("picker", books)), game)
  BY <1>1, OverlaysGood, OverlayShown
<1>3. CASE JumpToSource
  <2>1. game.entry \in Wiki
    BY <1>1, <1>3 DEF JumpToSource, Sane, GameMemory
  <2>2. JumpCandidates(game.entry) \subseteq Books
    BY <2>1, Candidates
  <2>3. JumpCandidates(game.entry) \in SUBSET Books
    BY <2>2
  <2>4. CASE Becomes(Shows(game, Overlay("picker", JumpCandidates(game.entry))))
    BY <1>2, <2>3, <2>4, LikeKeeps
  <2>5. CASE \E book \in JumpCandidates(game.entry) : Reads(book, JumpToSession(game, book, TRUE))
    <3>1. PICK book \in JumpCandidates(game.entry) : Reads(book, JumpToSession(game, book, TRUE))
      BY <2>5
    <3>2. Like(JumpToSession(game, book, TRUE), game)
      BY <1>1, <2>2, <3>1, Jumped
    <3>3. QED  BY <3>1, <3>2, ReadsKeeps
  <2>6. QED  BY <1>3, <2>4, <2>5 DEF JumpToSource
<1>4. CASE PickSource
  <2>1. PICK book \in game.overlay.items : Becomes(JumpToSession(game, book, FALSE))
    BY <1>4 DEF PickSource
  <2>2. book \in Books
    BY <1>1, <1>4, <2>1 DEF PickSource, In, Sane, GoodOverlay
  <2>3. QED  BY <1>1, <2>1, <2>2, Jumped, LikeKeeps
<1>5. CASE Teleport
  <2>1. PICK books : books = IF game.carried \in Books THEN {game.carried}
                             ELSE JumpCandidates(game.carried)
    OBVIOUS
  <2>2. game.carried \in Refs
    BY <1>1, <1>5 DEF Teleport, GameInv, GameTypeOK
  <2>3. books \subseteq Books /\ books \in SUBSET Books
    <3>1. game.carried \notin Books => game.carried \in Wiki
      BY <2>2 DEF Refs
    <3>2. QED  BY <2>1, <3>1, Candidates DEF Refs
  <2>4. \/ Becomes(Shows(game, Overlay("picker", books)))
        \/ \E book \in books : Reads(book, JumpToSession(game, book, TRUE))
    BY <1>5, <2>1 DEF Teleport
  <2>5. CASE \E book \in books : Reads(book, JumpToSession(game, book, TRUE))
    <3>1. PICK book \in books : Reads(book, JumpToSession(game, book, TRUE))
      BY <2>5
    <3>2. Like(JumpToSession(game, book, TRUE), game)
      BY <1>1, <2>3, <3>1, Jumped
    <3>3. QED  BY <3>1, <3>2, ReadsKeeps
  <2>6. QED  BY <1>2, <2>3, <2>4, <2>5, LikeKeeps
<1>6. QED  BY <1>3, <1>4, <1>5

\* The bookmarks as the overlay lists them are those of the loaded world; the
\* file is written when that drops one.
LEMMA ListKeeps == ASSUME GameInv, OpenBookmarks PROVE GameInv'
<1>1. Sane(game) /\ game.bookmarks \subseteq Refs
  BY MemoryTyped DEF GameInv
<1>2. PICK h : h = BookmarksOverlay(game)
  OBVIOUS
<1>3. Sane(h) /\ h.trail = game.trail /\ h.bookmarks = game.bookmarks \cap loaded
  BY <1>1, <1>2, ListOpened
<1>4. PICK marks : marks = FileAfterSync(game.bookmarks, loaded)
  OBVIOUS
<1>5. \/ marks = bookmarksFile /\ h.bookmarks \subseteq game.bookmarks
      \/ marks \in SUBSET Refs /\ h.bookmarks \subseteq marks
  BY <1>1, <1>3, <1>4 DEF FileAfterSync
<1>6. BecomesSaving(h, marks)
  BY <1>2, <1>4 DEF OpenBookmarks
<1>7. QED  BY <1>3, <1>5, <1>6, SavingKeeps

LEMMA RemovalKeeps ==
    ASSUME GameInv, NEW ref,
           BecomesSaving(BookmarksOverlay([game EXCEPT !.bookmarks = game.bookmarks \ {ref}]),
                         (game.bookmarks \ {ref}) \cap loaded)
    PROVE  GameInv'
<1>1. Sane(game) /\ game \in GameMemory /\ game.bookmarks \subseteq Refs
  BY MemoryTyped DEF GameInv, Sane
<1>2. PICK marks : marks = game.bookmarks \ {ref}
  OBVIOUS
<1>3. PICK g : g = [game EXCEPT !.bookmarks = marks]
  OBVIOUS
<1>4. /\ g \in GameMemory /\ g.overlay = game.overlay /\ g.back = game.back
      /\ g.bookmarks = marks /\ g.trail = game.trail
  BY <1>1, <1>2, <1>3 DEF GameMemory
<1>5. Sane(g)
  BY <1>1, <1>4 DEF Sane
<1>6. PICK h : h = BookmarksOverlay(g)
  OBVIOUS
<1>7. Sane(h) /\ h.trail = game.trail /\ h.bookmarks = marks \cap loaded
  BY <1>4, <1>5, <1>6, ListOpened
<1>8. BecomesSaving(h, marks \cap loaded)
  BY <1>2, <1>3, <1>6
<1>9. marks \cap loaded \in SUBSET Refs
  BY <1>1, <1>2
<1>10. QED  BY <1>7, <1>8, <1>9, SavingKeeps

LEMMA RemoveKeeps == ASSUME GameInv, RemoveBookmark PROVE GameInv'
BY RemovalKeeps DEF RemoveBookmark

LEMMA OpenBookmarkKeeps == ASSUME GameInv, OpenBookmark PROVE GameInv'
<1>1. Sane(game) /\ game \in GameMemory
  BY DEF GameInv, Sane
<1>2. PICK ref \in game.overlay.items :
        LET opened == IF ref \in Books THEN JumpToSession(game, ref, TRUE)
                      ELSE Focus([game EXCEPT !.scene = "library", !.overlay = Inspect], ref)
        IN  \/ BecomesSaving(BookmarksOverlay([game EXCEPT !.bookmarks = game.bookmarks \ {ref}]),
                             (game.bookmarks \ {ref}) \cap loaded)
            \/ Reads(ref, opened)
  BY DEF OpenBookmark
<1>3. ref \in Refs
  BY <1>2 DEF GameInv, GameTypeOK
<1>4. PICK g : g = [game EXCEPT !.scene = "library", !.overlay = Inspect]
  OBVIOUS
<1>5. GoodOverlay(Inspect) /\ Inspect \in OverlayRow
  BY OverlaysGood DEF GoodOverlay
<1>6. /\ g \in GameMemory /\ g.overlay = Inspect /\ g.back = game.back
      /\ g.bookmarks = game.bookmarks /\ g.trail = game.trail
  BY <1>1, <1>4, <1>5 DEF GameMemory
<1>7. Like(g, game)
  BY <1>1, <1>5, <1>6 DEF Like, Sane
<1>8. Like(Focus(g, ref), game)
  BY <1>3, <1>7, Focused DEF Like
<1>9. PICK opened : opened = IF ref \in Books THEN JumpToSession(game, ref, TRUE) ELSE Focus(g, ref)
  OBVIOUS
<1>10. Like(opened, game)
  BY <1>1, <1>8, <1>9, Jumped
<1>11. CASE Reads(ref, opened)
  BY <1>10, <1>11, ReadsKeeps
<1>12. CASE BecomesSaving(BookmarksOverlay([game EXCEPT !.bookmarks = game.bookmarks \ {ref}]),
                          (game.bookmarks \ {ref}) \cap loaded)
  BY <1>12, RemovalKeeps
<1>13. QED  BY <1>2, <1>4, <1>9, <1>11, <1>12

\* What is carried is bookmarked and the bookmark saved, unless it was one.
LEMMA CarryKeeps == ASSUME GameInv, CarryCurrent PROVE GameInv'
<1>1. Sane(game) /\ game \in GameMemory /\ game.bookmarks \subseteq Refs /\ Running
  BY MemoryTyped DEF GameInv, Sane, CarryCurrent, In
<1>2. PICK ref : ref = IF game.entry # NoRef THEN game.entry ELSE game.session
  OBVIOUS
<1>3. ref \in Refs
  BY <1>1, <1>2 DEF CarryCurrent, GameMemory, Refs
<1>4. CASE game.carried = ref
  <2>1. PICK h : h = [game EXCEPT !.carried = NoRef]
    OBVIOUS
  <2>2. /\ h \in GameMemory /\ h.overlay = game.overlay /\ h.back = game.back
        /\ h.bookmarks = game.bookmarks /\ h.trail = game.trail
    BY <1>1, <2>1 DEF GameMemory
  <2>3. Like(h, game)
    BY <1>1, <2>2 DEF Like, Sane
  <2>4. Becomes(h)
    BY <1>2, <1>4, <2>1 DEF CarryCurrent
  <2>5. QED  BY <2>3, <2>4, LikeKeeps
<1>5. CASE game.carried # ref
  <2>1. GoodOverlay(Closed) /\ Closed \in OverlayRow
    BY OverlaysGood DEF GoodOverlay
  <2>2. PICK h : h = [game EXCEPT !.carried = ref, !.bookmarks = game.bookmarks \cup {ref},
                                  !.overlay = Closed, !.back = Closed]
    OBVIOUS
  <2>3. /\ h \in GameMemory /\ h.overlay = Closed /\ h.back = Closed
        /\ h.bookmarks = game.bookmarks \cup {ref} /\ h.trail = game.trail
    BY <1>1, <1>3, <2>1, <2>2 DEF GameMemory
  <2>4. Sane(h)
    BY <2>1, <2>3 DEF Sane
  <2>5. PICK marks : marks = FileAfterAdd(game.bookmarks, ref)
    OBVIOUS
  <2>6. BecomesSaving(h, marks)
    BY <1>2, <1>5, <2>2, <2>5 DEF CarryCurrent
  <2>7. \/ marks = bookmarksFile /\ h.bookmarks \subseteq game.bookmarks
        \/ marks \in SUBSET Refs /\ h.bookmarks \subseteq marks
    BY <1>1, <1>3, <2>3, <2>5 DEF FileAfterAdd
  <2>8. QED  BY <2>3, <2>4, <2>6, <2>7, SavingKeeps
<1>6. QED  BY <1>4, <1>5

LEMMA IntakeKeeps == ASSUME GameInv, Intake \/ ConfirmIntake PROVE GameInv'
<1>1. Sane(game) /\ game \in GameMemory
  BY DEF GameInv, Sane
<1>2. ASSUME NEW step \in StepNames PROVE Like(Shows(game, IntakeAt(step)), game)
  BY <1>1, OverlaysGood, OverlayShown
<1>3. CASE Intake /\ game.overlay.step \in {"source", "title", "summary", "type"}
  <2>1. IntakeSteps[IntakeStep + 1] \in StepNames
    BY <1>1, <1>3, StepOn DEF Intake, In, Sane
  <2>2. Becomes(Shows(game, IntakeAt(IntakeSteps[IntakeStep + 1])))
    BY <1>3 DEF Intake
  <2>3. QED  BY <1>2, <2>1, <2>2, LikeKeeps
<1>4. CASE Intake /\ game.overlay.step \in {"archived", "error"}
  <2>1. GoodOverlay(Closed) /\ Closed \in OverlayRow
    BY OverlaysGood DEF GoodOverlay
  <2>2. PICK h : h = [game EXCEPT !.overlay = Closed, !.back = Closed]
    OBVIOUS
  <2>3. /\ h \in GameMemory /\ h.overlay = Closed /\ h.back = Closed
        /\ h.bookmarks = game.bookmarks /\ h.trail = game.trail
    BY <1>1, <2>1, <2>2 DEF GameMemory
  <2>4. Like(h, game)
    BY <2>1, <2>3 DEF Like, Sane
  <2>5. QED  BY <1>4, <2>2, <2>4, LikeKeeps DEF Intake
<1>5. CASE ConfirmIntake /\ Becomes(Shows(game, IntakeAt("error")))
  BY <1>2, <1>5, LikeKeeps DEF StepNames
<1>6. CASE ConfirmIntake /\ ~Becomes(Shows(game, IntakeAt("error")))
  <2>1. /\ edits < GameEditBound /\ dirty' = TRUE /\ edits' = edits + 1
        /\ \E book \in Books \ disk : disk' = disk \cup {book}
        /\ game' = Shows(game, IntakeAt("archived"))
        /\ UNCHANGED <<loop, loaded, fileVars, starts>>
    BY <1>6 DEF ConfirmIntake
  <2>2. Sane(game') /\ game'.bookmarks = game.bookmarks /\ game'.trail = game.trail
    BY <1>2, <2>1 DEF StepNames, Like
  <2>3. disk' \subseteq Refs
    BY <2>1 DEF GameInv, GameTypeOK, Refs
  <2>4. edits' \in 0..GameEditBound
    BY <2>1, GameAssumption DEF GameInv, GameTypeOK
  <2>5. GameTypeOK'
    BY <2>1, <2>2, <2>3, <2>4, MemoryTyped DEF GameInv, GameTypeOK, fileVars
  <2>6. BookmarksSurvive'
    BY <2>1, <2>2 DEF GameInv, BookmarksSurvive, Running, KeptOnDisk, fileVars
  <2>7. Running' => Follows(game', loaded')
    BY <2>1, <2>2 DEF GameInv, Running, Follows
  <2>8. QED  BY <2>1, <2>2, <2>5, <2>6, <2>7 DEF GameInv, fileVars, Follows
<1>7. QED  BY <1>3, <1>4, <1>5, <1>6 DEF Intake

-----------------------------------------------------------------------------
(* The theorems of the game.                                               *)

LEMMA GameKeeps == GameInv /\ [GameNext]_gameVars => GameInv'
<1>. SUFFICES ASSUME GameInv, [GameNext]_gameVars PROVE GameInv'
  OBVIOUS
<1>1. CASE GameNext
  BY <1>1, LoadWorldKeeps, RunGameKeeps, EndingsKeep, VaultChangesKeeps, ReloadKeeps, RoomKeeps,
     DismissKeeps, EscapeKeeps, OpenItemKeeps, TrailKeeps, JumpsKeep, ListKeeps, RemoveKeeps,
     OpenBookmarkKeeps, CarryKeeps, IntakeKeeps DEF GameNext
<1>2. CASE UNCHANGED gameVars
  <2>1. GameTypeOK'
    BY <1>2 DEF GameInv, GameTypeOK, gameVars, worldVars, fileVars
  <2>2. BookmarksSurvive'
    BY <1>2 DEF GameInv, BookmarksSurvive, Running, KeptOnDisk, gameVars, worldVars, fileVars
  <2>3. QED  BY <1>2, <2>1, <2>2 DEF GameInv, Running, Follows, gameVars, worldVars, fileVars
<1>3. QED  BY <1>1, <1>2

\* Whatever the vault does under it and however it ends, the loop's memory
\* stays in its range: no focus, trail, overlay or list holds anything that is
\* not of the kind its handlers take it for.
THEOREM GameTypeCorrect == GameSpec => []GameTypeOK
<1>1. GameInv => GameTypeOK
  BY DEF GameInv
<1>2. QED  BY <1>1, GameStart, GameKeeps, PTL DEF GameSpec

\* For every vault, whoever changes it and however earlier runs ended: each
\* bookmark the player sees would be read back by a restart, and the trail
\* leads through the world as it is loaded.
THEOREM NothingCarriedIsLost == GameSpec => []GameConsistent
<1>1. GameInv => GameConsistent
  BY DEF GameInv, GameConsistent, TrailFollowsWorld, Follows
<1>2. QED  BY <1>1, GameStart, GameKeeps, PTL DEF GameSpec

LEMMA EscapeShrinks == GameInv /\ Escape => EscapesNeeded(game') < EscapesNeeded(game)
<1>. SUFFICES ASSUME GameInv, Escape PROVE EscapesNeeded(game') < EscapesNeeded(game)
  OBVIOUS
<1>1. Sane(game) /\ game \in GameMemory /\ GoodOverlay(game.overlay) /\ GoodOverlay(game.back)
  BY DEF GameInv, Sane
<1>2. ASSUME NEW o PROVE Steps(o) \in Nat
  BY DEF Steps
<1>3. game.overlay.mode # "none" /\ game.overlay # Closed
  BY DEF Escape, Closed, Overlay
<1>4. Steps(game.overlay) >= 1 /\ EscapesNeeded(game) = Steps(game.overlay) + Steps(game.back)
  BY <1>3 DEF Steps, EscapesNeeded
<1>5. CASE game.overlay.mode = "skin-picker"
  <2>1. PICK h : h = Shows(game, Closed)
    OBVIOUS
  <2>2. h.overlay = Closed
    BY <1>1, <2>1 DEF Shows, GameMemory
  <2>3. game' = h
    BY <1>5, <2>1 DEF Escape, Becomes
  <2>4. QED  BY <1>2, <1>4, <2>2, <2>3 DEF EscapesNeeded
<1>6. CASE game.overlay.mode = "counter-menu"
  <2>1. PICK h : h = CloseCounter(game)
    OBVIOUS
  <2>2. h.overlay = Closed
    BY <1>1, <2>1 DEF CloseCounter, GameMemory
  <2>3. game' = h
    BY <1>6, <2>1 DEF Escape, Becomes
  <2>4. QED  BY <1>2, <1>4, <2>2, <2>3 DEF EscapesNeeded
<1>7. CASE game.overlay.mode = "counter-links"
  <2>1. PICK h : h = CounterMenu(game)
    OBVIOUS
  <2>2. PICK o : o = Overlay("counter-menu", {})
    OBVIOUS
  <2>3. h.overlay = o /\ h.back = game.back
    BY <1>1, <2>1, <2>2 DEF CounterMenu, GameMemory
  <2>4. game' = h
    BY <1>7, <2>1 DEF Escape, Becomes
  <2>5. Steps(o) = 1 /\ Steps(game.overlay) = 2 /\ o # Closed
    BY <1>7, <2>2 DEF Steps, Overlay, Closed
  <2>6. EscapesNeeded(h) = 1 + Steps(game.back)
    BY <2>3, <2>5 DEF EscapesNeeded
  <2>7. QED  BY <1>2, <1>4, <2>4, <2>5, <2>6
<1>8. ASSUME NEW step \in StepNames, Becomes(Shows(game, IntakeAt(step))),
             Steps(IntakeAt(step)) < Steps(game.overlay)
      PROVE  EscapesNeeded(game') < EscapesNeeded(game)
  <2>1. PICK h : h = Shows(game, IntakeAt(step))
    OBVIOUS
  <2>2. PICK o : o = IntakeAt(step)
    OBVIOUS
  <2>3. o # Closed
    BY <2>2 DEF IntakeAt, Overlay, Closed
  <2>4. h.overlay = o /\ h.back = game.back
    BY <1>1, <2>1, <2>2 DEF Shows, GameMemory
  <2>5. EscapesNeeded(h) = Steps(o) + Steps(game.back)
    BY <2>3, <2>4 DEF EscapesNeeded
  <2>6. game' = h /\ Steps(o) < Steps(game.overlay)
    BY <1>8, <2>1, <2>2 DEF Becomes
  <2>7. QED  BY <1>2, <1>4, <2>5, <2>6
<1>9. CASE game.overlay.mode = "intake" /\ game.overlay.step \in {"archived", "error"}
  <2>1. Becomes(Shows(game, IntakeAt("confirm")))
    BY <1>9 DEF Escape
  <2>2. Steps(IntakeAt("confirm")) = 5 /\ Steps(game.overlay) = 6
    BY <1>9 DEF Steps, IntakeAt, Overlay
  <2>3. QED  BY <1>8, <2>1, <2>2 DEF StepNames
<1>10. CASE game.overlay.mode = "intake" /\ game.overlay.step \notin {"source", "archived", "error"}
  <2>1. PICK step : step = IntakeSteps[IntakeStep - 1]
    OBVIOUS
  <2>2. Becomes(Shows(game, IntakeAt(step)))
    BY <1>10, <2>1 DEF Escape
  <2>3. step \in StepNames /\ Steps(IntakeAt(step)) < Steps(game.overlay)
    BY <1>1, <1>10, <2>1, StepBack
  <2>4. QED  BY <1>8, <2>2, <2>3
<1>11. CASE /\ game.overlay.mode \notin {"skin-picker", "counter-menu", "counter-links"}
            /\ ~(game.overlay.mode = "intake" /\ game.overlay.step # "source")
  <2>1. PICK h : h = EscapeOverlay(game)
    OBVIOUS
  <2>2. h.overlay = game.back /\ h.back = Closed
    BY <1>1, <2>1 DEF EscapeOverlay, GameMemory
  <2>3. game' = h
    BY <1>11, <2>1 DEF Escape, Becomes
  <2>4. Steps(Closed) = 0
    BY DEF Steps, Closed, Overlay
  <2>5. EscapesNeeded(h) = 0 \/ EscapesNeeded(h) = Steps(game.back) + 0
    BY <2>2, <2>4 DEF EscapesNeeded
  <2>6. QED  BY <1>2, <1>4, <2>3, <2>5
<1>12. QED  BY <1>5, <1>6, <1>7, <1>9, <1>10, <1>11

\* From any overlay, opened over any other, each Escape leaves fewer to press:
\* no chain of shelves, pickers, counters and reports traps the player.
THEOREM EscapeAlwaysLeaves == GameSpec => EscapesLeave
<1>1. GameInv /\ [GameNext]_gameVars
        => [Escape => EscapesNeeded(game') < EscapesNeeded(game)]_gameVars
  BY EscapeShrinks
<1>2. QED  BY <1>1, GameStart, GameKeeps, PTL DEF GameSpec, EscapesLeave

-----------------------------------------------------------------------------
(* Sequences put together.                                                 *)

LEMMA Longer ==
    ASSUME NEW S, NEW s \in Seq(S), NEW p \in S
    PROVE  /\ Append(s, p) \in Seq(S) /\ Len(Append(s, p)) = Len(s) + 1
           /\ Range(Append(s, p)) = Range(s) \cup {p}
           /\ IsInjective(s) /\ p \notin Range(s) => IsInjective(Append(s, p))
<1>. DEFINE t == Append(s, p)
<1>1. /\ t \in Seq(S) /\ Len(t) = Len(s) + 1 /\ DOMAIN t = 1..Len(s) + 1 /\ DOMAIN s = 1..Len(s)
      /\ \A i \in 1..Len(s) : t[i] = s[i]
      /\ t[Len(s) + 1] = p
  BY AppendProperties, LenProperties
<1>2. Len(s) \in Nat
  OBVIOUS
<1>. HIDE DEF t
<1>3. Range(t) = Range(s) \cup {p}
  <2>1. ASSUME NEW q \in Range(t) PROVE q \in Range(s) \cup {p}
    <3>1. PICK i \in 1..Len(s) + 1 : t[i] = q
      BY <1>1, <2>1 DEF Range
    <3>2. QED  BY <1>1, <1>2, <3>1 DEF Range
  <2>2. ASSUME NEW q \in Range(s) PROVE q \in Range(t)
    <3>1. PICK i \in 1..Len(s) : s[i] = q
      BY <1>1, <2>2 DEF Range
    <3>2. i \in DOMAIN t /\ t[i] = q
      BY <1>1, <1>2, <3>1
    <3>3. QED  BY <3>2 DEF Range
  <2>3. p \in Range(t)
    <3>1. Len(s) + 1 \in DOMAIN t
      BY <1>1, <1>2
    <3>2. QED  BY <1>1, <3>1 DEF Range
  <2>4. QED  BY <2>1, <2>2, <2>3
<1>4. ASSUME IsInjective(s), p \notin Range(s) PROVE IsInjective(t)
  <2>. SUFFICES ASSUME NEW a \in DOMAIN t, NEW b \in DOMAIN t, t[a] = t[b] PROVE a = b
    BY DEF IsInjective
  <2>1. ASSUME NEW i \in 1..Len(s) PROVE t[i] = s[i] /\ t[i] # p /\ i \in DOMAIN s
    BY <1>1, <1>4, <2>1 DEF Range
  <2>2. (a \in 1..Len(s) \/ a = Len(s) + 1) /\ (b \in 1..Len(s) \/ b = Len(s) + 1)
    BY <1>1, <1>2
  <2>3. QED  BY <1>1, <1>4, <2>1, <2>2 DEF IsInjective
<1>5. QED  BY <1>1, <1>3, <1>4 DEF t

LEMMA Joined ==
    ASSUME NEW S, NEW s \in Seq(S), NEW t \in Seq(S)
    PROVE  /\ s \o t \in Seq(S)
           /\ Range(s \o t) = Range(s) \cup Range(t)
           /\ IsInjective(s) /\ IsInjective(t) /\ Range(s) \cap Range(t) = {} => IsInjective(s \o t)
<1>1. PICK a : a = s \o t
  OBVIOUS
<1>2. PICK m, n : m = Len(s) /\ n = Len(t)
  OBVIOUS
<1>3. /\ m \in Nat /\ n \in Nat /\ DOMAIN s = 1..m /\ DOMAIN t = 1..n
      /\ s \in [1..m -> S] /\ t \in [1..n -> S]
  BY <1>2, LenProperties
<1>4. /\ a \in Seq(S) /\ Len(a) = m + n
      /\ \A i \in 1..m + n : a[i] = IF i <= m THEN s[i] ELSE t[i - m]
  BY <1>1, <1>2, ConcatProperties
<1>5. DOMAIN a = 1..m + n
  BY <1>4, LenProperties
<1>6. \A i \in 1..m + n : \/ i \in 1..m /\ a[i] = s[i]
                          \/ i - m \in 1..n /\ a[i] = t[i - m] /\ ~(i <= m)
  BY <1>3, <1>4
<1>7. \A i \in 1..m : i \in 1..m + n /\ a[i] = s[i]
  BY <1>3, <1>4
<1>8. \A i \in 1..n : i + m \in 1..m + n /\ a[i + m] = t[i]
  <2>1. \A i \in 1..n : i + m \in 1..m + n /\ ~(i + m <= m) /\ (i + m) - m = i
    BY <1>3
  <2>2. QED  BY <1>4, <2>1
<1>9. Range(a) = Range(s) \cup Range(t)
  <2>1. ASSUME NEW q \in Range(a) PROVE q \in Range(s) \cup Range(t)
    <3>1. PICK i \in 1..m + n : a[i] = q
      BY <1>5, <2>1 DEF Range
    <3>2. QED  BY <1>3, <1>6, <3>1 DEF Range
  <2>2. ASSUME NEW q \in Range(s) PROVE q \in Range(a)
    <3>1. PICK i \in 1..m : s[i] = q
      BY <1>3, <2>2 DEF Range
    <3>2. i \in DOMAIN a /\ a[i] = q
      BY <1>5, <1>7, <3>1
    <3>3. QED  BY <3>2 DEF Range
  <2>3. ASSUME NEW q \in Range(t) PROVE q \in Range(a)
    <3>1. PICK i \in 1..n : t[i] = q
      BY <1>3, <2>3 DEF Range
    <3>2. i + m \in DOMAIN a /\ a[i + m] = q
      BY <1>5, <1>8, <3>1
    <3>3. QED  BY <3>2 DEF Range
  <2>4. QED  BY <2>1, <2>2, <2>3
<1>10. ASSUME IsInjective(s), IsInjective(t), Range(s) \cap Range(t) = {} PROVE IsInjective(a)
  <2>. SUFFICES ASSUME NEW i \in 1..m + n, NEW j \in 1..m + n, a[i] = a[j] PROVE i = j
    BY <1>5 DEF IsInjective
  <2>1. CASE i \in 1..m /\ j \in 1..m
    BY <1>3, <1>7, <1>10, <2>1 DEF IsInjective
  <2>2. CASE ~(i \in 1..m) /\ ~(j \in 1..m)
    <3>1. i - m = j - m
      BY <1>3, <1>6, <1>10, <2>2 DEF IsInjective
    <3>2. QED  BY <1>3, <3>1
  <2>3. CASE i \in 1..m /\ ~(j \in 1..m)
    <3>1. a[i] \in Range(s) /\ a[j] \in Range(t)
      BY <1>3, <1>6, <1>7, <2>3 DEF Range
    <3>2. QED  BY <1>10, <3>1
  <2>4. CASE ~(i \in 1..m) /\ j \in 1..m
    <3>1. a[j] \in Range(s) /\ a[i] \in Range(t)
      BY <1>3, <1>6, <1>7, <2>4 DEF Range
    <3>2. QED  BY <1>10, <3>1
  <2>5. QED  BY <2>1, <2>2, <2>3, <2>4
<1>11. QED  BY <1>1, <1>4, <1>9, <1>10

-----------------------------------------------------------------------------
(***************************************************************************)
(* The search: what is known of the hits chosen from a ranking, when a     *)
(* page p counts to the chain chain[p].                                    *)

ChainCount(found, chain, c) == Cardinality({p \in found : chain[p] = c})
Saturated(found, chain, k, c) == c # NoChain /\ ChainCount(found, chain, c) >= ChainCap(k)

Chosen(hits, passing, k, chain) ==
    /\ IsInjective(hits) /\ Len(hits) = Min({k, Len(passing)})
    /\ Range(hits) \subseteq Range(passing)
    /\ \A i, j \in DOMAIN passing :
          i < j /\ passing[i] \notin Range(hits) /\ passing[j] \in Range(hits)
              => Saturated(Range(hits), chain, k, chain[passing[i]])
    /\ \A c : c # NoChain /\ ChainCount(Range(hits), chain, c) > ChainCap(k) =>
          \A p \in Range(passing) \ Range(hits) : Saturated(Range(hits), chain, k, chain[p])

\* The loop over a ranking, when it has come to place i: what was put away
\* waits for a full chain, and what it left out it left out for the room.
Acc == [selected : Seq(Pages), deferred : Seq(Pages)]
Kept(acc) == Range(acc.selected) \cup Range(acc.deferred)

SoFar(acc, passing, k, chain, i) ==
    /\ acc \in Acc
    /\ IsInjective(acc.selected) /\ IsInjective(acc.deferred)
    /\ Range(acc.selected) \cap Range(acc.deferred) = {}
    /\ Kept(acc) \subseteq {passing[j] : j \in 1..i}
    /\ Len(acc.selected) <= k /\ Len(acc.selected) + Len(acc.deferred) <= i
    /\ Len(acc.selected) < k => {passing[j] : j \in 1..i} = Kept(acc)
                                /\ Len(acc.selected) + Len(acc.deferred) = i
    /\ \A g, h \in 1..i : g < h /\ passing[h] \in Kept(acc) => passing[g] \in Kept(acc)
    /\ \A p \in Range(acc.deferred) : Saturated(Range(acc.selected), chain, k, chain[p])
    /\ \A c : c # NoChain => ChainCount(Range(acc.selected), chain, c) <= ChainCap(k)

LEMMA CountOneMore ==
    ASSUME NEW found \in SUBSET Pages, NEW p \in Pages, p \notin found, NEW chain, NEW c
    PROVE  /\ ChainCount(found, chain, c) \in Nat
           /\ ChainCount(found \cup {p}, chain, c) =
                 ChainCount(found, chain, c) + IF chain[p] = c THEN 1 ELSE 0
<1>. DEFINE A == {q \in found : chain[q] = c}
            B == {q \in found \cup {p} : chain[q] = c}
<1>1. IsFiniteSet(A) /\ p \notin A
  BY RecallAssumption, FS_Subset
<1>2. B = IF chain[p] = c THEN A \cup {p} ELSE A
  OBVIOUS
<1>. HIDE DEF A, B
<1>3. Cardinality(A) \in Nat
  BY <1>1, FS_CardinalityType
<1>4. Cardinality(B) = Cardinality(A) + IF chain[p] = c THEN 1 ELSE 0
  <2>1. CASE chain[p] = c
    BY <1>1, <1>2, <2>1, FS_AddElement
  <2>2. CASE chain[p] # c
    BY <1>2, <1>3, <2>2
  <2>3. QED  BY <2>1, <2>2
<1>5. QED  BY <1>3, <1>4 DEF A, B, ChainCount

LEMMA TwoNumbers ==
    ASSUME NEW a \in Int, NEW b \in Int
    PROVE  /\ Max({a, b}) = IF a >= b THEN a ELSE b
           /\ Min({a, b}) = IF a <= b THEN a ELSE b
<1>1. \A x : x = Max({a, b}) => x = IF a >= b THEN a ELSE b
  <2>. DEFINE M == {x \in {a, b} : \A y \in {a, b} : x >= y}
  <2>1. \E x : x \in {a, b} /\ \A y \in {a, b} : x >= y
    <3>1. CASE a >= b
      BY <3>1
    <3>2. CASE ~(a >= b)
      BY <3>2
    <3>3. QED  BY <3>1, <3>2
  <2>2. PICK x : x = Max({a, b})
    OBVIOUS
  <2>3. x \in {a, b} /\ \A y \in {a, b} : x >= y
    BY <2>1, <2>2 DEF Max
  <2>4. QED  BY <2>2, <2>3
<1>2. \A x : x = Min({a, b}) => x = IF a <= b THEN a ELSE b
  <2>1. \E x : x \in {a, b} /\ \A y \in {a, b} : x <= y
    <3>1. CASE a <= b
      BY <3>1
    <3>2. CASE ~(a <= b)
      BY <3>2
    <3>3. QED  BY <3>1, <3>2
  <2>2. PICK x : x = Min({a, b})
    OBVIOUS
  <2>3. x \in {a, b} /\ \A y \in {a, b} : x <= y
    BY <2>1, <2>2 DEF Min
  <2>4. QED  BY <2>2, <2>3
<1>3. QED  BY <1>1, <1>2

LEMMA FourNumbers ==
    ASSUME NEW a \in Int, NEW b \in Int, NEW c \in Int, NEW d \in Int
    PROVE  Min({a, b, c, d}) \in Int
<1>. DEFINE m(x, y) == IF x <= y THEN x ELSE y
<1>1. PICK e \in {a, b} : e \in Int /\ e <= a /\ e <= b
  <2>1. CASE a <= b
    BY <2>1
  <2>2. CASE ~(a <= b)
    BY <2>2
  <2>3. QED  BY <2>1, <2>2
<1>2. PICK f \in {c, d} : f \in Int /\ f <= c /\ f <= d
  <2>1. CASE c <= d
    BY <2>1
  <2>2. CASE ~(c <= d)
    BY <2>2
  <2>3. QED  BY <2>1, <2>2
<1>3. \E x : x \in {a, b, c, d} /\ \A y \in {a, b, c, d} : x <= y
  <2>1. CASE e <= f
    BY <1>1, <1>2, <2>1
  <2>2. CASE ~(e <= f)
    BY <1>1, <1>2, <2>2
  <2>3. QED  BY <2>1, <2>2
<1>4. PICK x : x = Min({a, b, c, d})
  OBVIOUS
<1>5. x \in {a, b, c, d}
  BY <1>3, <1>4 DEF Min
<1>6. QED  BY <1>4, <1>5

LEMMA CapType ==
    ASSUME NEW k \in Int, k >= 1
    PROVE  ChainCap(k) \in Nat \ {0}
<1>1. (k + 2) \div 3 \in Int /\ (k + 2) \div 3 >= 1 /\ ChainMin \in Int
  BY RecallAssumption
<1>2. QED  BY <1>1, TwoNumbers DEF ChainCap

LEMMA TopKType ==
    ASSUME NEW pool \in Nat, topK \in Int
    PROVE  DynamicTopK(pool) \in Int /\ DynamicTopK(pool) >= 1
<1>. DEFINE a == Max({MinHits, (pool + PoolPart - 1) \div PoolPart})
            c == Max({1, BudgetHits})
            low == Min({a, MaxHits, c} \cup (IF topK > 0 THEN {topK} ELSE {}))
<1>1. a \in Int /\ MaxHits \in Int /\ c \in Int
  <2>1. (pool + PoolPart - 1) \div PoolPart \in Int /\ {MinHits, MaxHits, BudgetHits} \subseteq Int
    BY RecallAssumption
  <2>2. QED  BY <2>1, TwoNumbers
<1>2. DynamicTopK(pool) = Max({1, low})
  BY DEF DynamicTopK
<1>. HIDE DEF a, c
<1>3. low \in Int
  <2>1. CASE topK > 0
    <3>1. {a, MaxHits, c} \cup (IF topK > 0 THEN {topK} ELSE {}) = {a, MaxHits, c, topK}
      BY <2>1
    <3>2. QED  BY <1>1, <3>1, FourNumbers
  <2>2. CASE ~(topK > 0)
    <3>1. {a, MaxHits, c} \cup (IF topK > 0 THEN {topK} ELSE {}) = {a, MaxHits, c, c}
      BY <2>2
    <3>2. QED  BY <1>1, <3>1, FourNumbers
  <2>3. QED  BY <2>1, <2>2
<1>. HIDE DEF low
<1>4. QED  BY <1>2, <1>3, TwoNumbers

-----------------------------------------------------------------------------
(* One turn of the loop.                                                   *)

LEMMA Considered ==
    ASSUME NEW k \in Int, k >= 1, NEW L \in Nat, NEW passing \in [1..L -> Pages], IsInjective(passing),
           NEW chain, \A p \in Pages : chain[p] = CandidateChain(p),
           NEW i \in 1..L, NEW acc, SoFar(acc, passing, k, chain, i - 1)
    PROVE  SoFar(Consider(k, acc, passing[i]), passing, k, chain, i)
<1>. DEFINE p == passing[i]
            before == {passing[j] : j \in 1..(i - 1)}
<1>1. /\ acc \in Acc /\ p \in Pages /\ p \notin before /\ before \subseteq Pages
      /\ {passing[j] : j \in 1..i} = before \cup {p}
  <2>1. acc \in Acc
    BY DEF SoFar
  <2>2. p \in Pages /\ before \subseteq Pages
    OBVIOUS
  <2>3. p \notin before
    <3>1. \A j \in 1..(i - 1) : j \in 1..L /\ j # i /\ j \in DOMAIN passing
      OBVIOUS
    <3>2. QED  BY <3>1 DEF IsInjective
  <2>4. 1..i = (1..(i - 1)) \cup {i}
    OBVIOUS
  <2>5. QED  BY <2>1, <2>2, <2>3, <2>4
<1>2. PICK new : new = Consider(k, acc, p)
  OBVIOUS
<1>3. PICK s, d : s = acc.selected /\ d = acc.deferred
  OBVIOUS
<1>4. /\ s \in Seq(Pages) /\ d \in Seq(Pages) /\ acc = [selected |-> s, deferred |-> d]
      /\ Range(s) \subseteq Pages /\ Range(d) \subseteq Pages
  <2>1. s \in Seq(Pages) /\ d \in Seq(Pages) /\ acc = [selected |-> s, deferred |-> d]
    BY <1>1, <1>3 DEF Acc
  <2>2. QED  BY <2>1, LenProperties DEF Range
<1>5. /\ IsInjective(s) /\ IsInjective(d) /\ Range(s) \cap Range(d) = {}
      /\ Kept(acc) = Range(s) \cup Range(d) /\ Kept(acc) \subseteq before
      /\ Len(s) <= k /\ Len(s) + Len(d) <= i - 1
      /\ Len(s) < k => before = Kept(acc) /\ Len(s) + Len(d) = i - 1
      /\ \A g, h \in 1..(i - 1) : g < h /\ passing[h] \in Kept(acc) => passing[g] \in Kept(acc)
      /\ \A q \in Range(d) : Saturated(Range(s), chain, k, chain[q])
      /\ \A c : c # NoChain => ChainCount(Range(s), chain, c) <= ChainCap(k)
  BY <1>3 DEF SoFar, Kept
<1>6. p \notin Range(s) /\ p \notin Range(d) /\ Len(s) \in Nat /\ Len(d) \in Nat
  BY <1>1, <1>4, <1>5
<1>7. PICK full : full = Saturated(Range(s), chain, k, chain[p])
  OBVIOUS
<1>8. new = IF Len(s) >= k THEN acc
            ELSE IF full THEN [selected |-> s, deferred |-> Append(d, p)]
            ELSE [selected |-> Append(s, p), deferred |-> d]
  <2>1. chain[p] = CandidateChain(p) /\ \A q \in Range(s) : chain[q] = CandidateChain(q)
    BY <1>1, <1>4
  <2>2. {q \in Range(s) : CandidateChain(q) = CandidateChain(p)} = {q \in Range(s) : chain[q] = chain[p]}
    BY <2>1
  <2>3. new = IF Len(s) >= k THEN acc
              ELSE IF full THEN [acc EXCEPT !.deferred = Append(d, p)]
              ELSE [acc EXCEPT !.selected = Append(s, p)]
    BY <1>2, <1>3, <1>7, <2>1, <2>2 DEF Consider, Saturated, ChainCount
  <2>4. ASSUME NEW e
        PROVE  /\ [acc EXCEPT !.deferred = e] = [selected |-> s, deferred |-> e]
               /\ [acc EXCEPT !.selected = e] = [selected |-> e, deferred |-> d]
    BY <1>4
  <2>5. [acc EXCEPT !.deferred = Append(d, p)] = [selected |-> s, deferred |-> Append(d, p)]
    BY <2>4
  <2>6. [acc EXCEPT !.selected = Append(s, p)] = [selected |-> Append(s, p), deferred |-> d]
    BY <2>4
  <2>7. QED  BY <2>3, <2>5, <2>6
<1>. HIDE DEF p, before
<1>9. CASE Len(s) >= k
  <2>1. new = acc
    BY <1>8, <1>9
  <2>2. Len(s) = k
    BY <1>5, <1>6, <1>9
  <2>3. ASSUME NEW g \in 1..i, NEW h \in 1..i, g < h, passing[h] \in Kept(acc) PROVE passing[g] \in Kept(acc)
    <3>1. h # i
      BY <1>1, <1>5, <2>3 DEF p
    <3>2. g \in 1..(i - 1) /\ h \in 1..(i - 1)
      BY <2>3, <3>1
    <3>3. QED  BY <1>5, <2>3, <3>2
  <2>4. Kept(acc) \subseteq {passing[j] : j \in 1..i} /\ Len(s) + Len(d) <= i
    BY <1>1, <1>5, <1>6
  <2>5. SoFar(acc, passing, k, chain, i)
    BY <1>1, <1>3, <1>5, <1>6, <2>2, <2>3, <2>4 DEF SoFar
  <2>6. QED  BY <1>2, <2>1, <2>5 DEF p
<1>10. ASSUME Len(s) < k, Kept(new) = Kept(acc) \cup {p}
       PROVE  /\ Kept(new) = {passing[j] : j \in 1..i}
              /\ \A g, h \in 1..i : g < h /\ passing[h] \in Kept(new) => passing[g] \in Kept(new)
  <2>1. Kept(new) = {passing[j] : j \in 1..i}
    BY <1>1, <1>5, <1>10
  <2>2. QED  BY <2>1
<1>11. CASE Len(s) < k /\ full
  <2>1. /\ new = [selected |-> s, deferred |-> Append(d, p)]
    BY <1>6, <1>8, <1>11
  <2>2. /\ Append(d, p) \in Seq(Pages) /\ Len(Append(d, p)) = Len(d) + 1
        /\ Range(Append(d, p)) = Range(d) \cup {p} /\ IsInjective(Append(d, p))
    BY <1>1, <1>4, <1>5, <1>6, Longer
  <2>3. PICK e : e = Append(d, p)
    OBVIOUS
  <2>4. new.selected = s /\ new.deferred = e /\ new \in Acc
    BY <1>4, <2>1, <2>2, <2>3 DEF Acc
  <2>5. Kept(new) = Kept(acc) \cup {p}
    BY <1>5, <2>2, <2>3, <2>4 DEF Kept
  <2>6. /\ Kept(new) = {passing[j] : j \in 1..i}
        /\ \A g, h \in 1..i : g < h /\ passing[h] \in Kept(new) => passing[g] \in Kept(new)
    BY <1>10, <1>11, <2>5
  <2>7. \A q \in Range(e) : Saturated(Range(s), chain, k, chain[q])
    BY <1>5, <1>7, <1>11, <2>2, <2>3
  <2>8. Range(s) \cap Range(e) = {} /\ IsInjective(e) /\ Len(s) + Len(e) = i
    BY <1>5, <1>6, <1>11, <2>2, <2>3
  <2>9. SoFar(new, passing, k, chain, i)
    BY <1>5, <1>6, <1>11, <2>4, <2>6, <2>7, <2>8 DEF SoFar
  <2>10. QED  BY <1>2, <2>9 DEF p
<1>12. CASE Len(s) < k /\ ~full
  <2>1. /\ new = [selected |-> Append(s, p), deferred |-> d]
    BY <1>6, <1>8, <1>12
  <2>2. /\ Append(s, p) \in Seq(Pages) /\ Len(Append(s, p)) = Len(s) + 1
        /\ Range(Append(s, p)) = Range(s) \cup {p} /\ IsInjective(Append(s, p))
    BY <1>1, <1>4, <1>5, <1>6, Longer
  <2>3. PICK e : e = Append(s, p)
    OBVIOUS
  <2>4. new.selected = e /\ new.deferred = d /\ new \in Acc
    BY <1>4, <2>1, <2>2, <2>3 DEF Acc
  <2>5. Kept(new) = Kept(acc) \cup {p}
    BY <1>5, <2>2, <2>3, <2>4 DEF Kept
  <2>6. /\ Kept(new) = {passing[j] : j \in 1..i}
        /\ \A g, h \in 1..i : g < h /\ passing[h] \in Kept(new) => passing[g] \in Kept(new)
    BY <1>10, <1>12, <2>5
  <2>7. ASSUME NEW c
        PROVE  /\ ChainCount(Range(s), chain, c) \in Nat
               /\ ChainCount(Range(e), chain, c) =
                     ChainCount(Range(s), chain, c) + IF chain[p] = c THEN 1 ELSE 0
    <3>1. PICK found : found = Range(s)
      OBVIOUS
    <3>2. found \in SUBSET Pages /\ p \in Pages /\ p \notin found /\ Range(e) = found \cup {p}
      BY <1>1, <1>4, <1>6, <2>2, <2>3, <3>1
    <3>3. /\ ChainCount(found, chain, c) \in Nat
          /\ ChainCount(found \cup {p}, chain, c) =
                ChainCount(found, chain, c) + IF chain[p] = c THEN 1 ELSE 0
      BY <3>2, CountOneMore
    <3>4. QED  BY <3>1, <3>2, <3>3
  <2>8. ChainCap(k) \in Nat
    BY CapType
  <2>9. \A c : c # NoChain => ChainCount(Range(e), chain, c) <= ChainCap(k)
    <3>. SUFFICES ASSUME NEW c, c # NoChain PROVE ChainCount(Range(e), chain, c) <= ChainCap(k)
      OBVIOUS
    <3>1. CASE chain[p] = c
      <4>1. ~(ChainCount(Range(s), chain, c) >= ChainCap(k))
        BY <1>7, <1>12, <3>1 DEF Saturated
      <4>2. QED  BY <2>7, <2>8, <3>1, <4>1
    <3>2. CASE chain[p] # c
      BY <1>5, <2>7, <2>8, <3>2
    <3>3. QED  BY <3>1, <3>2
  <2>10. \A q \in Range(d) : Saturated(Range(e), chain, k, chain[q])
    <3>. SUFFICES ASSUME NEW q \in Range(d) PROVE Saturated(Range(e), chain, k, chain[q])
      OBVIOUS
    <3>1. chain[q] # NoChain /\ ChainCount(Range(s), chain, chain[q]) >= ChainCap(k)
      BY <1>5 DEF Saturated
    <3>2. PICK c : c = chain[q]
      OBVIOUS
    <3>3. ChainCount(Range(e), chain, c) >= ChainCap(k)
      BY <2>7, <2>8, <3>1, <3>2
    <3>4. QED  BY <3>1, <3>2, <3>3 DEF Saturated
  <2>11. Range(e) \cap Range(d) = {} /\ IsInjective(e) /\ Len(e) + Len(d) = i /\ Len(e) <= k
    BY <1>5, <1>6, <1>12, <2>2, <2>3
  <2>12. SoFar(new, passing, k, chain, i)
    BY <1>5, <1>6, <1>12, <2>4, <2>6, <2>9, <2>10, <2>11 DEF SoFar
  <2>13. QED  BY <1>2, <2>12 DEF p
<1>13. QED  BY <1>6, <1>9, <1>11, <1>12

-----------------------------------------------------------------------------
(* The loop.                                                               *)

LEMMA ConsiderType ==
    ASSUME NEW k, NEW acc \in Acc, NEW p \in Pages
    PROVE  Consider(k, acc, p) \in Acc
<1>1. acc.selected \in Seq(Pages) /\ acc.deferred \in Seq(Pages)
  BY DEF Acc
<1>2. Append(acc.selected, p) \in Seq(Pages) /\ Append(acc.deferred, p) \in Seq(Pages)
  BY <1>1, AppendProperties
<1>3. ASSUME NEW s \in Seq(Pages)
      PROVE  [acc EXCEPT !.selected = s] \in Acc /\ [acc EXCEPT !.deferred = s] \in Acc
  BY DEF Acc
<1>4. [acc EXCEPT !.selected = Append(@, p)] \in Acc /\ [acc EXCEPT !.deferred = Append(@, p)] \in Acc
  BY <1>2, <1>3
<1>5. QED  BY <1>4 DEF Consider

LEMMA LoopChooses ==
    ASSUME NEW k \in Int, k >= 1, NEW passing \in Seq(Pages), IsInjective(passing),
           NEW chain, \A p \in Pages : chain[p] = CandidateChain(p)
    PROVE  \E acc : /\ SoFar(acc, passing, k, chain, Len(passing))
                    /\ TopKWithDiversity(passing, k) =
                          SubSeq(acc.selected \o acc.deferred, 1,
                                 Min({k, Len(acc.selected \o acc.deferred)}))
<1>. DEFINE L == Len(passing)
            base == [selected |-> <<>>, deferred |-> <<>>]
            pick == [s \in SUBSET (1..L) |-> Max(s)]
            step == [e \in (1..L) \X Acc |-> Consider(k, e[2], passing[e[1]])]
            Eq(f) == f = [s \in SUBSET (DOMAIN passing) |->
                            IF s = {} THEN base ELSE Consider(k, f[s \ {Max(s)}], passing[Max(s)])]
<1>1. L \in Nat /\ DOMAIN passing = 1..L /\ passing \in [1..L -> Pages]
  BY LenProperties
<1>2. IsFiniteSet(1..L) /\ base \in Acc
  <2>1. IsFiniteSet(1..L)
    BY <1>1, FS_Interval
  <2>2. <<>> \in Seq(Pages)
    BY EmptySeq
  <2>3. QED  BY <2>1, <2>2 DEF Acc
<1>3. Picks(1..L, pick) /\ \A s \in SUBSET (1..L) : pick[s] = Max(s)
  BY <1>1, GreatestPlace DEF Picks
<1>4. StepFunction(1..L, Acc, step) /\ \A i \in 1..L, a \in Acc : step[<<i, a>>] = Consider(k, a, passing[i])
  <2>1. \A e \in (1..L) \X Acc : Consider(k, e[2], passing[e[1]]) \in Acc
    BY <1>1, ConsiderType
  <2>2. QED  BY <2>1 DEF StepFunction
<1>. HIDE DEF base, pick, step, L
<1>5. \E f : Eq(f)
  <2>1. PICK f : IsFold(f, 1..L, Acc, base, pick, step)
    BY <1>2, <1>3, <1>4, FoldDefined
  <2>2. ASSUME NEW s \in SUBSET (1..L)
        PROVE  f[s] = IF s = {} THEN base ELSE Consider(k, f[s \ {Max(s)}], passing[Max(s)])
    <3>1. CASE s = {}
      BY <2>1, <3>1 DEF IsFold
    <3>2. CASE s # {}
      <4>1. PICK x : x = Max(s)
        OBVIOUS
      <4>2. x = pick[s] /\ x \in 1..L
        BY <1>3, <3>2, <4>1 DEF Picks
      <4>3. f[s \ {x}] \in Acc
        BY <2>1 DEF IsFold
      <4>4. f[s] = step[<<x, f[s \ {x}]>>]
        BY <2>1, <3>2, <4>2 DEF IsFold
      <4>5. f[s] = Consider(k, f[s \ {x}], passing[x])
        BY <1>4, <4>2, <4>3, <4>4
      <4>6. QED  BY <3>2, <4>1, <4>5
    <3>3. QED  BY <3>1, <3>2
  <2>3. f = [s \in SUBSET (1..L) |-> f[s]]
    BY <2>1 DEF IsFold
  <2>4. Eq(f)
    BY <1>1, <2>2, <2>3
  <2>5. QED  BY <2>4
<1>6. PICK f : f = CHOOSE g : Eq(g)
  OBVIOUS
<1>7. Eq(f)
  BY <1>5, <1>6
<1>8. FoldLeft(LAMBDA acc, p : Consider(k, acc, p), [selected |-> <<>>, deferred |-> <<>>], passing) = f[1..L]
  BY <1>1, <1>6 DEF FoldLeft, MapThenFoldSet, base
<1>9. f[1..0] = base /\ \A i \in 1..L : f[1..i] = Consider(k, f[1..(i - 1)], passing[i])
  <2>1. 1..0 = {} /\ 1..0 \in SUBSET (1..L)
    OBVIOUS
  <2>2. f[1..0] = base
    BY <1>1, <1>7, <2>1
  <2>3. ASSUME NEW i \in 1..L PROVE f[1..i] = Consider(k, f[1..(i - 1)], passing[i])
    <3>1. 1..i \in SUBSET (1..L) /\ 1..i # {}
      <4>1. \A j \in 1..i : j \in 1..L
        BY <1>1
      <4>2. 1 \in 1..i
        BY <1>1
      <4>3. QED  BY <4>1, <4>2
    <3>2. Max(1..i) = i /\ (1..i) \ {i} = 1..(i - 1)
      BY <1>1, GreatestPlace
    <3>3. PICK s : s = 1..i
      OBVIOUS
    <3>4. f[s] = Consider(k, f[s \ {Max(s)}], passing[Max(s)])
      BY <1>1, <1>7, <3>1, <3>3
    <3>5. Max(s) = i /\ s \ {i} = 1..(i - 1)
      BY <3>2, <3>3
    <3>6. QED  BY <3>3, <3>4, <3>5
  <2>4. QED  BY <2>2, <2>3
<1>10. SoFar(base, passing, k, chain, 0)
  <2>1. /\ base.selected = <<>> /\ base.deferred = <<>> /\ Len(<<>>) = 0
        /\ Range(<<>>) = {} /\ IsInjective(<<>>)
    BY DEF base, Range, IsInjective
  <2>2. ASSUME NEW c PROVE ChainCount({}, chain, c) <= ChainCap(k)
    <3>1. {q \in {} : chain[q] = c} = {}
      OBVIOUS
    <3>2. ChainCount({}, chain, c) = 0
      BY <3>1, FS_EmptySet DEF ChainCount
    <3>3. QED  BY <3>2, CapType
  <2>3. Kept(base) = {} /\ {passing[j] : j \in 1..0} = {} /\ 0 <= k
    BY <2>1 DEF Kept
  <2>6. PICK a : a = base
    OBVIOUS
  <2>7. PICK s : s = <<>>
    OBVIOUS
  <2>8. /\ a.selected = s /\ a.deferred = s /\ Len(s) = 0 /\ IsInjective(s) /\ Range(s) = {}
        /\ a \in Acc /\ Kept(a) = {}
    BY <1>2, <2>1, <2>3, <2>6, <2>7
  <2>9. Kept(a) \subseteq {passing[j] : j \in 1..0} /\ {passing[j] : j \in 1..0} = Kept(a)
    BY <2>3, <2>8
  <2>10. Len(s) + Len(s) = 0 /\ Range(s) \cap Range(s) = {}
    BY <2>8
  <2>11. \A p \in Range(a.deferred) : Saturated(Range(a.selected), chain, k, chain[p])
    BY <2>8
  <2>12. \A g, h \in 1..0 : g < h /\ passing[h] \in Kept(a) => passing[g] \in Kept(a)
    OBVIOUS
  <2>13. \A c : c # NoChain => ChainCount(Range(a.selected), chain, c) <= ChainCap(k)
    BY <2>2, <2>8
  <2>14. SoFar(a, passing, k, chain, 0)
    BY <2>3, <2>8, <2>9, <2>10, <2>11, <2>12, <2>13 DEF SoFar
  <2>15. QED  BY <2>6, <2>14
<1>11. SoFar(f[1..L], passing, k, chain, L)
  <2>. DEFINE Bad == {i \in 0..L : ~SoFar(f[1..i], passing, k, chain, i)}
  <2>1. SUFFICES ASSUME Bad # {} PROVE FALSE
    BY <1>1
  <2>2. Bad \in SUBSET Nat
    OBVIOUS
  <2>. HIDE DEF Bad
  <2>3. PICK i \in Bad : \A m \in Bad : i <= m
    BY <2>1, <2>2, LeastMember
  <2>4. i \in 0..L /\ ~SoFar(f[1..i], passing, k, chain, i)
    BY <2>3 DEF Bad
  <2>5. i # 0
    BY <1>9, <1>10, <2>4
  <2>6. i \in 1..L /\ i - 1 \in 0..L /\ ~(i <= i - 1)
    BY <1>1, <2>4, <2>5
  <2>7. SoFar(f[1..(i - 1)], passing, k, chain, i - 1)
    BY <2>3, <2>6 DEF Bad
  <2>8. PICK acc : acc = f[1..(i - 1)]
    OBVIOUS
  <2>9. SoFar(Consider(k, acc, passing[i]), passing, k, chain, i)
    BY <1>1, <2>6, <2>7, <2>8, Considered
  <2>10. QED  BY <1>9, <2>4, <2>6, <2>8, <2>9
<1>12. PICK acc : acc = f[1..L]
  OBVIOUS
<1>13. TopKWithDiversity(passing, k) =
          SubSeq(acc.selected \o acc.deferred, 1, Min({k, Len(acc.selected \o acc.deferred)}))
  BY <1>8, <1>12 DEF TopKWithDiversity
<1>14. QED  BY <1>11, <1>12, <1>13 DEF L

\* What is all, the first n of s and then t.
Taken(all, s, t, n) ==
    /\ Len(all) = n /\ IsInjective(all)
    /\ Range(all) \subseteq Range(s) \cup Range(t)
    /\ n >= Len(s) => Range(s) \subseteq Range(all)
    /\ n = Len(s) => Range(all) = Range(s)
    /\ n = Len(s) + Len(t) => Range(t) \subseteq Range(all)

LEMMA FirstOf ==
    ASSUME NEW s \in Seq(Pages), NEW t \in Seq(Pages), IsInjective(s), IsInjective(t),
           Range(s) \cap Range(t) = {}, NEW n \in Nat, n <= Len(s) + Len(t),
           NEW all, all = SubSeq(s \o t, 1, n)
    PROVE  Taken(all, s, t, n)
<1>1. /\ s \o t \in Seq(Pages) /\ Len(s \o t) = Len(s) + Len(t)
      /\ \A i \in 1 .. Len(s) + Len(t) : (s \o t)[i] = IF i <= Len(s) THEN s[i] ELSE t[i - Len(s)]
  BY ConcatProperties
<1>2. /\ Len(s) \in Nat /\ DOMAIN s = 1..Len(s) /\ s \in [1..Len(s) -> Pages]
      /\ Len(t) \in Nat /\ DOMAIN t = 1..Len(t) /\ t \in [1..Len(t) -> Pages]
  BY LenProperties
<1>3. \A i \in 1..n : (s \o t)[i] \in Pages /\ i \in 1..Len(s) + Len(t)
  BY <1>1, <1>2, ElementOfSeq
<1>5. /\ all \in Seq(Pages) /\ Len(all) = n
      /\ \A i \in 1..n : all[i] = (s \o t)[i]
  <2>1. PICK st : st = s \o t
    OBVIOUS
  <2>2. \A i \in 1..n : st[i] \in Pages
    BY <1>3, <2>1
  <2>3. /\ SubSeq(st, 1, n) \in Seq(Pages) /\ Len(SubSeq(st, 1, n)) = IF 1 <= n THEN n - 1 + 1 ELSE 0
        /\ \A i \in 1..(n - 1 + 1) : SubSeq(st, 1, n)[i] = st[1 + i - 1]
    BY <2>2, SubSeqProperties
  <2>4. QED  BY <2>1, <2>3
<1>6. /\ DOMAIN all = 1..n
      /\ \A i \in 1..n : all[i] = IF i <= Len(s) THEN s[i] ELSE t[i - Len(s)]
  <2>1. DOMAIN all = 1..n
    BY <1>5, LenProperties
  <2>2. QED  BY <1>1, <1>3, <1>5, <2>1
<1>7. \A i \in 1..n : \/ i \in DOMAIN s /\ all[i] = s[i] /\ i <= Len(s)
                      \/ i - Len(s) \in DOMAIN t /\ all[i] = t[i - Len(s)] /\ ~(i <= Len(s))
  <2>. SUFFICES ASSUME NEW i \in 1..n
                PROVE  \/ i \in DOMAIN s /\ all[i] = s[i] /\ i <= Len(s)
                       \/ i - Len(s) \in DOMAIN t /\ all[i] = t[i - Len(s)] /\ ~(i <= Len(s))
    OBVIOUS
  <2>1. CASE i <= Len(s)
    BY <1>2, <1>6, <2>1
  <2>2. CASE ~(i <= Len(s))
    BY <1>2, <1>6, <2>2
  <2>3. QED  BY <2>1, <2>2
<1>8. IsInjective(all)
  <2>. SUFFICES ASSUME NEW a \in DOMAIN all, NEW b \in DOMAIN all, all[a] = all[b] PROVE a = b
    BY DEF IsInjective
  <2>1. a \in 1..n /\ b \in 1..n
    BY <1>6
  <2>2. CASE a <= Len(s) /\ b <= Len(s)
    BY <1>7, <2>1, <2>2 DEF IsInjective
  <2>3. CASE ~(a <= Len(s)) /\ ~(b <= Len(s))
    <3>1. a - Len(s) = b - Len(s)
      BY <1>7, <2>1, <2>3 DEF IsInjective
    <3>2. QED  BY <1>2, <2>1, <3>1
  <2>4. CASE a <= Len(s) /\ ~(b <= Len(s))
    <3>1. all[a] \in Range(s) /\ all[b] \in Range(t)
      BY <1>7, <2>1, <2>4 DEF Range
    <3>2. QED  BY <3>1
  <2>5. CASE ~(a <= Len(s)) /\ b <= Len(s)
    <3>1. all[b] \in Range(s) /\ all[a] \in Range(t)
      BY <1>7, <2>1, <2>5 DEF Range
    <3>2. QED  BY <3>1
  <2>6. QED  BY <2>2, <2>3, <2>4, <2>5
<1>9. Range(all) \subseteq Range(s) \cup Range(t)
  BY <1>6, <1>7 DEF Range
<1>10. ASSUME n >= Len(s) PROVE Range(s) \subseteq Range(all)
  <2>1. ASSUME NEW q \in Range(s) PROVE q \in Range(all)
    <3>1. PICK i \in 1..Len(s) : s[i] = q
      BY <1>2, <2>1 DEF Range
    <3>2. i \in DOMAIN all /\ all[i] = q
      BY <1>2, <1>6, <1>10, <3>1
    <3>3. QED  BY <3>2 DEF Range
  <2>2. QED  BY <2>1
<1>11. ASSUME n = Len(s) PROVE Range(all) \subseteq Range(s)
  <2>1. ASSUME NEW q \in Range(all) PROVE q \in Range(s)
    <3>1. PICK i \in 1..n : all[i] = q
      BY <1>6, <2>1 DEF Range
    <3>2. i \in DOMAIN s /\ s[i] = q
      BY <1>2, <1>7, <1>11, <3>1
    <3>3. QED  BY <3>2 DEF Range
  <2>2. QED  BY <2>1
<1>12. ASSUME n = Len(s) + Len(t) PROVE Range(t) \subseteq Range(all)
  <2>1. ASSUME NEW q \in Range(t) PROVE q \in Range(all)
    <3>1. PICK i \in 1..Len(t) : t[i] = q
      BY <1>2, <2>1 DEF Range
    <3>2. i + Len(s) \in 1..n /\ ~(i + Len(s) <= Len(s)) /\ i + Len(s) - Len(s) = i
      BY <1>2, <1>12
    <3>3. all[i + Len(s)] = q
      BY <1>6, <3>1, <3>2
    <3>4. QED  BY <1>6, <3>2, <3>3 DEF Range
  <2>2. QED  BY <2>1
<1>13. n >= Len(s) => Range(s) \subseteq Range(all)
  BY <1>10
<1>14. n = Len(s) => Range(all) = Range(s)
  <2>1. n = Len(s) => n >= Len(s)
    BY <1>2
  <2>2. QED  BY <1>11, <1>13, <2>1
<1>15. n = Len(s) + Len(t) => Range(t) \subseteq Range(all)
  BY <1>12
<1>16. QED  BY <1>5, <1>8, <1>9, <1>13, <1>14, <1>15 DEF Taken

LEMMA CountGrows ==
    ASSUME NEW A \in SUBSET Pages, NEW B \in SUBSET A, NEW chain, NEW c
    PROVE  ChainCount(B, chain, c) <= ChainCount(A, chain, c)
<1>1. PICK S : S = {p \in A : chain[p] = c}
  OBVIOUS
<1>2. PICK T : T = {p \in B : chain[p] = c}
  OBVIOUS
<1>3. T \in SUBSET S /\ IsFiniteSet(S)
  BY <1>1, <1>2, RecallAssumption, FS_Subset
<1>4. Cardinality(T) <= Cardinality(S)
  BY <1>3, FS_Subset
<1>5. QED  BY <1>1, <1>2, <1>4 DEF ChainCount

LEMMA HitsAreChosen ==
    ASSUME NEW k \in Int, k >= 1, NEW passing \in Seq(Pages), IsInjective(passing),
           NEW chain, \A p \in Pages : chain[p] = CandidateChain(p)
    PROVE  Chosen(TopKWithDiversity(passing, k), passing, k, chain)
<1>1. PICK acc : /\ SoFar(acc, passing, k, chain, Len(passing))
                 /\ TopKWithDiversity(passing, k) =
                       SubSeq(acc.selected \o acc.deferred, 1, Min({k, Len(acc.selected \o acc.deferred)}))
  BY LoopChooses
<1>2. PICK s, d : s = acc.selected /\ d = acc.deferred
  OBVIOUS
<1>3. PICK L : L = Len(passing)
  OBVIOUS
<1>4. L \in Nat /\ DOMAIN passing = 1..L /\ {passing[j] : j \in 1..L} = Range(passing)
  BY <1>3, LenProperties DEF Range
<1>5. /\ s \in Seq(Pages) /\ d \in Seq(Pages) /\ IsInjective(s) /\ IsInjective(d)
      /\ Range(s) \cap Range(d) = {} /\ Range(s) \cup Range(d) \subseteq Range(passing)
      /\ Len(s) <= k /\ Len(s) + Len(d) <= L
      /\ Len(s) < k => Range(passing) = Range(s) \cup Range(d) /\ Len(s) + Len(d) = L
      /\ \A g, h \in 1..L : g < h /\ passing[h] \in Range(s) \cup Range(d)
                               => passing[g] \in Range(s) \cup Range(d)
      /\ \A q \in Range(d) : Saturated(Range(s), chain, k, chain[q])
      /\ \A c : c # NoChain => ChainCount(Range(s), chain, c) <= ChainCap(k)
  BY <1>1, <1>2, <1>3, <1>4 DEF SoFar, Kept, Acc
<1>6. Len(s) \in Nat /\ Len(d) \in Nat
  BY <1>5
<1>7. PICK n : n = IF k <= Len(s) + Len(d) THEN k ELSE Len(s) + Len(d)
  OBVIOUS
<1>8. n \in Nat /\ n <= Len(s) + Len(d) /\ n >= Len(s) /\ n <= k
  BY <1>5, <1>6, <1>7
<1>9. PICK hits : hits = SubSeq(s \o d, 1, n)
  OBVIOUS
<1>10. hits = TopKWithDiversity(passing, k)
  <2>1. Len(s \o d) = Len(s) + Len(d)
    BY <1>5, ConcatProperties
  <2>2. Min({k, Len(s \o d)}) = n
    <3>1. PICK m : m = Len(s) + Len(d)
      OBVIOUS
    <3>2. m \in Int
      BY <1>6, <3>1
    <3>3. Min({k, m}) = IF k <= m THEN k ELSE m
      BY <3>2, TwoNumbers
    <3>4. QED  BY <1>7, <2>1, <3>1, <3>3
  <2>3. QED  BY <1>1, <1>2, <1>9, <2>2
<1>11. /\ Len(hits) = n /\ IsInjective(hits)
       /\ Range(hits) \subseteq Range(s) \cup Range(d)
       /\ Range(s) \subseteq Range(hits)
       /\ n = Len(s) => Range(hits) = Range(s)
       /\ n = Len(s) + Len(d) => Range(d) \subseteq Range(hits)
  <2>1. Taken(hits, s, d, n)
    <3>1. /\ s \in Seq(Pages) /\ d \in Seq(Pages) /\ IsInjective(s) /\ IsInjective(d)
          /\ Range(s) \cap Range(d) = {} /\ n \in Nat /\ n <= Len(s) + Len(d)
          /\ hits = SubSeq(s \o d, 1, n)
      BY <1>5, <1>8, <1>9
    <3>2. QED  BY <3>1, FirstOf
  <2>2. QED  BY <1>8, <2>1 DEF Taken
<1>12. Len(s) = k \/ Len(s) < k
  BY <1>5, <1>6
<1>13. Len(s) = k => n = k
  BY <1>5, <1>6, <1>7
<1>14. Len(hits) = Min({k, Len(passing)})
  <2>1. Min({k, L}) = IF k <= L THEN k ELSE L
    <3>1. L \in Int
      BY <1>4
    <3>2. QED  BY <3>1, TwoNumbers
  <2>2. n = IF k <= L THEN k ELSE L
    <3>1. CASE Len(s) = k
      BY <1>4, <1>5, <1>6, <1>13, <3>1
    <3>2. CASE Len(s) < k
      BY <1>5, <1>7, <3>2
    <3>3. QED  BY <1>12, <3>1, <3>2
  <2>3. QED  BY <1>3, <1>11, <2>1, <2>2
<1>15. \A q \in Range(d) : Saturated(Range(hits), chain, k, chain[q])
  <2>. SUFFICES ASSUME NEW q \in Range(d) PROVE Saturated(Range(hits), chain, k, chain[q])
    OBVIOUS
  <2>1. PICK A, B, c : A = Range(hits) /\ B = Range(s) /\ c = chain[q]
    OBVIOUS
  <2>2. Range(s) \subseteq Pages /\ Range(d) \subseteq Pages
    BY <1>5, LenProperties DEF Range
  <2>3. A \in SUBSET Pages /\ B \in SUBSET A
    BY <1>11, <2>1, <2>2
  <2>4. ChainCount(B, chain, c) <= ChainCount(A, chain, c)
    BY <2>3, CountGrows
  <2>5. c # NoChain /\ ChainCount(B, chain, c) >= ChainCap(k)
    BY <1>5, <2>1 DEF Saturated
  <2>6. ChainCount(A, chain, c) \in Int /\ ChainCount(B, chain, c) \in Int /\ ChainCap(k) \in Int
    <3>1. ASSUME NEW C \in SUBSET Pages PROVE ChainCount(C, chain, c) \in Int
      <4>1. PICK S : S = {p \in C : chain[p] = c}
        OBVIOUS
      <4>2. IsFiniteSet(S)
        BY <4>1, RecallAssumption, FS_Subset
      <4>3. QED  BY <4>1, <4>2, FS_CardinalityType DEF ChainCount
    <3>2. QED  BY <2>3, <3>1, CapType
  <2>7. QED  BY <2>1, <2>4, <2>5, <2>6 DEF Saturated
<1>16. ASSUME NEW i \in DOMAIN passing, NEW j \in DOMAIN passing,
              i < j, passing[i] \notin Range(hits), passing[j] \in Range(hits)
       PROVE  Saturated(Range(hits), chain, k, chain[passing[i]])
  <2>1. passing[i] \in Range(s) \cup Range(d)
    BY <1>4, <1>5, <1>11, <1>16
  <2>2. passing[i] \in Range(d)
    BY <1>11, <1>16, <2>1
  <2>3. QED  BY <1>15, <2>2
<1>17. ASSUME NEW c, c # NoChain, ChainCount(Range(hits), chain, c) > ChainCap(k),
              NEW p \in Range(passing) \ Range(hits)
       PROVE  Saturated(Range(hits), chain, k, chain[p])
  <2>1. Len(s) < k
    <3>1. CASE Len(s) = k
      <4>1. Range(hits) = Range(s)
        BY <1>11, <1>13, <3>1
      <4>2. PICK m : m = ChainCount(Range(s), chain, c)
        OBVIOUS
      <4>3. m <= ChainCap(k) /\ m > ChainCap(k) /\ m \in Int /\ ChainCap(k) \in Int
        <5>1. m <= ChainCap(k) /\ m > ChainCap(k)
          BY <1>5, <1>17, <4>1, <4>2
        <5>2. m \in Int
          <6>1. PICK S : S = {q \in Range(s) : chain[q] = c}
            OBVIOUS
          <6>2. Range(s) \subseteq Pages
            BY <1>5, LenProperties DEF Range
          <6>3. IsFiniteSet(S)
            BY <6>1, <6>2, RecallAssumption, FS_Subset
          <6>4. QED  BY <4>2, <6>1, <6>3, FS_CardinalityType DEF ChainCount
        <5>3. QED  BY <5>1, <5>2, CapType
      <4>4. QED  BY <4>3
    <3>2. QED  BY <1>12, <3>1
  <2>2. p \in Range(d)
    BY <1>5, <1>11, <1>17, <2>1
  <2>3. QED  BY <1>15, <2>2
<1>18. Range(hits) \subseteq Range(passing)
  BY <1>5, <1>11
<1>19. Chosen(hits, passing, k, chain)
  BY <1>11, <1>14, <1>16, <1>17, <1>18 DEF Chosen
<1>20. QED  BY <1>10, <1>19

-----------------------------------------------------------------------------
(* The search as a whole.                                                  *)

Chains == [p \in Pages |-> CandidateChain(p)]

\* What a page was found by, it was current then; the ranking that passed is
\* of pages that were found, and the hits are chosen from it.
RecallInv ==
    /\ RecallTypeOK /\ topK \in Int
    /\ hidden \cap current = {} /\ hidden \cap (direct \cup viaGraph) = {}
    /\ exact \in Seq(Pages) /\ IsInjective(exact) /\ Range(exact) \subseteq direct
    /\ stage = "exact" => direct = {}
    /\ stage \in {"exact", "bm25", "semantic", "graph"} => viaGraph = {}
    /\ stage # "done" => answer = [passing |-> <<>>, hits |-> <<>>]
    /\ stage = "done" =>
          /\ answer.passing \in Seq(Pages) /\ IsInjective(answer.passing)
          /\ Chosen(answer.hits, answer.passing, DynamicTopK(Len(answer.passing)), Chains)

LEMMA RankingFacts ==
    ASSUME NEW found \in SUBSET Pages, NEW s \in Rankings(found)
    PROVE  s \in Seq(Pages) /\ s \in Seq(found) /\ IsInjective(s) /\ Range(s) \subseteq found
<1>1. IsInjective(s) /\ s \in BoundedSeq(found, Cardinality(found))
  BY DEF Rankings
<1>2. IsFiniteSet(found) /\ Cardinality(found) \in Nat
  BY RecallAssumption, FS_Subset, FS_CardinalityType
<1>3. PICK m \in 0..Cardinality(found) : s \in [1..m -> found]
  BY <1>1 DEF BoundedSeq, SeqOf
<1>4. m \in Nat /\ s \in Seq(found) /\ s \in Seq(Pages) /\ DOMAIN s = 1..m
  <2>1. m \in Nat
    BY <1>2
  <2>2. s \in [1..m -> found] /\ s \in [1..m -> Pages]
    BY <1>3
  <2>3. QED  BY <2>1, <2>2
<1>5. Range(s) \subseteq found
  BY <1>3, <1>4 DEF Range
<1>6. QED  BY <1>1, <1>4, <1>5

LEMMA RecallStart == RecallInit => RecallInv
<1>. SUFFICES ASSUME RecallInit PROVE RecallInv
  OBVIOUS
<1>1. <<>> \in Seq(Pages) /\ Range(<<>>) = {} /\ IsInjective(<<>>) /\ Len(<<>>) = 0
  BY DEF Range, IsInjective
<1>2. /\ exact = <<>> /\ direct = {} /\ viaGraph = {} /\ hidden = Pages \ current
      /\ current \subseteq Pages /\ stage = "exact" /\ topK \in TopKs /\ turns = 0
      /\ answer = [passing |-> <<>>, hits |-> <<>>]
  BY DEF RecallInit
<1>3. answer.passing = <<>> /\ answer.hits = <<>>
  BY <1>2
<1>4. /\ Range(exact) = {} /\ Len(exact) = 0 /\ IsInjective(exact) /\ exact \in Seq(Pages)
      /\ Range(answer.passing) = {} /\ Range(answer.hits) = {}
  BY <1>1, <1>2, <1>3
<1>5. 0 <= ExactLimit /\ 0 \in 0..TurnBound /\ topK \in Int
  BY <1>2, RecallAssumption
<1>6. RecallTypeOK
  BY <1>2, <1>4, <1>5 DEF RecallTypeOK, Stages
<1>7. QED  BY <1>2, <1>4, <1>5, <1>6 DEF RecallInv

\* A stage before the answer finds current pages.
Finds(next) ==
    /\ stage # "done" /\ stage' = next /\ next \in Stages \ {"exact", "done"}
    /\ next # "rerank" => viaGraph' = {}
    /\ direct \subseteq direct' /\ direct' \cup viaGraph' \subseteq direct \cup viaGraph \cup current
    /\ direct' \cap viaGraph' = {}
    /\ exact' \in Seq(Pages) /\ IsInjective(exact') /\ Range(exact') \subseteq direct'
    /\ Len(exact') <= ExactLimit
    /\ UNCHANGED <<current, topK, answer, hidden, turns>>

LEMMA FindsKeeps ==
    ASSUME RecallInv, NEW next, Finds(next)
    PROVE  RecallInv'
<1>1. /\ current \subseteq Pages /\ hidden \subseteq Pages /\ topK \in TopKs /\ topK \in Int
      /\ turns \in 0..TurnBound /\ direct \cup viaGraph \subseteq Pages
      /\ hidden \cap current = {} /\ hidden \cap (direct \cup viaGraph) = {}
      /\ answer = [passing |-> <<>>, hits |-> <<>>]
  BY DEF RecallInv, RecallTypeOK, Finds
<1>2. /\ stage' # "done" /\ stage' \in Stages /\ stage' # "exact"
      /\ stage' # "rerank" => viaGraph' = {}
      /\ answer' = [passing |-> <<>>, hits |-> <<>>]
      /\ current' = current /\ hidden' = hidden /\ topK' = topK /\ turns' = turns
      /\ direct' \cup viaGraph' \subseteq Pages /\ direct' \cap viaGraph' = {}
      /\ hidden' \cap (direct' \cup viaGraph') = {}
      /\ exact' \in Seq(Pages) /\ IsInjective(exact') /\ Range(exact') \subseteq direct'
      /\ Len(exact') <= ExactLimit
  BY <1>1 DEF Finds
<1>3. Range(answer'.passing) = {} /\ Range(answer'.hits) = {}
  <2>1. answer'.passing = <<>> /\ answer'.hits = <<>> /\ Range(<<>>) = {}
    BY <1>2 DEF Range
  <2>2. QED  BY <2>1
<1>4. RecallTypeOK'
  BY <1>1, <1>2, <1>3 DEF RecallTypeOK
<1>5. QED  BY <1>1, <1>2, <1>4 DEF RecallInv

LEMMA ExactKeeps == ASSUME RecallInv, RunExactChannel PROVE RecallInv'
<1>1. PICK s \in Rankings(current) : Len(s) <= ExactLimit /\ exact' = s /\ direct' = Range(s)
  BY DEF RunExactChannel
<1>2. current \in SUBSET Pages
  BY DEF RecallInv, RecallTypeOK
<1>3. s \in Seq(Pages) /\ IsInjective(s) /\ Range(s) \subseteq current
  BY <1>1, <1>2, RankingFacts
<1>4. direct = {} /\ viaGraph = {}
  BY DEF RecallInv, RunExactChannel
<1>5. Finds("bm25")
  BY <1>1, <1>3, <1>4 DEF RunExactChannel, Finds, Stages
<1>6. QED  BY <1>5, FindsKeeps

LEMMA MoreKeeps == ASSUME RecallInv, RunBm25Channel \/ RunSemanticChannel PROVE RecallInv'
<1>1. PICK next \in {"semantic", "graph"} : FindMore(next) /\ stage \in {"bm25", "semantic"}
  BY DEF RunBm25Channel, RunSemanticChannel
<1>2. PICK found \in SUBSET current : direct' = direct \cup found
  BY <1>1 DEF FindMore
<1>3. viaGraph = {} /\ exact \in Seq(Pages) /\ IsInjective(exact) /\ Range(exact) \subseteq direct
      /\ Len(exact) <= ExactLimit
  BY <1>1 DEF RecallInv, RecallTypeOK
<1>4. Finds(next)
  BY <1>1, <1>2, <1>3 DEF FindMore, Finds, Stages
<1>5. QED  BY <1>4, FindsKeeps

LEMMA GraphKeeps == ASSUME RecallInv, RunGraphChannel PROVE RecallInv'
<1>1. PICK focal \in Focal : \E found \in SUBSET Nearby(focal, current) : viaGraph' = found \ direct
  BY DEF RunGraphChannel, kSubset
<1>2. PICK found : found \subseteq current /\ viaGraph' = found \ direct
  BY <1>1 DEF Nearby
<1>3. exact \in Seq(Pages) /\ IsInjective(exact) /\ Range(exact) \subseteq direct
      /\ Len(exact) <= ExactLimit
  BY DEF RecallInv, RecallTypeOK
<1>4. Finds("rerank")
  BY <1>1, <1>2, <1>3 DEF RunGraphChannel, Finds, Stages
<1>5. QED  BY <1>4, FindsKeeps

LEMMA ChangeKeeps == ASSUME RecallInv, NEW p \in Pages, TablesChange(p) PROVE RecallInv'
<1>1. /\ current' \subseteq Pages /\ hidden' = hidden \ current' /\ turns' \in 0..TurnBound
      /\ stage # "done"
      /\ UNCHANGED <<stage, topK, exact, direct, viaGraph, answer>>
  BY RecallAssumption DEF RecallInv, RecallTypeOK, TablesChange
<1>2. RecallTypeOK'
  BY <1>1 DEF RecallInv, RecallTypeOK
<1>3. QED  BY <1>1, <1>2 DEF RecallInv

LEMMA RerankKeeps == ASSUME RecallInv, Rerank PROVE RecallInv'
<1>1. PICK others \in Rankings((direct \cup viaGraph) \ Range(exact)) :
         answer' = [passing |-> exact \o others,
                    hits |-> TopKWithDiversity(exact \o others, DynamicTopK(Len(exact \o others)))]
  BY DEF Rerank
<1>2. PICK passing : passing = exact \o others
  OBVIOUS
<1>3. /\ exact \in Seq(Pages) /\ IsInjective(exact) /\ Range(exact) \subseteq direct
      /\ direct \cup viaGraph \subseteq Pages /\ topK \in Int
  BY DEF RecallInv, RecallTypeOK
<1>4. PICK rest : rest = (direct \cup viaGraph) \ Range(exact)
  OBVIOUS
<1>5. others \in Seq(Pages) /\ IsInjective(others) /\ Range(others) \subseteq rest
  <2>1. rest \in SUBSET Pages /\ others \in Rankings(rest)
    BY <1>3, <1>4
  <2>2. QED  BY <2>1, RankingFacts
<1>6. passing \in Seq(Pages) /\ IsInjective(passing) /\ Range(passing) \subseteq direct \cup viaGraph
  BY <1>2, <1>3, <1>4, <1>5, Joined
<1>7. PICK k : k = DynamicTopK(Len(passing))
  OBVIOUS
<1>8. k \in Int /\ k >= 1
  BY <1>3, <1>6, <1>7, TopKType
<1>9. PICK chain : chain = [p \in Pages |-> CandidateChain(p)]
  OBVIOUS
<1>10. \A p \in Pages : chain[p] = CandidateChain(p)
  BY <1>9
<1>11. PICK hits : hits = TopKWithDiversity(passing, k)
  OBVIOUS
<1>12. Chosen(hits, passing, k, chain)
  BY <1>6, <1>8, <1>10, <1>11, HitsAreChosen
<1>13. answer' = [passing |-> passing, hits |-> hits] /\ answer'.passing = passing /\ answer'.hits = hits
  BY <1>1, <1>2, <1>7, <1>11
<1>14. stage' = "done" /\ UNCHANGED <<current, topK, exact, direct, viaGraph, hidden, turns>>
  BY DEF Rerank
<1>15. Chains' = chain
  BY <1>9, <1>14 DEF Chains, CandidateChain
<1>16. DynamicTopK(Len(passing))' = k
  BY <1>7, <1>14 DEF DynamicTopK
<1>17. Chosen(answer.hits, answer.passing, DynamicTopK(Len(answer.passing)), Chains)'
  BY <1>12, <1>13, <1>15, <1>16, <1>7, <1>14 DEF DynamicTopK
<1>18. RecallTypeOK'
  BY <1>6, <1>12, <1>13, <1>14 DEF RecallInv, RecallTypeOK, Stages, Chosen
<1>19. QED  BY <1>6, <1>13, <1>14, <1>17, <1>18 DEF RecallInv

LEMMA RecallKeeps == RecallInv /\ [RecallNext]_recallVars => RecallInv'
<1>. SUFFICES ASSUME RecallInv, [RecallNext]_recallVars PROVE RecallInv'
  OBVIOUS
<1>1. CASE RunExactChannel
  BY <1>1, ExactKeeps
<1>2. CASE RunBm25Channel \/ RunSemanticChannel
  BY <1>2, MoreKeeps
<1>3. CASE RunGraphChannel
  BY <1>3, GraphKeeps
<1>4. CASE Rerank
  BY <1>4, RerankKeeps
<1>5. ASSUME NEW p \in Pages, TablesChange(p) PROVE RecallInv'
  BY <1>5, ChangeKeeps
<1>6. CASE UNCHANGED recallVars
  <2>1. Chains' = Chains
    BY <1>6 DEF recallVars, Chains, CandidateChain
  <2>2. UNCHANGED <<current, stage, topK, exact, direct, viaGraph, answer, hidden, turns>>
    BY <1>6 DEF recallVars
  <2>3. DynamicTopK(Len(answer.passing))' = DynamicTopK(Len(answer.passing))
    BY <2>2 DEF DynamicTopK
  <2>4. RecallTypeOK'
    BY <2>2 DEF RecallInv, RecallTypeOK
  <2>5. QED  BY <2>1, <2>2, <2>3, <2>4 DEF RecallInv
<1>7. QED  BY <1>1, <1>2, <1>3, <1>4, <1>5, <1>6 DEF RecallNext

LEMMA SearchHolds == RecallInv => SearchAnswers
<1>. SUFFICES ASSUME RecallInv, stage = "done" PROVE SearchAnswers
  BY DEF SearchAnswers
<1>1. PICK hits, passing : hits = answer.hits /\ passing = answer.passing
  OBVIOUS
<1>2. PICK k : k = DynamicTopK(Len(passing))
  OBVIOUS
<1>3. /\ passing \in Seq(Pages) /\ IsInjective(passing)
      /\ Chosen(hits, passing, k, Chains)
      /\ Range(passing) \subseteq direct \cup viaGraph /\ direct \cup viaGraph \subseteq Pages
      /\ hidden \cap (direct \cup viaGraph) = {}
  BY <1>1, <1>2 DEF RecallInv, RecallTypeOK
<1>4. IsInjective(hits) /\ Len(hits) = Min({k, Len(passing)}) /\ Range(hits) \subseteq Range(passing)
  BY <1>3 DEF Chosen
<1>5. RoomIsUsed /\ Range(hits) \cap hidden = {}
  BY <1>1, <1>2, <1>3, <1>4 DEF RoomIsUsed
<1>6. \A p \in Pages : Chains[p] = CandidateChain(p)
  BY DEF Chains
<1>7. ASSUME NEW c PROVE InChain(c) = {p \in Range(hits) : Chains[p] = c}
  BY <1>1, <1>3, <1>4, <1>6 DEF InChain
<1>8. ASSUME NEW c, Saturated(Range(hits), Chains, k, c) PROVE Full(c)
  <2>1. c # NoChain /\ Cardinality(InChain(c)) >= ChainCap(k)
    BY <1>7, <1>8 DEF Saturated, ChainCount
  <2>2. QED  BY <1>1, <1>2, <2>1 DEF Full
<1>9. ASSUME NEW p \in Range(passing) PROVE Place(passing, p) \in DOMAIN passing /\ passing[Place(passing, p)] = p
  <2>1. \E i \in DOMAIN passing : passing[i] = p
    BY <1>9 DEF Range
  <2>2. QED  BY <2>1 DEF Place
<1>10. ASSUME NEW p \in Range(passing) \ Range(hits), NEW q \in Range(hits), Better(p, q)
       PROVE  Full(CandidateChain(p))
  <2>1. PICK i, j : i = Place(passing, p) /\ j = Place(passing, q)
    OBVIOUS
  <2>2. i \in DOMAIN passing /\ j \in DOMAIN passing /\ passing[i] = p /\ passing[j] = q
    BY <1>4, <1>9, <2>1
  <2>3. i < j
    BY <1>1, <1>10, <2>1 DEF Better
  <2>4. Saturated(Range(hits), Chains, k, Chains[p])
    BY <1>3, <2>2, <2>3 DEF Chosen
  <2>5. QED  BY <1>3, <1>6, <1>8, <2>4
<1>11. ASSUME NEW c, Full(c), Cardinality(InChain(c)) > ChainCap(DynamicTopK(Len(answer.passing))),
              NEW p \in Range(passing) \ Range(hits)
       PROVE  Full(CandidateChain(p))
  <2>1. c # NoChain /\ ChainCount(Range(hits), Chains, c) > ChainCap(k)
    BY <1>1, <1>2, <1>7, <1>11 DEF Full, ChainCount
  <2>2. Saturated(Range(hits), Chains, k, Chains[p])
    BY <1>3, <2>1 DEF Chosen
  <2>3. QED  BY <1>3, <1>6, <1>8, <2>2
<1>12. CapsAreFair
  BY <1>1, <1>10, <1>11 DEF CapsAreFair
<1>13. QED  BY <1>1, <1>5, <1>12 DEF SearchAnswers

\* A search answers with distinct pages that were current, as many as there is
\* room for, and passes over a page only for a chain that has its share: for
\* every set of pages, limits and order of scores.
THEOREM SearchesAnswer == RecallSpec => []SearchAnswers
<1>1. RecallSpec => []RecallInv
  BY RecallStart, RecallKeeps, PTL DEF RecallSpec
<1>2. QED  BY <1>1, SearchHolds, PTL

-----------------------------------------------------------------------------
(* The packet: sequences put together.                                     *)

\* What Filter keeps of a sequence without repetitions.
Filtered(f, s, T, D) == f \in Seq(D) /\ IsInjective(f) /\ Range(f) = Range(s) \cap T

LEMMA FilterFacts ==
    ASSUME NEW D, NEW s \in Seq(D), IsInjective(s), NEW T
    PROVE  Filtered(Filter(s, T), s, T, D)
<1>. DEFINE n == Len(s)
            step == [e \in (1..n) \X Seq(D) |-> IF s[e[1]] \in T THEN Append(e[2], s[e[1]]) ELSE e[2]]
            Eq(f) == f = [i \in 0..n |-> IF i = 0 THEN <<>>
                                         ELSE IF s[i] \in T THEN Append(f[i - 1], s[i]) ELSE f[i - 1]]
<1>1. n \in Nat /\ DOMAIN s = 1..n /\ \A i \in 1..n : s[i] \in D
  BY LenProperties
<1>2. StepFunction(1..n, Seq(D), step)
      /\ \A i \in 1..n, a \in Seq(D) : step[<<i, a>>] = IF s[i] \in T THEN Append(a, s[i]) ELSE a
  <2>1. \A e \in (1..n) \X Seq(D) : (IF s[e[1]] \in T THEN Append(e[2], s[e[1]]) ELSE e[2]) \in Seq(D)
    BY <1>1, AppendProperties
  <2>2. QED  BY <2>1 DEF StepFunction
<1>. HIDE DEF step, n
<1>3. <<>> \in Seq(D)
  BY EmptySeq
<1>4. \E f : Eq(f)
  <2>1. PICK f : IsRun(f, n, Seq(D), <<>>, step)
    BY <1>1, <1>2, <1>3, RunDefined
  <2>2. f \in [0..n -> Seq(D)] /\ f[0] = <<>> /\ \A i \in 1..n : f[i] = step[<<i, f[i - 1]>>]
    BY <2>1 DEF IsRun
  <2>3. ASSUME NEW i \in 1..n
        PROVE  f[i] = IF s[i] \in T THEN Append(f[i - 1], s[i]) ELSE f[i - 1]
    <3>1. PICK a : a = f[i - 1]
      OBVIOUS
    <3>2. i - 1 \in 0..n
      BY <1>1
    <3>3. a \in Seq(D) /\ f[i] = step[<<i, a>>]
      BY <2>2, <3>1, <3>2
    <3>4. QED  BY <1>2, <3>1, <3>3
  <2>4. ASSUME NEW i \in 0..n
        PROVE  f[i] = IF i = 0 THEN <<>> ELSE IF s[i] \in T THEN Append(f[i - 1], s[i]) ELSE f[i - 1]
    <3>1. i = 0 \/ i \in 1..n
      BY <1>1
    <3>2. QED  BY <2>2, <2>3, <3>1
  <2>5. f = [i \in 0..n |-> f[i]]
    BY <2>2
  <2>6. QED  BY <2>4, <2>5
<1>5. PICK kept : kept = CHOOSE f : Eq(f)
  OBVIOUS
<1>6. Eq(kept)
  BY <1>4, <1>5
<1>7. Filter(s, T) = kept[n]
  BY <1>5 DEF Filter, n
<1>8. kept[0] = <<>> /\ \A i \in 1..n : kept[i] = IF s[i] \in T THEN Append(kept[i - 1], s[i]) ELSE kept[i - 1]
  <2>1. 0 \in 0..n /\ \A i \in 1..n : i \in 0..n /\ i # 0
    BY <1>1
  <2>2. QED  BY <1>6, <2>1
<1>. HIDE DEF Eq
<1>. DEFINE Good(k, i) == k \in Seq(D) /\ IsInjective(k) /\ Range(k) = {s[j] : j \in 1..i} \cap T
            G == {i \in 0..n : Good(kept[i], i)}
<1>9. 0 \in G
  <2>1. <<>> \in Seq(D) /\ IsInjective(<<>>) /\ Range(<<>>) = {} /\ {s[j] : j \in 1..0} = {}
    BY <1>3 DEF IsInjective, Range
  <2>2. PICK k : k = kept[0]
    OBVIOUS
  <2>3. k \in Seq(D) /\ IsInjective(k) /\ Range(k) = {s[j] : j \in 1..0} \cap T
    BY <1>8, <2>1, <2>2
  <2>4. Good(kept[0], 0)
    BY <2>2, <2>3
  <2>. HIDE DEF Good
  <2>5. QED  BY <1>1, <2>4
<1>10. ASSUME NEW i \in 1..n, i - 1 \in G PROVE i \in G
  <2>1. PICK k : k = kept[i - 1]
    OBVIOUS
  <2>2. Good(k, i - 1)
    BY <1>10, <2>1
  <2>3. {s[j] : j \in 1..i} = {s[j] : j \in 1..(i - 1)} \cup {s[i]}
    <3>1. \A j : j \in 1..i <=> j \in 1..(i - 1) \/ j = i
      BY <1>1
    <3>2. QED  BY <3>1
  <2>4. s[i] \notin {s[j] : j \in 1..(i - 1)}
    <3>1. \A j \in 1..(i - 1) : j \in DOMAIN s /\ i \in DOMAIN s /\ j # i
      BY <1>1
    <3>2. QED  BY <3>1 DEF IsInjective
  <2>5. CASE s[i] \in T
    <3>1. kept[i] = Append(k, s[i])
      BY <1>8, <2>1, <2>5
    <3>2. s[i] \in D /\ k \in Seq(D) /\ IsInjective(k) /\ s[i] \notin Range(k)
      BY <1>1, <2>2, <2>4
    <3>3. Append(k, s[i]) \in Seq(D) /\ IsInjective(Append(k, s[i])) /\ Range(Append(k, s[i])) = Range(k) \cup {s[i]}
      BY <3>2, Longer
    <3>4. Good(kept[i], i)
      BY <2>2, <2>3, <2>5, <3>1, <3>3
    <3>5. QED  BY <1>1, <3>4
  <2>6. CASE s[i] \notin T
    <3>1. kept[i] = k
      BY <1>8, <2>1, <2>6
    <3>2. Good(k, i)
      BY <2>2, <2>3, <2>6
    <3>3. QED  BY <1>1, <3>1, <3>2
  <2>7. QED  BY <2>5, <2>6
<1>. HIDE DEF Good, G
<1>11. n \in G
  <2>1. \A i \in 0..n : i \in G
    BY <1>1, <1>9, <1>10, CountUp
  <2>2. QED  BY <1>1, <2>1
<1>12. Good(kept[n], n)
  BY <1>11 DEF G
<1>13. {s[j] : j \in 1..n} = Range(s)
  BY <1>1 DEF Range
<1>14. QED  BY <1>7, <1>12, <1>13 DEF Good, Filtered

\* What FlattenSeq makes of several sequences.
Flattened(f, ss, D) ==
    /\ f \in Seq(D) /\ Range(f) = UNION {Range(ss[i]) : i \in 1..Len(ss)}
    /\ /\ \A i \in 1..Len(ss) : IsInjective(ss[i])
       /\ \A i, j \in 1..Len(ss) : i < j => Range(ss[i]) \cap Range(ss[j]) = {}
       => IsInjective(f)

LEMMA FlattenFacts ==
    ASSUME NEW D, NEW ss \in Seq(Seq(D)), Len(ss) > 0
    PROVE  Flattened(FlattenSeq(ss), ss, D)
<1>. DEFINE n == Len(ss)
            step == [e \in (1..n) \X Seq(D) |-> e[2] \o ss[e[1]]]
            Eq(f) == f = [i \in 1..n |-> IF i = 1 THEN ss[i] ELSE f[i - 1] \o ss[i]]
<1>1. n \in Nat /\ n >= 1 /\ DOMAIN ss = 1..n /\ \A i \in 1..n : ss[i] \in Seq(D)
  BY LenProperties
<1>2. StepFunction(1..n, Seq(D), step) /\ \A i \in 1..n, a \in Seq(D) : step[<<i, a>>] = a \o ss[i]
  <2>1. \A e \in (1..n) \X Seq(D) : e[2] \o ss[e[1]] \in Seq(D)
    BY <1>1, ConcatProperties
  <2>2. QED  BY <2>1 DEF StepFunction
<1>3. FlattenSeq(ss) = (CHOOSE f : Eq(f))[n]
  BY <1>1 DEF FlattenSeq
<1>. HIDE DEF step, n
<1>4. <<>> \in Seq(D)
  BY EmptySeq
<1>5. \E f : Eq(f)
  <2>1. PICK f : IsRun(f, n, Seq(D), <<>>, step)
    BY <1>1, <1>2, <1>4, RunDefined
  <2>2. f \in [0..n -> Seq(D)] /\ f[0] = <<>> /\ \A i \in 1..n : f[i] = step[<<i, f[i - 1]>>]
    BY <2>1 DEF IsRun
  <2>3. ASSUME NEW i \in 1..n PROVE f[i] = f[i - 1] \o ss[i] /\ f[i - 1] \in Seq(D)
    <3>1. PICK a : a = f[i - 1]
      OBVIOUS
    <3>2. i - 1 \in 0..n
      BY <1>1
    <3>3. a \in Seq(D) /\ f[i] = step[<<i, a>>]
      BY <2>2, <3>1, <3>2
    <3>4. QED  BY <1>2, <3>1, <3>3
  <2>4. f[1] = ss[1]
    <3>1. 1 \in 1..n /\ 1 - 1 = 0
      BY <1>1
    <3>2. f[1] = f[0] \o ss[1]
      BY <2>3, <3>1
    <3>3. ss[1] \in Seq(D)
      BY <1>1, <3>1
    <3>4. <<>> \o ss[1] = ss[1]
      BY <3>3, ConcatEmptySeq
    <3>5. QED  BY <2>2, <3>2, <3>4
  <2>5. PICK g : g = [i \in 1..n |-> f[i]]
    OBVIOUS
  <2>6. ASSUME NEW i \in 1..n PROVE f[i] = IF i = 1 THEN ss[i] ELSE g[i - 1] \o ss[i]
    <3>1. CASE i = 1
      BY <2>4, <3>1
    <3>2. CASE i # 1
      <4>1. i - 1 \in 1..n
        BY <1>1, <3>2
      <4>2. g[i - 1] = f[i - 1]
        BY <2>5, <4>1
      <4>3. QED  BY <2>3, <3>2, <4>2
    <3>3. QED  BY <3>1, <3>2
  <2>7. Eq(g)
    BY <2>5, <2>6
  <2>8. QED  BY <2>7
<1>6. PICK flat : flat = CHOOSE f : Eq(f)
  OBVIOUS
<1>7. Eq(flat)
  BY <1>5, <1>6
<1>8. flat[1] = ss[1] /\ \A i \in 1..n : i # 1 => flat[i] = flat[i - 1] \o ss[i]
  <2>1. 1 \in 1..n
    BY <1>1
  <2>2. QED  BY <1>7, <2>1
<1>. HIDE DEF Eq
<1>. DEFINE Upto(i) == UNION {Range(ss[j]) : j \in 1..i}
            Apart == /\ \A i \in 1..n : IsInjective(ss[i])
                     /\ \A i, j \in 1..n : i < j => Range(ss[i]) \cap Range(ss[j]) = {}
            Good(k, i) == k \in Seq(D) /\ Range(k) = Upto(i) /\ (Apart => IsInjective(k))
            G == {0} \cup {i \in 1..n : Good(flat[i], i)}
<1>9. ASSUME NEW i \in 1..n, i - 1 \in G PROVE i \in G
  <2>1. CASE i = 1
    <3>1. Upto(1) = Range(ss[1])
      <4>1. 1..1 = {1}
        OBVIOUS
      <4>2. QED  BY <4>1
    <3>2. 1 \in 1..n
      BY <1>1
    <3>3. Good(ss[1], 1)
      BY <1>1, <3>1, <3>2
    <3>4. QED  BY <1>8, <2>1, <3>2, <3>3
  <2>2. CASE i # 1
    <3>1. PICK k, t : k = flat[i - 1] /\ t = ss[i]
      OBVIOUS
    <3>2. i - 1 \in 1..n /\ i - 1 # 0
      BY <1>1, <2>2
    <3>3. Good(k, i - 1) /\ t \in Seq(D)
      BY <1>1, <1>9, <3>1, <3>2
    <3>4. flat[i] = k \o t
      BY <1>8, <2>2, <3>1
    <3>5. k \o t \in Seq(D) /\ Range(k \o t) = Range(k) \cup Range(t)
          /\ (IsInjective(k) /\ IsInjective(t) /\ Range(k) \cap Range(t) = {} => IsInjective(k \o t))
      <4>1. k \in Seq(D) /\ t \in Seq(D)
        BY <3>3
      <4>2. QED  BY <4>1, Joined
    <3>6. Upto(i) = Upto(i - 1) \cup Range(t)
      <4>1. \A j : j \in 1..i <=> j \in 1..(i - 1) \/ j = i
        BY <1>1
      <4>2. QED  BY <3>1, <4>1
    <3>7. ASSUME Apart PROVE IsInjective(t) /\ Upto(i - 1) \cap Range(t) = {}
      <4>1. \A j \in 1..(i - 1) : j \in 1..n /\ j < i
        BY <1>1
      <4>2. \A j \in 1..(i - 1) : Range(ss[j]) \cap Range(t) = {}
        BY <3>1, <3>7, <4>1
      <4>3. QED  BY <3>1, <3>7, <4>2
    <3>. HIDE DEF Upto, Apart
    <3>8. Good(k \o t, i)
      BY <3>3, <3>5, <3>6, <3>7
    <3>9. QED  BY <3>4, <3>8
  <2>3. QED  BY <2>1, <2>2
<1>. HIDE DEF Good, G
<1>10. n \in G
  <2>1. 0 \in G
    BY DEF G
  <2>2. \A i \in 0..n : i \in G
    BY <1>1, <1>9, <2>1, CountUp
  <2>3. QED  BY <1>1, <2>2
<1>11. Good(flat[n], n)
  BY <1>1, <1>10 DEF G
<1>12. QED  BY <1>3, <1>6, <1>11 DEF Good, Flattened, n

LEMMA FunctionIsSeq ==
    ASSUME NEW D, NEW n \in Nat, NEW s \in [1..n -> D]
    PROVE  s \in Seq(D) /\ Len(s) = n /\ DOMAIN s = 1..n
OBVIOUS

LEMMA CappedFacts ==
    ASSUME NEW D, NEW s \in Seq(D), NEW n \in Nat
    PROVE  /\ CappedTo(s, n) \in Seq(D) /\ Range(CappedTo(s, n)) \subseteq Range(s)
           /\ IsInjective(s) => IsInjective(CappedTo(s, n))
<1>1. PICK m : m = IF Len(s) < n THEN Len(s) ELSE n
  OBVIOUS
<1>2. Len(s) \in Nat /\ DOMAIN s = 1..Len(s) /\ s \in [1..Len(s) -> D]
  BY LenProperties
<1>3. m \in Nat /\ m <= Len(s)
  BY <1>1, <1>2
<1>4. \A i \in 1..m : i \in DOMAIN s /\ s[i] \in D
  BY <1>2, <1>3
<1>5. PICK t : t = SubSeq(s, 1, m)
  OBVIOUS
<1>6. t \in Seq(D) /\ Len(t) = m /\ \A i \in 1..m : t[i] = s[i]
  <2>1. /\ t \in Seq(D) /\ Len(t) = IF 1 <= m THEN m - 1 + 1 ELSE 0
        /\ \A i \in 1..(m - 1 + 1) : t[i] = s[1 + i - 1]
    BY <1>3, <1>4, <1>5, SubSeqProperties
  <2>2. QED  BY <1>3, <2>1
<1>7. DOMAIN t = 1..m
  BY <1>6, LenProperties
<1>8. Range(t) \subseteq Range(s)
  BY <1>4, <1>6, <1>7 DEF Range
<1>9. IsInjective(s) => IsInjective(t)
  BY <1>4, <1>6, <1>7 DEF IsInjective
<1>10. QED  BY <1>1, <1>5, <1>6, <1>8, <1>9 DEF CappedTo

Length == Len(Note)
Followed == {"after", "before", "caused_by", "failed_due_to", "linked_decision", "part_of_chain",
             "resolved_by", "supersedes", "supports_solution"}
Relations == Followed \cup UNION {Note[n].rels : n \in Notes}
Freshness == {"fresh"} \cup {Note[n].fresh : n \in Notes}
Lives == {"none"} \cup {Note[n].life : n \in Notes}

LEMMA NoteFacts ==
    /\ Length \in Nat /\ Notes = 1..Length
    /\ \A n \in Notes : /\ Note[n].chain \in 0..Length
                        /\ Note[n].fresh \in Freshness /\ Note[n].rels \subseteq Relations
<1>. DEFINE R == [type : STRING, chain : Nat, fresh : STRING, life : STRING,
                  rels : SUBSET STRING, hint : STRING]
<1>1. Note \in Seq(R) /\ \A n \in Notes : Note[n].chain <= Len(Note)
  BY TaskAssumption
<1>2. Length \in Nat /\ Notes = 1..Length /\ Note \in [1..Length -> R]
  BY <1>1, LenProperties DEF Length, Notes
<1>3. ASSUME NEW n \in Notes
      PROVE  /\ Note[n].chain \in 0..Length
             /\ Note[n].fresh \in Freshness /\ Note[n].rels \subseteq Relations
  <2>1. Note[n] \in R
    BY <1>2
  <2>2. Note[n].chain \in Nat /\ Note[n].chain <= Length
    BY <1>1, <2>1 DEF Length
  <2>3. Note[n].fresh \in Freshness /\ Note[n].rels \subseteq Relations
    BY DEF Freshness, Relations
  <2>4. QED  BY <1>2, <2>2, <2>3
<1>4. QED  BY <1>2, <1>3

LEMMA InOrderFacts ==
    ASSUME NEW S
    PROVE  /\ InOrder(S) \in Seq(0..Length) /\ IsInjective(InOrder(S))
           /\ Range(InOrder(S)) = S \cap 0..Length
<1>1. PICK s : s = [k \in 1..(Length + 1) |-> k - 1]
  OBVIOUS
<1>2. Length \in Nat
  BY NoteFacts
<1>3. DOMAIN s = 1..(Length + 1) /\ \A k \in 1..(Length + 1) : s[k] = k - 1 /\ s[k] \in 0..Length
  BY <1>1, <1>2
<1>4. s \in Seq(0..Length)
  <2>1. s \in [1..(Length + 1) -> 0..Length] /\ Length + 1 \in Nat
    BY <1>1, <1>2, <1>3
  <2>2. QED  BY <2>1, FunctionIsSeq
<1>5. IsInjective(s)
  BY <1>2, <1>3 DEF IsInjective
<1>6. Range(s) = 0..Length
  <2>1. \A q \in 0..Length : q + 1 \in 1..(Length + 1) /\ s[q + 1] = q
    BY <1>2, <1>3
  <2>2. QED  BY <1>3, <2>1 DEF Range
<1>7. Filtered(Filter(s, S), s, S, 0..Length)
  BY <1>4, <1>5, FilterFacts
<1>8. InOrder(S) = Filter(s, S)
  BY <1>1 DEF InOrder, Length
<1>9. QED  BY <1>6, <1>7, <1>8 DEF Filtered

\* Notes in their order.
LEMMA NotesInOrder ==
    ASSUME NEW S \in SUBSET Notes
    PROVE  InOrder(S) \in Seq(Notes) /\ IsInjective(InOrder(S)) /\ Range(InOrder(S)) = S
<1>1. PICK s : s = InOrder(S)
  OBVIOUS
<1>2. s \in Seq(0..Length) /\ IsInjective(s) /\ Range(s) = S
  <2>0. Length \in Nat /\ Notes = 1..Length
    BY NoteFacts
  <2>1. S \cap 0..Length = S
    <3>1. \A q \in 1..Length : q \in 0..Length
      BY <2>0
    <3>2. \A q \in S : q \in 0..Length
      BY <2>0, <3>1
    <3>3. QED  BY <3>2
  <2>2. QED  BY <1>1, <2>1, InOrderFacts
<1>3. Len(s) \in Nat /\ DOMAIN s = 1..Len(s) /\ s = [i \in 1..Len(s) |-> s[i]]
  BY <1>2, LenProperties
<1>4. \A i \in 1..Len(s) : s[i] \in Notes
  BY <1>2, <1>3 DEF Range
<1>5. s \in [1..Len(s) -> Notes]
  BY <1>3, <1>4
<1>6. s \in Seq(Notes)
  BY <1>3, <1>5
<1>7. QED  BY <1>1, <1>2, <1>6

LEMMA ByTypeFacts ==
    ASSUME NEW S \in SUBSET Notes
    PROVE  ByType(S) \in Seq(Notes) /\ IsInjective(ByType(S)) /\ Range(ByType(S)) \subseteq S
<1>. DEFINE Kind(k) == {n \in S : TypeRank(Note[n].type) = k - 1}
<1>1. PICK ss : ss = [k \in 1..5 |-> InOrder(Kind(k))]
  OBVIOUS
<1>2. ASSUME NEW k \in 1..5
      PROVE  ss[k] \in Seq(Notes) /\ IsInjective(ss[k]) /\ Range(ss[k]) = Kind(k)
  <2>1. Kind(k) \in SUBSET Notes /\ ss[k] = InOrder(Kind(k))
    BY <1>1
  <2>. HIDE DEF Kind
  <2>2. QED  BY <2>1, NotesInOrder
<1>3. ss \in Seq(Seq(Notes)) /\ Len(ss) = 5
  <2>1. ss \in [1..5 -> Seq(Notes)] /\ 5 \in Nat
    BY <1>1, <1>2
  <2>2. QED  BY <2>1, FunctionIsSeq
<1>4. Flattened(FlattenSeq(ss), ss, Notes)
  BY <1>3, FlattenFacts
<1>5. \A i, j \in 1..5 : i < j => Range(ss[i]) \cap Range(ss[j]) = {}
  <2>1. ASSUME NEW i \in 1..5, NEW j \in 1..5, i < j PROVE Kind(i) \cap Kind(j) = {}
    BY <2>1
  <2>. HIDE DEF Kind
  <2>2. QED  BY <1>2, <2>1
<1>6. \A k \in 1..5 : Range(ss[k]) \subseteq S
  BY <1>2
<1>7. ByType(S) = FlattenSeq(ss)
  BY <1>1 DEF ByType
<1>8. QED  BY <1>2, <1>3, <1>4, <1>5, <1>6, <1>7 DEF Flattened

LEMMA TraceEdgesFacts ==
    ASSUME NEW n
    PROVE  TraceEdges(n) \in Seq(Followed \X Notes)
<1>1. PICK T : T = TraceRelations
  OBVIOUS
<1>2. T \in Seq(Followed \X BOOLEAN) /\ Len(T) > 0
  <2>1. PICK a : a = [k \in 1..7 |-> <<TraceOrder[k], FALSE>>]
    OBVIOUS
  <2>2. PICK b : b = [k \in 1..7 |-> <<TraceOrder[k], TRUE>>]
    OBVIOUS
  <2>3. PICK c : c = <<<<"supersedes", TRUE>>, <<"supports_solution", TRUE>>,
                       <<"supersedes", FALSE>>, <<"supports_solution", FALSE>>>>
    OBVIOUS
  <2>4. ASSUME NEW k \in 1..7 PROVE TraceOrder[k] \in Followed
    <3>1. k = 1 \/ k = 2 \/ k = 3 \/ k = 4 \/ k = 5 \/ k = 6 \/ k = 7
      OBVIOUS
    <3>2. QED  BY <3>1 DEF TraceOrder, Followed
  <2>5. a \in Seq(Followed \X BOOLEAN) /\ Len(a) = 7
    <3>1. a \in [1..7 -> Followed \X BOOLEAN] /\ 7 \in Nat
      BY <2>1, <2>4
    <3>2. QED  BY <3>1, FunctionIsSeq
  <2>6. b \in Seq(Followed \X BOOLEAN)
    <3>1. b \in [1..7 -> Followed \X BOOLEAN] /\ 7 \in Nat
      BY <2>2, <2>4
    <3>2. QED  BY <3>1, FunctionIsSeq
  <2>7. c \in Seq(Followed \X BOOLEAN)
    <3>1. ASSUME NEW k \in 1..4 PROVE c[k] \in Followed \X BOOLEAN
      <4>1. k = 1 \/ k = 2 \/ k = 3 \/ k = 4
        OBVIOUS
      <4>2. /\ c[1] = <<"supersedes", TRUE>> /\ c[2] = <<"supports_solution", TRUE>>
            /\ c[3] = <<"supersedes", FALSE>> /\ c[4] = <<"supports_solution", FALSE>>
        BY <2>3
      <4>3. "supersedes" \in Followed /\ "supports_solution" \in Followed
        BY DEF Followed
      <4>4. \A f \in Followed, b1 \in BOOLEAN : <<f, b1>> \in Followed \X BOOLEAN
        OBVIOUS
      <4>5. /\ c[1] \in Followed \X BOOLEAN /\ c[2] \in Followed \X BOOLEAN
            /\ c[3] \in Followed \X BOOLEAN /\ c[4] \in Followed \X BOOLEAN
        BY <4>2, <4>3, <4>4
      <4>6. QED  BY <4>1, <4>5
    <3>2. c = [k \in 1..4 |-> c[k]]
      BY <2>3
    <3>3. c \in [1..4 -> Followed \X BOOLEAN] /\ 4 \in Nat
      BY <3>1, <3>2
    <3>4. QED  BY <3>3, FunctionIsSeq
  <2>8. PICK d : d = a \o b
    OBVIOUS
  <2>9. d \in Seq(Followed \X BOOLEAN) /\ Len(d) = 7 + Len(b) /\ Len(b) \in Nat /\ Len(c) \in Nat
    <3>1. d \in Seq(Followed \X BOOLEAN) /\ Len(d) = Len(a) + Len(b)
      BY <2>5, <2>6, <2>8, ConcatProperties
    <3>2. Len(b) \in Nat /\ Len(c) \in Nat
      BY <2>6, <2>7, LenProperties
    <3>3. QED  BY <2>5, <3>1, <3>2
  <2>10. d \o c \in Seq(Followed \X BOOLEAN) /\ Len(d \o c) = Len(d) + Len(c)
    BY <2>7, <2>9, ConcatProperties
  <2>11. T = d \o c
    BY <1>1, <2>1, <2>2, <2>3, <2>8 DEF TraceRelations
  <2>12. QED  BY <2>9, <2>10, <2>11
<1>. DEFINE along(r) == InOrder({m \in Notes :
                          (IF r[2] THEN <<m, r[1], n>> ELSE <<n, r[1], m>>) \in Edges})
            branch(k) == [i \in 1..Len(along(T[k])) |-> <<T[k][1], along(T[k])[i]>>]
<1>3. \A k \in 1..Len(T) : T[k][1] \in Followed
  BY <1>2, ElementOfSeq
<1>4. ASSUME NEW r PROVE along(r) \in Seq(Notes)
  <2>1. PICK S : S = {m \in Notes : (IF r[2] THEN <<m, r[1], n>> ELSE <<n, r[1], m>>) \in Edges}
    OBVIOUS
  <2>2. S \in SUBSET Notes
    BY <2>1
  <2>3. InOrder(S) \in Seq(Notes)
    BY <2>2, NotesInOrder
  <2>4. QED  BY <2>1, <2>3
<1>. HIDE DEF along
<1>5. ASSUME NEW k \in 1..Len(T) PROVE branch(k) \in Seq(Followed \X Notes)
  <2>1. PICK a : a = along(T[k])
    OBVIOUS
  <2>2. a \in Seq(Notes) /\ Len(a) \in Nat
    BY <1>4, <2>1
  <2>3. \A i \in 1..Len(a) : a[i] \in Notes
    BY <2>2, ElementOfSeq
  <2>4. [i \in 1..Len(a) |-> <<T[k][1], a[i]>>] \in [1..Len(a) -> Followed \X Notes]
    BY <1>3, <2>3
  <2>5. PICK q : q = [i \in 1..Len(a) |-> <<T[k][1], a[i]>>]
    OBVIOUS
  <2>6. q \in Seq(Followed \X Notes)
    BY <2>2, <2>4, <2>5, FunctionIsSeq
  <2>7. QED  BY <2>1, <2>5, <2>6
<1>. DEFINE ss == [k \in 1..Len(T) |-> branch(k)]
<1>6. ss \in Seq(Seq(Followed \X Notes)) /\ Len(ss) = Len(T)
  <2>1. Len(T) \in Nat
    BY <1>2
  <2>. HIDE DEF branch
  <2>2. ss \in [1..Len(T) -> Seq(Followed \X Notes)] /\ DOMAIN ss = 1..Len(T)
    BY <1>5
  <2>3. ss \in Seq(Seq(Followed \X Notes))
    BY <2>1, <2>2
  <2>. HIDE DEF ss
  <2>4. QED  BY <2>1, <2>2, <2>3, LenProperties
<1>7. TraceEdges(n) = FlattenSeq(ss)
  BY <1>1 DEF TraceEdges, along
<1>. HIDE DEF ss
<1>8. Flattened(FlattenSeq(ss), ss, Followed \X Notes)
  BY <1>2, <1>6, FlattenFacts
<1>9. QED  BY <1>7, <1>8 DEF Flattened

-----------------------------------------------------------------------------
(* The packet: what is in its slots.                                       *)

\* A memory carries the freshness of its note, unless it is of the same
\* episode, whose freshness nobody reads, and the state of its lifecycle, unless
\* it is a hit of the graph channel alone.
Memories ==
    {m \in [id : Notes, rels : SUBSET Relations, rank : Nat, fresh : Freshness,
            via : {"hit", "edge", "episode", "trace"}, chain : 0..Length, life : Lives] :
        /\ m.via # "episode" => m.fresh = Note[m.id].fresh
        /\ m.via # "edge" => m.life = Note[m.id].life}

\* What a memory has of its note besides.
LEMMA MemoryMade ==
    ASSUME NEW n \in Notes, NEW rels \in SUBSET Relations, NEW rank \in Nat, NEW fresh \in Freshness,
           NEW via \in {"hit", "edge", "episode", "trace"},
           via # "episode" => fresh = Note[n].fresh
    PROVE  /\ Memory(n, rels, rank, fresh, via) \in Memories
           /\ Memory(n, rels, rank, fresh, via).id = n
<1>0. PICK chain : chain = IF via = "edge" THEN 0 ELSE Note[n].chain
  OBVIOUS
<1>1. PICK life : life = IF via = "edge" THEN "none" ELSE Note[n].life
  OBVIOUS
<1>2. chain \in 0..Length /\ life \in Lives
  BY <1>0, <1>1, NoteFacts DEF Lives
<1>3. PICK m : m = [id |-> n, rels |-> rels, rank |-> rank, fresh |-> fresh, via |-> via,
                    chain |-> chain, life |-> life]
  OBVIOUS
<1>4. Memory(n, rels, rank, fresh, via) = m
  BY <1>0, <1>1, <1>3 DEF Memory
<1>5. m \in Memories
  BY <1>1, <1>2, <1>3 DEF Memories
<1>6. QED  BY <1>3, <1>4, <1>5

OneEach(s) == \A i, j \in 1..Len(s) : s[i].id = s[j].id => i = j

PacketOK(p) ==
    /\ p \in [slots : [SlotSet -> Seq(Memories)], archive : BOOLEAN,
              warned : SUBSET Notes, contested : SUBSET Notes]
    /\ \A s \in SlotSet : OneEach(p.slots[s])

AllIds(p) == UNION {Ids(p.slots[s]) : s \in SlotSet}

LEMMA SlotFacts ==
    /\ Len(Slots) = 6 /\ SlotSet = {Slots[k] : k \in 1..6}
    /\ SlotSet = {"primary", "episode", "topic", "timeline", "similarity", "contrast"}
    /\ \A i, j \in 1..6 : Slots[i] = Slots[j] => i = j
<1>1. Len(Slots) = 6
  BY DEF Slots
<1>2. /\ Slots[1] = "primary" /\ Slots[2] = "episode" /\ Slots[3] = "topic"
      /\ Slots[4] = "timeline" /\ Slots[5] = "similarity" /\ Slots[6] = "contrast"
  BY DEF Slots
<1>3. \A k \in 1..6 : k = 1 \/ k = 2 \/ k = 3 \/ k = 4 \/ k = 5 \/ k = 6
  OBVIOUS
<1>4. SlotSet = {Slots[k] : k \in 1..6}
  BY <1>1 DEF SlotSet
<1>5. SlotSet = {"primary", "episode", "topic", "timeline", "similarity", "contrast"}
  <2>1. \A s \in SlotSet : s \in {"primary", "episode", "topic", "timeline", "similarity", "contrast"}
    BY <1>2, <1>3, <1>4
  <2>2. {Slots[1], Slots[2], Slots[3], Slots[4], Slots[5], Slots[6]} \subseteq SlotSet
    BY <1>4
  <2>3. QED  BY <1>2, <2>1, <2>2
<1>6. \A i, j \in 1..6 : Slots[i] = Slots[j] => i = j
  BY <1>2, <1>3
<1>7. QED  BY <1>1, <1>4, <1>5, <1>6

\* A sequence of memories of different notes, and its ids.
LEMMA MemoryFacts ==
    ASSUME NEW s \in Seq(Memories)
    PROVE  /\ Len(s) \in Nat /\ DOMAIN s = 1..Len(s) /\ \A i \in 1..Len(s) : s[i] \in Memories
           /\ Ids(s) = {m.id : m \in Range(s)} /\ Ids(s) \subseteq Notes
           /\ OneEach(s) => IsInjective(s)
           /\ OneEach(s) <=> IsInjective(s) /\ \A a, b \in Range(s) : a.id = b.id => a = b
<1>1. Len(s) \in Nat /\ DOMAIN s = 1..Len(s) /\ \A i \in 1..Len(s) : s[i] \in Memories
  BY LenProperties, ElementOfSeq
<1>2. Ids(s) = {m.id : m \in Range(s)}
  <2>1. Range(s) = {s[i] : i \in 1..Len(s)}
    BY <1>1 DEF Range
  <2>2. QED  BY <2>1 DEF Ids
<1>3. \A m \in Memories : m.id \in Notes
  BY DEF Memories
<1>4. Ids(s) \subseteq Notes
  BY <1>1, <1>3 DEF Ids
<1>5. OneEach(s) => IsInjective(s)
  BY <1>1 DEF OneEach, IsInjective
<1>6. ASSUME OneEach(s), NEW a \in Range(s), NEW b \in Range(s), a.id = b.id PROVE a = b
  <2>1. PICK i, j \in 1..Len(s) : a = s[i] /\ b = s[j]
    BY <1>1, <1>6 DEF Range
  <2>2. QED  BY <1>6, <2>1 DEF OneEach
<1>7. ASSUME IsInjective(s), \A a, b \in Range(s) : a.id = b.id => a = b PROVE OneEach(s)
  <2>1. \A i \in 1..Len(s) : s[i] \in Range(s)
    BY <1>1 DEF Range
  <2>2. QED  BY <1>1, <1>7, <2>1 DEF OneEach, IsInjective
<1>8. QED  BY <1>1, <1>2, <1>4, <1>5, <1>6, <1>7

LEMMA CanonicalFacts ==
    ASSUME NEW p, PacketOK(p)
    PROVE  /\ CanonicalItems(p) \in Seq(Memories)
           /\ Range(CanonicalItems(p)) = UNION {Range(p.slots[s]) : s \in SlotSet}
           /\ Ids(CanonicalItems(p)) = AllIds(p)
           /\ (\A i, j \in 1..6 : i < j => Ids(p.slots[Slots[i]]) \cap Ids(p.slots[Slots[j]]) = {})
                 => OneEach(CanonicalItems(p))
<1>1. PICK ss : ss = [k \in 1..6 |-> p.slots[Slots[k]]]
  OBVIOUS
<1>2. ASSUME NEW k \in 1..6
      PROVE  Slots[k] \in SlotSet /\ ss[k] = p.slots[Slots[k]] /\ ss[k] \in Seq(Memories) /\ OneEach(ss[k])
  <2>1. Slots[k] \in SlotSet
    BY SlotFacts
  <2>2. QED  BY <1>1, <2>1 DEF PacketOK
<1>3. ss \in Seq(Seq(Memories)) /\ Len(ss) = 6
  <2>1. ss \in [1..6 -> Seq(Memories)] /\ 6 \in Nat
    BY <1>1, <1>2
  <2>2. QED  BY <2>1, FunctionIsSeq
<1>4. PICK all : all = CanonicalItems(p)
  OBVIOUS
<1>5. all = FlattenSeq(ss)
  BY <1>1, <1>4, SlotFacts DEF CanonicalItems
<1>6. Flattened(all, ss, Memories)
  BY <1>3, <1>5, FlattenFacts
<1>7. all \in Seq(Memories) /\ Range(all) = UNION {Range(ss[k]) : k \in 1..6}
  BY <1>3, <1>6 DEF Flattened
<1>8. Range(all) = UNION {Range(p.slots[s]) : s \in SlotSet}
  <2>1. SlotSet = {Slots[k] : k \in 1..6}
    BY SlotFacts
  <2>2. QED  BY <1>2, <1>7, <2>1
<1>9. Ids(all) = AllIds(p)
  <2>1. Ids(all) = {m.id : m \in Range(all)}
    BY <1>7, MemoryFacts
  <2>2. ASSUME NEW s \in SlotSet PROVE Ids(p.slots[s]) = {m.id : m \in Range(p.slots[s])}
    <3>1. p.slots[s] \in Seq(Memories)
      BY DEF PacketOK
    <3>2. QED  BY <3>1, MemoryFacts
  <2>3. ASSUME NEW n \in Ids(all) PROVE n \in AllIds(p)
    <3>1. PICK m \in Range(all) : n = m.id
      BY <2>1, <2>3
    <3>2. PICK s \in SlotSet : m \in Range(p.slots[s])
      BY <1>8
    <3>3. n \in Ids(p.slots[s])
      BY <2>2, <3>1, <3>2
    <3>4. QED  BY <3>3 DEF AllIds
  <2>4. ASSUME NEW n \in AllIds(p) PROVE n \in Ids(all)
    <3>1. PICK s \in SlotSet : n \in Ids(p.slots[s])
      BY <2>4 DEF AllIds
    <3>2. PICK m \in Range(p.slots[s]) : n = m.id
      BY <2>2, <3>1
    <3>3. m \in Range(all)
      BY <1>8, <3>2
    <3>4. QED  BY <2>1, <3>2, <3>3
  <2>5. QED  BY <2>3, <2>4
<1>10. ASSUME \A i, j \in 1..6 : i < j => Ids(p.slots[Slots[i]]) \cap Ids(p.slots[Slots[j]]) = {}
       PROVE  OneEach(all)
  <2>1. ASSUME NEW k \in 1..6
        PROVE  /\ Ids(ss[k]) = {m.id : m \in Range(ss[k])} /\ IsInjective(ss[k])
               /\ \A a, b \in Range(ss[k]) : a.id = b.id => a = b
    BY <1>2, MemoryFacts
  <2>2. ASSUME NEW i \in 1..6, NEW j \in 1..6, i < j, NEW a \in Range(ss[i]), NEW b \in Range(ss[j])
        PROVE  a.id # b.id
    <3>1. a.id \in Ids(ss[i]) /\ b.id \in Ids(ss[j])
      BY <2>1
    <3>2. Ids(ss[i]) \cap Ids(ss[j]) = {}
      BY <1>2, <1>10, <2>2
    <3>3. QED  BY <3>1, <3>2
  <2>3. \A i, j \in 1..6 : i < j => Range(ss[i]) \cap Range(ss[j]) = {}
    BY <2>2
  <2>4. IsInjective(all)
    BY <1>3, <1>6, <2>1, <2>3 DEF Flattened
  <2>5. ASSUME NEW a \in Range(all), NEW b \in Range(all), a.id = b.id PROVE a = b
    <3>1. PICK i, j \in 1..6 : a \in Range(ss[i]) /\ b \in Range(ss[j])
      BY <1>7, <2>5
    <3>2. i = j
      <4>1. i < j \/ j < i \/ i = j
        OBVIOUS
      <4>2. QED  BY <2>2, <2>5, <3>1, <4>1
    <3>3. QED  BY <2>1, <2>5, <3>1, <3>2
  <2>6. QED  BY <1>7, <2>4, <2>5, MemoryFacts
<1>11. QED  BY <1>4, <1>7, <1>8, <1>9, <1>10

\* Deduplication leaves each note in one slot.
LEMMA Deduped ==
    ASSUME NEW p, PacketOK(p)
    PROVE  PacketOK(Dedupe(p)) /\ OneEach(CanonicalItems(Dedupe(p)))
<1>. DEFINE all == CanonicalItems(p)
            relsOf(n) == UNION {all[k].rels : k \in {j \in 1..Len(all) : all[j].id = n}}
            earlier(s) == UNION {Ids(p.slots[Slots[j]]) : j \in {i \in 1..Len(Slots) :
                              \E k \in 1..Len(Slots) : Slots[k] = s /\ i < k}}
            unique(s) == Filter(p.slots[s], {m \in Range(p.slots[s]) : m.id \notin earlier(s)})
            slot(s) == [k \in 1..Len(unique(s)) |-> [unique(s)[k] EXCEPT !.rels = relsOf(unique(s)[k].id)]]
<1>1. PICK q : q = Dedupe(p)
  OBVIOUS
<1>2. q = [p EXCEPT !.slots = [s \in SlotSet |-> slot(s)]]
  BY <1>1 DEF Dedupe
<1>3. /\ p.slots \in [SlotSet -> Seq(Memories)] /\ p.archive \in BOOLEAN
      /\ p.warned \subseteq Notes /\ p.contested \subseteq Notes
      /\ \A s \in SlotSet : OneEach(p.slots[s])
      /\ p = [slots |-> p.slots, archive |-> p.archive, warned |-> p.warned, contested |-> p.contested]
  BY DEF PacketOK
<1>4. /\ q.slots = [s \in SlotSet |-> slot(s)] /\ q.archive = p.archive
      /\ q.warned = p.warned /\ q.contested = p.contested
      /\ q = [slots |-> q.slots, archive |-> q.archive, warned |-> q.warned, contested |-> q.contested]
  BY <1>2, <1>3
<1>5. ASSUME NEW n PROVE relsOf(n) \subseteq Relations
  <2>1. all \in Seq(Memories)
    BY CanonicalFacts
  <2>2. \A k \in 1..Len(all) : all[k].rels \subseteq Relations
    BY <2>1, MemoryFacts DEF Memories
  <2>3. QED  BY <2>2
<1>. HIDE DEF relsOf
<1>6. ASSUME NEW s \in SlotSet
      PROVE  /\ slot(s) \in Seq(Memories) /\ OneEach(slot(s))
             /\ Ids(slot(s)) \subseteq Ids(p.slots[s]) \ earlier(s)
  <2>1. PICK t, u : t = p.slots[s] /\ u = unique(s)
    OBVIOUS
  <2>2. PICK T : T = {m \in Range(t) : m.id \notin earlier(s)}
    OBVIOUS
  <2>3. t \in Seq(Memories) /\ OneEach(t) /\ IsInjective(t)
    BY <1>3, <2>1, MemoryFacts
  <2>4. u = Filter(t, T)
    BY <2>1, <2>2
  <2>5. Filtered(u, t, T, Memories)
    BY <2>3, <2>4, FilterFacts
  <2>6. u \in Seq(Memories) /\ IsInjective(u) /\ Range(u) = T
    BY <2>2, <2>5 DEF Filtered
  <2>7. OneEach(u) /\ Ids(u) \subseteq Ids(t) \ earlier(s)
    <3>1. \A a, b \in Range(t) : a.id = b.id => a = b
      BY <2>3, MemoryFacts
    <3>2. \A a, b \in Range(u) : a.id = b.id => a = b
      BY <2>2, <2>6, <3>1
    <3>3. Ids(u) = {m.id : m \in T} /\ Ids(t) = {m.id : m \in Range(t)}
      BY <2>3, <2>6, MemoryFacts
    <3>4. Ids(u) \subseteq Ids(t) \ earlier(s)
      BY <2>2, <3>3
    <3>5. OneEach(u)
      BY <2>6, <3>2, MemoryFacts
    <3>6. QED  BY <3>4, <3>5
  <2>8. PICK v : v = slot(s)
    OBVIOUS
  <2>9. v = [k \in 1..Len(u) |-> [u[k] EXCEPT !.rels = relsOf(u[k].id)]]
    BY <2>1, <2>8
  <2>10. Len(u) \in Nat /\ \A k \in 1..Len(u) : u[k] \in Memories
    BY <2>6, MemoryFacts
  <2>11. ASSUME NEW k \in 1..Len(u) PROVE v[k] \in Memories /\ v[k].id = u[k].id
    <3>1. PICK m, r : m = u[k] /\ r = relsOf(m.id)
      OBVIOUS
    <3>2. m \in Memories /\ r \subseteq Relations /\ v[k] = [m EXCEPT !.rels = r]
      BY <1>5, <2>9, <2>10, <3>1
    <3>3. QED  BY <3>1, <3>2 DEF Memories
  <2>12. v \in Seq(Memories) /\ Len(v) = Len(u)
    <3>1. v \in [1..Len(u) -> Memories]
      BY <2>9, <2>11
    <3>2. QED  BY <2>10, <3>1, FunctionIsSeq
  <2>13. OneEach(v)
    BY <2>7, <2>11, <2>12 DEF OneEach
  <2>14. Ids(v) = Ids(u)
    BY <2>11, <2>12 DEF Ids
  <2>15. QED  BY <2>1, <2>7, <2>8, <2>12, <2>13, <2>14
<1>. HIDE DEF slot
<1>7. PacketOK(q)
  <2>1. q.slots \in [SlotSet -> Seq(Memories)] /\ \A s \in SlotSet : OneEach(q.slots[s])
    BY <1>4, <1>6
  <2>2. QED  BY <1>3, <1>4, <2>1 DEF PacketOK
<1>8. ASSUME NEW i \in 1..6, NEW j \in 1..6, i < j
      PROVE  Ids(q.slots[Slots[i]]) \cap Ids(q.slots[Slots[j]]) = {}
  <2>1. Slots[i] \in SlotSet /\ Slots[j] \in SlotSet /\ Len(Slots) = 6
    BY SlotFacts
  <2>2. q.slots[Slots[i]] = slot(Slots[i]) /\ q.slots[Slots[j]] = slot(Slots[j])
    BY <1>4, <2>1
  <2>3. Ids(p.slots[Slots[i]]) \subseteq earlier(Slots[j])
    BY <1>8, <2>1
  <2>4. QED  BY <1>6, <2>1, <2>2, <2>3
<1>9. OneEach(CanonicalItems(q))
  BY <1>7, <1>8, CanonicalFacts
<1>10. QED  BY <1>1, <1>7, <1>9

-----------------------------------------------------------------------------
(* The packet: from hits to slots.                                         *)

LEMMA PrimaryFacts ==
    ASSUME NEW n \in Nat, NEW hs, Len(hs) = n, NEW maxPrimary
    PROVE  PrimaryHits(hs, maxPrimary) \in Seq(1..n) /\ IsInjective(PrimaryHits(hs, maxPrimary))
<1>. DEFINE D == Seq(1..n)
            places == [k \in 1..n |-> k]
            Take(a, k) == TakePrimary(hs, maxPrimary, a, k)
            step == [e \in (1..n) \X D |-> Take(e[2], e[1])]
            Eq(f) == f = [s \in SUBSET (DOMAIN places) |->
                            IF s = {} THEN <<>> ELSE Take(f[s \ {Max(s)}], places[Max(s)])]
<1>1. ASSUME NEW a \in D, NEW k \in 1..n
      PROVE  Take(a, k) \in D /\ (Take(a, k) = a \/ Take(a, k) = Append(a, k))
  <2>1. Append(a, k) \in D
    BY AppendProperties
  <2>2. Take(a, k) = a \/ Take(a, k) = Append(a, k)
    BY DEF TakePrimary
  <2>. HIDE DEF Take
  <2>3. QED  BY <2>1, <2>2
<1>. HIDE DEF Take
<1>2. <<>> \in D /\ DOMAIN places = 1..n
  BY EmptySeq
<1>3. StepFunction(1..n, D, step) /\ \A k \in 1..n, a \in D : step[<<k, a>>] = Take(a, k)
  <2>1. \A e \in (1..n) \X D : Take(e[2], e[1]) \in D
    BY <1>1
  <2>2. QED  BY <2>1 DEF StepFunction
<1>. HIDE DEF step, D
<1>4. ASSUME NEW s \in (SUBSET (1..n)) \ {{}} PROVE Max(s) \in 1..n /\ places[Max(s)] = Max(s)
  BY GreatestPlace
<1>5. \E f : Eq(f)
  <2>1. PICK f \in [SUBSET (1..n) -> D] : Loops(f, n, D, <<>>, step)
    BY <1>2, <1>3, LoopDefined
  <2>2. ASSUME NEW s \in SUBSET (1..n), s # {}
        PROVE  f[s] = Take(f[s \ {Max(s)}], places[Max(s)])
    <3>1. PICK x : x = Max(s)
      OBVIOUS
    <3>2. x \in 1..n /\ places[x] = x
      BY <1>4, <2>2, <3>1
    <3>3. PICK a : a = f[s \ {x}]
      OBVIOUS
    <3>4. a \in D
      BY <3>3
    <3>5. f[s] = step[<<x, a>>]
      BY <2>1, <2>2, <3>1, <3>3, <3>4 DEF Loops
    <3>6. QED  BY <1>3, <3>1, <3>2, <3>3, <3>4, <3>5
  <2>3. f[{}] = <<>>
    BY <2>1 DEF Loops
  <2>4. f = [s \in SUBSET (1..n) |-> f[s]]
    OBVIOUS
  <2>5. Eq(f)
    BY <1>2, <2>2, <2>3, <2>4
  <2>6. QED  BY <2>5
<1>6. PICK f : f = CHOOSE g : Eq(g)
  OBVIOUS
<1>7. Eq(f)
  BY <1>5, <1>6
<1>8. PrimaryHits(hs, maxPrimary) = f[1..n]
  BY <1>2, <1>6 DEF PrimaryHits, FoldLeft, MapThenFoldSet, Take
<1>9. Loops(f, n, D, <<>>, step)
  <2>1. f[{}] = <<>>
    BY <1>2, <1>7
  <2>2. ASSUME NEW s \in (SUBSET (1..n)) \ {{}}, f[s \ {Max(s)}] \in D
        PROVE  f[s] = step[<<Max(s), f[s \ {Max(s)}]>>]
    <3>1. PICK x : x = Max(s)
      OBVIOUS
    <3>2. PICK a : a = f[s \ {x}]
      OBVIOUS
    <3>3. x \in 1..n /\ places[x] = x /\ a \in D
      BY <1>4, <2>2, <3>1, <3>2
    <3>4. f[s] = Take(a, x)
      BY <1>2, <1>7, <3>1, <3>2, <3>3
    <3>5. QED  BY <1>3, <3>1, <3>2, <3>3, <3>4
  <2>3. QED  BY <2>1, <2>2 DEF Loops
<1>10. PICK r : r = [i \in 0..n |-> f[1..i]]
  OBVIOUS
<1>11. r \in [0..n -> D] /\ r[0] = <<>> /\ \A i \in 1..n : r[i] = step[<<i, r[i - 1]>>]
  <2>1. IsRun(r, n, D, <<>>, step)
    BY <1>2, <1>3, <1>9, <1>10, LoopRuns
  <2>2. QED  BY <2>1 DEF IsRun
<1>. DEFINE G == {i \in 0..n : IsInjective(r[i]) /\ Range(r[i]) \subseteq 1..i}
<1>12. 0 \in G
  <2>1. IsInjective(<<>>) /\ Range(<<>>) = {}
    BY DEF IsInjective, Range
  <2>2. PICK k : k = r[0]
    OBVIOUS
  <2>3. IsInjective(k) /\ Range(k) \subseteq 1..0
    BY <1>11, <2>1, <2>2
  <2>4. QED  BY <2>2, <2>3
<1>13. ASSUME NEW i \in 1..n, i - 1 \in G PROVE i \in G
  <2>1. PICK a : a = r[i - 1]
    OBVIOUS
  <2>2. i - 1 \in 0..n /\ i \in 0..n /\ i \notin 1..(i - 1) /\ 1..(i - 1) \subseteq 1..i /\ i \in 1..i
    OBVIOUS
  <2>3. a \in D /\ IsInjective(a) /\ Range(a) \subseteq 1..(i - 1)
    BY <1>11, <1>13, <2>1, <2>2
  <2>4. r[i] = a \/ r[i] = Append(a, i)
    BY <1>1, <1>3, <1>11, <2>1, <2>3
  <2>5. CASE r[i] = a
    BY <2>2, <2>3, <2>5
  <2>6. CASE r[i] = Append(a, i)
    <3>1. Range(Append(a, i)) = Range(a) \cup {i} /\ IsInjective(Append(a, i))
      <4>1. a \in Seq(1..n) /\ i \notin Range(a)
        BY <2>2, <2>3 DEF D
      <4>2. QED  BY <2>3, <4>1, Longer
    <3>2. PICK k : k = Append(a, i)
      OBVIOUS
    <3>3. Range(k) \subseteq 1..i /\ IsInjective(k)
      BY <2>2, <2>3, <3>1, <3>2
    <3>4. QED  BY <2>2, <2>6, <3>2, <3>3
  <2>7. QED  BY <2>4, <2>5, <2>6
<1>. HIDE DEF G
<1>14. n \in G
  <2>1. \A i \in 0..n : i \in G
    BY <1>12, <1>13, CountUp
  <2>2. QED  BY <2>1
<1>15. PICK k : k = r[n]
  OBVIOUS
<1>16. k = f[1..n] /\ k \in D /\ IsInjective(k)
  BY <1>10, <1>11, <1>14, <1>15 DEF G
<1>17. QED  BY <1>8, <1>16 DEF D

\* What retrieve returns: different notes.
IsHits(hs) == hs \in Seq(Notes) /\ IsInjective(hs)

LEMMA HitListFacts ==
    ASSUME NEW n \in Nat, NEW hs \in HitLists(n)
    PROVE  IsHits(hs)
<1>1. PICK k \in 0..n : hs \in [1..k -> Notes]
  BY DEF HitLists
<1>2. hs \in Seq(Notes)
  BY <1>1, FunctionIsSeq
<1>3. IsInjective(hs)
  BY DEF HitLists, IsInjective
<1>4. QED  BY <1>2, <1>3 DEF IsHits

LEMMA HitMemoryTyped ==
    ASSUME NEW hs, NEW edged, NEW k \in Nat, hs[k] \in Notes
    PROVE  HitMemory(hs, edged, k) \in Memories /\ HitMemory(hs, edged, k).id = hs[k]
<1>1. PICK n, via : n = hs[k] /\ via = IF k \in edged THEN "edge" ELSE "hit"
  OBVIOUS
<1>2. n \in Notes /\ via \in {"hit", "edge", "episode", "trace"}
  BY <1>1
<1>3. Note[n].fresh \in Freshness /\ Note[n].rels \in SUBSET Relations
  BY <1>2, NoteFacts
<1>4. HitMemory(hs, edged, k) = Memory(n, Note[n].rels, k, Note[n].fresh, via)
  BY <1>1 DEF HitMemory
<1>5. QED  BY <1>1, <1>2, <1>3, <1>4, MemoryMade

LEMMA HitMemories ==
    ASSUME NEW hs, IsHits(hs), NEW edged, NEW ks \in Seq(1..Len(hs)), IsInjective(ks),
           NEW t, t = [i \in 1..Len(ks) |-> HitMemory(hs, edged, ks[i])]
    PROVE  t \in Seq(Memories) /\ OneEach(t)
<1>1. Len(ks) \in Nat /\ DOMAIN ks = 1..Len(ks) /\ \A i \in 1..Len(ks) : ks[i] \in 1..Len(hs)
  BY LenProperties, ElementOfSeq
<1>2. DOMAIN hs = 1..Len(hs) /\ \A k \in 1..Len(hs) : hs[k] \in Notes /\ k \in Nat
  <2>1. hs \in Seq(Notes)
    BY DEF IsHits
  <2>2. QED  BY <2>1, LenProperties, ElementOfSeq
<1>3. ASSUME NEW i \in 1..Len(ks) PROVE t[i] \in Memories /\ t[i].id = hs[ks[i]]
  <2>1. PICK k, n : k = ks[i] /\ n = hs[k]
    OBVIOUS
  <2>2. k \in Nat /\ n \in Notes /\ k \in 1..Len(hs)
    BY <1>1, <1>2, <2>1
  <2>4. t[i] = HitMemory(hs, edged, k)
    BY <2>1
  <2>5. t[i] \in Memories /\ t[i].id = n
    BY <2>1, <2>2, <2>4, HitMemoryTyped
  <2>6. QED  BY <2>1, <2>5
<1>4. t \in Seq(Memories) /\ Len(t) = Len(ks)
  <2>1. t \in [1..Len(ks) -> Memories]
    BY <1>3
  <2>2. QED  BY <1>1, <2>1, FunctionIsSeq
<1>5. OneEach(t)
  <2>. SUFFICES ASSUME NEW i \in 1..Len(ks), NEW j \in 1..Len(ks), t[i].id = t[j].id PROVE i = j
    BY <1>4 DEF OneEach
  <2>1. hs[ks[i]] = hs[ks[j]]
    BY <1>3
  <2>2. ks[i] = ks[j]
    BY <1>1, <1>2, <2>1 DEF IsHits, IsInjective
  <2>3. QED  BY <1>1, <2>2 DEF IsInjective
<1>6. QED  BY <1>4, <1>5

LEMMA NoMemories == <<>> \in Seq(Memories) /\ OneEach(<<>>)
<1>1. <<>> \in Seq(Memories) /\ Len(<<>>) = 0
  BY EmptySeq
<1>2. QED  BY <1>1 DEF OneEach

LEMMA BuiltPacket ==
    ASSUME NEW hs, IsHits(hs), NEW edged, NEW budget \in [primary : Nat, related : Nat], NEW archive \in BOOLEAN
    PROVE  PacketOK(BuildPacket(hs, edged, budget, archive))
<1>. DEFINE first == PrimaryHits(hs, budget.primary)
            rest == DOMAIN hs \ Range(first)
            places == [k \in 1..Len(hs) |-> k]
            among(b) == {k \in rest : RelationBucket(Note[hs[k]].type, Note[hs[k]].rels) = b}
            related(b) == Filter(places, among(b))
            memories(ks) == [i \in 1..Len(ks) |-> HitMemory(hs, edged, ks[i])]
            hits == {HitMemory(hs, edged, k) : k \in 1..Len(hs)}
            slot(s) == CASE s = "primary" -> memories(first)
                         [] s = "episode" -> <<>>
                         [] OTHER -> memories(CappedTo(related(s), budget.related))
            contested == {m.id : m \in {h \in hits : "contested" \in {h.fresh, h.life}}}
            warned == {m.id : m \in {h \in hits : h.fresh \in Doubtful \/ h.life \in Withdrawn}}
<1>1. BuildPacket(hs, edged, budget, archive) =
        [slots |-> [s \in SlotSet |-> slot(s)], archive |-> archive, warned |-> warned, contested |-> contested]
  BY DEF BuildPacket
<1>2. /\ Len(hs) \in Nat /\ DOMAIN hs = 1..Len(hs)
      /\ \A h \in hits : h.id \in Notes
  <2>1. hs \in Seq(Notes)
    BY DEF IsHits
  <2>2. \A k \in 1..Len(hs) : k \in Nat /\ hs[k] \in Notes
    BY <2>1, LenProperties, ElementOfSeq
  <2>3. \A k \in 1..Len(hs) : HitMemory(hs, edged, k).id \in Notes
    BY <2>2, HitMemoryTyped
  <2>4. QED  BY <2>1, <2>3, LenProperties
<1>3. contested \subseteq Notes /\ warned \subseteq Notes
  <2>. HIDE DEF hits
  <2>1. QED  BY <1>2
<1>4. first \in Seq(1..Len(hs)) /\ IsInjective(first)
  BY <1>2, PrimaryFacts
<1>. HIDE DEF first, contested, warned, hits
<1>5. memories(first) \in Seq(Memories) /\ OneEach(memories(first))
  BY <1>4, HitMemories
<1>6. ASSUME NEW b
      PROVE  /\ memories(CappedTo(related(b), budget.related)) \in Seq(Memories)
             /\ OneEach(memories(CappedTo(related(b), budget.related)))
  <2>1. places \in Seq(1..Len(hs)) /\ IsInjective(places)
    <3>1. places \in [1..Len(hs) -> 1..Len(hs)]
      OBVIOUS
    <3>2. places \in Seq(1..Len(hs))
      BY <1>2, <3>1, FunctionIsSeq
    <3>3. QED  BY <3>2 DEF IsInjective
  <2>. HIDE DEF among, places
  <2>2. PICK T : T = among(b)
    OBVIOUS
  <2>3. PICK r : r = Filter(places, T)
    OBVIOUS
  <2>4. Filtered(r, places, T, 1..Len(hs))
    BY <2>1, <2>3, FilterFacts
  <2>5. r \in Seq(1..Len(hs)) /\ IsInjective(r)
    BY <2>4 DEF Filtered
  <2>6. PICK m : m = budget.related
    OBVIOUS
  <2>7. m \in Nat
    BY <2>6
  <2>8. PICK ks : ks = CappedTo(r, m)
    OBVIOUS
  <2>9. ks \in Seq(1..Len(hs)) /\ IsInjective(ks)
    BY <2>5, <2>7, <2>8, CappedFacts
  <2>10. memories(ks) \in Seq(Memories) /\ OneEach(memories(ks))
    BY <2>9, HitMemories
  <2>11. QED  BY <2>2, <2>3, <2>6, <2>8, <2>10
<1>. HIDE DEF memories, related
<1>7. ASSUME NEW s PROVE slot(s) \in Seq(Memories) /\ OneEach(slot(s))
  <2>1. CASE s = "primary"
    BY <1>5, <2>1
  <2>2. CASE s = "episode"
    BY <2>2, NoMemories
  <2>3. CASE s # "primary" /\ s # "episode"
    <3>1. slot(s) = memories(CappedTo(related(s), budget.related))
      BY <2>3
    <3>2. QED  BY <1>6, <3>1
  <2>4. QED  BY <2>1, <2>2, <2>3
<1>. HIDE DEF slot
<1>8. PICK p : p = BuildPacket(hs, edged, budget, archive)
  OBVIOUS
<1>9. /\ p.slots = [s \in SlotSet |-> slot(s)]
      /\ p \in [slots : [SlotSet -> Seq(Memories)], archive : BOOLEAN,
                warned : SUBSET Notes, contested : SUBSET Notes]
  BY <1>1, <1>3, <1>7, <1>8
<1>10. \A s \in SlotSet : OneEach(p.slots[s])
  BY <1>7, <1>9
<1>11. QED  BY <1>8, <1>9, <1>10 DEF PacketOK

LEMMA EpisodeFacts ==
    ASSUME NEW p, PacketOK(p), NEW maxRelated \in Nat
    PROVE  SameEpisode(p, maxRelated) \in Seq(Memories) /\ OneEach(SameEpisode(p, maxRelated))
<1>. DEFINE lead == p.slots["primary"][1].id
            kin == {n \in Notes \ {lead} : Note[n].chain = p.slots["primary"][1].chain}
            rows == ByType(kin)
            usable == {n \in Notes \ Ids(p.slots["primary"]) :
                          Note[lead].type = "incident" =>
                              Note[n].type \in {"procedure", "decision", "concept"}}
            kept == CappedTo(Filter(CappedTo(rows, 2 * maxRelated), usable), maxRelated)
            context == [k \in 1..Len(kept) |-> Memory(kept[k], {"part_of_chain"}, 0, "fresh", "episode")]
<1>1. SameEpisode(p, maxRelated) = <<>> \/ SameEpisode(p, maxRelated) = context
  BY DEF SameEpisode
<1>2. kept \in Seq(Notes) /\ IsInjective(kept)
  <2>1. rows \in Seq(Notes) /\ IsInjective(rows)
    <3>1. kin \in SUBSET Notes
      OBVIOUS
    <3>. HIDE DEF kin
    <3>2. QED  BY <3>1, ByTypeFacts
  <2>. HIDE DEF rows, usable
  <2>2. PICK r, m : r = CappedTo(rows, 2 * maxRelated) /\ m = 2 * maxRelated
    OBVIOUS
  <2>3. m \in Nat
    BY <2>2
  <2>4. r \in Seq(Notes) /\ IsInjective(r)
    BY <2>1, <2>2, <2>3, CappedFacts
  <2>5. PICK f : f = Filter(r, usable)
    OBVIOUS
  <2>6. Filtered(f, r, usable, Notes)
    BY <2>4, <2>5, FilterFacts
  <2>7. f \in Seq(Notes) /\ IsInjective(f)
    BY <2>6 DEF Filtered
  <2>8. kept = CappedTo(f, maxRelated)
    BY <2>2, <2>5
  <2>9. QED  BY <2>7, <2>8, CappedFacts
<1>. HIDE DEF kept
<1>3. Len(kept) \in Nat /\ DOMAIN kept = 1..Len(kept) /\ \A k \in 1..Len(kept) : kept[k] \in Notes
  BY <1>2, LenProperties, ElementOfSeq
<1>4. ASSUME NEW k \in 1..Len(kept) PROVE context[k] \in Memories /\ context[k].id = kept[k]
  <2>1. PICK n : n = kept[k]
    OBVIOUS
  <2>2. {"part_of_chain"} \in SUBSET Relations /\ "fresh" \in Freshness
    BY DEF Relations, Followed, Freshness
  <2>3. context[k] = Memory(n, {"part_of_chain"}, 0, "fresh", "episode")
    BY <2>1
  <2>4. QED  BY <1>3, <2>1, <2>2, <2>3, MemoryMade
<1>5. context \in Seq(Memories) /\ Len(context) = Len(kept)
  <2>1. context \in [1..Len(kept) -> Memories]
    BY <1>4
  <2>. HIDE DEF context
  <2>2. QED  BY <1>3, <2>1, FunctionIsSeq
<1>6. OneEach(context)
  <2>. HIDE DEF context
  <2>1. QED  BY <1>2, <1>3, <1>4, <1>5 DEF OneEach, IsInjective
<1>. HIDE DEF context
<1>7. QED  BY <1>1, <1>5, <1>6, NoMemories

-----------------------------------------------------------------------------
(* The packet: what the trace adds.                                        *)

Packets ==
    {p \in [slots : [SlotSet -> Seq(Memories)], archive : BOOLEAN,
            warned : SUBSET Notes, contested : SUBSET Notes] : PacketOK(p)}

Hops == [id : Notes, depth : Nat]

\* Each note comes once: it was not known, nor new before.
TraceAccs(known) ==
    {acc \in [new : SUBSET Notes, packet : Packets, next : Seq(Hops)] :
        /\ AllIds(acc.packet) \subseteq known \cup acc.new
        /\ Cardinality(added \cup acc.new) <= MaxAdded}

LEMMA SlotTyped == ASSUME NEW type, NEW rels PROVE RelationBucket(type, rels) \in SlotSet
<1>1. {"timeline", "similarity", "contrast", "topic"} \subseteq SlotSet
  BY SlotFacts
<1>2. RelationBucket(type, rels) \in {"timeline", "similarity", "contrast", "topic"}
  BY DEF RelationBucket
<1>3. QED  BY <1>1, <1>2

\* A memory of a new note may be put into any slot.
LEMMA PutIn ==
    ASSUME NEW p, PacketOK(p), NEW s \in SlotSet, NEW m \in Memories, m.id \notin AllIds(p),
           NEW q, q = [p EXCEPT !.slots[s] = Append(@, m)]
    PROVE  PacketOK(q) /\ AllIds(q) \subseteq AllIds(p) \cup {m.id}
<1>1. /\ p.slots \in [SlotSet -> Seq(Memories)] /\ p.archive \in BOOLEAN
      /\ p.warned \subseteq Notes /\ p.contested \subseteq Notes
      /\ \A r \in SlotSet : OneEach(p.slots[r])
      /\ p = [slots |-> p.slots, archive |-> p.archive, warned |-> p.warned, contested |-> p.contested]
  BY DEF PacketOK
<1>2. PICK t, u : t = p.slots[s] /\ u = Append(t, m)
  OBVIOUS
<1>3. t \in Seq(Memories) /\ OneEach(t) /\ IsInjective(t) /\ Ids(t) = {a.id : a \in Range(t)}
      /\ \A a, b \in Range(t) : a.id = b.id => a = b
  BY <1>1, <1>2, MemoryFacts
<1>4. m.id \notin Ids(t)
  BY <1>2 DEF AllIds
<1>5. m \notin Range(t)
  BY <1>3, <1>4
<1>6. u \in Seq(Memories) /\ Range(u) = Range(t) \cup {m} /\ IsInjective(u)
  BY <1>2, <1>3, <1>5, Longer
<1>7. OneEach(u) /\ Ids(u) = Ids(t) \cup {m.id}
  <2>1. ASSUME NEW a \in Range(u), NEW b \in Range(u), a.id = b.id PROVE a = b
    <3>1. \A c \in Range(t) : c.id # m.id
      BY <1>3, <1>4
    <3>2. (a \in Range(t) \/ a = m) /\ (b \in Range(t) \/ b = m)
      BY <1>6
    <3>3. QED  BY <1>3, <2>1, <3>1, <3>2
  <2>2. OneEach(u)
    BY <1>6, <2>1, MemoryFacts
  <2>3. Ids(u) = {a.id : a \in Range(u)}
    BY <1>6, MemoryFacts
  <2>4. QED  BY <1>3, <1>6, <2>2, <2>3
<1>8. /\ q.slots = [p.slots EXCEPT ![s] = u] /\ q.archive = p.archive
      /\ q.warned = p.warned /\ q.contested = p.contested
      /\ q = [slots |-> q.slots, archive |-> q.archive, warned |-> q.warned, contested |-> q.contested]
  BY <1>1, <1>2
<1>9. \A r \in SlotSet : q.slots[r] = IF r = s THEN u ELSE p.slots[r]
  BY <1>1, <1>8
<1>10. q.slots \in [SlotSet -> Seq(Memories)] /\ \A r \in SlotSet : OneEach(q.slots[r])
  BY <1>1, <1>6, <1>7, <1>8, <1>9
<1>11. PacketOK(q)
  BY <1>1, <1>8, <1>10 DEF PacketOK
<1>12. ASSUME NEW n \in AllIds(q) PROVE n \in AllIds(p) \cup {m.id}
  <2>1. PICK r \in SlotSet : n \in Ids(q.slots[r])
    BY <1>12 DEF AllIds
  <2>2. n \in Ids(p.slots[r]) \/ n = m.id
    BY <1>2, <1>7, <1>9, <2>1
  <2>3. QED  BY <2>2 DEF AllIds
<1>13. QED  BY <1>11, <1>12

LEMMA FewNotes == ASSUME NEW S \in SUBSET Notes PROVE IsFiniteSet(S) /\ Cardinality(S) \in Nat
<1>1. Length \in Nat /\ Notes = 1..Length
  BY NoteFacts
<1>2. IsFiniteSet(Notes)
  BY <1>1, FS_Interval
<1>3. IsFiniteSet(S)
  BY <1>2, FS_Subset
<1>4. QED  BY <1>3, FS_CardinalityType

LEMMA OneTaken ==
    ASSUME added \subseteq Notes, NEW from \in Hops, NEW known, NEW intent,
           NEW acc \in TraceAccs(known), NEW e \in Followed \X Notes
    PROVE  TraceTake(from, known, intent, acc, e) \in TraceAccs(known)
<1>1. PICK n, m : n = e[2] /\ m = TraceMemory(e)
  OBVIOUS
<1>2. n \in Notes /\ e[1] \in Followed
  BY <1>1
<1>3. /\ acc.new \subseteq Notes /\ acc.packet \in Packets /\ acc.next \in Seq(Hops)
      /\ AllIds(acc.packet) \subseteq known \cup acc.new
      /\ Cardinality(added \cup acc.new) <= MaxAdded
  BY DEF TraceAccs
<1>4. CASE TraceTake(from, known, intent, acc, e) = acc
  BY <1>4
<1>5. CASE TraceTake(from, known, intent, acc, e) # acc
  <2>1. /\ n \notin known \cup acc.new /\ Cardinality(added \cup acc.new) < MaxAdded
        /\ TraceTake(from, known, intent, acc, e) =
             [new |-> acc.new \cup {n},
              packet |-> [acc.packet EXCEPT !.slots[TraceSlot(e)] = Append(@, m)],
              next |-> Append(acc.next, [id |-> n, depth |-> from.depth + 1])]
    BY <1>1, <1>5 DEF TraceTake
  <2>2. m \in Memories /\ m.id = n
    <3>1. m = Memory(n, {e[1]}, 0, Note[n].fresh, "trace")
      BY <1>1 DEF TraceMemory
    <3>2. Note[n].fresh \in Freshness /\ {e[1]} \in SUBSET Relations
      BY <1>2 DEF Freshness, Relations
    <3>3. QED  BY <1>2, <3>1, <3>2, MemoryMade
  <2>3. PICK s, q : s = TraceSlot(e) /\ q = [acc.packet EXCEPT !.slots[s] = Append(@, m)]
    OBVIOUS
  <2>4. s \in SlotSet
    BY <2>3, SlotTyped DEF TraceSlot
  <2>5. PacketOK(q) /\ AllIds(q) \subseteq AllIds(acc.packet) \cup {n}
    <3>1. PICK p : p = acc.packet
      OBVIOUS
    <3>2. PacketOK(p) /\ m.id \notin AllIds(p) /\ q = [p EXCEPT !.slots[s] = Append(@, m)]
      BY <1>3, <2>1, <2>2, <2>3, <3>1 DEF Packets
    <3>3. PacketOK(q) /\ AllIds(q) \subseteq AllIds(p) \cup {m.id}
      <4>1. m \in Memories /\ s \in SlotSet
        BY <2>2, <2>4
      <4>2. QED  BY <3>2, <4>1, PutIn
    <3>4. QED  BY <2>2, <3>1, <3>3
  <2>6. q \in Packets
    BY <2>5 DEF Packets, PacketOK
  <2>7. Append(acc.next, [id |-> n, depth |-> from.depth + 1]) \in Seq(Hops)
    <3>1. [id |-> n, depth |-> from.depth + 1] \in Hops
      BY <1>2 DEF Hops
    <3>2. QED  BY <1>3, <3>1, AppendProperties
  <2>8. Cardinality(added \cup (acc.new \cup {n})) <= MaxAdded
    <3>1. PICK S, T : S = added \cup acc.new /\ T = added \cup (acc.new \cup {n})
      OBVIOUS
    <3>2. S \in SUBSET Notes /\ T = S \cup {n}
      BY <1>2, <1>3, <3>1
    <3>3. IsFiniteSet(S) /\ Cardinality(S) \in Nat
      BY <3>2, FewNotes
    <3>4. Cardinality(T) = Cardinality(S) \/ Cardinality(T) = Cardinality(S) + 1
      BY <3>2, <3>3, FS_AddElement
    <3>5. MaxAdded \in Nat /\ Cardinality(S) < MaxAdded
      BY <2>1, <3>1, TaskAssumption
    <3>6. QED  BY <3>1, <3>3, <3>4, <3>5
  <2>9. PICK r : r = TraceTake(from, known, intent, acc, e)
    OBVIOUS
  <2>10. /\ r \in [new : SUBSET Notes, packet : Packets, next : Seq(Hops)]
         /\ r.new = acc.new \cup {n} /\ r.packet = q
    BY <1>2, <1>3, <2>1, <2>3, <2>6, <2>7, <2>9
  <2>11. QED  BY <1>3, <2>5, <2>8, <2>9, <2>10 DEF TraceAccs
<1>6. QED  BY <1>4, <1>5

LEMMA TraceFound ==
    ASSUME added \subseteq Notes, Cardinality(added) <= MaxAdded, NEW from \in Hops,
           NEW p, PacketOK(p), NEW known, AllIds(p) \subseteq known, NEW intent
    PROVE  TraceFrom(from, p, known, intent) \in TraceAccs(known)
<1>. DEFINE D == TraceAccs(known)
            base == [new |-> {}, packet |-> p, next |-> <<>>]
            Take(a, e) == TraceTake(from, known, intent, a, e)
<1>1. PICK edges : edges = TraceEdges(from.id)
  OBVIOUS
<1>2. PICK n : n = Len(edges)
  OBVIOUS
<1>3. n \in Nat /\ DOMAIN edges = 1..n /\ \A i \in 1..n : edges[i] \in Followed \X Notes
  <2>1. edges \in Seq(Followed \X Notes)
    BY <1>1, TraceEdgesFacts
  <2>2. QED  BY <1>2, <2>1, LenProperties, ElementOfSeq
<1>. DEFINE step == [e \in (1..n) \X D |-> Take(e[2], edges[e[1]])]
            Eq(f) == f = [s \in SUBSET (DOMAIN edges) |->
                            IF s = {} THEN base ELSE Take(f[s \ {Max(s)}], edges[Max(s)])]
<1>4. base \in D
  <2>1. PICK b : b = base
    OBVIOUS
  <2>2. <<>> \in Seq(Hops) /\ p \in Packets
    BY EmptySeq DEF Packets, PacketOK
  <2>3. b \in [new : SUBSET Notes, packet : Packets, next : Seq(Hops)]
    BY <2>1, <2>2
  <2>4. added \cup b.new = added /\ b.packet = p /\ b.new = {}
    BY <2>1
  <2>5. b \in TraceAccs(known)
    BY <2>3, <2>4 DEF TraceAccs
  <2>6. QED  BY <2>1, <2>5
<1>5. \A a \in D, i \in 1..n : Take(a, edges[i]) \in D
  BY <1>3, OneTaken
<1>. HIDE DEF Take, D, base
<1>6. StepFunction(1..n, D, step) /\ \A k \in 1..n, a \in D : step[<<k, a>>] = Take(a, edges[k])
  <2>1. \A e \in (1..n) \X D : Take(e[2], edges[e[1]]) \in D
    BY <1>5
  <2>2. QED  BY <2>1 DEF StepFunction
<1>. HIDE DEF step
<1>7. ASSUME NEW s \in (SUBSET (1..n)) \ {{}} PROVE Max(s) \in 1..n
  BY <1>3, GreatestPlace
<1>8. \E f : Eq(f)
  <2>1. PICK f \in [SUBSET (1..n) -> D] : Loops(f, n, D, base, step)
    BY <1>3, <1>4, <1>6, LoopDefined
  <2>2. ASSUME NEW s \in SUBSET (1..n), s # {}
        PROVE  f[s] = Take(f[s \ {Max(s)}], edges[Max(s)])
    <3>1. PICK x : x = Max(s)
      OBVIOUS
    <3>2. x \in 1..n
      BY <1>7, <2>2, <3>1
    <3>3. PICK a : a = f[s \ {x}]
      OBVIOUS
    <3>4. a \in D
      BY <3>3
    <3>5. f[s] = step[<<x, a>>]
      BY <2>1, <2>2, <3>1, <3>3, <3>4 DEF Loops
    <3>6. QED  BY <1>6, <3>1, <3>2, <3>3, <3>4, <3>5
  <2>3. f[{}] = base
    BY <2>1 DEF Loops
  <2>4. f = [s \in SUBSET (1..n) |-> f[s]]
    OBVIOUS
  <2>5. Eq(f)
    BY <1>3, <2>2, <2>3, <2>4
  <2>6. QED  BY <2>5
<1>9. PICK f : f = CHOOSE g : Eq(g)
  OBVIOUS
<1>10. Eq(f)
  BY <1>8, <1>9
<1>11. TraceFrom(from, p, known, intent) = f[1..n]
  BY <1>1, <1>3, <1>9 DEF TraceFrom, FoldLeft, MapThenFoldSet, Take, base
<1>12. Loops(f, n, D, base, step)
  <2>1. f[{}] = base
    BY <1>3, <1>10
  <2>2. ASSUME NEW s \in (SUBSET (1..n)) \ {{}}, f[s \ {Max(s)}] \in D
        PROVE  f[s] = step[<<Max(s), f[s \ {Max(s)}]>>]
    <3>1. PICK x : x = Max(s)
      OBVIOUS
    <3>2. PICK a : a = f[s \ {x}]
      OBVIOUS
    <3>3. x \in 1..n /\ a \in D
      BY <1>7, <2>2, <3>1, <3>2
    <3>4. f[s] = Take(a, edges[x])
      BY <1>3, <1>10, <3>1, <3>2
    <3>5. QED  BY <1>6, <3>1, <3>2, <3>3, <3>4
  <2>3. QED  BY <2>1, <2>2 DEF Loops
<1>13. PICK r : r = [i \in 0..n |-> f[1..i]]
  OBVIOUS
<1>14. r \in [0..n -> D]
  <2>1. IsRun(r, n, D, base, step)
    BY <1>3, <1>4, <1>6, <1>12, <1>13, LoopRuns
  <2>2. QED  BY <2>1 DEF IsRun
<1>15. r[n] \in D /\ r[n] = f[1..n]
  BY <1>3, <1>13, <1>14
<1>16. QED  BY <1>11, <1>15 DEF D

-----------------------------------------------------------------------------
(* The task as a whole.                                                    *)

\* The directive is that of the packet, for one reading of the request.
Assessed == \E factual \in BOOLEAN : directive = AssessPacket(packet, request, factual)

TaskInv ==
    /\ phase \in {"idle", "tracing", "assessed"} /\ pass \in 0..2
    /\ PacketOK(packet) /\ request.budget \in [primary : Nat, related : Nat]
    /\ added \subseteq Notes /\ Cardinality(added) <= MaxAdded
    /\ frontier \in Seq(Hops)
    /\ phase # "assessed" => directive = NoDirective
    /\ phase = "assessed" => Assessed /\ OneEach(CanonicalItems(packet))

LEMMA NothingAdded == Cardinality({}) = 0 /\ Cardinality({}) <= MaxAdded
BY FS_EmptySet, TaskAssumption

LEMMA EmptyPacketOK == PacketOK(EmptyPacket)
<1>1. PICK p : p = EmptyPacket
  OBVIOUS
<1>2. /\ p = [slots |-> [s \in SlotSet |-> <<>>], archive |-> FALSE, warned |-> {}, contested |-> {}]
      /\ p.slots = [s \in SlotSet |-> <<>>]
  BY <1>1 DEF EmptyPacket
<1>3. p.slots \in [SlotSet -> Seq(Memories)] /\ \A s \in SlotSet : OneEach(p.slots[s])
  BY <1>2, NoMemories
<1>4. QED  BY <1>1, <1>2, <1>3 DEF PacketOK

LEMMA TaskStart == TaskInit => TaskInv
<1>. SUFFICES ASSUME TaskInit PROVE TaskInv
  OBVIOUS
<1>1. /\ phase = "idle" /\ request = NoRequest /\ packet = EmptyPacket
      /\ frontier = <<>> /\ added = {} /\ directive = NoDirective /\ pass = 0
  BY DEF TaskInit
<1>2. request.budget \in [primary : Nat, related : Nat]
  BY <1>1 DEF NoRequest
<1>3. <<>> \in Seq(Hops)
  BY EmptySeq
<1>4. QED  BY <1>1, <1>2, <1>3, NothingAdded, EmptyPacketOK DEF TaskInv

LEMMA ResolveKeeps ==
    ASSUME NEW req, req.budget \in [primary : Nat, related : Nat], NEW n \in Nat, Resolve(req, n), pass' \in 0..2
    PROVE  TaskInv'
<1>1. PICK hs \in HitLists(n), archive \in BOOLEAN :
      \E edged \in SUBSET {k \in DOMAIN hs : Note[hs[k]].rels # {}} :
         Assemble(req, BuildPacket(hs, edged, req.budget, archive))
  BY DEF Resolve
<1>2. PICK edged : Assemble(req, BuildPacket(hs, edged, req.budget, archive))
  BY <1>1
<1>a. PICK p, m, b, e : /\ p = BuildPacket(hs, edged, req.budget, archive) /\ b = req.budget
                        /\ m = b.related /\ e = SameEpisode(p, m)
  OBVIOUS
<1>b. /\ request' = req /\ packet' = [p EXCEPT !.slots["episode"] = e]
      /\ frontier' = IF ShouldRunTrace(req.intent, CanonicalItems(packet'))
                     THEN [k \in 1..Len(CanonicalItems(packet')) |->
                              [id |-> CanonicalItems(packet')[k].id, depth |-> 0]]
                     ELSE <<>>
      /\ added' = {} /\ directive' = NoDirective /\ phase' = "tracing"
  BY <1>2, <1>a DEF Assemble
<1>3. IsHits(hs) /\ b \in [primary : Nat, related : Nat] /\ m \in Nat
  BY <1>a, HitListFacts
<1>4. PacketOK(p)
  BY <1>a, <1>3, BuiltPacket
<1>5. e \in Seq(Memories) /\ OneEach(e)
  BY <1>a, <1>3, <1>4, EpisodeFacts
<1>6. PICK q : q = [p EXCEPT !.slots["episode"] = e]
  OBVIOUS
<1>7. packet' = q
  BY <1>b, <1>6
<1>8. PacketOK(q)
  <2>1. /\ p.slots \in [SlotSet -> Seq(Memories)] /\ p.archive \in BOOLEAN
        /\ p.warned \subseteq Notes /\ p.contested \subseteq Notes
        /\ \A r \in SlotSet : OneEach(p.slots[r])
        /\ p = [slots |-> p.slots, archive |-> p.archive, warned |-> p.warned, contested |-> p.contested]
    BY <1>4 DEF PacketOK
  <2>2. /\ q.slots = [p.slots EXCEPT !["episode"] = e] /\ q.archive = p.archive
        /\ q.warned = p.warned /\ q.contested = p.contested
        /\ q = [slots |-> q.slots, archive |-> q.archive, warned |-> q.warned, contested |-> q.contested]
    BY <1>6, <2>1
  <2>3. \A r \in SlotSet : q.slots[r] = IF r = "episode" THEN e ELSE p.slots[r]
    BY <2>1, <2>2
  <2>4. q.slots \in [SlotSet -> Seq(Memories)] /\ \A r \in SlotSet : OneEach(q.slots[r])
    BY <1>5, <2>1, <2>2, <2>3
  <2>5. QED  BY <2>1, <2>2, <2>4 DEF PacketOK
<1>9. PICK items : items = CanonicalItems(q)
  OBVIOUS
<1>10. items \in Seq(Memories) /\ Len(items) \in Nat /\ \A k \in 1..Len(items) : items[k].id \in Notes
  <2>1. items \in Seq(Memories)
    BY <1>8, <1>9, CanonicalFacts
  <2>2. QED  BY <2>1, MemoryFacts DEF Memories
<1>11. frontier' \in Seq(Hops)
  <2>1. PICK h : h = [k \in 1..Len(items) |-> [id |-> items[k].id, depth |-> 0]]
    OBVIOUS
  <2>2. h \in [1..Len(items) -> Hops]
    BY <1>10, <2>1 DEF Hops
  <2>3. h \in Seq(Hops) /\ <<>> \in Seq(Hops)
    BY <1>10, <2>2, FunctionIsSeq, EmptySeq
  <2>4. CanonicalItems(packet') = items
    BY <1>7, <1>9
  <2>5. frontier' = h \/ frontier' = <<>>
    BY <1>b, <2>1, <2>4
  <2>6. QED  BY <2>3, <2>5
<1>12. PacketOK(packet)' /\ request'.budget \in [primary : Nat, related : Nat]
  BY <1>b, <1>7, <1>8 DEF PacketOK
<1>13. QED  BY <1>b, <1>11, <1>12, NothingAdded DEF TaskInv

LEMMA BeginKeeps == ASSUME TaskInv, BeginTask PROVE TaskInv'
<1>1. PICK req \in Requests : Resolve(req, HitBound)
  BY DEF BeginTask
<1>2. req.budget \in [primary : Nat, related : Nat] /\ HitBound \in Nat
  BY TaskAssumption DEF Requests
<1>3. pass' \in 0..2
  BY DEF BeginTask
<1>4. QED  BY <1>1, <1>2, <1>3, ResolveKeeps

LEMMA RetryKeeps == ASSUME TaskInv, AutoRetry PROVE TaskInv'
<1>1. PICK req : req = request
  OBVIOUS
<1>2. Resolve(req, RetryHitBound) /\ req.budget \in [primary : Nat, related : Nat] /\ RetryHitBound \in Nat
  BY <1>1, TaskAssumption DEF AutoRetry, TaskInv
<1>3. pass' \in 0..2
  BY DEF AutoRetry
<1>4. QED  BY <1>2, <1>3, ResolveKeeps

LEMMA TraceKeeps == ASSUME TaskInv, TraceStep PROVE TaskInv'
<1>1. /\ phase = "tracing" /\ frontier # <<>> /\ frontier \in Seq(Hops) /\ directive = NoDirective
      /\ PacketOK(packet) /\ request.budget \in [primary : Nat, related : Nat] /\ pass \in 0..2
      /\ added \subseteq Notes /\ Cardinality(added) <= MaxAdded
      /\ UNCHANGED <<phase, request, directive, pass>>
  BY DEF TaskInv, TraceStep, TraceMore
<1>2. PICK from, known : from = frontier[1] /\ known = Ids(CanonicalItems(packet))
  OBVIOUS
<1>3. PICK found : found = TraceFrom(from, packet, known, request.intent)
  OBVIOUS
<1>4. Tail(frontier) \in Seq(Hops) /\ from \in Hops
  BY <1>1, <1>2, HeadTailProperties, LenProperties
<1>5. found \in TraceAccs(known)
  <2>1. AllIds(packet) \subseteq known
    BY <1>1, <1>2, CanonicalFacts
  <2>2. QED  BY <1>1, <1>3, <1>4, <2>1, TraceFound
<1>6. /\ found.new \subseteq Notes /\ PacketOK(found.packet) /\ found.next \in Seq(Hops)
      /\ Cardinality(added \cup found.new) <= MaxAdded
  BY <1>5 DEF TraceAccs, Packets
<1>7. \/ frontier' = Tail(frontier) /\ UNCHANGED <<packet, added>>
      \/ /\ packet' = found.packet /\ added' = added \cup found.new
         /\ frontier' = Tail(frontier) \o found.next
  BY <1>2, <1>3 DEF TraceStep
<1>8. Tail(frontier) \o found.next \in Seq(Hops)
  BY <1>4, <1>6, ConcatProperties
<1>9. /\ PacketOK(packet)' /\ added' \subseteq Notes /\ Cardinality(added') <= MaxAdded
      /\ frontier' \in Seq(Hops)
  <2>1. CASE frontier' = Tail(frontier) /\ UNCHANGED <<packet, added>>
    BY <1>1, <1>4, <2>1 DEF PacketOK
  <2>2. CASE /\ packet' = found.packet /\ added' = added \cup found.new
             /\ frontier' = Tail(frontier) \o found.next
    BY <1>1, <1>6, <1>8, <2>2 DEF PacketOK
  <2>3. QED  BY <1>7, <2>1, <2>2
<1>10. QED  BY <1>1, <1>9 DEF TaskInv

LEMMA FinalizeKeeps == ASSUME TaskInv, FinalizePacket PROVE TaskInv'
<1>1. PICK p : p = Dedupe(packet)
  OBVIOUS
<1>2. PacketOK(p) /\ OneEach(CanonicalItems(p))
  BY <1>1, Deduped DEF TaskInv
<1>3. PICK factual \in BOOLEAN :
         /\ packet' = p /\ directive' = AssessPacket(p, request, factual) /\ frontier' = <<>>
         /\ phase' = "assessed" /\ UNCHANGED <<request, added, pass>>
  BY <1>1 DEF FinalizePacket
<1>4. <<>> \in Seq(Hops)
  BY EmptySeq
<1>5. PacketOK(packet)' /\ OneEach(CanonicalItems(packet))'
  BY <1>2, <1>3 DEF PacketOK, OneEach, CanonicalItems
<1>6. Assessed'
  BY <1>3 DEF Assessed
<1>7. QED  BY <1>3, <1>4, <1>5, <1>6 DEF TaskInv

LEMMA EmitKeeps == ASSUME TaskInv, Emit PROVE TaskInv'
<1>1. /\ phase' = "idle" /\ request' = NoRequest /\ packet' = EmptyPacket
      /\ added' = {} /\ directive' = NoDirective /\ pass' = 0 /\ UNCHANGED frontier
  BY DEF Emit
<1>2. request'.budget \in [primary : Nat, related : Nat]
  BY <1>1 DEF NoRequest
<1>3. PacketOK(packet)'
  BY <1>1, EmptyPacketOK DEF PacketOK, EmptyPacket
<1>4. QED  BY <1>1, <1>2, <1>3, NothingAdded DEF TaskInv

LEMMA TaskKeeps == TaskInv /\ [TaskNext]_taskVars => TaskInv'
<1>. SUFFICES ASSUME TaskInv, [TaskNext]_taskVars PROVE TaskInv'
  OBVIOUS
<1>1. CASE UNCHANGED taskVars
  <2>1. UNCHANGED <<phase, request, packet, frontier, added, seeds, directive, pass>>
    BY <1>1 DEF taskVars
  <2>2. Assessed' = Assessed
    BY <2>1 DEF Assessed
  <2>3. PacketOK(packet)' /\ OneEach(CanonicalItems(packet))' = OneEach(CanonicalItems(packet))
    BY <2>1 DEF TaskInv
  <2>4. QED  BY <2>1, <2>2, <2>3 DEF TaskInv
<1>2. QED
  BY <1>1, BeginKeeps, TraceKeeps, FinalizeKeeps, RetryKeeps, EmitKeeps DEF TaskNext

LEMMA ReuseHolds == TaskInv => ReuseOnlyCurrent
<1>. SUFFICES ASSUME TaskInv, directive.state # "none", directive.recommendation = "reuse",
                     NEW k \in 1..Len(CanonicalItems(packet))
              PROVE  LET m == CanonicalItems(packet)[k]
                     IN  /\ m.via # "edge" => Note[m.id].life \notin Withdrawn
                         /\ m.via # "episode" => Note[m.id].fresh \notin Doubtful
  BY DEF ReuseOnlyCurrent
<1>1. phase = "assessed"
  BY DEF TaskInv, NoDirective
<1>0. PICK factual : directive = AssessPacket(packet, request, factual)
  BY <1>1 DEF TaskInv, Assessed
<1>2. PICK state, completion, threshold :
         /\ state = RetrievalState(packet, request.historical)
         /\ completion = CompletionState(packet, factual)
         /\ threshold = Threshold(packet, state, completion)
  OBVIOUS
<1>3. ReusePolicy(state, completion, threshold) = "reuse"
  <2>1. directive = AssessPacket(packet, request, factual)
    BY <1>0
  <2>2. directive.recommendation = ReusePolicy(state, completion, threshold)
    BY <1>2, <2>1 DEF AssessPacket
  <2>3. QED  BY <2>2
<1>4. state \notin Insufficient \cup {"sufficient_historical", "partial"}
  BY <1>3 DEF ReusePolicy
<1>5. WarningItems(packet) = {}
  BY <1>2, <1>4 DEF RetrievalState, Insufficient
<1>6. PICK m : m = CanonicalItems(packet)[k]
  OBVIOUS
<1>7. m \in Memories
  <2>1. CanonicalItems(packet) \in Seq(Memories)
    BY CanonicalFacts DEF TaskInv
  <2>2. QED  BY <1>6, <2>1, ElementOfSeq
<1>8. m.fresh \notin Doubtful /\ m.life \notin Withdrawn
  <2>1. m \in {CanonicalItems(packet)[j] : j \in 1..Len(CanonicalItems(packet))}
    BY <1>6
  <2>2. m.id \notin WarningItems(packet)
    BY <1>5
  <2>3. QED  BY <2>1, <2>2 DEF WarningItems
<1>9. /\ m.via # "episode" => m.fresh = Note[m.id].fresh
      /\ m.via # "edge" => m.life = Note[m.id].life
  BY <1>7 DEF Memories
<1>10. QED  BY <1>6, <1>8, <1>9

LEMMA ShownHolds == TaskInv => ShownOrDeferred
<1>. SUFFICES ASSUME TaskInv, directive.state # "none" PROVE ShownOrDeferred
  BY DEF ShownOrDeferred
<1>1. phase = "assessed"
  BY DEF TaskInv, NoDirective
<1>0. PICK factual : directive = AssessPacket(packet, request, factual)
  BY <1>1 DEF TaskInv, Assessed
<1>2. OneEach(CanonicalItems(packet)) /\ PacketOK(packet)
  BY <1>1 DEF TaskInv
<1>3. PICK items : items = CanonicalItems(packet)
  OBVIOUS
<1>4. items \in Seq(Memories) /\ \A j, k \in 1..Len(items) : items[j].id = items[k].id => j = k
  BY <1>2, <1>3, CanonicalFacts DEF OneEach
<1>5. PICK chains : chains = BranchChains(packet)
  OBVIOUS
<1>6. PICK state, completion :
         /\ state = RetrievalState(packet, request.historical)
         /\ completion = CompletionState(packet, factual)
  OBVIOUS
<1>7. /\ directive.selected = SelectedBranches(packet, state, completion)
      /\ directive.deferred = (1..Len(Branches(packet))) \ directive.selected
  BY <1>0, <1>6 DEF AssessPacket, DeferredBranches
<1>8. PICK S : S = {m.chain : m \in Range(FunctionalPath(packet))}
  OBVIOUS
<1>9. chains \in Seq(0..Length) /\ Range(chains) = S \cap 0..Length /\ Len(chains) \in Nat
      /\ DOMAIN chains = 1..Len(chains)
  <2>1. chains = InOrder(S)
    BY <1>5, <1>8 DEF BranchChains
  <2>2. chains \in Seq(0..Length) /\ Range(chains) = S \cap 0..Length
    BY <2>1, InOrderFacts
  <2>3. QED  BY <2>2, LenProperties
<1>10. Branches(packet) = CappedTo(chains, MaxBranches) /\ MaxBranches \in Nat
  BY <1>5, TaskAssumption DEF Branches
<1>11. Len(Branches(packet)) = IF Len(chains) < MaxBranches THEN Len(chains) ELSE MaxBranches
  <2>1. PICK m : m = IF Len(chains) < MaxBranches THEN Len(chains) ELSE MaxBranches
    OBVIOUS
  <2>2. m \in Nat /\ \A i \in 1..m : chains[i] \in 0..Length
    <3>1. m \in Nat /\ m <= Len(chains)
      BY <1>9, <1>10, <2>1
    <3>2. \A i \in 1..m : i \in 1..Len(chains)
      BY <1>9, <3>1
    <3>3. QED  BY <1>9, <3>1, <3>2, ElementOfSeq
  <2>3. PICK t : t = SubSeq(chains, 1, m)
    OBVIOUS
  <2>4. Len(t) = IF 1 <= m THEN m - 1 + 1 ELSE 0
    BY <2>2, <2>3, SubSeqProperties
  <2>5. Len(t) = m
    BY <2>2, <2>4
  <2>6. QED  BY <1>10, <2>1, <2>3, <2>5 DEF CappedTo
<1>12. ASSUME NEW k \in 1..Len(items)
       PROVE  \/ items[k] \in Shown(packet, directive)
              \/ BranchOf(packet, items[k]) \in directive.deferred
              \/ BranchOf(packet, items[k]) > MaxBranches
  <2>1. PICK m, b : m = items[k] /\ b = BranchOf(packet, m)
    OBVIOUS
  <2>2. m \in {CanonicalItems(packet)[j] : j \in 1..Len(CanonicalItems(packet))} /\ m \in Memories
    BY <1>3, <1>4, <2>1, ElementOfSeq
  <2>3. CASE b = 0 \/ directive.selected = {} \/ b \in directive.selected
    BY <2>1, <2>2, <2>3 DEF Shown
  <2>4. CASE b # 0 /\ b \notin directive.selected
    <3>1. m \in Range(FunctionalPath(packet)) /\ m.chain \in 0..Length
      BY <2>1, <2>2, <2>4 DEF BranchOf, Memories
    <3>2. m.chain \in S \cap 0..Length
      BY <1>8, <3>1
    <3>3. \E j \in 1..Len(chains) : chains[j] = m.chain
      BY <1>9, <3>2 DEF Range
    <3>4. b \in 1..Len(chains)
      <4>1. b = CHOOSE j \in 1..Len(chains) : chains[j] = m.chain
        BY <1>5, <2>1, <3>1 DEF BranchOf
      <4>2. QED  BY <3>3, <4>1
    <3>5. b \in 1..Len(Branches(packet)) \/ b > MaxBranches
      BY <1>9, <1>10, <1>11, <3>4
    <3>6. QED  BY <1>7, <2>1, <2>4, <3>5
  <2>5. QED  BY <2>3, <2>4
<1>13. QED  BY <1>3, <1>4, <1>12 DEF ShownOrDeferred

LEMMA TaskTyped == TaskInv => TaskTypeOK
<1>. SUFFICES ASSUME TaskInv PROVE TaskTypeOK
  OBVIOUS
<1>1. DOMAIN packet.slots = SlotSet
  BY DEF TaskInv, PacketOK
<1>2. QED  BY <1>1 DEF TaskInv, TaskTypeOK

LEMMA TaskAlways == TaskSpec => []TaskInv
BY TaskStart, TaskKeeps, PTL DEF TaskSpec

\* The variables of the task runtime stay in their ranges, and the trace adds no
\* more notes than its limit, however many edges a note has.
THEOREM TaskTypeCorrect == TaskSpec => []TaskTypeOK
BY TaskTyped, TaskAlways, PTL

\* Reuse without verification is recommended only for packets of current notes,
\* as far as what is read of them says: for every vault, request and list of
\* hits, of whichever channels.
THEOREM ReuseIsCurrent == TaskSpec => []ReuseOnlyCurrent
BY TaskAlways, ReuseHolds, PTL

\* A memory of the packet is shown or named as deferred, and is in one slot: for
\* every vault, request and list of hits.
THEOREM NothingUnnamed == TaskSpec => []ShownOrDeferred
BY TaskAlways, ShownHolds, PTL

-----------------------------------------------------------------------------
(* All who work with the vault.                                            *)

WorkInv == TaskInv /\ RecallInv /\ ReviewInv /\ GameInv

LEMMA WorkStart == WorkInit => WorkInv
BY TaskStart, RecallStart, ReviewStart, GameStart DEF WorkInit, WorkInv

\* A part's step leaves the variables of the others as they are.
LEMMA WorkParts ==
    [WorkNext]_workVars => /\ [TaskNext]_taskVars /\ [RecallNext]_recallVars
                           /\ [ReviewNext]_reviewVars /\ [GameNext]_gameVars
<1>. SUFFICES ASSUME [WorkNext]_workVars
              PROVE  /\ [TaskNext]_taskVars /\ [RecallNext]_recallVars
                     /\ [ReviewNext]_reviewVars /\ [GameNext]_gameVars
  OBVIOUS
<1>1. CASE TaskPart
  BY <1>1 DEF TaskPart
<1>2. CASE SearchPart
  BY <1>2 DEF SearchPart
<1>3. CASE ReviewPart
  BY <1>3 DEF ReviewPart
<1>4. CASE GamePart
  BY <1>4 DEF GamePart
<1>5. CASE UNCHANGED workVars
  BY <1>5 DEF workVars
<1>6. QED  BY <1>1, <1>2, <1>3, <1>4, <1>5 DEF WorkNext

LEMMA WorkKeeps == WorkInv /\ [WorkNext]_workVars => WorkInv'
BY WorkParts, TaskKeeps, RecallKeeps, ReviewKeeps, GameKeeps DEF WorkInv

LEMMA WorkAlways == WorkSpec => []WorkInv
BY WorkStart, WorkKeeps, PTL DEF WorkSpec

\* The variables of task runtime, search, review and game stay in their ranges,
\* whatever notes, pages, items and vaults there are.
THEOREM WorkTypeCorrect == WorkSpec => []WorkTypeOK
<1>1. WorkInv => WorkTypeOK
  <2>. SUFFICES ASSUME WorkInv PROVE WorkTypeOK
    OBVIOUS
  <2>1. TaskTypeOK
    BY TaskTyped DEF WorkInv
  <2>2. RecallTypeOK /\ GameTypeOK
    BY DEF WorkInv, RecallInv, GameInv
  <2>3. ReviewTypeOK
    BY DEF WorkInv, ReviewInv, ReviewType, ReviewTypeOK, Fits
  <2>4. QED  BY <2>1, <2>2, <2>3 DEF WorkTypeOK
<1>2. QED  BY <1>1, WorkAlways, PTL

\* What is promised of each of them holds of all together, in the behaviours
\* the model checker explores, for every value of the constants.
THEOREM WorkIsSound ==
    WorkSpec => /\ [](ReuseOnlyCurrent /\ ShownOrDeferred /\ SearchAnswers /\ VerdictsKept
                       /\ GameConsistent)
                /\ EscapesLeave
<1>1. WorkInv => ReuseOnlyCurrent /\ ShownOrDeferred
  BY ReuseHolds, ShownHolds DEF WorkInv
<1>2. WorkInv => SearchAnswers /\ VerdictsKept
  BY SearchHolds, VerdictsHold DEF WorkInv
<1>3. WorkInv => GameConsistent
  BY DEF WorkInv, GameInv, GameConsistent, TrailFollowsWorld, Follows
<1>4. WorkInv /\ [WorkNext]_workVars
         => [Escape => EscapesNeeded(game') < EscapesNeeded(game)]_gameVars
  BY WorkParts, EscapeShrinks DEF WorkInv
<1>5. QED  BY <1>1, <1>2, <1>3, <1>4, WorkAlways, PTL DEF WorkSpec, EscapesLeave
=============================================================================
