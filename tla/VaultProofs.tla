------------------------------ MODULE VaultProofs ------------------------------
(***************************************************************************)
(* Proofs about what comes into the vault, for any number of files, rows,  *)
(* processes, threads and deaths: no ingest that was reported is lost and  *)
(* redirects end, the lifecycle of a note follows from what was seen of    *)
(* it, capture keeps every event and leaves records that agree, and what   *)
(* projections hand to a model leaves no text out.                         *)
(***************************************************************************)
EXTENDS MCVault, SequenceTheorems, OrderLemmas,
        FiniteSetsExt

-----------------------------------------------------------------------------
(* Ingest: the inductive invariant.                                        *)

Intake == ({"artifact"} \X Artifacts) \cup ({"session"} \X Names)

\* Row i has the bytes of f and their hash.
Holds(i, f) == i \in Artifacts /\ archive[i].raw /\ archive[i].file = f

\* What a process is about to do speaks of rows, names and contents there are.
Doing(r) ==
    \/ r = NoOneIngests
    \/ r \in [pc : {"refer"}, file : Files, row : Artifacts] /\ Holds(r.row, r.file)
    \/ r \in [pc : {"extract"}, file : Files]
    \/ r \in [pc : {"reextract"}, row : Artifacts] /\ archive[r.row].raw
    \/ r \in [pc : {"enqueue"}, what : Intake]
    \/ r \in [pc : {"write", "insert"}, name : Names, content : Summaries]

IngestType ==
    /\ IngestTypeOK
    /\ ingester = [x \in Ingesters |-> ingester[x]] /\ \A x \in Ingesters : Doing(ingester[x])
    /\ acked \subseteq Intake

\* A row that is no duplicate has a hash; one without refers to a row with
\* the same bytes that has; and each row with a hash has been queued, will be,
\* or died before it was.
RowKept(i) ==
    /\ archive[i].text \in {NoExtract, TextOf[archive[i].file]}
    /\ archive[i].dup \in Own => archive[i].raw
    /\ ~archive[i].raw => Holds(archive[i].canon, archive[i].file)
    /\ archive[i].raw => <<"artifact", i>> \in queued \/ OnItsWay(i) \/ i \in stranded

RowsKept == \A i \in Artifacts : RowKept(i)

\* Process x has picked name n and not inserted its row.
HasPicked(x, n) == ingester[x].pc \in {"write", "insert"} /\ ingester[x].name = n

Stored(n) == sessionRow[n] # NoExtract /\ sessionFile[n] = sessionRow[n]

\* A name nobody picked twice at once is one process's until its row is there.
NameKept(n) ==
    /\ \A x, y \in Ingesters : HasPicked(x, n) /\ HasPicked(y, n) => x = y
    /\ \A x \in Ingesters : HasPicked(x, n) =>
          /\ sessionRow[n] = NoExtract
          /\ sessionFile[n] = IF ingester[x].pc = "write" THEN NoExtract ELSE ingester[x].content
    /\ \A x \in Ingesters :
          ingester[x].pc = "enqueue" /\ ingester[x].what = <<"session", n>> => Stored(n)
    /\ <<"session", n>> \in acked => Stored(n) /\ <<"session", n>> \in queued

NamesKept == \A n \in Names \ raced : NameKept(n)

IngestInv == IngestType /\ RowsKept /\ NamesKept /\ RedirectsEnd

-----------------------------------------------------------------------------
(* Looking for a duplicate.                                                *)

LEMMA LeastOne ==
    ASSUME NEW S \in SUBSET Nat, S # {}
    PROVE  Least(S) \in S
BY LeastMember DEF Least

LEMMA RowSound ==
    ASSUME IngestTypeOK, NEW i \in Artifacts
    PROVE  archive[i] \in ArtifactRow
<1>1. archive \in Seq(ArtifactRow) /\ i \in 1..Len(archive)
  BY DEF IngestTypeOK, Artifacts
<1>. HIDE DEF ArtifactRow
<1>2. QED  BY <1>1, ElementOfSeq

\* The search for an exact duplicate comes back with a row of these bytes, or
\* with none.
LEMMA FoundHolds ==
    ASSUME IngestTypeOK, NEW f, FindExactDuplicate(f) # 0
    PROVE  Holds(FindExactDuplicate(f), f)
<1>. DEFINE S == {i \in Artifacts : archive[i].raw /\ archive[i].file = f}
<1>1. Len(archive) \in Nat
  BY LenProperties DEF IngestTypeOK
<1>2. S \in SUBSET Nat /\ S # {}
  BY <1>1 DEF Artifacts, FindExactDuplicate, OrNone
<1>3. FindExactDuplicate(f) = Least(S)
  BY <1>2 DEF FindExactDuplicate, OrNone
<1>4. Least(S) \in S
  <2>. HIDE DEF S
  <2>1. QED  BY <1>2, LeastOne
<1>5. QED  BY <1>3, <1>4 DEF Holds

Score == 0..100

\* Two texts that were found score somewhere between 0 and 100.
LEMMA ScoreBounded ==
    ASSUME IngestTypeOK, RowsKept, NEW i, NEW f \in Files, NEW t \in {NoExtract, TextOf[f]},
           NEW j \in Candidates(i, t)
    PROVE  CandidateScore(t, j) \in Score
<1>1. /\ t # NoExtract /\ t = TextOf[f]
      /\ j \in Artifacts /\ archive[j].text # NoExtract
  BY DEF Candidates
<1>2. archive[j].text = TextOf[archive[j].file]
  BY <1>1 DEF RowsKept, RowKept
<1>3. archive[j].file \in Files
  BY <1>1, RowSound DEF ArtifactRow
<1>4. Likeness[t][TextOf[archive[j].file]] \in Score
  BY <1>1, <1>2, <1>3, IngestAssumption DEF Score
<1>5. \A s \in OverlapScores(t, j) : s \in Score
  BY IngestAssumption DEF OverlapScores, Score
<1>6. QED  BY <1>4, <1>5 DEF CandidateScore

\* What the classification may return: no duplicate, or a class and another
\* row that is none itself.
Related(i, id) ==
    \/ id.dup = "unique" /\ id.canon = 0
    \/ /\ id.dup \in Own \cup {"canonical_duplicate"}
       /\ id.canon \in Artifacts \ {i} /\ archive[id.canon].dup \in Own

LEMMA Classified ==
    ASSUME IngestTypeOK, RowsKept, NEW i, NEW f \in Files, NEW t \in {NoExtract, TextOf[f]}
    PROVE  Related(i, Classify(i, f, t))
<1>. DEFINE same == SameFingerprint(i, f, t)
            near == Candidates(i, t)
            scores == {CandidateScore(t, j) : j \in near}
            best == CHOOSE s \in scores : \A j \in near : s >= CandidateScore(t, j)
            nearest == {j \in near : CandidateScore(t, j) = best}
            overlapSeen == \E j \in near : OverlapScores(t, j) # {}
            related == [dup |-> IF overlapSeen THEN "overlap_related"
                                ELSE IF best >= 95 THEN "canonical_duplicate"
                                ELSE "possible_duplicate",
                        canon |-> Least(nearest)]
<1>0. Artifacts \subseteq Nat
  BY LenProperties DEF IngestTypeOK, Artifacts
<1>1. same \in SUBSET Nat /\ near \in SUBSET Nat
  BY <1>0 DEF SameFingerprint, Candidates
<1>2. Classify(i, f, t) =
        CASE same # {} -> [dup |-> "canonical_duplicate", canon |-> Least(same)]
          [] same = {} /\ (near = {} \/ best < 60) -> [dup |-> "unique", canon |-> 0]
          [] OTHER -> related
  BY DEF Classify
<1>3. \A j \in same \cup near : j \in Artifacts \ {i} /\ archive[j].dup \in Own
  BY DEF SameFingerprint, Candidates
<1>4. CASE same # {}
  <2>1. Least(same) \in same
    <3>. HIDE DEF same
    <3>1. QED  BY <1>1, <1>4, LeastOne
  <2>2. Classify(i, f, t) = [dup |-> "canonical_duplicate", canon |-> Least(same)]
    <3>. HIDE DEF same, near, best, related
    <3>1. QED  BY <1>2, <1>4
  <2>. HIDE DEF same, near
  <2>3. QED  BY <1>3, <2>1, <2>2 DEF Related
<1>5. CASE same = {} /\ (near = {} \/ best < 60)
  <2>1. Classify(i, f, t) = [dup |-> "unique", canon |-> 0]
    <3>. HIDE DEF same, near, best, related
    <3>1. QED  BY <1>2, <1>5
  <2>2. QED  BY <2>1 DEF Related
<1>6. CASE same = {} /\ ~(near = {} \/ best < 60)
  <2>1. Classify(i, f, t) = related
    <3>. HIDE DEF same, near, best, related
    <3>1. QED  BY <1>2, <1>6
  <2>2. scores \in SUBSET Score /\ scores # {}
    <3>1. \A j \in near : CandidateScore(t, j) \in Score
      BY ScoreBounded
    <3>2. QED  BY <1>6, <3>1
  <2>3. \E s \in scores : \A j \in near : s >= CandidateScore(t, j)
    <3>1. IsFiniteSet(Score)
      <4>1. 0 \in Int /\ 100 \in Int
        OBVIOUS
      <4>2. QED  BY <4>1, FS_Interval DEF Score
    <3>2. IsFiniteSet(scores) /\ scores \in SUBSET Nat
      <4>1. IsFiniteSet(scores)
        <5>. HIDE DEF scores
        <5>1. QED  BY <2>2, <3>1, FS_Subset
      <4>2. scores \in SUBSET Nat
        BY <2>2 DEF Score
      <4>3. QED  BY <4>1, <4>2
    <3>3. PICK n \in scores : \A m \in scores : m <= n
      <4>. HIDE DEF scores
      <4>1. QED  BY <2>2, <3>2, GreatestMember
    <3>4. \A j \in near : CandidateScore(t, j) \in scores
      OBVIOUS
    <3>. HIDE DEF scores, near
    <3>5. \A j \in near : n >= CandidateScore(t, j)
      <4>1. n \in Nat /\ \A m \in scores : m \in Nat
        BY <3>2, <3>3
      <4>2. QED  BY <3>3, <3>4, <4>1
    <3>6. QED  BY <3>5
  <2>4. best \in scores
    <3>. HIDE DEF scores, near
    <3>1. QED  BY <2>3
  <2>5. nearest # {} /\ nearest \in SUBSET Nat
    <3>1. nearest # {}
      <4>. HIDE DEF best, near
      <4>1. QED  BY <2>4
    <3>. HIDE DEF best, near
    <3>2. QED  BY <1>1, <3>1
  <2>6. Least(nearest) \in nearest
    <3>. HIDE DEF nearest
    <3>1. QED  BY <2>5, LeastOne
  <2>7. Least(nearest) \in near
    <3>. HIDE DEF near, best
    <3>1. QED  BY <2>6
  <2>8. /\ related.dup \in Own \cup {"canonical_duplicate"}
        /\ related.canon = Least(nearest)
    <3>. HIDE DEF near, best, nearest, overlapSeen
    <3>1. QED  BY DEF Own
  <2>. HIDE DEF same, near, nearest, related
  <2>9. QED  BY <1>3, <2>1, <2>7, <2>8 DEF Related
<1>7. QED  BY <1>4, <1>5, <1>6

\* What a connector may come back with.
LEMMA Extracted ==
    ASSUME NEW f \in Files, NEW lazy, NEW r \in ConnectorForPath(f, lazy)
    PROVE  r.text \in {NoExtract, TextOf[f]} /\ r.status \in {"accepted", "failed"}
BY DEF ConnectorForPath, PdfExtract, DocxExtract, TextExtract, StatusForText, Accepted, Failed

-----------------------------------------------------------------------------
(* What steps have in common.                                              *)

\* The rows there are keep their bytes and hashes.
RowsStand ==
    /\ Artifacts \subseteq Artifacts'
    /\ \A i \in Artifacts : archive'[i].raw = archive[i].raw /\ archive'[i].file = archive[i].file

LEMMA DoingStands ==
    ASSUME RowsStand, NEW r, Doing(r)
    PROVE  Doing(r)'
BY DEF Doing, RowsStand, Holds, Intake, Names

\* One process goes on, with something there is.
LEMMA OneMoves ==
    ASSUME IngestType, RowsStand, NEW x \in Ingesters, NEW s, Becomes(x, s), Doing(s)'
    PROVE  /\ ingester' = [y \in Ingesters |-> ingester'[y]]
           /\ \A y \in Ingesters : Doing(ingester[y])'
           /\ DOMAIN ingester' = Ingesters
           /\ ingester'[x] = s /\ \A y \in Ingesters \ {x} : ingester'[y] = ingester[y]
<1>1. /\ ingester' = [y \in Ingesters |-> ingester'[y]]
      /\ DOMAIN ingester' = Ingesters
      /\ ingester'[x] = s /\ \A y \in Ingesters \ {x} : ingester'[y] = ingester[y]
  BY DEF IngestType, Becomes
<1>2. ASSUME NEW y \in Ingesters PROVE Doing(ingester[y])'
  <2>1. CASE y = x
    <3>1. PICK q : q = ingester'[x]
      OBVIOUS
    <3>2. Doing(q)'
      BY <1>1, <3>1
    <3>3. QED  BY <2>1, <3>1, <3>2 DEF Doing
  <2>2. CASE y # x
    <3>1. PICK q : q = ingester[y]
      OBVIOUS
    <3>2. Doing(q)
      BY <3>1 DEF IngestType
    <3>3. Doing(q)'
      BY <3>2, DoingStands
    <3>4. ingester'[y] = q
      BY <1>1, <2>2, <3>1
    <3>5. QED  BY <3>3, <3>4 DEF Doing
  <2>3. QED  BY <2>1, <2>2
<1>3. QED  BY <1>1, <1>2

\* No queued row, stranded row or report is forgotten.
HistoryStands == queued \subseteq queued' /\ stranded \subseteq stranded'

\* A row keeps its promise when the one process that goes on was not about to
\* enqueue it, or has done so, or died before.
LEMMA RowStays ==
    ASSUME IngestType, HistoryStands, NEW x \in Ingesters, NEW s, Becomes(x, s),
           NEW i, RowKept(i), archive[i].raw => archive'[i].raw,
           \/ ingester[x].pc # "enqueue" \/ ingester[x].what # <<"artifact", i>>
           \/ <<"artifact", i>> \in queued' \/ i \in stranded'
    PROVE  archive[i].raw =>
             (<<"artifact", i>> \in queued \/ OnItsWay(i) \/ i \in stranded)'
<1>. SUFFICES ASSUME archive[i].raw, <<"artifact", i>> \notin queued', i \notin stranded'
              PROVE  OnItsWay(i)'
  OBVIOUS
<1>1. OnItsWay(i)
  BY DEF RowKept, HistoryStands
<1>2. PICK y \in Ingesters : ingester[y].pc = "enqueue" /\ ingester[y].what = <<"artifact", i>>
  BY <1>1 DEF OnItsWay
<1>3. y # x
  BY <1>2
<1>4. ingester'[y] = ingester[y]
  BY <1>3 DEF IngestType, Becomes
<1>5. QED  BY <1>2, <1>4 DEF OnItsWay

\* A name keeps its promise when the process that goes on has nothing to do
\* with it from now on.
LEMMA NameStays ==
    ASSUME IngestType, NEW n \in Names, NameKept(n), NEW x \in Ingesters, NEW s, Becomes(x, s),
           sessionFile'[n] = sessionFile[n], sessionRow'[n] = sessionRow[n], HistoryStands,
           s.pc \in {"write", "insert"} => s.name # n,
           s.pc = "enqueue" => s.what # <<"session", n>>,
           <<"session", n>> \in acked' =>
               <<"session", n>> \in acked \/
               (<<"session", n>> \in queued' /\
                ingester[x].pc = "enqueue" /\ ingester[x].what = <<"session", n>>)
    PROVE  NameKept(n)'
<1>1. \A y \in Ingesters : ingester'[y] = IF y = x THEN s ELSE ingester[y]
  BY DEF IngestType, Becomes
<1>2. \A y \in Ingesters : HasPicked(y, n)' => HasPicked(y, n) /\ ingester'[y] = ingester[y]
  BY <1>1 DEF HasPicked
<1>3. Stored(n)' <=> Stored(n)
  BY DEF Stored
<1>4. \A y, z \in Ingesters : HasPicked(y, n)' /\ HasPicked(z, n)' => y = z
  BY <1>2 DEF NameKept
<1>5. ASSUME NEW y \in Ingesters, HasPicked(y, n)'
      PROVE  /\ sessionRow'[n] = NoExtract
             /\ sessionFile'[n] = IF ingester'[y].pc = "write" THEN NoExtract
                                  ELSE ingester'[y].content
  <2>1. HasPicked(y, n) /\ ingester'[y] = ingester[y]
    BY <1>2, <1>5
  <2>2. QED  BY <2>1 DEF NameKept
<1>6. ASSUME NEW y \in Ingesters, ingester'[y].pc = "enqueue",
             ingester'[y].what = <<"session", n>>
      PROVE  Stored(n)'
  <2>1. y # x
    BY <1>1, <1>6
  <2>2. ingester[y].pc = "enqueue" /\ ingester[y].what = <<"session", n>>
    BY <1>1, <1>6, <2>1
  <2>3. QED  BY <1>3, <2>2 DEF NameKept
<1>7. ASSUME <<"session", n>> \in acked'
      PROVE  Stored(n)' /\ <<"session", n>> \in queued'
  <2>1. CASE <<"session", n>> \in acked
    BY <1>3, <2>1 DEF NameKept, HistoryStands
  <2>2. CASE <<"session", n>> \in queued' /\ ingester[x].pc = "enqueue"
             /\ ingester[x].what = <<"session", n>>
    BY <1>3, <2>2 DEF NameKept
  <2>3. QED  BY <1>7, <2>1, <2>2
<1>8. QED  BY <1>4, <1>5, <1>6, <1>7 DEF NameKept

\* The names: when a process lets go of one, or has to do with rows only.
LEMMA NamesStay ==
    ASSUME IngestType, NamesKept, NEW x \in Ingesters, NEW s, Becomes(x, s),
           UNCHANGED <<sessionFile, sessionRow, raced>>, HistoryStands,
           s.pc \notin {"write", "insert"},
           s.pc = "enqueue" => s.what[1] = "artifact",
           \A n \in Names : <<"session", n>> \in acked' =>
               <<"session", n>> \in acked \/
               (<<"session", n>> \in queued' /\
                ingester[x].pc = "enqueue" /\ ingester[x].what = <<"session", n>>)
    PROVE  NamesKept'
<1>. SUFFICES ASSUME NEW n \in Names \ raced' PROVE NameKept(n)'
  BY DEF NamesKept, Names
<1>1. NameKept(n)
  BY DEF NamesKept
<1>2. s.pc = "enqueue" => s.what # <<"session", n>>
  OBVIOUS
<1>3. QED  BY <1>1, <1>2, NameStays

\* Redirects: a new row ends them as long as it does not refer to itself.
LEMMA NewRowEnds ==
    ASSUME IngestTypeOK, RedirectsEnd, NEW r, archive' = Append(archive, r),
           r.canon # Len(archive) + 1
    PROVE  RedirectsEnd'
<1>. DEFINE i == Len(archive) + 1
<1>0. Len(archive) \in Nat
  BY LenProperties DEF IngestTypeOK
<1>1. /\ Len(archive') = Len(archive) + 1
      /\ \A j \in Artifacts : archive'[j] = archive[j]
      /\ archive'[Len(archive) + 1] = r
  BY <1>0, AppendProperties DEF IngestTypeOK, Artifacts
<1>2. Artifacts' = Artifacts \cup {i} /\ i \notin Artifacts
  BY <1>0, <1>1 DEF Artifacts
<1>3. \A j \in Artifacts : archive[j].canon # i
  BY <1>0 DEF IngestTypeOK
<1>. HIDE DEF i
<1>4. archive'[i] = r /\ r.canon # i
  BY <1>1 DEF i
<1>5. \A T : T # {} /\ T \subseteq {j \in Artifacts : archive[j].dup \in Redirect} =>
             \E j \in T : archive[j].canon \notin T
  BY DEF RedirectsEnd
<1>6. ASSUME NEW S, S # {}, S \subseteq {j \in Artifacts' : archive'[j].dup \in Redirect}
      PROVE  \E j \in S : archive'[j].canon \notin S
  <2>1. CASE S = {i}
    BY <1>4, <2>1
  <2>2. CASE S # {i}
    <3>1. PICK T : T = S \ {i}
      OBVIOUS
    <3>2. T # {} /\ T \subseteq Artifacts
      BY <1>2, <1>6, <2>2, <3>1
    <3>3. T \subseteq {j \in Artifacts : archive[j].dup \in Redirect}
      BY <1>1, <1>6, <3>1, <3>2
    <3>4. PICK j \in T : archive[j].canon \notin T
      BY <1>5, <3>2, <3>3
    <3>5. j \in S /\ j \in Artifacts /\ archive'[j].canon \notin S
      BY <1>1, <1>3, <3>1, <3>2, <3>4
    <3>6. QED  BY <3>5
  <2>3. QED  BY <2>1, <2>2
<1>7. QED  BY <1>6 DEF RedirectsEnd, Redirect

\* And a row that was updated refers to one that is no duplicate.
LEMMA UpdateEnds ==
    ASSUME IngestTypeOK, RedirectsEnd, NEW i \in Artifacts, NEW r, NEW id,
           archive' = [archive EXCEPT ![i] = r], r.dup = id.dup, r.canon = id.canon, Related(i, id)
    PROVE  RedirectsEnd'
<1>1. /\ Artifacts' = Artifacts
      /\ archive'[i] = r /\ \A j \in Artifacts \ {i} : archive'[j] = archive[j]
  BY ExceptSeq DEF IngestTypeOK, Artifacts
<1>2. \A T : T # {} /\ T \subseteq {j \in Artifacts : archive[j].dup \in Redirect} =>
             \E j \in T : archive[j].canon \notin T
  BY DEF RedirectsEnd
<1>3. ASSUME NEW S, S # {}, S \subseteq {j \in Artifacts' : archive'[j].dup \in Redirect}
      PROVE  \E j \in S : archive'[j].canon \notin S
  <2>1. CASE i \in S
    <3>1. r.dup \in Redirect
      BY <1>1, <1>3, <2>1
    <3>2. r.canon \in Artifacts \ {i} /\ archive[r.canon].dup \in Own
      BY <3>1 DEF Related, Redirect
    <3>3. r.canon \notin S
      BY <1>1, <1>3, <3>2 DEF Own, Redirect
    <3>4. QED  BY <1>1, <2>1, <3>3
  <2>2. CASE i \notin S
    <3>1. S \subseteq {j \in Artifacts : archive[j].dup \in Redirect}
      BY <1>1, <1>3, <2>2
    <3>2. PICK j \in S : archive[j].canon \notin S
      BY <1>2, <1>3, <3>1
    <3>3. QED  BY <1>1, <1>3, <2>2, <3>2
  <2>3. QED  BY <2>1, <2>2
<1>4. QED  BY <1>3 DEF RedirectsEnd, Redirect

-----------------------------------------------------------------------------
(* Steps that leave the rows as they are.                                  *)

LEMMA SameRows ==
    ASSUME archive' = archive
    PROVE  RowsStand /\ (RedirectsEnd => RedirectsEnd')
BY DEF RowsStand, Artifacts, RedirectsEnd

\* What is left to show when a process goes on with the same rows.
LEMMA SameRowsStep ==
    ASSUME IngestInv, archive' = archive, HistoryStands,
           NEW x \in Ingesters, NEW s, Becomes(x, s), Doing(s),
           \A i \in Artifacts :
             \/ ingester[x].pc # "enqueue" \/ ingester[x].what # <<"artifact", i>>
             \/ <<"artifact", i>> \in queued' \/ i \in stranded',
           sessionFile' \in [Names -> Summaries \cup {NoExtract}],
           sessionRow' \in [Names -> Summaries \cup {NoExtract}],
           queued' \subseteq Intake, acked' \subseteq Intake,
           deaths' \in 0..IngestCrashBound, stranded' \subseteq Artifacts
    PROVE  IngestType' /\ RowsKept' /\ RedirectsEnd'
<1>1. RowsStand /\ RedirectsEnd' /\ Artifacts' = Artifacts /\ Names' = Names /\ Intake' = Intake
  BY SameRows DEF IngestInv, Artifacts, Names, Intake
<1>2. Doing(s)'
  BY <1>1, DoingStands
<1>3. /\ ingester' = [y \in Ingesters |-> ingester'[y]]
      /\ \A y \in Ingesters : Doing(ingester[y])'
      /\ DOMAIN ingester' = Ingesters
  BY <1>1, <1>2, OneMoves DEF IngestInv
<1>4. IngestTypeOK'
  BY <1>1, <1>3 DEF IngestInv, IngestType, IngestTypeOK, Intake
<1>5. IngestType'
  BY <1>1, <1>3, <1>4 DEF IngestType
<1>6. ASSUME NEW i \in Artifacts PROVE RowKept(i)'
  <2>1. RowKept(i)
    BY DEF IngestInv, RowsKept
  <2>2. archive[i].raw =>
             (<<"artifact", i>> \in queued \/ OnItsWay(i) \/ i \in stranded)'
    BY <2>1, RowStays DEF IngestInv
  <2>3. QED  BY <1>1, <2>1, <2>2 DEF RowKept, Holds
<1>7. QED  BY <1>1, <1>5, <1>6 DEF RowsKept

LEMMA InvFacts ==
    ASSUME IngestInv, NEW x \in Ingesters
    PROVE  /\ IngestTypeOK /\ IngestType /\ RowsKept /\ NamesKept /\ RedirectsEnd
           /\ Doing(ingester[x])
           /\ queued \subseteq Intake /\ acked \subseteq Intake
           /\ deaths \in 0..IngestCrashBound /\ stranded \subseteq Artifacts
           /\ sessionFile \in [Names -> Summaries \cup {NoExtract}]
           /\ sessionRow \in [Names -> Summaries \cup {NoExtract}]
           /\ Len(archive) \in Nat /\ Artifacts = 1..Len(archive)
BY LenProperties DEF IngestInv, IngestType, IngestTypeOK, Intake, Artifacts

LEMMA CopyKeeps ==
    ASSUME IngestInv, NEW x \in Ingesters, NEW f \in Files, CopyArtifact(x, f)
    PROVE  IngestInv'
<1>. DEFINE g == IF FindExactDuplicate(f) # 0
                 THEN [pc |-> "refer", file |-> f, row |-> FindExactDuplicate(f)]
                 ELSE [pc |-> "extract", file |-> f]
<1>1. PICK s : s = g
  OBVIOUS
<1>2. Becomes(x, s)
  BY <1>1 DEF CopyArtifact
<1>3. ingester[x].pc = "idle"
  BY DEF CopyArtifact
<1>4. Doing(s) /\ s.pc \in {"refer", "extract"}
  <2>1. CASE FindExactDuplicate(f) # 0
    <3>1. s = [pc |-> "refer", file |-> f, row |-> FindExactDuplicate(f)]
      BY <1>1, <2>1
    <3>2. Holds(FindExactDuplicate(f), f)
      BY <2>1, InvFacts, FoundHolds
    <3>3. QED  BY <3>1, <3>2 DEF Doing, Holds
  <2>2. CASE FindExactDuplicate(f) = 0
    <3>1. s = [pc |-> "extract", file |-> f]
      BY <1>1, <2>2
    <3>2. QED  BY <3>1 DEF Doing
  <2>3. QED  BY <2>1, <2>2
<1>5. UNCHANGED <<archive, sessionFile, sessionRow, queued, deaths, acked, stranded, raced>>
  BY DEF CopyArtifact
<1>6. IngestType' /\ RowsKept' /\ RedirectsEnd'
  BY <1>2, <1>3, <1>4, <1>5, InvFacts, SameRowsStep DEF HistoryStands
<1>7. NamesKept'
  BY <1>2, <1>4, <1>5, InvFacts, NamesStay DEF HistoryStands
<1>8. QED  BY <1>6, <1>7 DEF IngestInv

LEMMA ReadKeeps ==
    ASSUME IngestInv, NEW x \in Ingesters, NEW i \in Artifacts, ReadForReprocess(x, i)
    PROVE  IngestInv'
<1>1. PICK s : s = [pc |-> "reextract", row |-> i]
  OBVIOUS
<1>2. Becomes(x, s) /\ ingester[x].pc = "idle" /\ archive[i].dup \in Own
  BY <1>1 DEF ReadForReprocess
<1>3. archive[i].raw
  BY <1>2, InvFacts DEF RowsKept, RowKept
<1>4. Doing(s) /\ s.pc = "reextract"
  BY <1>1, <1>3 DEF Doing
<1>5. UNCHANGED <<archive, sessionFile, sessionRow, queued, deaths, acked, stranded, raced>>
  BY DEF ReadForReprocess
<1>6. IngestType' /\ RowsKept' /\ RedirectsEnd'
  BY <1>2, <1>4, <1>5, InvFacts, SameRowsStep DEF HistoryStands
<1>7. NamesKept'
  BY <1>2, <1>4, <1>5, InvFacts, NamesStay DEF HistoryStands
<1>8. QED  BY <1>6, <1>7 DEF IngestInv

LEMMA EnqueueKeeps ==
    ASSUME IngestInv, NEW x \in Ingesters, EnqueueIngested(x)
    PROVE  IngestInv'
<1>1. PICK s : s = NoOneIngests
  OBVIOUS
<1>2. PICK w : w = ingester[x].what
  OBVIOUS
<1>3. /\ ingester[x].pc = "enqueue" /\ Becomes(x, s)
      /\ queued' = queued \cup {w} /\ acked' = acked \cup {w}
      /\ UNCHANGED <<archive, sessionFile, sessionRow, deaths, stranded, raced>>
  BY <1>1, <1>2 DEF EnqueueIngested
<1>4. w \in Intake
  BY <1>2, <1>3, InvFacts DEF Doing, NoOneIngests
<1>5. Doing(s) /\ s.pc = "idle"
  BY <1>1 DEF Doing, NoOneIngests
<1>6. queued' \subseteq Intake /\ acked' \subseteq Intake /\ HistoryStands
  BY <1>3, <1>4, InvFacts DEF HistoryStands
<1>7. IngestType' /\ RowsKept' /\ RedirectsEnd'
  BY <1>2, <1>3, <1>5, <1>6, InvFacts, SameRowsStep
<1>8. \A n \in Names : <<"session", n>> \in acked' =>
         <<"session", n>> \in acked \/
         (<<"session", n>> \in queued' /\
          ingester[x].pc = "enqueue" /\ ingester[x].what = <<"session", n>>)
  BY <1>2, <1>3
<1>9. NamesKept'
  BY <1>3, <1>5, <1>6, <1>8, InvFacts, NamesStay
<1>10. QED  BY <1>7, <1>9 DEF IngestInv

LEMMA DeathKeeps ==
    ASSUME IngestInv, NEW x \in Ingesters, IngesterDies(x)
    PROVE  IngestInv'
<1>1. PICK s : s = NoOneIngests
  OBVIOUS
<1>2. PICK w : w = ingester[x].what
  OBVIOUS
<1>3. /\ Becomes(x, s) /\ deaths < IngestCrashBound /\ deaths' = deaths + 1
      /\ stranded' = IF ingester[x].pc = "enqueue" /\ w[1] = "artifact"
                     THEN stranded \cup {w[2]} ELSE stranded
      /\ UNCHANGED <<archive, sessionFile, sessionRow, queued, acked, raced>>
  BY <1>1, <1>2 DEF IngesterDies
<1>4. ingester[x].pc = "enqueue" => w \in Intake
  BY <1>2, InvFacts DEF Doing, NoOneIngests
<1>5. Doing(s) /\ s.pc = "idle"
  BY <1>1 DEF Doing, NoOneIngests
<1>6. deaths' \in 0..IngestCrashBound
  BY <1>3, InvFacts, IngestAssumption
<1>7. ingester[x].pc = "enqueue" /\ w[1] = "artifact" => w[2] \in Artifacts
  BY <1>4 DEF Intake
<1>8. stranded' \subseteq Artifacts /\ HistoryStands
  BY <1>3, <1>7, InvFacts DEF HistoryStands
<1>9. \A i \in Artifacts :
         \/ ingester[x].pc # "enqueue" \/ ingester[x].what # <<"artifact", i>>
         \/ <<"artifact", i>> \in queued' \/ i \in stranded'
  BY <1>2, <1>3
<1>10. IngestType' /\ RowsKept' /\ RedirectsEnd'
  BY <1>3, <1>5, <1>6, <1>8, <1>9, InvFacts, SameRowsStep
<1>11. NamesKept'
  BY <1>3, <1>5, <1>8, InvFacts, NamesStay
<1>12. QED  BY <1>10, <1>11 DEF IngestInv

-----------------------------------------------------------------------------
(* The steps of ingest_session.                                            *)

\* Only rows of archive, not the session's name, are what these are about.
LEMMA NotEnqueueing ==
    ASSUME IngestInv, archive' = archive,
           UNCHANGED <<queued, deaths, acked, stranded>>,
           NEW x \in Ingesters, NEW s, Becomes(x, s), Doing(s), ingester[x].pc # "enqueue",
           sessionFile' \in [Names -> Summaries \cup {NoExtract}],
           sessionRow' \in [Names -> Summaries \cup {NoExtract}]
    PROVE  IngestType' /\ RowsKept' /\ RedirectsEnd'
BY InvFacts, SameRowsStep DEF HistoryStands

LEMMA PickKeeps ==
    ASSUME IngestInv, NEW x \in Ingesters, NEW c \in Summaries, PickSessionName(x, c)
    PROVE  IngestInv'
<1>1. PICK n : n = Least(FreeNames)
  OBVIOUS
<1>2. PICK s : s = [pc |-> "write", name |-> n, content |-> c]
  OBVIOUS
<1>3. /\ ingester[x].pc = "idle" /\ Becomes(x, s)
      /\ raced' = IF Picked(n) THEN raced \cup {n} ELSE raced
      /\ UNCHANGED <<archive, sessionFile, sessionRow, queued, deaths, acked, stranded>>
  BY <1>1, <1>2 DEF PickSessionName
<1>4. n \in Names /\ sessionFile[n] = NoExtract /\ sessionRow[n] = NoExtract
  <2>1. FreeNames \in SUBSET Nat /\ FreeNames # {}
    BY DEF PickSessionName, FreeNames, Names
  <2>2. n \in FreeNames
    BY <1>1, <2>1, LeastOne
  <2>3. QED  BY <2>2 DEF FreeNames
<1>5. Doing(s)
  BY <1>2, <1>4 DEF Doing
<1>6. IngestType' /\ RowsKept' /\ RedirectsEnd'
  BY <1>3, <1>5, InvFacts, NotEnqueueing
<1>7. ASSUME NEW m \in Names \ raced' PROVE NameKept(m)'
  <2>1. NameKept(m) /\ m \notin raced
    BY <1>3, <1>7, InvFacts DEF NamesKept
  <2>2. CASE m # n
    <3>1. s.pc = "write" /\ s.name # m
      BY <1>2, <2>2
    <3>2. QED  BY <1>3, <1>7, <2>1, <3>1, InvFacts, NameStays DEF HistoryStands
  <2>3. CASE m = n
    <3>1. ~Picked(n)
      BY <1>3, <1>7, <2>3
    <3>2. \A y \in Ingesters : ~HasPicked(y, n)
      <4>. SUFFICES ASSUME NEW y \in Ingesters, HasPicked(y, n) PROVE FALSE
        OBVIOUS
      <4>1. ingester[y].pc = "insert" /\ ingester[y].name = n
        BY <3>1 DEF HasPicked, Picked
      <4>2. sessionFile[n] = ingester[y].content
        BY <2>1, <2>3, <4>1 DEF NameKept
      <4>3. ingester[y].content \in Summaries
        BY <4>1, InvFacts DEF Doing, NoOneIngests
      <4>4. QED  BY <1>4, <4>2, <4>3, IngestAssumption
    <3>3. \A y \in Ingesters : ingester'[y] = IF y = x THEN s ELSE ingester[y]
      BY <1>3 DEF IngestInv, IngestType, Becomes
    <3>4. \A y \in Ingesters : HasPicked(y, n)' => y = x
      BY <3>2, <3>3 DEF HasPicked
    <3>5. ~Stored(n)
      BY <1>4 DEF Stored
    <3>6. \A y \in Ingesters :
             ~(ingester'[y].pc = "enqueue" /\ ingester'[y].what = <<"session", n>>)
      BY <1>2, <2>1, <2>3, <3>3, <3>5 DEF NameKept
    <3>7. <<"session", n>> \notin acked
      BY <2>1, <2>3, <3>5 DEF NameKept
    <3>8. ingester'[x].pc = "write"
      BY <1>2, <3>3
    <3>9. QED  BY <1>3, <1>4, <2>3, <3>4, <3>6, <3>7, <3>8 DEF NameKept
  <2>4. QED  BY <2>2, <2>3
<1>8. QED  BY <1>6, <1>7 DEF IngestInv, NamesKept, Names

LEMMA WriteKeeps ==
    ASSUME IngestInv, NEW x \in Ingesters, WriteSession(x)
    PROVE  IngestInv'
<1>1. PICK p : p = ingester[x]
  OBVIOUS
<1>2. PICK s : s = [p EXCEPT !.pc = "insert"]
  OBVIOUS
<1>3. /\ p.pc = "write" /\ Becomes(x, s)
      /\ sessionFile' = [sessionFile EXCEPT ![p.name] = p.content]
      /\ UNCHANGED <<archive, sessionRow, queued, deaths, acked, stranded, raced>>
  BY <1>1, <1>2 DEF WriteSession
<1>4. p \in [pc : {"write", "insert"}, name : Names, content : Summaries]
  <2>1. Doing(p)
    BY <1>1, InvFacts DEF Doing
  <2>2. QED  BY <1>3, <2>1 DEF Doing, NoOneIngests
<1>5. /\ s \in [pc : {"write", "insert"}, name : Names, content : Summaries]
      /\ s.pc = "insert" /\ s.name = p.name /\ s.content = p.content
  BY <1>2, <1>4
<1>6. Doing(s)
  BY <1>5 DEF Doing
<1>7. sessionFile' \in [Names -> Summaries \cup {NoExtract}]
  BY <1>3, <1>4, InvFacts
<1>8. IngestType' /\ RowsKept' /\ RedirectsEnd'
  BY <1>1, <1>3, <1>6, <1>7, InvFacts, NotEnqueueing
<1>9. ASSUME NEW m \in Names \ raced' PROVE NameKept(m)'
  <2>1. NameKept(m)
    BY <1>3, <1>9, InvFacts DEF NamesKept
  <2>2. CASE m # p.name
    <3>1. sessionFile'[m] = sessionFile[m]
      BY <1>3, <1>4, <2>2, InvFacts
    <3>2. QED  BY <1>3, <1>5, <1>9, <2>1, <2>2, <3>1, InvFacts, NameStays DEF HistoryStands
  <2>3. CASE m = p.name
    <3>1. HasPicked(x, m) /\ \A y \in Ingesters : HasPicked(y, m) => y = x
      BY <1>1, <1>3, <2>1, <2>3 DEF HasPicked, NameKept
    <3>2. sessionRow[m] = NoExtract
      BY <2>1, <3>1 DEF NameKept
    <3>3. sessionFile'[m] = p.content
      BY <1>3, <1>9, <2>3, InvFacts
    <3>4. \A y \in Ingesters : ingester'[y] = IF y = x THEN s ELSE ingester[y]
      BY <1>3 DEF IngestInv, IngestType, Becomes
    <3>5. \A y \in Ingesters : HasPicked(y, m)' => y = x
      BY <3>1, <3>4 DEF HasPicked
    <3>6. ~Stored(m)
      BY <3>2 DEF Stored
    <3>7. \A y \in Ingesters :
             ~(ingester'[y].pc = "enqueue" /\ ingester'[y].what = <<"session", m>>)
      BY <1>5, <2>1, <3>4, <3>6 DEF NameKept
    <3>8. <<"session", m>> \notin acked
      BY <2>1, <3>6 DEF NameKept
    <3>9. ingester'[x].pc = "insert" /\ ingester'[x].content = p.content
      BY <1>5, <3>4
    <3>10. QED  BY <1>3, <3>2, <3>3, <3>5, <3>7, <3>8, <3>9 DEF NameKept
  <2>4. QED  BY <2>2, <2>3
<1>10. QED  BY <1>8, <1>9 DEF IngestInv, NamesKept, Names

LEMMA InsertSessionKeeps ==
    ASSUME IngestInv, NEW x \in Ingesters, InsertSession(x)
    PROVE  IngestInv'
<1>1. PICK p : p = ingester[x]
  OBVIOUS
<1>2. p.pc = "insert" /\ UNCHANGED <<archive, sessionFile, queued, deaths, acked, stranded, raced>>
  BY <1>1 DEF InsertSession
<1>3. p \in [pc : {"write", "insert"}, name : Names, content : Summaries]
  <2>1. Doing(p)
    BY <1>1, InvFacts DEF Doing
  <2>2. QED  BY <1>2, <2>1 DEF Doing, NoOneIngests
<1>4. CASE sessionRow[p.name] # NoExtract
  <2>1. PICK s : s = NoOneIngests
    OBVIOUS
  <2>2. Becomes(x, s) /\ sessionRow' = sessionRow
    BY <1>1, <1>4, <2>1 DEF InsertSession
  <2>3. Doing(s) /\ s.pc = "idle"
    BY <2>1 DEF Doing, NoOneIngests
  <2>4. IngestType' /\ RowsKept' /\ RedirectsEnd'
    BY <1>1, <1>2, <2>2, <2>3, InvFacts, NotEnqueueing
  <2>5. NamesKept'
    BY <1>2, <2>2, <2>3, InvFacts, NamesStay DEF HistoryStands
  <2>6. QED  BY <2>4, <2>5 DEF IngestInv
<1>5. CASE sessionRow[p.name] = NoExtract
  <2>1. PICK s : s = [pc |-> "enqueue", what |-> <<"session", p.name>>]
    OBVIOUS
  <2>2. Becomes(x, s) /\ sessionRow' = [sessionRow EXCEPT ![p.name] = p.content]
    BY <1>1, <1>5, <2>1 DEF InsertSession
  <2>3. Doing(s) /\ s.pc = "enqueue" /\ s.what = <<"session", p.name>>
    BY <1>3, <2>1 DEF Doing, Intake
  <2>4. sessionRow' \in [Names -> Summaries \cup {NoExtract}]
    BY <1>3, <2>2, InvFacts
  <2>5. IngestType' /\ RowsKept' /\ RedirectsEnd'
    BY <1>1, <1>2, <2>2, <2>3, <2>4, InvFacts, NotEnqueueing
  <2>6. ASSUME NEW m \in Names \ raced' PROVE NameKept(m)'
    <3>1. NameKept(m)
      BY <1>2, <2>6, InvFacts DEF NamesKept
    <3>2. CASE m # p.name
      <4>1. sessionRow'[m] = sessionRow[m]
        BY <1>3, <2>2, <3>2, InvFacts
      <4>2. s.what # <<"session", m>>
        BY <2>3, <3>2
      <4>3. QED  BY <1>2, <2>2, <2>3, <2>6, <3>1, <4>1, <4>2, InvFacts, NameStays DEF HistoryStands
    <3>3. CASE m = p.name
      <4>1. HasPicked(x, m) /\ \A y \in Ingesters : HasPicked(y, m) => y = x
        BY <1>1, <1>2, <3>1, <3>3 DEF HasPicked, NameKept
      <4>2. sessionFile[m] = p.content
        BY <1>1, <1>2, <3>1, <4>1 DEF NameKept
      <4>3. sessionRow'[m] = p.content /\ p.content # NoExtract
        BY <1>3, <2>2, <3>3, InvFacts, IngestAssumption
      <4>4. Stored(m)'
        BY <1>2, <4>2, <4>3 DEF Stored
      <4>5. \A y \in Ingesters : ingester'[y] = IF y = x THEN s ELSE ingester[y]
        BY <2>2 DEF IngestInv, IngestType, Becomes
      <4>6. \A y \in Ingesters : ~HasPicked(y, m)'
        BY <2>3, <4>1, <4>5 DEF HasPicked
      <4>7. ~Stored(m)
        BY <1>5, <3>3 DEF Stored
      <4>8. <<"session", m>> \notin acked
        BY <3>1, <4>7 DEF NameKept
      <4>9. QED  BY <1>2, <4>4, <4>6, <4>8 DEF NameKept
    <3>4. QED  BY <3>2, <3>3
  <2>7. QED  BY <2>5, <2>6 DEF IngestInv, NamesKept, Names
<1>6. QED  BY <1>4, <1>5

-----------------------------------------------------------------------------
(* Steps that write a row.                                                 *)

LEMMA NewRowStep ==
    ASSUME IngestInv, NEW r \in ArtifactRow, archive' = Append(archive, r),
           Len(archive) < ArchiveBound, r.canon \in 0..Len(archive),
           NEW x \in Ingesters, NEW s, Becomes(x, s), Doing(s)',
           ingester[x].pc # "enqueue", s.pc \notin {"write", "insert"},
           s.pc = "enqueue" => s.what[1] = "artifact",
           UNCHANGED <<sessionFile, sessionRow, queued, deaths, stranded, raced>>,
           acked' \in {acked, acked \cup {<<"artifact", Len(archive) + 1>>}},
           NEW i, i = Len(archive) + 1, RowKept(i)'
    PROVE  IngestInv'
<1>0. Len(archive) \in Nat /\ ArchiveBound \in Nat
  BY InvFacts, IngestAssumption
<1>1. /\ archive' \in Seq(ArtifactRow) /\ Len(archive') = Len(archive) + 1
      /\ \A j \in Artifacts : archive'[j] = archive[j]
      /\ archive'[Len(archive) + 1] = r
  <2>1. archive \in Seq(ArtifactRow)
    BY InvFacts DEF IngestTypeOK
  <2>. HIDE DEF ArtifactRow
  <2>2. QED  BY <1>0, <2>1, AppendProperties DEF Artifacts
<1>2. /\ Artifacts' = Artifacts \cup {i} /\ i \notin Artifacts
      /\ Names' = Names /\ Intake \subseteq Intake'
  BY <1>0, <1>1 DEF Artifacts, Names, Intake
<1>3. RowsStand /\ HistoryStands
  BY <1>1, <1>2 DEF RowsStand, HistoryStands
<1>4. /\ ingester' = [y \in Ingesters |-> ingester'[y]]
      /\ \A y \in Ingesters : Doing(ingester[y])'
      /\ DOMAIN ingester' = Ingesters
  BY <1>3, OneMoves DEF IngestInv
<1>5. \A j \in Artifacts' : archive'[j].canon \in 0..Len(archive') \ {j}
  <2>1. \A j \in Artifacts : archive[j].canon \in 0..Len(archive) \ {j}
    BY InvFacts DEF IngestTypeOK
  <2>2. \A j \in Artifacts : archive'[j].canon \in 0..Len(archive') \ {j}
    <3>1. 0..Len(archive) \subseteq 0..Len(archive')
      BY <1>0, <1>1
    <3>2. \A j \in Artifacts : archive'[j] = archive[j]
      BY <1>1
    <3>3. QED  BY <2>1, <3>1, <3>2
  <2>3. archive'[i].canon \in 0..Len(archive') \ {i}
    BY <1>0, <1>1
  <2>4. QED  BY <1>2, <2>2, <2>3
<1>6. Len(archive') <= ArchiveBound
  BY <1>0, <1>1
<1>7. queued' \subseteq Intake' /\ stranded' \subseteq Artifacts' /\ acked' \subseteq Intake'
  <2>1. <<"artifact", Len(archive) + 1>> \in Intake'
    BY <1>2 DEF Intake
  <2>2. QED  BY <1>2, <2>1, InvFacts
<1>8. IngestTypeOK'
  BY <1>1, <1>2, <1>4, <1>5, <1>6, <1>7, InvFacts DEF IngestTypeOK, Intake
<1>9. IngestType'
  BY <1>4, <1>7, <1>8 DEF IngestType
<1>10. ASSUME NEW j \in Artifacts PROVE RowKept(j)'
  <2>1. RowKept(j) /\ archive'[j] = archive[j]
    BY <1>1, InvFacts DEF RowsKept
  <2>2. archive[j].raw =>
             (<<"artifact", j>> \in queued \/ OnItsWay(j) \/ j \in stranded)'
    BY <1>3, <2>1, RowStays, InvFacts
  <2>3. ~archive[j].raw => Holds(archive[j].canon, archive[j].file)'
    <3>1. PICK k : k = archive[j].canon
      OBVIOUS
    <3>2. ~archive[j].raw => Holds(k, archive[j].file)
      BY <2>1, <3>1 DEF RowKept
    <3>3. QED  BY <1>3, <2>1, <3>1, <3>2 DEF Holds, RowsStand
  <2>4. QED  BY <2>1, <2>2, <2>3 DEF RowKept
<1>11. RowsKept'
  BY <1>2, <1>10 DEF RowsKept
<1>12. RedirectsEnd'
  <2>1. r.canon # Len(archive) + 1
    BY <1>0
  <2>2. QED  BY <2>1, InvFacts, NewRowEnds
<1>13. NamesKept'
  BY <1>3, InvFacts, NamesStay
<1>14. QED  BY <1>9, <1>11, <1>12, <1>13 DEF IngestInv

LEMMA ReferKeeps ==
    ASSUME IngestInv, NEW x \in Ingesters, InsertExactDuplicate(x)
    PROVE  IngestInv'
<1>1. PICK p : p = ingester[x]
  OBVIOUS
<1>2. p \in [pc : {"refer"}, file : Files, row : Artifacts] /\ Holds(p.row, p.file)
  <2>1. Doing(p) /\ p.pc = "refer"
    BY <1>1, InvFacts DEF Doing, InsertExactDuplicate
  <2>2. QED  BY <2>1 DEF Doing, NoOneIngests
<1>3. PICK r : r = [file |-> p.file, raw |-> FALSE, text |-> NoExtract,
                    status |-> "accepted", dup |-> "exact_duplicate", canon |-> p.row]
  OBVIOUS
<1>4. PICK s : s = NoOneIngests
  OBVIOUS
<1>5. /\ ingester[x].pc = "refer" /\ Len(archive) < ArchiveBound
      /\ archive' = Append(archive, r)
      /\ acked' = acked \cup {<<"artifact", Len(archive) + 1>>}
      /\ Becomes(x, s)
      /\ UNCHANGED <<sessionFile, sessionRow, queued, deaths, stranded, raced>>
  BY <1>1, <1>3, <1>4 DEF InsertExactDuplicate
<1>6. p.row \in 0..Len(archive) /\ p.row \in 0..ArchiveBound
  BY <1>2, <1>5, InvFacts, IngestAssumption
<1>7. r \in ArtifactRow
  <2>1. p.file \in Files /\ NoExtract \in Extracts /\ "exact_duplicate" \in Own \cup Redirect
    BY <1>2 DEF Extracts, Redirect
  <2>2. QED  BY <1>3, <1>6, <2>1 DEF ArtifactRow
<1>8. Doing(s)' /\ s.pc = "idle"
  BY <1>4 DEF Doing, NoOneIngests
<1>9. PICK i : i = Len(archive) + 1
  OBVIOUS
<1>10. RowKept(i)'
  <2>2. archive'[i] = r /\ RowsStand
    <3>1. archive \in Seq(ArtifactRow) /\ Len(archive) \in Nat
      BY InvFacts DEF IngestTypeOK
    <3>. HIDE DEF ArtifactRow
    <3>2. /\ archive'[i] = r /\ Len(archive') = Len(archive) + 1
          /\ \A j \in 1..Len(archive) : archive'[j] = archive[j]
      BY <1>5, <1>7, <1>9, <3>1, AppendProperties
    <3>3. QED  BY <3>1, <3>2 DEF RowsStand, Artifacts
  <2>3. Holds(p.row, p.file)'
    BY <1>2, <2>2 DEF Holds, RowsStand
  <2>4. QED  BY <1>3, <2>2, <2>3 DEF RowKept, Own
<1>11. r.canon \in 0..Len(archive)
  BY <1>3, <1>6
<1>12. QED  BY <1>5, <1>7, <1>8, <1>9, <1>10, <1>11, NewRowStep

LEMMA InsertKeeps ==
    ASSUME IngestInv, NEW x \in Ingesters, InsertArtifact(x)
    PROVE  IngestInv'
<1>1. PICK f : f = ingester[x].file
  OBVIOUS
<1>2. PICK i : i = Len(archive) + 1
  OBVIOUS
<1>3. f \in Files
  BY <1>1, InvFacts DEF Doing, InsertArtifact, NoOneIngests
<1>4. /\ ingester[x].pc = "extract" /\ Len(archive) < ArchiveBound
      /\ UNCHANGED <<sessionFile, sessionRow, queued, deaths, acked, stranded, raced>>
  BY DEF InsertArtifact
<1>5. CASE FindExactDuplicate(f) # 0
  <2>1. PICK s : s = NoOneIngests
    OBVIOUS
  <2>2. Becomes(x, s) /\ archive' = archive
    BY <1>1, <1>5, <2>1 DEF InsertArtifact
  <2>3. Doing(s) /\ s.pc = "idle"
    BY <2>1 DEF Doing, NoOneIngests
  <2>4. IngestType' /\ RowsKept' /\ RedirectsEnd'
    BY <1>4, <2>2, <2>3, InvFacts, SameRowsStep DEF HistoryStands
  <2>5. NamesKept'
    BY <1>4, <2>2, <2>3, InvFacts, NamesStay DEF HistoryStands
  <2>6. QED  BY <2>4, <2>5 DEF IngestInv
<1>6. CASE FindExactDuplicate(f) = 0
  <2>1. PICK s : s = [pc |-> "enqueue", what |-> <<"artifact", i>>]
    OBVIOUS
  <2>2. PICK e \in ConnectorForPath(f, LazyPdf) :
          LET id == Classify(i, f, e.text)
          IN  archive' = Append(archive,
                [file |-> f, raw |-> TRUE, text |-> e.text, status |-> e.status,
                 dup |-> id.dup, canon |-> id.canon])
    BY <1>1, <1>2, <1>6 DEF InsertArtifact
  <2>3. Becomes(x, s)
    BY <1>1, <1>2, <1>6, <2>1 DEF InsertArtifact
  <2>4. e.text \in {NoExtract, TextOf[f]} /\ e.status \in {"accepted", "failed"}
    BY <1>3, Extracted
  <2>5. PICK id : id = Classify(i, f, e.text)
    OBVIOUS
  <2>6. Related(i, id)
    BY <1>3, <2>4, <2>5, InvFacts, Classified
  <2>7. PICK r : r = [file |-> f, raw |-> TRUE, text |-> e.text, status |-> e.status,
                      dup |-> id.dup, canon |-> id.canon]
    OBVIOUS
  <2>8. archive' = Append(archive, r)
    BY <2>2, <2>5, <2>7
  <2>9. id.canon \in 0..Len(archive) /\ id.canon \in 0..ArchiveBound
    BY <1>4, <2>6, InvFacts, IngestAssumption DEF Related
  <2>10. r \in ArtifactRow
    <3>1. e.text \in Extracts
      BY <1>3, <2>4 DEF Extracts
    <3>2. id.dup \in Own \cup Redirect
      BY <2>6 DEF Related, Own, Redirect
    <3>3. QED  BY <1>3, <2>4, <2>7, <2>9, <3>1, <3>2 DEF ArtifactRow
  <2>11. archive'[i] = r /\ Len(archive') = i /\ i \in Artifacts'
    <3>1. archive \in Seq(ArtifactRow) /\ Len(archive) \in Nat
      BY InvFacts DEF IngestTypeOK
    <3>. HIDE DEF ArtifactRow
    <3>2. archive'[i] = r /\ Len(archive') = i
      BY <1>2, <2>8, <2>10, <3>1, AppendProperties
    <3>3. QED  BY <1>2, <3>1, <3>2 DEF Artifacts
  <2>12. Doing(s)' /\ s.pc = "enqueue" /\ s.what = <<"artifact", i>>
    BY <2>1, <2>11 DEF Doing, Intake
  <2>13. OnItsWay(i)'
    <3>1. ingester'[x] = s
      BY <2>3 DEF IngestInv, IngestType, Becomes
    <3>2. QED  BY <2>12, <3>1 DEF OnItsWay
  <2>14. RowKept(i)'
    BY <2>4, <2>7, <2>11, <2>13 DEF RowKept
  <2>15. r.canon \in 0..Len(archive)
    BY <2>7, <2>9
  <2>16. QED  BY <1>2, <1>4, <2>3, <2>8, <2>10, <2>12, <2>14, <2>15, NewRowStep
<1>7. QED  BY <1>5, <1>6

LEMMA UpdateKeeps ==
    ASSUME IngestInv, NEW x \in Ingesters, UpdateArtifact(x)
    PROVE  IngestInv'
<1>1. PICK i : i = ingester[x].row
  OBVIOUS
<1>2. PICK f : f = archive[i].file
  OBVIOUS
<1>3. PICK s : s = [pc |-> "enqueue", what |-> <<"artifact", i>>]
  OBVIOUS
<1>4. PICK e \in ConnectorForPath(f, FALSE) :
        LET id == Classify(i, f, e.text)
        IN  archive' = [archive EXCEPT ![i] =
              [archive[i] EXCEPT !.text = e.text, !.status = e.status,
                                 !.dup = id.dup, !.canon = id.canon]]
  BY <1>1, <1>2 DEF UpdateArtifact
<1>5. /\ ingester[x].pc = "reextract" /\ Becomes(x, s)
      /\ UNCHANGED <<sessionFile, sessionRow, queued, deaths, acked, stranded, raced>>
  BY <1>1, <1>3 DEF UpdateArtifact
<1>6. i \in Artifacts /\ archive[i].raw
  BY <1>1, <1>5, InvFacts DEF Doing, NoOneIngests
<1>7. archive[i] \in ArtifactRow /\ f \in Files
  BY <1>2, <1>6, InvFacts, RowSound DEF ArtifactRow
<1>8. e.text \in {NoExtract, TextOf[f]} /\ e.status \in {"accepted", "failed"}
  BY <1>7, Extracted
<1>9. PICK id : id = Classify(i, f, e.text)
  OBVIOUS
<1>10. Related(i, id)
  BY <1>7, <1>8, <1>9, InvFacts, Classified
<1>11. PICK r : r = [archive[i] EXCEPT !.text = e.text, !.status = e.status,
                                       !.dup = id.dup, !.canon = id.canon]
  OBVIOUS
<1>12. archive' = [archive EXCEPT ![i] = r]
  BY <1>4, <1>9, <1>11
<1>13. id.canon \in 0..Len(archive) \ {i} /\ id.canon \in 0..ArchiveBound
  <2>1. Len(archive) <= ArchiveBound
    BY InvFacts DEF IngestTypeOK
  <2>2. QED  BY <1>6, <1>10, <2>1, InvFacts, IngestAssumption DEF Related
<1>14. /\ r \in ArtifactRow /\ r.raw = archive[i].raw /\ r.file = f
       /\ r.text = e.text /\ r.dup = id.dup /\ r.canon = id.canon
  <2>1. e.text \in Extracts
    BY <1>7, <1>8 DEF Extracts
  <2>2. id.dup \in Own \cup Redirect
    BY <1>10 DEF Related, Own, Redirect
  <2>3. QED  BY <1>2, <1>7, <1>8, <1>11, <1>13, <2>1, <2>2 DEF ArtifactRow
<1>15. /\ archive' \in Seq(ArtifactRow) /\ Len(archive') = Len(archive)
       /\ archive'[i] = r /\ \A j \in Artifacts \ {i} : archive'[j] = archive[j]
  <2>1. archive \in Seq(ArtifactRow) /\ i \in 1..Len(archive)
    BY <1>6, InvFacts DEF IngestTypeOK
  <2>2. r \in ArtifactRow
    BY <1>14
  <2>. HIDE DEF ArtifactRow
  <2>3. QED  BY <1>12, <2>1, <2>2, ExceptSeq DEF Artifacts
<1>16. Artifacts' = Artifacts /\ Names' = Names /\ Intake' = Intake
  BY <1>15 DEF Artifacts, Names, Intake
<1>17. RowsStand /\ HistoryStands
  BY <1>2, <1>5, <1>14, <1>15, <1>16 DEF RowsStand, HistoryStands
<1>18. Doing(s)' /\ s.pc = "enqueue" /\ s.what = <<"artifact", i>>
  BY <1>3, <1>6, <1>16 DEF Doing, Intake
<1>19. /\ ingester' = [y \in Ingesters |-> ingester'[y]]
       /\ \A y \in Ingesters : Doing(ingester[y])'
       /\ DOMAIN ingester' = Ingesters /\ ingester'[x] = s
  BY <1>5, <1>17, <1>18, OneMoves DEF IngestInv
<1>20. \A j \in Artifacts' : archive'[j].canon \in 0..Len(archive') \ {j}
  <2>1. \A j \in Artifacts : archive[j].canon \in 0..Len(archive) \ {j}
    BY InvFacts DEF IngestTypeOK
  <2>2. QED  BY <1>13, <1>14, <1>15, <1>16, <2>1
<1>21. IngestTypeOK'
  BY <1>5, <1>15, <1>16, <1>19, <1>20, InvFacts DEF IngestTypeOK, Intake
<1>22. IngestType'
  BY <1>5, <1>16, <1>19, <1>21, InvFacts DEF IngestType
<1>23. ASSUME NEW j \in Artifacts PROVE RowKept(j)'
  <2>1. RowKept(j)
    BY InvFacts DEF RowsKept
  <2>2. CASE j = i
    <3>1. OnItsWay(j)'
      BY <1>18, <1>19, <2>2 DEF OnItsWay
    <3>2. QED  BY <1>2, <1>6, <1>8, <1>14, <1>15, <2>2, <3>1 DEF RowKept
  <2>3. CASE j # i
    <3>1. archive'[j] = archive[j]
      BY <1>15, <2>3
    <3>2. archive[j].raw =>
             (<<"artifact", j>> \in queued \/ OnItsWay(j) \/ j \in stranded)'
      BY <1>5, <1>17, <2>1, <3>1, RowStays, InvFacts
    <3>3. PICK k : k = archive[j].canon
      OBVIOUS
    <3>4. ~archive[j].raw => Holds(k, archive[j].file)
      BY <2>1, <3>3 DEF RowKept
    <3>5. ~archive[j].raw => Holds(archive[j].canon, archive[j].file)'
      BY <1>17, <3>1, <3>3, <3>4 DEF Holds, RowsStand
    <3>6. QED  BY <2>1, <3>1, <3>2, <3>5 DEF RowKept
  <2>4. QED  BY <2>2, <2>3
<1>24. RowsKept'
  BY <1>16, <1>23 DEF RowsKept
<1>25. RedirectsEnd'
  BY <1>6, <1>10, <1>12, <1>14, InvFacts, UpdateEnds
<1>26. NamesKept'
  <2>1. s.pc \notin {"write", "insert"} /\ s.what[1] = "artifact"
    BY <1>18
  <2>2. QED  BY <1>5, <1>17, <2>1, InvFacts, NamesStay
<1>27. QED  BY <1>22, <1>24, <1>25, <1>26 DEF IngestInv

-----------------------------------------------------------------------------
(* The theorems.                                                           *)

LEMMA IngestStart == IngestInit => IngestInv
<1>. SUFFICES ASSUME IngestInit PROVE IngestInv
  OBVIOUS
<1>1. archive = <<>> /\ Len(archive) = 0 /\ Artifacts = {}
  BY DEF IngestInit, Artifacts
<1>2. archive \in Seq(ArtifactRow)
  <2>. HIDE DEF ArtifactRow
  <2>1. QED  BY <1>1, EmptySeq
<1>3. IngestTypeOK
  BY <1>1, <1>2, IngestAssumption DEF IngestInit, IngestTypeOK
<1>4. \A x \in Ingesters : ingester[x] = NoOneIngests
  BY DEF IngestInit
<1>5. IngestType
  BY <1>3, <1>4 DEF IngestType, IngestInit, Doing
<1>6. RowsKept /\ RedirectsEnd
  BY <1>1 DEF RowsKept, RedirectsEnd
<1>7. NamesKept
  BY <1>4 DEF NamesKept, NameKept, HasPicked, NoOneIngests, IngestInit
<1>8. QED  BY <1>5, <1>6, <1>7 DEF IngestInv

LEMMA IngestKeeps == IngestInv /\ [IngestNext]_ingestVars => IngestInv'
<1>. SUFFICES ASSUME IngestInv, [IngestNext]_ingestVars PROVE IngestInv'
  OBVIOUS
<1>1. CASE IngestNext
  <2>1. PICK x \in Ingesters : IngestStep(x)
    BY <1>1 DEF IngestNext
  <2>2. CASE \E f \in Files : CopyArtifact(x, f)
    BY <2>2, CopyKeeps
  <2>3. CASE InsertExactDuplicate(x)
    BY <2>3, ReferKeeps
  <2>4. CASE InsertArtifact(x)
    BY <2>4, InsertKeeps
  <2>5. CASE EnqueueIngested(x)
    BY <2>5, EnqueueKeeps
  <2>6. CASE \E i \in Artifacts : ReadForReprocess(x, i)
    BY <2>6, ReadKeeps
  <2>7. CASE UpdateArtifact(x)
    BY <2>7, UpdateKeeps
  <2>8. CASE \E c \in Summaries : PickSessionName(x, c)
    BY <2>8, PickKeeps
  <2>9. CASE WriteSession(x)
    BY <2>9, WriteKeeps
  <2>10. CASE InsertSession(x)
    BY <2>10, InsertSessionKeeps
  <2>11. CASE IngesterDies(x)
    BY <2>11, DeathKeeps
  <2>12. QED
    BY <2>1, <2>2, <2>3, <2>4, <2>5, <2>6, <2>7, <2>8, <2>9, <2>10, <2>11 DEF IngestStep
<1>2. CASE UNCHANGED ingestVars
  <2>1. IngestType'
    BY <1>2 DEF ingestVars, IngestInv, IngestType, IngestTypeOK, Doing, Holds, Intake, Artifacts,
         Names
  <2>2. RowsKept'
    BY <1>2 DEF ingestVars, IngestInv, RowsKept, RowKept, Holds, OnItsWay, Artifacts
  <2>3. NamesKept'
    <3>1. ASSUME NEW n \in Names, NameKept(n) PROVE NameKept(n)'
      <4>1. \A x \in Ingesters : HasPicked(x, n)' <=> HasPicked(x, n)
        BY <1>2 DEF ingestVars, HasPicked
      <4>2. Stored(n)' <=> Stored(n)
        BY <1>2 DEF ingestVars, Stored
      <4>3. UNCHANGED <<ingester, sessionRow, sessionFile, acked, queued>>
        BY <1>2 DEF ingestVars
      <4>4. QED  BY <3>1, <4>1, <4>2, <4>3 DEF NameKept
    <3>2. Names' = Names /\ raced' = raced
      BY <1>2 DEF ingestVars, Names
    <3>3. QED  BY <3>1, <3>2 DEF IngestInv, NamesKept
  <2>4. RedirectsEnd'
    BY <1>2, SameRows DEF ingestVars, IngestInv
  <2>5. QED  BY <2>1, <2>2, <2>3, <2>4 DEF IngestInv
<1>3. QED  BY <1>1, <1>2

\* What an invariant of one ingest says of those that were reported.
LEMMA IngestKept == IngestInv => NoIngestLost
<1>. SUFFICES ASSUME IngestInv, NEW a \in acked PROVE
        IF a[1] = "session"
        THEN a[2] \in raced \/ (a \in queued /\ sessionFile[a[2]] = sessionRow[a[2]])
        ELSE LET i == a[2]
                 j == IF archive[i].raw THEN i ELSE archive[i].canon
             IN  /\ archive[j].raw /\ archive[j].file = archive[i].file
                 /\ <<"artifact", j>> \in queued \/ OnItsWay(j) \/ j \in stranded
  BY DEF NoIngestLost
<1>1. a \in Intake
  BY DEF IngestInv, IngestType
<1>2. CASE a[1] = "session"
  <2>1. a = <<"session", a[2]>> /\ a[2] \in Names
    BY <1>1, <1>2 DEF Intake
  <2>2. a[2] \notin raced => Stored(a[2]) /\ a \in queued
    BY <2>1 DEF IngestInv, NamesKept, NameKept
  <2>3. QED  BY <1>2, <2>2 DEF Stored
<1>3. CASE a[1] # "session"
  <2>1. a[2] \in Artifacts
    BY <1>1, <1>3 DEF Intake
  <2>. DEFINE i == a[2]
              j == IF archive[i].raw THEN i ELSE archive[i].canon
  <2>2. Holds(j, archive[i].file)
    BY <2>1 DEF IngestInv, RowsKept, RowKept, Holds
  <2>3. <<"artifact", j>> \in queued \/ OnItsWay(j) \/ j \in stranded
    <3>1. j \in Artifacts /\ archive[j].raw
      BY <2>2 DEF Holds
    <3>. HIDE DEF j
    <3>2. QED  BY <3>1 DEF IngestInv, RowsKept, RowKept
  <2>4. QED  BY <1>3, <2>2, <2>3 DEF Holds
<1>4. QED  BY <1>2, <1>3

LEMMA IngestSound == IngestSpec => []IngestInv
BY IngestStart, IngestKeeps, PTL DEF IngestSpec

\* Whatever is ingested and reprocessed, the rows of artifacts and sessions,
\* the queue and the histories keep their types, and no row refers to itself
\* or to a row that is not there.
THEOREM IngestTypeCorrect == IngestSpec => []IngestTypeOK
<1>1. IngestInv => IngestTypeOK
  BY DEF IngestInv, IngestType
<1>2. QED  BY <1>1, IngestSound, PTL

\* However processes interleave and whatever is reprocessed, who follows the
\* duplicates comes to a row that is none.
THEOREM DuplicatesEnd == IngestSpec => []RedirectsEnd
<1>1. IngestInv => RedirectsEnd
  BY DEF IngestInv
<1>2. QED  BY <1>1, IngestSound, PTL

\* Whatever ingest has reported as taken in is stored and will be extracted,
\* except what the queue never heard of because a process died, and names of
\* sessions that two processes picked at once.
THEOREM IngestsAreKept == IngestSpec => []NoIngestLost
BY IngestKept, IngestSound, PTL

-----------------------------------------------------------------------------
(* The life of a note: the inductive invariant.                            *)

Rows == [Pages -> Page \cup {Unindexed}]
Resting == [pc : {"idle"}, todo : {{}}, at : {NoPage}, locked : {FALSE}]
Scanning == [pc : {"scan"}, rows : Rows, todo : SUBSET Pages, at : Pages \cup {NoPage},
             locked : BOOLEAN]
Writing == [pc : {"scan", "read", "replaced"}, rows : Rows, todo : SUBSET Pages, at : Pages,
            locked : BOOLEAN, read : Page, text : Page]

\* What the audit holds: the text it puts in place is the page it read, with
\* the state that the row of its snapshot calls for.
AuditHolds(a) ==
    /\ a \in Resting \cup Scanning \cup Writing
    /\ a.pc # "idle" => \A n \in a.todo : a.rows[n] # Unindexed
    /\ a \in Writing => /\ a.rows[a.at] # Unindexed /\ Target(a.rows[a.at]) # "none"
                        /\ a.text = [a.read EXCEPT !.life = Target(a.rows[a.at])]

\* What a promotion holds: one more observation of the page it read.
PromoHolds(p) ==
    \/ p = NoPromo
    \/ /\ p \in [at : Pages, read : Page, text : Page]
       /\ p.text.count > p.read.count
       /\ p.text.life = "canonical" => p.read.life = "canonical" \/ p.text.count >= 4

LifeType ==
    /\ page \in [Pages -> Page] /\ seen \in Rows /\ row \in Rows
    /\ item \in [Pages -> {"none", "open", "resolved"}]
    /\ operated \in 0..OperatorBound
    /\ manual \subseteq Pages /\ overlapped \subseteq Pages
    /\ AuditHolds(audit) /\ PromoHolds(promo)

\* The row has what the sync saw; only the state in it may be the audit's.
RowOfSeen(n) ==
    IF SyncRow(seen[n]) = Unindexed THEN row[n] = Unindexed
    ELSE row[n] # Unindexed /\ row[n].count = seen[n].count /\ row[n].conf = seen[n].conf

\* Observations are counted up while writers do not overlap: neither the sync
\* nor the audit knows of more than there are in the page.
CountsGrow(n) ==
    n \notin overlapped =>
        /\ seen[n] # Unindexed => seen[n].count <= page[n].count
        /\ audit.pc # "idle" /\ audit.rows[n] # Unindexed => audit.rows[n].count <= page[n].count

\* The renderer has its thresholds in its text; the configuration's may not be
\* higher.
RendererAgrees == CanonicalAt <= 4

\* RowFollowsPage and CanonicalIsCorroborated, of one note.
Follows(n) ==
    seen[n] = page[n] /\ n \notin overlapped /\ ~(audit.pc = "replaced" /\ audit.at = n)
        => row[n] = SyncRow(page[n])

Corroborated(n) ==
    RendererAgrees /\ page[n].life = "canonical" /\ n \notin manual \cup overlapped
        => page[n].count >= CanonicalAt

NoteSound(n) == RowOfSeen(n) /\ CountsGrow(n) /\ Follows(n) /\ Corroborated(n)

LifeInv == LifeType /\ \A n \in Pages : NoteSound(n)

-----------------------------------------------------------------------------
(* What is written.                                                        *)

Levels == {"low", "medium", "high"}

LEMMA LoweredLevel ==
    ASSUME NEW c \in Levels
    PROVE  Lowered(c) \in Levels
<1>1. CASE c = "low"
  BY <1>1 DEF Lowered
<1>2. CASE c # "low"
  <2>1. \E k \in 1..3 : Confidences[k] = c
    <3>1. CASE c = "low"
      BY <1>2, <3>1
    <3>2. CASE c = "medium"
      BY <3>2 DEF Confidences
    <3>3. CASE c = "high"
      BY <3>3 DEF Confidences
    <3>4. QED  BY <3>1, <3>2, <3>3 DEF Levels
  <2>2. Rank(c) \in 1..3 /\ Confidences[Rank(c)] = c
    BY <2>1 DEF Rank
  <2>3. PICK k : k = Rank(c)
    OBVIOUS
  <2>4. k # 1
    BY <1>2, <2>2, <2>3 DEF Confidences
  <2>5. k - 1 = 1 \/ k - 1 = 2
    BY <2>2, <2>3, <2>4
  <2>6. Confidences[k - 1] \in Levels
    BY <2>5 DEF Confidences, Levels
  <2>7. QED  BY <1>2, <2>3, <2>6 DEF Lowered
<1>3. QED  BY <1>1, <1>2

LEMMA Rendered ==
    ASSUME NEW p \in Page, p.count < CountBound, NEW why, NEW conf \in Levels
    PROVE  LET text == RenderExisting(p, why, conf)
           IN  /\ text \in Page /\ text.count > p.count
               /\ text.life = "canonical" => p.life = "canonical" \/ text.count >= 4
<1>. DEFINE count == Observations(p) + 1
            life == CASE why \in {"confirm", "update"} /\ p.life = "draft" /\ count >= 2 -> "verified"
                      [] why \in {"confirm", "update"} /\ p.life = "verified" /\ count >= 4 -> "canonical"
                      [] why = "supersedes_stale" -> "stale"
                      [] why = "supersedes_contested"
                         /\ p.life \notin {"contested", "stale", "archived"} -> "contested"
                      [] why = "supersedes_archive" -> "archived"
                      [] OTHER -> p.life
            before == IF why = "supersedes_contested" THEN Lowered(p.conf) ELSE p.conf
<1>1. p.life \in Written /\ p.count \in 0..CountBound /\ p.conf \in Levels
  BY DEF Page, Levels
<1>2. before \in Levels
  BY <1>1, LoweredLevel
<1>3. Stronger(conf, before) \in Levels
  BY <1>2 DEF Stronger
<1>4. count \in 0..CountBound /\ count > p.count
  BY <1>1, LifeAssumption DEF Observations
<1>5. life \in Written
  <2>. HIDE DEF count
  <2>1. QED  BY <1>1 DEF Written, LifecycleStates
<1>6. life = "canonical" => p.life = "canonical" \/ count >= 4
  <2>. HIDE DEF count
  <2>1. QED  OBVIOUS
<1>7. RenderExisting(p, why, conf) = [life |-> life, count |-> count, conf |-> Stronger(conf, before)]
  BY DEF RenderExisting
<1>. HIDE DEF life, count, before
<1>8. RenderExisting(p, why, conf) \in Page
  BY <1>3, <1>4, <1>5, <1>7 DEF Page, Levels
<1>9. RenderExisting(p, why, conf).count = count /\ RenderExisting(p, why, conf).life = life
  BY <1>7
<1>10. QED  BY <1>4, <1>6, <1>8, <1>9

LEMMA TargetKinds ==
    ASSUME NEW r
    PROVE  /\ Target(r) \in {"canonical", "verified", "none"}
           /\ Target(r) = "canonical" => r.count >= CanonicalAt
BY DEF Target

LEMMA IndexedPage ==
    ASSUME NEW p \in Page
    PROVE  p # Unindexed
BY DEF Page, Unindexed, Written, LifecycleStates

LEMMA SyncRowKind ==
    ASSUME NEW p \in Page \cup {Unindexed}
    PROVE  /\ SyncRow(p) \in Page \cup {Unindexed}
           /\ SyncRow(p) = p \/ SyncRow(p) = Unindexed
BY DEF SyncRow

\* What the audit writes into the page is a page with as many observations.
LEMMA AuditWrites ==
    ASSUME NEW a \in Writing, AuditHolds(a)
    PROVE  /\ a.text \in Page /\ a.text.count = a.read.count /\ a.text.conf = a.read.conf
           /\ a.text.life = Target(a.rows[a.at]) /\ a.text.life \in LifecycleStates
           /\ a.text.life = "canonical" => a.rows[a.at].count >= CanonicalAt
<1>1. /\ a.text \in Page /\ a.read \in Page /\ a.text = [a.read EXCEPT !.life = Target(a.rows[a.at])]
      /\ Target(a.rows[a.at]) # "none"
  BY DEF Writing, AuditHolds
<1>2. a.text.life = Target(a.rows[a.at]) /\ a.text.count = a.read.count /\ a.text.conf = a.read.conf
  BY <1>1 DEF Page
<1>3. QED  BY <1>1, <1>2, TargetKinds DEF LifecycleStates

-----------------------------------------------------------------------------
(* The steps.                                                              *)

LEMMA LifeFacts ==
    ASSUME LifeInv
    PROVE  /\ LifeType /\ AuditHolds(audit) /\ PromoHolds(promo)
           /\ page \in [Pages -> Page] /\ seen \in Rows /\ row \in Rows
           /\ manual \subseteq Pages /\ overlapped \subseteq Pages
           /\ operated \in 0..OperatorBound
           /\ \A n \in Pages : /\ NoteSound(n) /\ RowOfSeen(n) /\ CountsGrow(n)
                               /\ Follows(n) /\ Corroborated(n)
                               /\ page[n] \in Page /\ page[n].count \in Nat
BY LifeAssumption DEF LifeInv, LifeType, NoteSound, Page

LEMMA RowBehind ==
    ASSUME LifeInv, NEW n \in Pages, row[n] # Unindexed
    PROVE  /\ seen[n] \in Page /\ row[n].count = seen[n].count /\ row[n].conf = seen[n].conf
           /\ n \notin overlapped => row[n].count <= page[n].count
<1>1. SyncRow(seen[n]) # Unindexed
  BY LifeFacts DEF RowOfSeen
<1>2. seen[n] \in Page /\ seen[n] # Unindexed
  BY <1>1, LifeFacts DEF Rows, SyncRow
<1>3. QED  BY <1>1, <1>2, LifeFacts DEF RowOfSeen, CountsGrow

LEMMA NoteStays ==
    ASSUME LifeInv, NEW n \in Pages,
           page'[n] = page[n], row'[n] = row[n], seen'[n] = seen[n],
           manual \subseteq manual', overlapped \subseteq overlapped',
           audit'.pc # "idle" =>
               audit'.rows[n] = row[n] \/ (audit.pc # "idle" /\ audit'.rows[n] = audit.rows[n]),
           audit.pc = "replaced" /\ audit.at = n => audit'.pc = "replaced" /\ audit'.at = n
    PROVE  NoteSound(n)'
<1>1. RowOfSeen(n)'
  BY LifeFacts DEF RowOfSeen
<1>2. CountsGrow(n)'
  BY LifeFacts, RowBehind DEF CountsGrow
<1>3. Follows(n)'
  BY LifeFacts DEF Follows
<1>4. Corroborated(n)'
  BY LifeFacts DEF Corroborated
<1>5. QED  BY <1>1, <1>2, <1>3, <1>4 DEF NoteSound

LEMMA PromoteKeeps ==
    ASSUME LifeInv, NEW n \in Pages, Promote(n)
    PROVE  LifeInv'
<1>1. PICK m \in Matches : promo' = [at |-> n, read |-> page[n],
          text |-> RenderExisting(page[n], Decide(m, row[n].conf), m.conf)]
  BY DEF Promote
<1>2. page[n].count < CountBound
      /\ UNCHANGED <<page, row, seen, item, audit, operated, manual, overlapped>>
  BY DEF Promote
<1>3. m.conf \in Levels
  BY DEF Matches, Levels
<1>4. PICK why : why = Decide(m, row[n].conf)
  OBVIOUS
<1>5. PICK text : text = RenderExisting(page[n], why, m.conf)
  OBVIOUS
<1>6. /\ text \in Page /\ text.count > page[n].count
      /\ text.life = "canonical" => page[n].life = "canonical" \/ text.count >= 4
  BY <1>2, <1>3, <1>5, LifeFacts, Rendered
<1>7. promo' = [at |-> n, read |-> page[n], text |-> text]
  BY <1>1, <1>4, <1>5
<1>8. PromoHolds(promo')
  BY <1>6, <1>7, LifeFacts DEF PromoHolds
<1>9. LifeType'
  BY <1>2, <1>8, LifeFacts DEF LifeType, PromoHolds
<1>10. \A k \in Pages : NoteSound(k)'
  BY <1>2, NoteStays
<1>11. QED  BY <1>9, <1>10 DEF LifeInv

LEMMA WritePromotionKeeps ==
    ASSUME LifeInv, WritePromotion
    PROVE  LifeInv'
<1>1. PICK p : p = promo
  OBVIOUS
<1>2. PICK n : n = p.at
  OBVIOUS
<1>3. p # NoPromo /\ page' = [page EXCEPT ![n] = p.text]
      /\ overlapped' = overlapped \cup {k \in {n} : page[k] # p.read}
      /\ promo' = NoPromo /\ UNCHANGED <<row, seen, item, audit, operated, manual>>
  BY <1>1, <1>2 DEF WritePromotion
<1>4. /\ n \in Pages /\ p.read \in Page /\ p.text \in Page
      /\ p.text.count > p.read.count
      /\ p.text.life = "canonical" => p.read.life = "canonical" \/ p.text.count >= 4
  BY <1>1, <1>2, <1>3, LifeFacts DEF PromoHolds
<1>5. page' \in [Pages -> Page] /\ page'[n] = p.text
      /\ \A k \in Pages \ {n} : page'[k] = page[k]
  BY <1>3, <1>4, LifeFacts
<1>6. LifeType'
  BY <1>3, <1>4, <1>5, LifeFacts DEF LifeType, PromoHolds
<1>7. ASSUME NEW k \in Pages PROVE NoteSound(k)'
  <2>1. CASE k # n
    BY <1>3, <1>5, <2>1, NoteStays
  <2>2. CASE k = n
    <3>1. RowOfSeen(k)'
      BY <1>3, LifeFacts DEF RowOfSeen
    <3>2. CASE n \in overlapped'
      BY <2>2, <3>1, <3>2 DEF NoteSound, CountsGrow, Follows, Corroborated
    <3>3. CASE n \notin overlapped'
      <4>1. n \notin overlapped /\ page[n] = p.read
        BY <1>3, <3>3
      <4>2. page[n].count \in Nat /\ page'[n].count \in Nat /\ page'[n].count > page[n].count
        <5>1. p.text.count \in Nat
          BY <1>4, LifeAssumption DEF Page
        <5>2. QED  BY <1>4, <1>5, <4>1, <5>1, LifeFacts
      <4>3. /\ seen[n] # Unindexed => seen[n].count <= page[n].count
            /\ audit.pc # "idle" /\ audit.rows[n] # Unindexed
                  => audit.rows[n].count <= page[n].count
        BY <1>4, <4>1, LifeFacts DEF CountsGrow
      <4>4. seen[n] # Unindexed => seen[n].count \in Nat
        BY <1>4, LifeFacts, LifeAssumption DEF Rows, Page
      <4>5. audit.pc # "idle" /\ audit.rows[n] # Unindexed => audit.rows[n].count \in Nat
        <5>1. audit.pc # "idle" => audit.rows \in Rows
          BY LifeFacts DEF AuditHolds, Resting, Scanning, Writing
        <5>2. QED  BY <1>4, <5>1, LifeAssumption DEF Rows, Page
      <4>6. CountsGrow(k)'
        <5>1. /\ seen[n] # Unindexed => seen[n].count <= page'[n].count
              /\ audit.pc # "idle" /\ audit.rows[n] # Unindexed
                    => audit.rows[n].count <= page'[n].count
          BY <4>2, <4>3, <4>4, <4>5
        <5>2. QED  BY <1>3, <2>2, <5>1 DEF CountsGrow
      <4>7. seen'[n] # page'[n]
        <5>1. seen[n] = page'[n] => seen[n] # Unindexed
          BY <1>4, <1>5, IndexedPage
        <5>2. seen[n] = page'[n] => seen[n].count > page[n].count
          BY <4>2
        <5>3. QED  BY <1>3, <4>2, <4>3, <5>1, <5>2
      <4>8. Follows(k)'
        BY <2>2, <4>7 DEF Follows
      <4>9. Corroborated(k)'
        <5>1. RendererAgrees /\ p.text.count >= 4 => p.text.count >= CanonicalAt
          <6>1. p.text.count \in Nat /\ CanonicalAt \in Nat
            BY <1>4, <4>1, <4>2, <1>5, LifeAssumption
          <6>2. QED  BY <6>1 DEF RendererAgrees
        <5>2. page[n].count >= CanonicalAt => page'[n].count >= CanonicalAt
          BY <4>2, LifeAssumption
        <5>3. QED  BY <1>3, <1>4, <1>5, <2>2, <4>1, <5>1, <5>2, LifeFacts DEF Corroborated
      <4>10. QED  BY <3>1, <4>6, <4>8, <4>9 DEF NoteSound
    <3>4. QED  BY <3>2, <3>3
  <2>3. QED  BY <2>1, <2>2
<1>8. QED  BY <1>6, <1>7 DEF LifeInv

LEMMA SyncKeeps ==
    ASSUME LifeInv, NEW n \in Pages, Sync(n)
    PROVE  LifeInv'
<1>1. /\ ~audit.locked
      /\ seen' = [seen EXCEPT ![n] = page[n]] /\ row' = [row EXCEPT ![n] = SyncRow(page[n])]
      /\ UNCHANGED <<page, item, audit, promo, operated, manual, overlapped>>
  BY DEF Sync
<1>2. page[n] \in Page /\ SyncRow(page[n]) \in Page \cup {Unindexed}
  BY LifeFacts, SyncRowKind
<1>3. /\ seen' \in Rows /\ seen'[n] = page[n] /\ row' \in Rows /\ row'[n] = SyncRow(page[n])
      /\ \A k \in Pages \ {n} : seen'[k] = seen[k] /\ row'[k] = row[k]
  BY <1>1, <1>2, LifeFacts DEF Rows
<1>4. LifeType'
  BY <1>1, <1>3, LifeFacts DEF LifeType
<1>5. ASSUME NEW k \in Pages PROVE NoteSound(k)'
  <2>1. CASE k # n
    BY <1>1, <1>3, <2>1, NoteStays
  <2>2. CASE k = n
    <3>1. RowOfSeen(k)'
      BY <1>2, <1>3, <2>2, SyncRowKind DEF RowOfSeen
    <3>2. CountsGrow(k)'
      BY <1>1, <1>3, <2>2, LifeFacts DEF CountsGrow
    <3>3. Follows(k)'
      BY <1>1, <1>3, <2>2 DEF Follows
    <3>4. Corroborated(k)'
      BY <1>1, LifeFacts DEF Corroborated
    <3>5. QED  BY <3>1, <3>2, <3>3, <3>4 DEF NoteSound
  <2>3. QED  BY <2>1, <2>2
<1>6. QED  BY <1>4, <1>5 DEF LifeInv

LEMMA OperatorKeeps ==
    ASSUME LifeInv, NEW n \in Pages, NEW life \in {"canonical", "contested", "archived"},
           OperatorSets(n, life)
    PROVE  LifeInv'
<1>1. PICK p : p = [page[n] EXCEPT !.life = life]
  OBVIOUS
<1>2. /\ operated < OperatorBound /\ operated' = operated + 1
      /\ page' = [page EXCEPT ![n] = p] /\ manual' = manual \cup {n}
      /\ overlapped' = overlapped \cup {m \in {n} : page'[m] = seen[m]}
      /\ UNCHANGED <<row, seen, item, audit, promo>>
  BY <1>1 DEF OperatorSets
<1>3. p \in Page /\ p.count = page[n].count
  <2>1. life \in Written
    BY DEF Written, LifecycleStates
  <2>2. QED  BY <1>1, <2>1, LifeFacts DEF Page
<1>4. /\ page' \in [Pages -> Page] /\ page'[n] = p
      /\ \A k \in Pages \ {n} : page'[k] = page[k]
  BY <1>2, <1>3, LifeFacts
<1>5. operated' \in 0..OperatorBound
  BY <1>2, LifeFacts, LifeAssumption
<1>6. LifeType'
  BY <1>2, <1>4, <1>5, LifeFacts DEF LifeType
<1>7. ASSUME NEW k \in Pages PROVE NoteSound(k)'
  <2>1. CASE k # n
    BY <1>2, <1>4, <2>1, NoteStays
  <2>2. CASE k = n
    <3>1. RowOfSeen(k)'
      BY <1>2, LifeFacts DEF RowOfSeen
    <3>2. CountsGrow(k)'
      BY <1>2, <1>3, <1>4, <2>2, LifeFacts DEF CountsGrow
    <3>3. Follows(k)'
      BY <1>2, <2>2 DEF Follows
    <3>4. Corroborated(k)'
      BY <1>2, <2>2 DEF Corroborated
    <3>5. QED  BY <3>1, <3>2, <3>3, <3>4 DEF NoteSound
  <2>3. QED  BY <2>1, <2>2
<1>8. QED  BY <1>6, <1>7 DEF LifeInv

LEMMA ResolveKeeps ==
    ASSUME LifeInv, NEW n \in Pages, OperatorResolves(n)
    PROVE  LifeInv'
<1>1. /\ item' = [item EXCEPT ![n] = "resolved"]
      /\ UNCHANGED <<page, row, seen, audit, promo, operated, manual, overlapped>>
  BY DEF OperatorResolves
<1>2. LifeType'
  BY <1>1 DEF LifeInv, LifeType
<1>3. \A k \in Pages : NoteSound(k)'
  BY <1>1, NoteStays
<1>4. QED  BY <1>2, <1>3 DEF LifeInv

\* The audit goes on and writes neither page nor row.
LEMMA AuditMoves ==
    ASSUME LifeInv, NEW a, audit' = a, AuditHolds(a),
           item' \in [Pages -> {"none", "open", "resolved"}],
           UNCHANGED <<page, row, seen, promo, operated, manual, overlapped>>,
           audit.pc # "replaced",
           a.pc # "idle" => a.rows = row \/ (audit.pc # "idle" /\ a.rows = audit.rows)
    PROVE  LifeInv'
<1>1. LifeType'
  BY DEF LifeInv, LifeType, AuditHolds
<1>2. \A k \in Pages : NoteSound(k)'
  BY NoteStays
<1>3. QED  BY <1>1, <1>2 DEF LifeInv

LEMMA AuditKinds ==
    ASSUME LifeInv
    PROVE  /\ audit.pc = "scan" => audit \in Scanning \cup Writing
           /\ audit.pc \in {"read", "replaced"} => audit \in Writing
           /\ audit.pc # "idle" => audit.rows \in Rows /\ audit.todo \in SUBSET Pages
BY LifeFacts DEF AuditHolds, Resting, Scanning, Writing

LEMMA AuditKeeps ==
    ASSUME LifeInv, AuditStep
    PROVE  LifeInv'
<1>0. PICK a : a = audit'
  OBVIOUS
<1>b. PICK b : b = audit
  OBVIOUS
<1>c. AuditHolds(b) /\ item \in [Pages -> {"none", "open", "resolved"}]
  BY <1>b, LifeFacts DEF LifeType
<1>1. CASE StartAudit
  <2>1. /\ audit.pc = "idle" /\ item' = item
        /\ a = [pc |-> "scan", rows |-> row, todo |-> {n \in Pages : row[n] # Unindexed},
                at |-> NoPage, locked |-> TRUE]
        /\ UNCHANGED <<page, row, seen, promo, operated, manual, overlapped>>
    BY <1>0, <1>1 DEF StartAudit
  <2>2. row \in Rows
    BY LifeFacts
  <2>3. a \in Scanning /\ a \notin Writing
    BY <2>1, <2>2 DEF Scanning, Writing
  <2>4. AuditHolds(a)
    BY <2>1, <2>3 DEF AuditHolds
  <2>5. QED  BY <1>0, <1>c, <2>1, <2>4, AuditMoves
<1>2. CASE \E n \in Pages : AuditPasses(n)
  <2>1. PICK n \in Pages : AuditPasses(n)
    BY <1>2
  <2>2. /\ b.pc = "scan" /\ a = [b EXCEPT !.todo = b.todo \ {n}]
        /\ UNCHANGED <<page, row, seen, promo, operated, manual, overlapped>>
    BY <1>0, <1>b, <2>1 DEF AuditPasses
  <2>3. item' \in [Pages -> {"none", "open", "resolved"}]
    BY <1>c, <2>1 DEF AuditPasses
  <2>4. /\ a.rows = b.rows /\ a.todo \subseteq b.todo /\ a.pc = "scan"
        /\ a \in Scanning \cup Writing /\ (a \in Writing => b \in Writing)
        /\ (a \in Writing => a.at = b.at /\ a.read = b.read /\ a.text = b.text)
    <3>1. b \in Scanning \cup Writing
      BY <1>b, <2>2, AuditKinds
    <3>2. CASE b \in Scanning
      BY <2>2, <3>2 DEF Scanning, Writing
    <3>3. CASE b \in Writing
      BY <2>2, <3>3 DEF Writing
    <3>4. QED  BY <3>1, <3>2, <3>3
  <2>5. AuditHolds(a)
    BY <1>c, <2>2, <2>4 DEF AuditHolds
  <2>6. QED  BY <1>0, <1>b, <2>2, <2>3, <2>4, <2>5, AuditMoves
<1>3. CASE \E n \in Pages : AuditReads(n)
  <2>1. PICK n \in Pages : AuditReads(n)
    BY <1>3
  <2>2. /\ b.pc = "scan" /\ n \in b.todo /\ Target(b.rows[n]) # "none" /\ item' = item
        /\ a = [pc |-> "read", rows |-> b.rows, todo |-> b.todo \ {n}, at |-> n,
                locked |-> b.locked, read |-> page[n],
                text |-> [page[n] EXCEPT !.life = Target(b.rows[n])]]
        /\ UNCHANGED <<page, row, seen, promo, operated, manual, overlapped>>
    BY <1>0, <1>b, <2>1 DEF AuditReads
  <2>3. b \in Scanning \cup Writing /\ b.rows \in Rows /\ b.todo \in SUBSET Pages /\ b.locked \in BOOLEAN
    BY <1>b, <2>2, AuditKinds DEF Scanning, Writing
  <2>4. [page[n] EXCEPT !.life = Target(b.rows[n])] \in Page
    <3>1. page[n] \in Page
      BY LifeFacts
    <3>2. Target(b.rows[n]) \in Written
      BY <2>2, TargetKinds DEF Written, LifecycleStates
    <3>3. QED  BY <3>1, <3>2 DEF Page
  <2>5. a \in Writing
    BY <2>2, <2>3, <2>4, LifeFacts DEF Writing
  <2>6. b.rows[n] # Unindexed
    BY <1>c, <2>2 DEF AuditHolds
  <2>7. AuditHolds(a)
    <3>1. /\ a.pc = "read" /\ a.rows = b.rows /\ a.at = n /\ a.read = page[n]
          /\ a.text = [page[n] EXCEPT !.life = Target(b.rows[n])] /\ a.todo \subseteq b.todo
      BY <2>2
    <3>2. QED  BY <1>c, <2>2, <2>5, <2>6, <3>1 DEF AuditHolds
  <2>8. QED  BY <1>0, <1>b, <1>c, <2>2, <2>7, AuditMoves
<1>4. CASE AuditReplaces
  <2>1. PICK n : n = b.at
    OBVIOUS
  <2>2. /\ b.pc = "read" /\ page' = [page EXCEPT ![n] = b.text]
        /\ overlapped' = overlapped \cup {k \in {n} : page[k] # b.read}
        /\ a = [b EXCEPT !.pc = "replaced"]
        /\ UNCHANGED <<row, seen, item, promo, operated, manual>>
    BY <1>0, <1>b, <1>4, <2>1 DEF AuditReplaces
  <2>3. b \in Writing
    BY <1>b, <2>2, AuditKinds
  <2>4. n \in Pages /\ b.read \in Page /\ b.text \in Page /\ b.rows \in Rows
    BY <2>1, <2>3 DEF Writing
  <2>5. /\ b.text.count = b.read.count /\ b.rows[n] # Unindexed
        /\ b.text.life = "canonical" => b.rows[n].count >= CanonicalAt
    BY <1>c, <2>1, <2>3, AuditWrites DEF AuditHolds
  <2>6. /\ a \in Writing /\ a.pc = "replaced" /\ a.rows = b.rows /\ a.todo = b.todo /\ a.at = n
        /\ a.read = b.read /\ a.text = b.text
    BY <2>1, <2>2, <2>3 DEF Writing
  <2>7. AuditHolds(a)
    BY <1>c, <2>1, <2>2, <2>3, <2>6 DEF AuditHolds
  <2>8. page' \in [Pages -> Page] /\ page'[n] = b.text
        /\ \A k \in Pages \ {n} : page'[k] = page[k]
    BY <2>2, <2>4, LifeFacts
  <2>9. LifeType'
    BY <1>0, <2>2, <2>4, <2>7, <2>8, LifeFacts DEF LifeType, AuditHolds
  <2>10. ASSUME NEW k \in Pages PROVE NoteSound(k)'
    <3>1. CASE k # n
      <4>1. audit'.rows[k] = audit.rows[k] /\ audit.pc # "idle" /\ audit.pc # "replaced"
        BY <1>0, <1>b, <2>2, <2>6
      <4>2. QED  BY <2>2, <2>8, <3>1, <4>1, NoteStays
    <3>2. CASE k = n
      <4>1. RowOfSeen(k)'
        BY <2>2, LifeFacts DEF RowOfSeen
      <4>2. Follows(k)'
        BY <1>0, <2>6, <3>2 DEF Follows
      <4>3. CASE n \in overlapped'
        BY <3>2, <4>1, <4>2, <4>3 DEF NoteSound, CountsGrow, Corroborated
      <4>4. CASE n \notin overlapped'
        <5>1. n \notin overlapped /\ page[n] = b.read
          BY <2>2, <4>4
        <5>2. page'[n].count = page[n].count
          BY <2>5, <2>8, <5>1
        <5>3. CountsGrow(k)'
          BY <1>0, <1>b, <2>2, <2>6, <3>2, <5>1, <5>2, LifeFacts DEF CountsGrow
        <5>4. Corroborated(k)'
          <6>1. b.rows[n].count <= page[n].count
            BY <1>b, <2>2, <2>4, <2>5, <5>1, LifeFacts DEF CountsGrow
          <6>2. b.rows[n].count \in Nat /\ page[n].count \in Nat
            BY <2>4, <2>5, LifeFacts, LifeAssumption DEF Rows, Page
          <6>3. b.text.life = "canonical" => page[n].count >= CanonicalAt
            BY <2>5, <6>1, <6>2, LifeAssumption
          <6>4. QED  BY <2>8, <3>2, <5>2, <6>3 DEF Corroborated
        <5>5. QED  BY <4>1, <4>2, <5>3, <5>4 DEF NoteSound
      <4>5. QED  BY <4>3, <4>4
    <3>3. QED  BY <3>1, <3>2
  <2>11. QED  BY <2>9, <2>10 DEF LifeInv
<1>5. CASE AuditWriteFails
  <2>1. /\ b.pc = "read" /\ a = [b EXCEPT !.pc = "scan"] /\ item' = item
        /\ UNCHANGED <<page, row, seen, promo, operated, manual, overlapped>>
    BY <1>0, <1>b, <1>5 DEF AuditWriteFails
  <2>2. b \in Writing
    BY <1>b, <2>1, AuditKinds
  <2>3. /\ a \in Writing /\ a.pc = "scan" /\ a.rows = b.rows /\ a.todo = b.todo /\ a.at = b.at
        /\ a.read = b.read /\ a.text = b.text
    BY <2>1, <2>2 DEF Writing
  <2>4. AuditHolds(a)
    BY <1>c, <2>1, <2>2, <2>3 DEF AuditHolds
  <2>5. QED  BY <1>0, <1>b, <1>c, <2>1, <2>3, <2>4, AuditMoves
<1>6. CASE AuditUpdates
  <2>1. PICK n : n = b.at
    OBVIOUS
  <2>2. /\ b.pc = "replaced"
        /\ row' = [row EXCEPT ![n] = IF row[n] = Unindexed THEN row[n]
                                     ELSE [row[n] EXCEPT !.life = b.text.life]]
        /\ overlapped' = overlapped \cup {m \in {n} : page[m] # b.text}
        /\ a = [b EXCEPT !.pc = "scan", !.locked = FALSE]
        /\ UNCHANGED <<page, seen, item, promo, operated, manual>>
    BY <1>0, <1>b, <1>6, <2>1 DEF AuditUpdates
  <2>3. b \in Writing
    BY <1>b, <2>2, AuditKinds
  <2>4. n \in Pages /\ b.text \in Page /\ b.text.life \in LifecycleStates
    BY <1>c, <2>1, <2>3, AuditWrites DEF Writing
  <2>5. /\ a \in Writing /\ a.pc = "scan" /\ a.rows = b.rows /\ a.todo = b.todo /\ a.at = n
        /\ a.read = b.read /\ a.text = b.text
    BY <2>1, <2>2, <2>3 DEF Writing
  <2>6. AuditHolds(a)
    BY <1>c, <2>1, <2>2, <2>3, <2>5 DEF AuditHolds
  <2>7. PICK r : r = IF row[n] = Unindexed THEN row[n] ELSE [row[n] EXCEPT !.life = b.text.life]
    OBVIOUS
  <2>8. /\ r \in Page \cup {Unindexed} /\ (r = Unindexed <=> row[n] = Unindexed)
        /\ r # Unindexed => /\ r.life = b.text.life
                            /\ r.count = row[n].count /\ r.conf = row[n].conf
    <3>1. CASE row[n] = Unindexed
      BY <2>7, <3>1
    <3>2. CASE row[n] # Unindexed
      <4>1. row[n] \in Page
        BY <2>4, <3>2, LifeFacts DEF Rows
      <4>2. r = [row[n] EXCEPT !.life = b.text.life] /\ b.text.life \in Written
        BY <2>4, <2>7, <3>2 DEF Written
      <4>3. /\ r \in Page /\ r.life = b.text.life /\ r.count = row[n].count
            /\ r.conf = row[n].conf
        BY <4>1, <4>2 DEF Page
      <4>4. QED  BY <3>2, <4>3, IndexedPage
    <3>3. QED  BY <3>1, <3>2
  <2>9. row' \in Rows /\ row'[n] = r /\ \A k \in Pages \ {n} : row'[k] = row[k]
    BY <2>2, <2>4, <2>7, <2>8, LifeFacts DEF Rows
  <2>10. LifeType'
    BY <1>0, <2>2, <2>4, <2>6, <2>9, LifeFacts DEF LifeType, AuditHolds
  <2>11. ASSUME NEW k \in Pages PROVE NoteSound(k)'
    <3>1. CASE k # n
      <4>1. audit'.rows[k] = audit.rows[k] /\ audit.pc # "idle" /\ audit.at # k
        BY <1>0, <1>b, <2>1, <2>2, <2>5, <3>1
      <4>2. QED  BY <2>2, <2>9, <3>1, <4>1, NoteStays
    <3>2. CASE k = n
      <4>1. RowOfSeen(k)'
        BY <2>2, <2>8, <2>9, <3>2, LifeFacts DEF RowOfSeen
      <4>2. CountsGrow(k)'
        BY <1>0, <1>b, <2>2, <2>5, LifeFacts DEF CountsGrow
      <4>3. Corroborated(k)'
        BY <2>2, LifeFacts DEF Corroborated
      <4>4. Follows(k)'
        <5>. SUFFICES ASSUME seen[n] = page[n], n \notin overlapped' PROVE r = SyncRow(page[n])
          BY <2>2, <2>9, <3>2 DEF Follows
        <5>1. page[n] = b.text
          BY <2>2
        <5>2. SyncRow(page[n]) = page[n] /\ page[n] \in Page /\ page[n] # Unindexed
          BY <2>4, <5>1, IndexedPage DEF SyncRow
        <5>3. row[n] # Unindexed /\ row[n].count = page[n].count /\ row[n].conf = page[n].conf
          BY <2>4, <5>2, LifeFacts DEF RowOfSeen
        <5>4. /\ r \in Page /\ r.life = page[n].life /\ r.count = page[n].count
              /\ r.conf = page[n].conf
          BY <2>8, <5>1, <5>3
        <5>5. r = page[n]
          BY <5>2, <5>4 DEF Page
        <5>6. QED  BY <5>2, <5>5
      <4>5. QED  BY <4>1, <4>2, <4>3, <4>4 DEF NoteSound
    <3>3. QED  BY <3>1, <3>2
  <2>12. QED  BY <2>10, <2>11 DEF LifeInv
<1>7. CASE AuditUpdatesAnother
  <2>1. /\ b.pc = "scan" /\ a = [b EXCEPT !.locked = FALSE] /\ item' = item
        /\ UNCHANGED <<page, row, seen, promo, operated, manual, overlapped>>
    BY <1>0, <1>b, <1>7 DEF AuditUpdatesAnother
  <2>2. /\ a.rows = b.rows /\ a.todo = b.todo /\ a.pc = "scan"
        /\ a \in Scanning \cup Writing /\ (a \in Writing => b \in Writing)
        /\ (a \in Writing => a.at = b.at /\ a.read = b.read /\ a.text = b.text)
    <3>1. b \in Scanning \cup Writing
      BY <1>b, <2>1, AuditKinds
    <3>2. CASE b \in Scanning
      BY <2>1, <3>2 DEF Scanning, Writing
    <3>3. CASE b \in Writing
      BY <2>1, <3>3 DEF Writing
    <3>4. QED  BY <3>1, <3>2, <3>3
  <2>3. AuditHolds(a)
    BY <1>c, <2>1, <2>2 DEF AuditHolds
  <2>4. QED  BY <1>0, <1>b, <1>c, <2>1, <2>2, <2>3, AuditMoves
<1>8. CASE EndAudit
  <2>1. /\ b.pc = "scan" /\ item' = item
        /\ a = [pc |-> "idle", todo |-> {}, at |-> NoPage, locked |-> FALSE]
        /\ UNCHANGED <<page, row, seen, promo, operated, manual, overlapped>>
    BY <1>0, <1>b, <1>8 DEF EndAudit
  <2>2. a \in Resting /\ a \notin Writing /\ a.pc = "idle"
    BY <2>1 DEF Resting, Writing
  <2>3. AuditHolds(a)
    BY <2>2 DEF AuditHolds
  <2>4. QED  BY <1>0, <1>b, <1>c, <2>1, <2>2, <2>3, AuditMoves
<1>9. QED
  BY <1>1, <1>2, <1>3, <1>4, <1>5, <1>6, <1>7, <1>8 DEF AuditStep

-----------------------------------------------------------------------------
(* The theorems.                                                           *)

LEMMA LifeStart == LifeInit => LifeInv
<1>. SUFFICES ASSUME LifeInit PROVE LifeInv
  OBVIOUS
<1>1. page \in [Pages -> Page] /\ \A n \in Pages : page[n].life = "draft"
  <2>1. {"draft"} \subseteq Written /\ {0, 1} \subseteq 0..CountBound
    BY LifeAssumption DEF Written, LifecycleStates
  <2>2. [life : {"draft"}, count : {0, 1}, conf : {"medium"}] \subseteq Page
    BY <2>1 DEF Page
  <2>3. QED  BY <2>2 DEF LifeInit
<1>2. audit \in Resting /\ audit \notin Writing /\ audit.pc = "idle"
  BY DEF LifeInit, Resting, Writing
<1>3. /\ row \in Rows /\ seen \in Rows
      /\ \A n \in Pages : row[n] = Unindexed /\ seen[n] = Unindexed
  BY DEF LifeInit, Rows
<1>4. LifeType
  BY <1>1, <1>2, <1>3, LifeAssumption DEF LifeType, LifeInit, AuditHolds, PromoHolds
<1>5. ASSUME NEW n \in Pages PROVE NoteSound(n)
  <2>1. RowOfSeen(n)
    BY <1>3 DEF RowOfSeen, SyncRow
  <2>2. seen[n] # page[n]
    BY <1>1, <1>3, IndexedPage
  <2>3. QED  BY <1>1, <1>2, <1>3, <2>1, <2>2 DEF NoteSound, CountsGrow, Follows, Corroborated
<1>6. QED  BY <1>4, <1>5 DEF LifeInv

LEMMA LifeKeeps == LifeInv /\ [LifeNext]_lifeVars => LifeInv'
<1>. SUFFICES ASSUME LifeInv, [LifeNext]_lifeVars PROVE LifeInv'
  OBVIOUS
<1>1. CASE \E n \in Pages : Promote(n) \/ Sync(n) \/ OperatorResolves(n)
  BY <1>1, PromoteKeeps, SyncKeeps, ResolveKeeps
<1>2. CASE \E n \in Pages, life \in {"canonical", "contested", "archived"} : OperatorSets(n, life)
  BY <1>2, OperatorKeeps
<1>3. CASE WritePromotion
  BY <1>3, WritePromotionKeeps
<1>4. CASE AuditStep
  BY <1>4, AuditKeeps
<1>5. CASE UNCHANGED lifeVars
  <2>1. LifeType'
    BY <1>5 DEF lifeVars, LifeInv, LifeType, PromoHolds, AuditHolds
  <2>2. \A k \in Pages : NoteSound(k)'
    BY <1>5, NoteStays DEF lifeVars
  <2>3. QED  BY <2>1, <2>2 DEF LifeInv
<1>6. QED  BY <1>1, <1>2, <1>3, <1>4, <1>5 DEF LifeNext

LEMMA SettledTarget ==
    ASSUME NEW r \in Page, Target(r) # "none"
    PROVE  Target([r EXCEPT !.life = Target(r)]) = "none"
<1>1. PICK q : q = [r EXCEPT !.life = Target(r)]
  OBVIOUS
<1>2. q.life = Target(r) /\ q.count = r.count
  BY <1>1 DEF Page
<1>3. Target(r) = "verified" => r.count < CanonicalAt /\ ~(r.count >= CanonicalAt)
  <2>1. Target(r) = "verified" => r.count < CanonicalAt
    BY DEF Target
  <2>2. r.count \in Nat
    BY LifeAssumption DEF Page
  <2>3. QED  BY <2>1, <2>2, LifeAssumption
<1>4. Target(q) = "none"
  BY <1>2, <1>3, TargetKinds DEF Target
<1>5. QED  BY <1>1, <1>4

LEMMA LifeTyped == LifeInv => LifeTypeOK
<1>. SUFFICES ASSUME LifeInv PROVE LifeTypeOK
  OBVIOUS
<1>1. LifeType
  BY DEF LifeInv
<1>2. audit \in Resting \cup Scanning \cup Writing
  BY <1>1 DEF LifeType, AuditHolds
<1>3. /\ audit.pc \in {"idle", "scan", "read", "replaced"}
      /\ audit.todo \subseteq Pages /\ audit.locked \in BOOLEAN
  BY <1>2 DEF Resting, Scanning, Writing
<1>4. QED  BY <1>1, <1>3 DEF LifeType, Rows, LifeTypeOK

LEMMA RowsKeepUp == LifeInv => RowFollowsPage /\ AuditSettles
<1>. SUFFICES ASSUME LifeInv PROVE RowFollowsPage /\ AuditSettles
  OBVIOUS
<1>1. RowFollowsPage
  BY LifeFacts DEF RowFollowsPage, Follows
<1>2. AuditSettles
  <2>1. \A n \in Pages : row[n] # Unindexed => row[n] \in Page
    BY LifeFacts DEF Rows
  <2>2. QED  BY <2>1, SettledTarget DEF AuditSettles
<1>3. QED  BY <1>1, <1>2

LEMMA LifeKept == RendererAgrees /\ LifeInv => LifecycleConsistent
<1>. SUFFICES ASSUME RendererAgrees, LifeInv PROVE LifecycleConsistent
  OBVIOUS
<1>1. CanonicalIsCorroborated
  BY LifeFacts DEF CanonicalIsCorroborated, Corroborated
<1>2. QED  BY <1>1, RowsKeepUp DEF LifecycleConsistent

LEMMA LifeAlways == LifeSpec => []LifeInv
BY LifeStart, LifeKeeps, PTL DEF LifeSpec

\* Whatever promotion, sync, the audit and an operator do to a note and in
\* whichever order, for any thresholds: a row that a sync has brought up to its
\* page says what the page does, unless writers overlapped, and the audit would
\* not change again what it has written.
THEOREM RowsFollowPages == LifeSpec => [](RowFollowsPage /\ AuditSettles)
BY RowsKeepUp, LifeAlways, PTL

\* Only notes seen often enough are canonical without an operator, provided that
\* the configuration's threshold is not above the renderer's own; with it the
\* rows, pages and the audit agree.
THEOREM LifecyclesAgree == RendererAgrees => (LifeSpec => []LifecycleConsistent)
<1>. SUFFICES ASSUME RendererAgrees PROVE LifeSpec => []LifecycleConsistent
  OBVIOUS
<1>1. LifeInv => LifecycleConsistent
  BY LifeKept
<1>2. QED  BY <1>1, LifeAlways, PTL

-----------------------------------------------------------------------------
(* Capture: types, and what they need: a thread has an episode exactly     *)
(* while it is at work, and an end has a status to set.                    *)

Settled ==
    \A t \in Threads :
        /\ thread[t].pc = "idle" <=> thread[t].ep = NoEpisode
        /\ thread[t].type = "episode_ended" => thread[t].status # "none"
        /\ thread[t].pc \in {"e_readman", "e_manifest"} => thread[t].type = "episode_ended"
        /\ thread[t].pc \in {"a_lock", "a_write"} => thread[t].type # "none"

CaptureType == CaptureTypeOK /\ Settled

LEMMA PcsAre ==
    Pcs = {"idle", "b_list", "b_manifest", "a_lock", "a_write", "a_readconv", "a_list",
           "a_readman", "a_manifest", "a_readindex", "a_index", "e_readman", "e_manifest",
           "e_readconv", "e_list", "e_readindex", "e_index", "e_enqueue"}
BY DEF Pcs, After

LEMMA AfterIs ==
    /\ After["b_list"] = "b_manifest" /\ After["a_lock"] = "a_write"
    /\ After["a_write"] = "a_readconv" /\ After["a_readconv"] = "a_list"
    /\ After["a_list"] = "a_readman" /\ After["a_readman"] = "a_manifest"
    /\ After["a_manifest"] = "a_readindex" /\ After["a_readindex"] = "a_index"
    /\ After["e_readman"] = "e_manifest" /\ After["e_manifest"] = "e_readconv"
    /\ After["e_readconv"] = "e_list" /\ After["e_list"] = "e_readindex"
    /\ After["e_readindex"] = "e_index" /\ After["e_index"] = "e_enqueue"
BY DEF After

LEMMA ManifestType == NoManifest \in Manifest
BY DEF NoManifest, Manifest

LEMMA IdleType ==
    /\ Idle \in Thread /\ Idle.pc = "idle" /\ Idle.ep = NoEpisode /\ Idle.type = "none"
    /\ Idle.status = "none"
BY ManifestType, PcsAre DEF Idle, Thread

LEMMA StepIs ==
    ASSUME CaptureTypeOK, NEW t \in Threads, thread[t].pc \notin {"idle", "b_manifest", "a_index", "e_enqueue"}
    PROVE  /\ Step(t) \in Thread /\ Step(t).pc = After[thread[t].pc]
           /\ Step(t).ep = thread[t].ep /\ Step(t).type = thread[t].type
           /\ Step(t).status = thread[t].status /\ Step(t).seq = thread[t].seq
           /\ Step(t).conv = thread[t].conv /\ Step(t).man = thread[t].man
           /\ Step(t).hash = thread[t].hash
<1>1. thread[t] \in Thread
  BY DEF CaptureTypeOK
<1>2. After[thread[t].pc] \in Pcs
  BY <1>1, AfterIs, PcsAre DEF Thread
<1>3. QED  BY <1>1, <1>2 DEF Step, Goes, Thread

LEMMA EndingType ==
    ASSUME NEW e \in Episodes, NEW status \in {"success", "partial"}
    PROVE  /\ Ending(e, status) \in Thread /\ Ending(e, status).pc = "a_lock"
           /\ Ending(e, status).ep = e /\ Ending(e, status).type = "episode_ended"
           /\ Ending(e, status).status = status
BY IdleType, PcsAre DEF Ending, Thread

\* A thread at work has an episode.
LEMMA AtWork ==
    ASSUME CaptureType, NEW t \in Threads, thread[t].pc # "idle"
    PROVE  thread[t].ep \in Episodes /\ lines[thread[t].ep] \in Seq(Line)
BY DEF CaptureType, CaptureTypeOK, Settled, Thread

\* The latest number of the readable events.
LEMMA LatestSeqIs ==
    ASSUME CaptureTypeOK, NEW e \in Episodes
    PROVE  LatestSeq(e) \in Nat /\ \A i \in Readable(e) : lines[e][i].seq <= LatestSeq(e)
<1>1. lines[e] \in Seq(Line) /\ DOMAIN lines[e] = 1..Len(lines[e]) /\ Len(lines[e]) \in Nat
  BY DEF CaptureTypeOK
<1>2. \A i \in Readable(e) : i \in 1..Len(lines[e]) /\ lines[e][i] \in Line
  BY <1>1 DEF Readable
<1>3. \A i \in Readable(e) : lines[e][i].seq \in Nat
  BY <1>2 DEF Line
<1>4. SeqsOf(e) \in SUBSET Nat /\ \A i \in Readable(e) : lines[e][i].seq \in SeqsOf(e)
  BY <1>3 DEF SeqsOf
<1>5. IsFiniteSet(SeqsOf(e))
  <2>. DEFINE S == Readable(e)
              T == SeqsOf(e)
              f == [i \in S |-> lines[e][i].seq]
  <2>1. IsFiniteSet(S)
    <3>1. S \subseteq 1..Len(lines[e])
      BY <1>2
    <3>2. IsFiniteSet(1..Len(lines[e]))
      <4>1. PICK n : n = Len(lines[e])
        OBVIOUS
      <4>2. 1 \in Int /\ n \in Int
        BY <1>1, <4>1
      <4>3. QED  BY <4>1, <4>2, FS_Interval
    <3>3. QED  BY <3>1, <3>2, FS_Subset
  <2>2. f \in Surjection(S, T)
    BY DEF Surjection, SeqsOf
  <2>. HIDE DEF S, T, f
  <2>3. IsFiniteSet(T)
    BY <2>1, <2>2, FS_Surjection
  <2>4. QED  BY <2>3 DEF T
<1>6. CASE SeqsOf(e) = {}
  BY <1>4, <1>6 DEF LatestSeq
<1>7. CASE SeqsOf(e) # {}
  <2>. DEFINE S == SeqsOf(e)
              latest == CHOOSE n \in S : \A m \in S : m <= n
  <2>1. S \in SUBSET Nat /\ S # {} /\ IsFiniteSet(S) /\ LatestSeq(e) = latest
    BY <1>4, <1>5, <1>7 DEF LatestSeq
  <2>2. \A i \in Readable(e) : lines[e][i].seq \in S
    BY <1>4
  <2>. HIDE DEF S
  <2>3. \E n \in S : \A m \in S : m <= n
    BY <2>1, GreatestMember
  <2>4. latest \in S /\ \A m \in S : m <= latest
    BY <2>3
  <2>. HIDE DEF latest
  <2>5. QED  BY <2>1, <2>2, <2>4
<1>8. QED  BY <1>6, <1>7

\* What an append leaves of the file.
LEMMA AppendedIs ==
    ASSUME CaptureTypeOK, NEW e \in Episodes, NEW line \in Line, line.type # "junk",
           NEW q, q = lines[e], NEW r, r = Appended(e, line)
    PROVE  /\ r \in Seq(Line)
           /\ \/ /\ q # <<>> /\ q[Len(q)].type = "cut" /\ Len(r) = Len(q)
                 /\ r[Len(q)].type = IF line.type = "cut" THEN "cut" ELSE "junk"
                 /\ \A i \in 1..(Len(q) - 1) : r[i] = q[i]
              \/ /\ q = <<>> \/ q[Len(q)].type # "cut"
                 /\ Len(r) = Len(q) + 1 /\ r[Len(q) + 1] = line
                 /\ \A i \in 1..Len(q) : r[i] = q[i]
<1>0. q \in Seq(Line) /\ Len(q) \in Nat /\ DOMAIN q = 1..Len(q)
  BY DEF CaptureTypeOK
<1>1. PICK n : /\ q = lines[e] /\ n = Len(q) /\ q \in Seq(Line) /\ n \in Nat
               /\ DOMAIN q = 1..n
  BY <1>0
<1>2. CASE n > 0 /\ q[n].type = "cut"
  <2>1. PICK k : k = (IF line.type = "cut" THEN "cut" ELSE "junk") /\ k \in {"cut", "junk"}
    OBVIOUS
  <2>2. Appended(e, line) = [q EXCEPT ![n].type = k]
    BY <1>1, <1>2, <2>1 DEF Appended
  <2>3. q[n] \in Line /\ [q[n] EXCEPT !.type = k] \in Line /\ [q[n] EXCEPT !.type = k].type = k
    <3>1. q[n] \in Line
      BY <1>1, <1>2
    <3>2. QED  BY <2>1, <3>1 DEF Line
  <2>4. PICK l \in Line : l = [q[n] EXCEPT !.type = k] /\ l.type = k
    BY <2>3
  <2>5. Appended(e, line) = [q EXCEPT ![n] = l]
    BY <2>2, <2>4
  <2>6. /\ [q EXCEPT ![n] = l] \in Seq(Line) /\ Len([q EXCEPT ![n] = l]) = n
        /\ \A i \in 1..n : [q EXCEPT ![n] = l][i] = IF i = n THEN l ELSE q[i]
    BY <1>1, <1>2, ExceptSeq
  <2>7. q # <<>> /\ n \in 1..n /\ \A i \in 1..(n - 1) : i \in 1..n /\ i # n
    BY <1>1, <1>2
  <2>8. QED  BY <1>1, <1>2, <2>1, <2>4, <2>5, <2>6, <2>7
<1>3. CASE ~(n > 0 /\ q[n].type = "cut")
  <2>1. Appended(e, line) = Append(q, line)
    BY <1>1, <1>3 DEF Appended
  <2>2. /\ Append(q, line) \in Seq(Line) /\ Len(Append(q, line)) = n + 1
        /\ Append(q, line)[n + 1] = line /\ \A i \in 1..n : Append(q, line)[i] = q[i]
    BY <1>1
  <2>3. q = <<>> \/ q[n].type # "cut"
    BY <1>1, <1>3, EmptySeq
  <2>4. QED  BY <1>1, <2>1, <2>2, <2>3
<1>4. QED  BY <1>2, <1>3

LEMMA CutIs ==
    ASSUME CaptureTypeOK, NEW e \in Episodes, NEW line \in Line, line.type = "cut",
           NEW q, q = lines[e], NEW r, r = Appended(e, line)
    PROVE  \/ /\ q # <<>> /\ q[Len(q)].type = "cut" /\ Len(r) = Len(q)
              /\ r[Len(q)].type = "cut" /\ \A i \in 1..(Len(q) - 1) : r[i] = q[i]
           \/ /\ q = <<>> \/ q[Len(q)].type # "cut"
              /\ Len(r) = Len(q) + 1 /\ r[Len(q) + 1] = line
              /\ \A i \in 1..Len(q) : r[i] = q[i]
BY AppendedIs

-----------------------------------------------------------------------------
(* What each step makes of the record of its thread.                       *)

\* Thread t, and it alone, becomes s.
Moves(t, s) == s \in Thread /\ thread' = [thread EXCEPT ![t] = s]

\* It goes on in the same request.
GoesOn(t, s) ==
    /\ Moves(t, s) /\ s.pc = After[thread[t].pc]
    /\ s.ep = thread[t].ep /\ s.type = thread[t].type /\ s.status = thread[t].status

LEMMA ArrivalForm ==
    ASSUME CaptureType, NEW t \in Threads, NEW e \in Episodes,
           \/ t \in Clients /\ (BeginEpisode(t, e) \/ AppendEvent(t, e) \/ EndEpisode(t, e))
           \/ t = Job /\ ExpireEpisode(e)
    PROVE  /\ thread[t].pc = "idle" /\ Arrives(t, e)
           /\ UNCHANGED <<episodeFiles, index, stale, queuedHash, returned, torn, crashes>>
           /\ todo' \subseteq todo
           /\ \E s : /\ Moves(t, s) /\ s.ep = e
                     /\ s.type = "episode_ended" => s.status # "none"
                     /\ s.pc \in {"b_list", "a_lock"}
                     /\ s.pc = "a_lock" => s.type # "none"
<1>1. CASE BeginEpisode(t, e)
  <2>. DEFINE s == [Idle EXCEPT !.pc = "b_list", !.ep = e, !.conv = listed \cup {e}]
  <2>1. /\ s \in Thread /\ s.ep = e /\ s.pc = "b_list" /\ s.type = "none"
    BY IdleType, PcsAre DEF Thread, CaptureType, CaptureTypeOK
  <2>. HIDE DEF s
  <2>2. QED  BY <1>1, <2>1 DEF BeginEpisode, At, Moves, s
<1>2. CASE AppendEvent(t, e)
  <2>. DEFINE s == [Idle EXCEPT !.pc = "a_lock", !.ep = e, !.type = "message"]
  <2>1. /\ s \in Thread /\ s.ep = e /\ s.pc = "a_lock" /\ s.type = "message"
    BY IdleType, PcsAre DEF Thread
  <2>. HIDE DEF s
  <2>2. QED  BY <1>2, <2>1 DEF AppendEvent, At, Moves, s
<1>3. CASE EndEpisode(t, e)
  BY <1>3, EndingType DEF EndEpisode, At, Moves
<1>4. CASE t = Job /\ ExpireEpisode(e)
  BY <1>4, EndingType DEF ExpireEpisode, At, Moves
<1>5. QED  BY <1>1, <1>2, <1>3, <1>4

LEMMA NewManifestForm ==
    ASSUME CaptureType, NEW t \in Threads, WriteNewManifest(t)
    PROVE  LET e == thread[t].ep
           IN  /\ thread[t].pc = "b_manifest" /\ e \in Episodes
               /\ UNCHANGED <<lines, holder, listed, index, stale, queuedHash, todo, captureHistory>>
               /\ \E m \in Manifest : /\ m.status = "active" /\ m.count = Len(lines[e])
                                      /\ manifest' = [manifest EXCEPT ![e] = m]
               /\ \E s : /\ Moves(t, s) /\ s.ep = e /\ s.type # "episode_ended"
                         /\ \/ s.pc = "a_lock" /\ s.type # "none"
                            \/ s.pc = "a_readindex" /\ s.type = "none"
<1>. DEFINE e == thread[t].ep
<1>1. thread[t].pc = "b_manifest" /\ e \in Episodes /\ lines[e] \in Seq(Line)
  BY AtWork DEF WriteNewManifest, At
<1>2. \E m \in Manifest : /\ m.status = "active" /\ m.count = Len(lines[e])
                          /\ manifest' = [manifest EXCEPT ![e] = m]
  <2>. DEFINE m == [status |-> "active", count |-> Len(lines[e]), hash |-> 0]
  <2>1. m \in Manifest /\ m.status = "active" /\ m.count = Len(lines[e])
    BY <1>1 DEF Manifest
  <2>2. manifest' = [manifest EXCEPT ![e] = m]
    BY DEF WriteNewManifest
  <2>3. QED  BY <2>1, <2>2
<1>3. \E s : /\ Moves(t, s) /\ s.ep = e /\ s.type # "episode_ended"
             /\ \/ s.pc = "a_lock" /\ s.type # "none"
                \/ s.pc = "a_readindex" /\ s.type = "none"
  <2>. DEFINE a == [Idle EXCEPT !.pc = "a_lock", !.ep = e, !.type = "episode_started"]
              b == [Idle EXCEPT !.pc = "a_readindex", !.ep = e]
  <2>1. a \in Thread /\ a.pc = "a_lock" /\ a.ep = e /\ a.type = "episode_started"
    BY <1>1, IdleType, PcsAre DEF Thread
  <2>2. b \in Thread /\ b.pc = "a_readindex" /\ b.ep = e /\ b.type = "none"
    BY <1>1, IdleType, PcsAre DEF Thread
  <2>3. thread' = [thread EXCEPT ![t] = a] \/ thread' = [thread EXCEPT ![t] = b]
    BY DEF WriteNewManifest
  <2>. HIDE DEF a, b, e
  <2>4. QED  BY <2>1, <2>2, <2>3 DEF Moves
<1>4. QED  BY <1>1, <1>2, <1>3 DEF WriteNewManifest

LEMMA LockForm ==
    ASSUME CaptureType, NEW t \in Threads, Lock(t)
    PROVE  LET e == thread[t].ep
           IN  /\ thread[t].pc = "a_lock" /\ e \in Episodes /\ holder[e] = NoOne
               /\ holder' = [holder EXCEPT ![e] = t]
               /\ UNCHANGED <<lines, listed, manifest, index, stale, queuedHash, todo, captureHistory>>
               /\ \E s : GoesOn(t, s) /\ s.seq = LatestSeq(e) + 1
<1>. DEFINE e == thread[t].ep
            s == [Step(t) EXCEPT !.seq = LatestSeq(e) + 1]
<1>1. thread[t].pc = "a_lock" /\ e \in Episodes
  BY AtWork DEF Lock, At
<1>2. LatestSeq(e) + 1 \in Nat
  BY <1>1, LatestSeqIs DEF CaptureType
<1>3. /\ s \in Thread /\ s.pc = After[thread[t].pc] /\ s.ep = e /\ s.type = thread[t].type
      /\ s.status = thread[t].status /\ s.seq = LatestSeq(e) + 1
  <2>. HIDE DEF e
  <2>1. QED  BY <1>1, <1>2, StepIs DEF Thread, CaptureType, e
<1>4. thread' = [thread EXCEPT ![t] = s]
  BY DEF Lock
<1>. HIDE DEF s
<1>5. QED  BY <1>1, <1>3, <1>4 DEF Lock, GoesOn, Moves

LEMMA WriteForm ==
    ASSUME CaptureType, NEW t \in Threads, Write(t)
    PROVE  LET e == thread[t].ep
           IN  /\ thread[t].pc = "a_write" /\ e \in Episodes
               /\ lines' = [lines EXCEPT ![e] =
                               Appended(e, [seq |-> thread[t].seq, type |-> thread[t].type])]
               /\ holder' = [holder EXCEPT ![e] = NoOne]
               /\ UNCHANGED <<listed, manifest, index, stale, queuedHash, todo, captureHistory>>
               /\ \E s : GoesOn(t, s)
<1>. DEFINE s == [Step(t) EXCEPT !.seq = 0]
<1>1. thread[t].pc = "a_write" /\ thread[t].ep \in Episodes
  BY AtWork DEF Write, At
<1>2. /\ s \in Thread /\ s.pc = After[thread[t].pc] /\ s.ep = thread[t].ep
      /\ s.type = thread[t].type /\ s.status = thread[t].status
  BY <1>1, StepIs DEF Thread, CaptureType
<1>3. thread' = [thread EXCEPT ![t] = s]
  BY DEF Write
<1>. HIDE DEF s
<1>4. QED  BY <1>1, <1>2, <1>3 DEF Write, GoesOn, Moves

LEMMA ConversationForm ==
    ASSUME CaptureType, NEW t \in Threads, ReadConversation(t) \/ WriteConversation(t)
    PROVE  /\ thread[t].pc \in {"b_list", "a_readconv", "a_list", "e_readconv", "e_list"}
           /\ listed' \subseteq Episodes
           /\ UNCHANGED <<lines, holder, manifest, index, stale, queuedHash, todo, captureHistory>>
           /\ \E s : GoesOn(t, s) /\ s.hash = thread[t].hash
<1>1. thread[t] \in Thread /\ listed \subseteq Episodes
  BY DEF CaptureType, CaptureTypeOK
<1>2. PICK conv : /\ conv \in SUBSET Episodes
                  /\ thread' = [thread EXCEPT ![t] = [Step(t) EXCEPT !.conv = conv]]
  BY <1>1 DEF ReadConversation, WriteConversation
<1>3. thread[t].pc \in {"b_list", "a_readconv", "a_list", "e_readconv", "e_list"}
  BY DEF ReadConversation, WriteConversation
<1>. DEFINE s == [Step(t) EXCEPT !.conv = conv]
<1>4. /\ s \in Thread /\ s.pc = After[thread[t].pc] /\ s.ep = thread[t].ep
      /\ s.type = thread[t].type /\ s.status = thread[t].status /\ s.hash = thread[t].hash
  BY <1>2, <1>3, StepIs DEF Thread, CaptureType
<1>. HIDE DEF s
<1>5. \E r : GoesOn(t, r) /\ r.hash = thread[t].hash
  BY <1>2, <1>4 DEF GoesOn, Moves, s
<1>6. listed' \subseteq Episodes
  BY <1>1 DEF ReadConversation, WriteConversation, Thread, episodeFiles
<1>7. UNCHANGED <<lines, holder, manifest, index, stale, queuedHash, todo, captureHistory>>
  BY DEF ReadConversation, WriteConversation, episodeFiles
<1>8. QED  BY <1>3, <1>5, <1>6, <1>7

LEMMA ReadForm ==
    ASSUME CaptureType, NEW t \in Threads, ReadManifest(t) \/ ReadForIndex(t)
    PROVE  LET e == thread[t].ep
           IN  /\ thread[t].pc \in {"a_readman", "e_readman", "a_readindex", "e_readindex"}
               /\ e \in Episodes
               /\ UNCHANGED <<episodeFiles, index, stale, queuedHash, todo, captureHistory>>
               /\ \E s : /\ GoesOn(t, s) /\ s.man = manifest[e]
                         /\ thread[t].pc = "e_readman" => s.hash = Len(lines[e])
                         /\ thread[t].pc = "e_readindex" => s.hash = thread[t].hash
<1>1. /\ thread[t].pc \in {"a_readman", "e_readman", "a_readindex", "e_readindex"}
      /\ thread[t].ep \in Episodes /\ thread[t] \in Thread
      /\ manifest[thread[t].ep] \in Manifest /\ Len(lines[thread[t].ep]) \in Nat
  <2>1. thread[t].pc \in {"a_readman", "e_readman", "a_readindex", "e_readindex"}
    BY DEF ReadManifest, ReadForIndex
  <2>2. QED  BY <2>1, AtWork DEF CaptureType, CaptureTypeOK
<1>2. CASE ReadManifest(t)
  <2>1. PICK h : /\ h = IF At(t, "e_readman") THEN Len(lines[thread[t].ep]) ELSE 0
                 /\ thread' = [thread EXCEPT ![t] = [Step(t) EXCEPT !.man = manifest[thread[t].ep], !.hash = h]]
    BY <1>2 DEF ReadManifest
  <2>. DEFINE s == [Step(t) EXCEPT !.man = manifest[thread[t].ep], !.hash = h]
  <2>2. h \in Nat /\ thread[t].pc \in {"a_readman", "e_readman"}
    BY <1>1, <1>2, <2>1 DEF ReadManifest
  <2>3. /\ s \in Thread /\ s.pc = After[thread[t].pc] /\ s.ep = thread[t].ep
        /\ s.type = thread[t].type /\ s.status = thread[t].status
        /\ s.man = manifest[thread[t].ep] /\ s.hash = h
    BY <1>1, <2>2, StepIs DEF Thread, CaptureType
  <2>. HIDE DEF s
  <2>4. thread' = [thread EXCEPT ![t] = s]
    BY <2>1 DEF s
  <2>5. QED  BY <1>1, <1>2, <2>1, <2>2, <2>3, <2>4 DEF GoesOn, Moves, ReadManifest, At
<1>3. CASE ReadForIndex(t)
  <2>. DEFINE s == [Step(t) EXCEPT !.man = manifest[thread[t].ep]]
  <2>1. thread[t].pc \in {"a_readindex", "e_readindex"}
    BY <1>3 DEF ReadForIndex
  <2>2. /\ s \in Thread /\ s.pc = After[thread[t].pc] /\ s.ep = thread[t].ep
        /\ s.type = thread[t].type /\ s.status = thread[t].status
        /\ s.man = manifest[thread[t].ep] /\ s.hash = thread[t].hash
    BY <1>1, <2>1, StepIs DEF Thread, CaptureType
  <2>3. thread' = [thread EXCEPT ![t] = s]
    BY <1>3 DEF ReadForIndex
  <2>. HIDE DEF s
  <2>4. QED  BY <1>1, <1>3, <2>1, <2>2, <2>3 DEF GoesOn, Moves, ReadForIndex
<1>4. QED  BY <1>2, <1>3

\* Record m with the lines counted now.
Counted(m, e) == [m EXCEPT !.count = Len(lines[e])]

LEMMA CountedIs ==
    ASSUME CaptureTypeOK, NEW e \in Episodes, NEW m \in Manifest
    PROVE  /\ Counted(m, e) \in Manifest /\ Counted(m, e).count = Len(lines[e])
           /\ Counted(m, e).status = m.status /\ Counted(m, e).hash = m.hash
           /\ m.count = Len(lines[e]) => Counted(m, e) = m
<1>1. lines[e] \in Seq(Line) /\ Len(lines[e]) \in Nat
  BY DEF CaptureTypeOK
<1>2. QED  BY <1>1 DEF Counted, Manifest

LEMMA WriteManifestForm ==
    ASSUME CaptureType, NEW t \in Threads, WriteManifest(t)
    PROVE  LET e == thread[t].ep
           IN  /\ thread[t].pc \in {"a_manifest", "e_manifest"} /\ e \in Episodes
               /\ thread[t].man \in Manifest
               /\ UNCHANGED <<lines, holder, listed, index, stale, queuedHash, todo, captureHistory>>
               /\ \E m \in Manifest :
                     /\ manifest' = [manifest EXCEPT ![e] = m] /\ m.count = Len(lines[e])
                     /\ IF thread[t].pc = "e_manifest" THEN m.hash = thread[t].hash
                        ELSE m.status = thread[t].man.status /\ m.hash = thread[t].man.hash
               /\ \E s : GoesOn(t, s) /\ s.hash = thread[t].hash
<1>. DEFINE e == thread[t].ep
<1>1. thread[t].pc \in {"a_manifest", "e_manifest"}
  BY DEF WriteManifest
<1>2. /\ e \in Episodes /\ thread[t] \in Thread /\ thread[t].man \in Manifest
      /\ Len(lines[e]) \in Nat /\ CaptureTypeOK
  BY <1>1, AtWork DEF CaptureType, CaptureTypeOK, Thread
<1>3. \E m \in Manifest :
         /\ manifest' = [manifest EXCEPT ![e] = m] /\ m.count = Len(lines[e])
         /\ IF thread[t].pc = "e_manifest" THEN m.hash = thread[t].hash
            ELSE m.status = thread[t].man.status /\ m.hash = thread[t].man.hash
  <2>1. CASE thread[t].pc = "e_manifest"
    <3>1. thread[t].status \in {"success", "partial"} /\ thread[t].hash \in Nat
      BY <1>2, <2>1 DEF CaptureType, Settled, Thread
    <3>2. /\ Closed(t) \in Manifest /\ Closed(t).count = Len(lines[e])
          /\ Closed(t).hash = thread[t].hash
      BY <1>2, <3>1 DEF Closed, Manifest
    <3>3. manifest' = [manifest EXCEPT ![e] = Closed(t)]
      BY <2>1 DEF WriteManifest, At
    <3>4. QED  BY <2>1, <3>2, <3>3
  <2>2. CASE thread[t].pc = "a_manifest"
    <3>1. manifest' = [manifest EXCEPT ![e] = Counted(thread[t].man, e)]
      BY <2>2 DEF WriteManifest, At, Counted
    <3>2. QED  BY <1>2, <2>2, <3>1, CountedIs
  <2>3. QED  BY <1>1, <2>1, <2>2
<1>4. \E s : GoesOn(t, s) /\ s.hash = thread[t].hash
  <2>. DEFINE s == [Step(t) EXCEPT !.man = NoManifest]
  <2>1. /\ s \in Thread /\ s.pc = After[thread[t].pc] /\ s.ep = e /\ s.type = thread[t].type
        /\ s.status = thread[t].status /\ s.hash = thread[t].hash
    BY <1>1, <1>2, StepIs, ManifestType DEF Thread
  <2>2. thread' = [thread EXCEPT ![t] = s]
    BY DEF WriteManifest
  <2>. HIDE DEF s
  <2>3. QED  BY <2>1, <2>2 DEF GoesOn, Moves
<1>5. UNCHANGED <<lines, holder, listed, index, stale, queuedHash, todo, captureHistory>>
  BY DEF WriteManifest
<1>6. QED  BY <1>1, <1>2, <1>3, <1>4, <1>5

LEMMA UpsertForm ==
    ASSUME CaptureType, NEW t \in Threads, UpsertIndex(t)
    PROVE  LET e == thread[t].ep
           IN  /\ thread[t].pc \in {"a_index", "e_index"} /\ e \in Episodes
               /\ thread[t].man \in Manifest
               /\ index' = [index EXCEPT ![e] = Counted(thread[t].man, e)]
               /\ stale' = stale \ {e}
               /\ returned' = IF thread[t].pc = "a_index" /\ thread[t].type # "none"
                              THEN [returned EXCEPT ![e] = @ + 1] ELSE returned
               /\ UNCHANGED <<episodeFiles, queuedHash, todo, torn, met, crashes>>
               /\ \E s : /\ Moves(t, s)
                         /\ \/ thread[t].pc = "e_index" /\ GoesOn(t, s) /\ s.hash = thread[t].hash
                            \/ /\ thread[t].pc = "a_index" /\ thread[t].type = "episode_ended"
                               /\ s.pc = "e_readman" /\ s.ep = e /\ s.type = "episode_ended"
                               /\ s.status # "none"
                            \/ /\ thread[t].pc = "a_index" /\ thread[t].type # "episode_ended"
                               /\ s = Idle
<1>. DEFINE e == thread[t].ep
<1>1. thread[t].pc \in {"a_index", "e_index"}
  BY DEF UpsertIndex
<1>2. /\ e \in Episodes /\ thread[t] \in Thread /\ thread[t].man \in Manifest /\ CaptureTypeOK
  BY <1>1, AtWork DEF CaptureType, CaptureTypeOK, Thread
<1>3. \E s : /\ Moves(t, s)
            /\ \/ thread[t].pc = "e_index" /\ GoesOn(t, s) /\ s.hash = thread[t].hash
               \/ /\ thread[t].pc = "a_index" /\ thread[t].type = "episode_ended"
                  /\ s.pc = "e_readman" /\ s.ep = e /\ s.type = "episode_ended"
                  /\ s.status # "none"
               \/ /\ thread[t].pc = "a_index" /\ thread[t].type # "episode_ended"
                  /\ s = Idle
  <2>1. CASE thread[t].pc = "e_index"
    <3>. DEFINE s == [Step(t) EXCEPT !.man = NoManifest]
    <3>1. /\ s \in Thread /\ s.pc = After[thread[t].pc] /\ s.ep = e /\ s.type = thread[t].type
          /\ s.status = thread[t].status /\ s.hash = thread[t].hash
      BY <1>2, <2>1, StepIs, ManifestType DEF Thread
    <3>2. thread' = [thread EXCEPT ![t] = s]
      BY <2>1 DEF UpsertIndex, At
    <3>. HIDE DEF s
    <3>3. QED  BY <2>1, <3>1, <3>2 DEF GoesOn, Moves
  <2>2. CASE thread[t].pc = "a_index" /\ thread[t].type = "episode_ended"
    <3>. DEFINE s == [Ending(e, thread[t].status) EXCEPT !.pc = "e_readman"]
    <3>0. thread[t].status \in {"success", "partial"}
      BY <1>2, <2>2 DEF CaptureType, Settled, Thread
    <3>1. /\ s \in Thread /\ s.pc = "e_readman" /\ s.ep = e /\ s.type = "episode_ended"
          /\ s.status # "none"
      BY <1>2, <3>0, EndingType, PcsAre DEF Thread
    <3>2. thread' = [thread EXCEPT ![t] = s]
      BY <2>2 DEF UpsertIndex, At
    <3>. HIDE DEF s
    <3>3. QED  BY <2>2, <3>1, <3>2 DEF Moves
  <2>3. CASE thread[t].pc = "a_index" /\ thread[t].type # "episode_ended"
    <3>1. thread' = [thread EXCEPT ![t] = Idle]
      BY <2>3 DEF UpsertIndex, At
    <3>2. QED  BY <2>3, <3>1, IdleType DEF Moves
  <2>4. QED  BY <1>1, <2>1, <2>2, <2>3
<1>4. /\ index' = [index EXCEPT ![e] = Counted(thread[t].man, e)]
      /\ stale' = stale \ {e}
      /\ returned' = IF thread[t].pc = "a_index" /\ thread[t].type # "none"
                     THEN [returned EXCEPT ![e] = @ + 1] ELSE returned
      /\ UNCHANGED <<episodeFiles, queuedHash, todo, torn, met, crashes>>
  BY DEF UpsertIndex, Counted, At
<1>5. QED  BY <1>1, <1>2, <1>3, <1>4

LEMMA EnqueueForm ==
    ASSUME CaptureType, NEW t \in Threads, EnqueueExtraction(t)
    PROVE  /\ thread[t].pc = "e_enqueue" /\ thread[t].ep \in Episodes /\ thread[t].hash \in Nat
           /\ queuedHash' = [queuedHash EXCEPT ![thread[t].ep] = thread[t].hash]
           /\ Moves(t, Idle)
           /\ UNCHANGED <<episodeFiles, index, stale, todo, captureHistory>>
<1>1. thread[t].pc = "e_enqueue" /\ thread[t].ep \in Episodes /\ thread[t].hash \in Nat
  BY AtWork DEF EnqueueExtraction, At, CaptureType, CaptureTypeOK, Thread
<1>2. QED  BY <1>1, IdleType DEF EnqueueExtraction, Moves

LEMMA CrashForm ==
    ASSUME CaptureType, NEW t \in Threads, Crash(t)
    PROVE  LET e == thread[t].ep
           IN  /\ thread[t].pc # "idle" /\ e \in Episodes /\ crashes' = crashes + 1
               /\ crashes < FaultBound
               /\ \/ UNCHANGED <<lines, torn>>
                  \/ /\ thread[t].pc = "a_write"
                     /\ lines' = [lines EXCEPT ![e] =
                                     Appended(e, [seq |-> thread[t].seq, type |-> "cut"])]
                     /\ torn' = [torn EXCEPT ![e] = @ + 1]
               /\ holder' = IF holder[e] = t THEN [holder EXCEPT ![e] = NoOne] ELSE holder
               /\ Moves(t, Idle) /\ todo' \subseteq todo
               /\ UNCHANGED <<listed, manifest, index, stale, queuedHash, returned, met>>
<1>1. thread[t].pc # "idle" /\ thread[t].ep \in Episodes
  BY AtWork DEF Crash, At
<1>2. Moves(t, Idle) /\ todo' \subseteq todo
  BY IdleType DEF Crash, Moves
<1>3. QED  BY <1>1, <1>2 DEF Crash, At

-----------------------------------------------------------------------------
(* Types are kept.                                                         *)

LEMMA MovesSettled ==
    ASSUME CaptureType, NEW t \in Threads, NEW s, Moves(t, s),
           s.pc = "idle" <=> s.ep = NoEpisode,
           s.type = "episode_ended" => s.status # "none",
           s.pc \in {"e_readman", "e_manifest"} => s.type = "episode_ended",
           s.pc \in {"a_lock", "a_write"} => s.type # "none"
    PROVE  thread' \in [Threads -> Thread] /\ Settled'
BY DEF Moves, CaptureType, CaptureTypeOK, Settled

LEMMA GoesOnSettled ==
    ASSUME CaptureType, NEW t \in Threads, NEW s, GoesOn(t, s),
           thread[t].pc \notin {"idle", "b_manifest", "a_index", "e_enqueue"}
    PROVE  thread' \in [Threads -> Thread] /\ Settled'
<1>1. thread[t] \in Thread /\ thread[t].ep # NoEpisode
  BY DEF CaptureType, CaptureTypeOK, Settled
<1>2. /\ s.pc \notin {"idle", "a_lock", "e_readman"}
      /\ s.pc = "a_write" => thread[t].pc = "a_lock"
      /\ s.pc = "e_manifest" => thread[t].pc = "e_readman"
  BY <1>1, AfterIs, PcsAre DEF GoesOn, Thread
<1>3. /\ s.pc \in {"e_readman", "e_manifest"} => s.type = "episode_ended"
      /\ s.pc \in {"a_lock", "a_write"} => s.type # "none"
      /\ s.type = "episode_ended" => s.status # "none"
  BY <1>2 DEF GoesOn, CaptureType, Settled
<1>4. QED  BY <1>1, <1>2, <1>3, MovesSettled DEF GoesOn

LEMMA CaptureInitType == CaptureInit => CaptureType
<1>. SUFFICES ASSUME CaptureInit PROVE CaptureType
  OBVIOUS
<1>1. CaptureTypeOK
  <2>1. <<>> \in Seq(Line) /\ 0 \in 0..FaultBound
    BY CaptureAssumption
  <2>2. QED  BY <2>1, IdleType, ManifestType DEF CaptureInit, CaptureTypeOK
<1>2. Settled
  BY IdleType DEF CaptureInit, Settled
<1>3. QED  BY <1>1, <1>2 DEF CaptureType

LEMMA CaptureTypeStep == CaptureType /\ [CaptureNext]_captureVars => CaptureType'
<1>. SUFFICES ASSUME CaptureType, [CaptureNext]_captureVars PROVE CaptureType'
  OBVIOUS
<1>i. CaptureTypeOK /\ Settled
  BY DEF CaptureType
<1>n. NoEpisode \notin Episodes
  BY CaptureAssumption
<1>1. ASSUME NEW t \in Threads, NEW e \in Episodes,
             \/ t \in Clients /\ (BeginEpisode(t, e) \/ AppendEvent(t, e) \/ EndEpisode(t, e))
             \/ t = Job /\ ExpireEpisode(e)
      PROVE  CaptureType'
  <2>1. /\ Arrives(t, e) /\ todo' \subseteq todo
        /\ UNCHANGED <<episodeFiles, index, stale, queuedHash, returned, torn, crashes>>
    BY <1>1, ArrivalForm
  <2>2. PICK s : /\ Moves(t, s) /\ s.ep = e
                 /\ s.type = "episode_ended" => s.status # "none"
                 /\ s.pc \in {"b_list", "a_lock"} /\ (s.pc = "a_lock" => s.type # "none")
    BY <1>1, ArrivalForm
  <2>3. thread' \in [Threads -> Thread] /\ Settled'
    BY <2>2, <1>n, MovesSettled
  <2>4. met' \subseteq Episodes
    BY <2>1, <1>i DEF Arrives, CaptureTypeOK
  <2>5. QED  BY <2>1, <2>3, <2>4, <1>i DEF CaptureType, CaptureTypeOK, episodeFiles
<1>2. ASSUME NEW e \in Episodes, HoursPass(e) PROVE CaptureType'
  BY <1>2, <1>i DEF HoursPass, CaptureType, CaptureTypeOK, Settled, episodeFiles, captureHistory
<1>3. CASE ListStaleEpisodes
  BY <1>3, <1>i DEF ListStaleEpisodes, CaptureType, CaptureTypeOK, Settled, episodeFiles,
                    captureHistory
<1>4. ASSUME NEW t \in Threads, WriteNewManifest(t) PROVE CaptureType'
  <2>1. PICK m \in Manifest : manifest' = [manifest EXCEPT ![thread[t].ep] = m]
    BY <1>4, NewManifestForm
  <2>2. PICK s : /\ Moves(t, s) /\ s.ep = thread[t].ep /\ s.type # "episode_ended"
                 /\ s.pc \in {"a_lock", "a_readindex"} /\ (s.pc = "a_lock" => s.type # "none")
    BY <1>4, NewManifestForm
  <2>3. /\ UNCHANGED <<lines, holder, listed, index, stale, queuedHash, todo, captureHistory>>
        /\ thread[t].ep \in Episodes
    BY <1>4, NewManifestForm
  <2>4. thread' \in [Threads -> Thread] /\ Settled'
    BY <2>2, <2>3, <1>n, MovesSettled
  <2>5. QED  BY <2>1, <2>3, <2>4, <1>i DEF CaptureType, CaptureTypeOK, captureHistory
<1>5. ASSUME NEW t \in Threads, Lock(t) PROVE CaptureType'
  <2>1. /\ thread[t].pc = "a_lock" /\ holder' = [holder EXCEPT ![thread[t].ep] = t]
        /\ UNCHANGED <<lines, listed, manifest, index, stale, queuedHash, todo, captureHistory>>
        /\ \E s : GoesOn(t, s)
    BY <1>5, LockForm
  <2>2. thread' \in [Threads -> Thread] /\ Settled'
    BY <2>1, GoesOnSettled
  <2>3. QED  BY <2>1, <2>2, <1>i DEF CaptureType, CaptureTypeOK, captureHistory
<1>6. ASSUME NEW t \in Threads, Write(t) PROVE CaptureType'
  <2>. DEFINE line == [seq |-> thread[t].seq, type |-> thread[t].type]
              e == thread[t].ep
  <2>1. /\ thread[t].pc = "a_write" /\ e \in Episodes
        /\ lines' = [lines EXCEPT ![e] = Appended(e, line)]
        /\ holder' = [holder EXCEPT ![e] = NoOne]
        /\ UNCHANGED <<listed, manifest, index, stale, queuedHash, todo, captureHistory>>
        /\ \E s : GoesOn(t, s)
    BY <1>6, WriteForm
  <2>2. thread' \in [Threads -> Thread] /\ Settled'
    BY <2>1, GoesOnSettled
  <2>3. Appended(e, line) \in Seq(Line)
    <3>1. thread[t].type # "none" => line \in Line /\ line.type # "junk"
      BY <1>i DEF CaptureTypeOK, Thread, Line
    <3>2. thread[t].type # "none"
      BY <2>1, <1>i DEF Settled
    <3>. HIDE DEF line
    <3>3. QED  BY <2>1, <3>1, <3>2, <1>i, AppendedIs
  <2>. HIDE DEF line, e
  <2>4. lines' \in [Episodes -> Seq(Line)]
    BY <2>1, <2>3, <1>i DEF CaptureTypeOK
  <2>5. QED  BY <2>1, <2>2, <2>4, <1>i DEF CaptureType, CaptureTypeOK, captureHistory
<1>7. ASSUME NEW t \in Threads, ReadConversation(t) \/ WriteConversation(t) PROVE CaptureType'
  <2>1. /\ thread[t].pc \in {"b_list", "a_readconv", "a_list", "e_readconv", "e_list"}
        /\ listed' \subseteq Episodes
        /\ UNCHANGED <<lines, holder, manifest, index, stale, queuedHash, todo, captureHistory>>
        /\ \E s : GoesOn(t, s)
    BY <1>7, ConversationForm
  <2>2. thread' \in [Threads -> Thread] /\ Settled'
    BY <2>1, GoesOnSettled
  <2>3. QED  BY <2>1, <2>2, <1>i DEF CaptureType, CaptureTypeOK, captureHistory
<1>8. ASSUME NEW t \in Threads, ReadManifest(t) \/ ReadForIndex(t) PROVE CaptureType'
  <2>1. /\ thread[t].pc \in {"a_readman", "e_readman", "a_readindex", "e_readindex"}
        /\ UNCHANGED <<episodeFiles, index, stale, queuedHash, todo, captureHistory>>
        /\ \E s : GoesOn(t, s)
    BY <1>8, ReadForm
  <2>2. thread' \in [Threads -> Thread] /\ Settled'
    BY <2>1, GoesOnSettled
  <2>3. QED  BY <2>1, <2>2, <1>i DEF CaptureType, CaptureTypeOK, captureHistory, episodeFiles
<1>9. ASSUME NEW t \in Threads, WriteManifest(t) PROVE CaptureType'
  <2>1. /\ thread[t].pc \in {"a_manifest", "e_manifest"}
        /\ UNCHANGED <<lines, holder, listed, index, stale, queuedHash, todo, captureHistory>>
        /\ \E s : GoesOn(t, s)
    BY <1>9, WriteManifestForm
  <2>2. PICK m \in Manifest : manifest' = [manifest EXCEPT ![thread[t].ep] = m]
    BY <1>9, WriteManifestForm
  <2>3. thread' \in [Threads -> Thread] /\ Settled'
    BY <2>1, GoesOnSettled
  <2>4. QED  BY <2>1, <2>2, <2>3, <1>i DEF CaptureType, CaptureTypeOK, captureHistory
<1>10. ASSUME NEW t \in Threads, UpsertIndex(t) PROVE CaptureType'
  <2>1. /\ thread[t].pc \in {"a_index", "e_index"} /\ thread[t].ep \in Episodes
        /\ thread[t].man \in Manifest
        /\ index' = [index EXCEPT ![thread[t].ep] = Counted(thread[t].man, thread[t].ep)]
        /\ stale' = stale \ {thread[t].ep}
        /\ returned' = IF thread[t].pc = "a_index" /\ thread[t].type # "none"
                       THEN [returned EXCEPT ![thread[t].ep] = @ + 1] ELSE returned
        /\ UNCHANGED <<episodeFiles, queuedHash, todo, torn, met, crashes>>
    BY <1>10, UpsertForm
  <2>2. PICK s : /\ Moves(t, s)
                 /\ \/ thread[t].pc = "e_index" /\ GoesOn(t, s) /\ s.hash = thread[t].hash
                    \/ /\ s.pc = "e_readman" /\ s.ep = thread[t].ep /\ s.type = "episode_ended"
                       /\ s.status # "none"
                    \/ s = Idle
    BY <1>10, UpsertForm
  <2>3. thread' \in [Threads -> Thread] /\ Settled'
    BY <2>1, <2>2, <1>n, GoesOnSettled, MovesSettled, IdleType
  <2>4. Counted(thread[t].man, thread[t].ep) \in Manifest
    BY <2>1, <1>i, CountedIs
  <2>5. index' \in [Episodes -> Manifest]
    BY <2>1, <2>4, <1>i DEF CaptureTypeOK
  <2>6. returned' \in [Episodes -> Nat]
    BY <2>1, <1>i DEF CaptureTypeOK
  <2>7. QED  BY <2>1, <2>3, <2>5, <2>6, <1>i DEF CaptureType, CaptureTypeOK, episodeFiles
<1>11. ASSUME NEW t \in Threads, EnqueueExtraction(t) PROVE CaptureType'
  <2>1. /\ thread[t].hash \in Nat /\ Moves(t, Idle)
        /\ queuedHash' = [queuedHash EXCEPT ![thread[t].ep] = thread[t].hash]
        /\ UNCHANGED <<episodeFiles, index, stale, todo, captureHistory>>
    BY <1>11, EnqueueForm
  <2>2. thread' \in [Threads -> Thread] /\ Settled'
    BY <2>1, MovesSettled, IdleType
  <2>3. QED  BY <2>1, <2>2, <1>i DEF CaptureType, CaptureTypeOK, episodeFiles, captureHistory
<1>12. ASSUME NEW t \in Threads, Crash(t) PROVE CaptureType'
  <2>. DEFINE e == thread[t].ep
              line == [seq |-> thread[t].seq, type |-> "cut"]
  <2>1. /\ e \in Episodes /\ crashes' = crashes + 1 /\ crashes < FaultBound
        /\ \/ UNCHANGED <<lines, torn>>
           \/ /\ thread[t].pc = "a_write"
              /\ lines' = [lines EXCEPT ![e] = Appended(e, line)]
              /\ torn' = [torn EXCEPT ![e] = @ + 1]
        /\ holder' = IF holder[e] = t THEN [holder EXCEPT ![e] = NoOne] ELSE holder
        /\ Moves(t, Idle) /\ todo' \subseteq todo
        /\ UNCHANGED <<listed, manifest, index, stale, queuedHash, returned, met>>
    BY <1>12, CrashForm
  <2>2. thread' \in [Threads -> Thread] /\ Settled'
    BY <2>1, MovesSettled, IdleType
  <2>3. Appended(e, line) \in Seq(Line)
    <3>1. line \in Line /\ line.type = "cut"
      BY <1>i DEF CaptureTypeOK, Thread, Line
    <3>. HIDE DEF line
    <3>2. QED  BY <2>1, <3>1, <1>i, AppendedIs
  <2>. HIDE DEF e, line
  <2>4. lines' \in [Episodes -> Seq(Line)] /\ torn' \in [Episodes -> Nat]
    <3>1. [lines EXCEPT ![e] = Appended(e, line)] \in [Episodes -> Seq(Line)]
      BY <2>1, <2>3, <1>i DEF CaptureTypeOK
    <3>2. [torn EXCEPT ![e] = @ + 1] \in [Episodes -> Nat]
      BY <2>1, <1>i DEF CaptureTypeOK
    <3>3. QED  BY <2>1, <3>1, <3>2, <1>i DEF CaptureTypeOK
  <2>5. crashes' \in 0..FaultBound
    BY <2>1, <1>i, CaptureAssumption DEF CaptureTypeOK
  <2>6. holder' \in [Episodes -> Threads \cup {NoOne}]
    BY <2>1, <1>i DEF CaptureTypeOK
  <2>7. QED  BY <2>1, <2>2, <2>4, <2>5, <2>6, <1>i DEF CaptureType, CaptureTypeOK
<1>13. CASE UNCHANGED captureVars
  BY <1>13, <1>i DEF captureVars, CaptureType, CaptureTypeOK, Settled
<1>14. Job \in Threads /\ Clients \subseteq Threads
  BY DEF Threads
<1>15. QED
  BY <1>1, <1>2, <1>3, <1>4, <1>5, <1>6, <1>7, <1>8, <1>9, <1>10, <1>11, <1>12, <1>13, <1>14
     DEF CaptureNext

-----------------------------------------------------------------------------
(* No event is lost.                                                       *)

Broken(e) == {i \in DOMAIN lines[e] : lines[e][i].type \in {"cut", "junk"}}

Junk(e) == {i \in DOMAIN lines[e] : lines[e][i].type = "junk"}

\* Between the write and the return of an append.
Appending == {"a_readconv", "a_list", "a_readman", "a_manifest", "a_readindex", "a_index"}

IsPending(r, e) == r.pc \in Appending /\ r.ep = e /\ r.type # "none"

\* Appends to e whose line is written and that have not returned.
Pending(e) == {t \in Threads : IsPending(thread[t], e)}

\* Who writes has the lock, and the next number.
Writer(t) ==
    thread[t].pc = "a_write" =>
        /\ holder[thread[t].ep] = t
        /\ \A i \in Readable(thread[t].ep) : lines[thread[t].ep][i].seq < thread[t].seq

WriterInv == \A t \in Threads : Writer(t)

\* Only the last line can still be open; what made a line unreadable was an
\* append that died; and of the other appends, each has left its line, or
\* made one junk that had been cut.
FileInvOf(e) ==
    /\ \A i \in DOMAIN lines[e] : lines[e][i].type = "cut" => i = Len(lines[e])
    /\ Cardinality(Broken(e)) <= torn[e]
    /\ Cardinality(Readable(e)) + Cardinality(Junk(e)) >= returned[e] + Cardinality(Pending(e))
    /\ \A i, j \in Readable(e) : i < j => lines[e][i].seq < lines[e][j].seq

FileInv == \A e \in Episodes : FileInvOf(e)

LEMMA ThreadsFinite == IsFiniteSet(Threads)
BY CaptureAssumption, FS_AddElement DEF Threads

LEMMA Counts ==
    ASSUME CaptureTypeOK, NEW e \in Episodes
    PROVE  /\ IsFiniteSet(Readable(e)) /\ IsFiniteSet(Broken(e)) /\ IsFiniteSet(Junk(e))
           /\ IsFiniteSet(Pending(e))
           /\ Cardinality(Readable(e)) \in Nat /\ Cardinality(Broken(e)) \in Nat
           /\ Cardinality(Junk(e)) \in Nat /\ Cardinality(Pending(e)) \in Nat
           /\ Cardinality(Junk(e)) <= Cardinality(Broken(e))
<1>1. Len(lines[e]) \in Nat /\ DOMAIN lines[e] = 1..Len(lines[e])
  BY DEF CaptureTypeOK
<1>2. IsFiniteSet(1..Len(lines[e]))
  <2>1. 1 \in Int /\ Len(lines[e]) \in Int
    BY <1>1
  <2>2. QED  BY <2>1, FS_Interval
<1>3. Readable(e) \subseteq 1..Len(lines[e]) /\ Broken(e) \subseteq 1..Len(lines[e])
      /\ Junk(e) \subseteq Broken(e) /\ Pending(e) \subseteq Threads
  BY <1>1 DEF Readable, Broken, Junk, Pending
<1>4. IsFiniteSet(Readable(e)) /\ IsFiniteSet(Broken(e)) /\ IsFiniteSet(Pending(e))
  BY <1>2, <1>3, ThreadsFinite, FS_Subset
<1>5. IsFiniteSet(Junk(e)) /\ Cardinality(Junk(e)) <= Cardinality(Broken(e))
  BY <1>3, <1>4, FS_Subset
<1>6. QED  BY <1>4, <1>5, FS_CardinalityType

\* An append that is not cut short.
LEMMA WriteCounts ==
    ASSUME CaptureTypeOK, NEW e \in Episodes, FileInvOf(e), NEW line \in Line,
           line.type \notin {"cut", "junk"}, lines'[e] = Appended(e, line)
    PROVE  /\ Cardinality(Readable(e)') + Cardinality(Junk(e)') =
                  Cardinality(Readable(e)) + Cardinality(Junk(e)) + 1
           /\ Broken(e)' = Broken(e)
           /\ \A i \in DOMAIN lines'[e] : lines'[e][i].type # "cut"
           /\ \/ Readable(e)' = Readable(e) /\ \A i \in Readable(e) : lines'[e][i] = lines[e][i]
              \/ /\ Readable(e)' = Readable(e) \cup {Len(lines[e]) + 1}
                 /\ lines'[e][Len(lines[e]) + 1] = line
                 /\ \A i \in Readable(e) : lines'[e][i] = lines[e][i] /\ i <= Len(lines[e])
<1>1. PICK q, r, n : /\ q = lines[e] /\ r = lines'[e] /\ n = Len(q) /\ n \in Nat
                     /\ q \in Seq(Line) /\ DOMAIN q = 1..n /\ r \in Seq(Line)
                     /\ DOMAIN r = 1..Len(r)
  <2>1. lines'[e] \in Seq(Line)
    BY AppendedIs
  <2>2. /\ lines[e] \in Seq(Line) /\ Len(lines[e]) \in Nat
        /\ DOMAIN lines[e] = 1..Len(lines[e]) /\ DOMAIN lines'[e] = 1..Len(lines'[e])
    BY <2>1 DEF CaptureTypeOK
  <2>3. QED  BY <2>1, <2>2
<1>2. \A i \in 1..n : q[i].type = "cut" => i = n
  BY <1>1 DEF FileInvOf
<1>c. /\ IsFiniteSet(Readable(e)) /\ IsFiniteSet(Junk(e))
      /\ Cardinality(Readable(e)) \in Nat /\ Cardinality(Junk(e)) \in Nat
  BY Counts
<1>3. CASE /\ q # <<>> /\ q[n].type = "cut" /\ Len(r) = n /\ r[n].type = "junk"
           /\ \A i \in 1..(n - 1) : r[i] = q[i]
  <2>0. n \in 1..n /\ \A i \in 1..n : i # n => i \in 1..(n - 1)
    BY <1>1, <1>3, EmptySeq
  <2>1. \A i \in 1..n : i # n => r[i] = q[i] /\ q[i].type # "cut"
    BY <1>2, <1>3, <2>0
  <2>2. Readable(e)' = Readable(e) /\ \A i \in Readable(e) : r[i] = q[i]
    BY <1>1, <1>3, <2>1 DEF Readable
  <2>3. Junk(e)' = Junk(e) \cup {n} /\ n \notin Junk(e)
    BY <1>1, <1>3, <2>0, <2>1 DEF Junk
  <2>4. Broken(e)' = Broken(e)
    BY <1>1, <1>3, <2>1 DEF Broken
  <2>5. \A i \in DOMAIN r : r[i].type # "cut"
    BY <1>1, <1>3, <2>1
  <2>6. Cardinality(Junk(e)') = Cardinality(Junk(e)) + 1
    BY <1>c, <2>3, FS_AddElement
  <2>7. QED  BY <1>1, <1>c, <2>2, <2>4, <2>5, <2>6
<1>4. CASE /\ q = <<>> \/ q[n].type # "cut"
           /\ Len(r) = n + 1 /\ r[n + 1] = line /\ \A i \in 1..n : r[i] = q[i]
  <2>0. /\ DOMAIN r = (1..n) \cup {n + 1} /\ n + 1 \notin 1..n
        /\ \A i \in 1..n : q[i].type # "cut"
    BY <1>1, <1>2, <1>4, EmptySeq
  <2>1. Readable(e)' = Readable(e) \cup {n + 1} /\ n + 1 \notin Readable(e)
    BY <1>1, <1>4, <2>0 DEF Readable
  <2>2. Junk(e)' = Junk(e) /\ Broken(e)' = Broken(e)
    BY <1>1, <1>4, <2>0 DEF Junk, Broken
  <2>3. \A i \in DOMAIN r : r[i].type # "cut"
    BY <1>1, <1>4, <2>0
  <2>4. Cardinality(Readable(e)') = Cardinality(Readable(e)) + 1
    BY <1>c, <2>1, FS_AddElement
  <2>5. \A i \in Readable(e) : r[i] = q[i] /\ i <= n
    BY <1>1, <1>4 DEF Readable
  <2>6. QED  BY <1>1, <1>4, <1>c, <2>1, <2>2, <2>3, <2>4, <2>5
<1>5. \/ /\ q # <<>> /\ q[n].type = "cut" /\ Len(r) = n /\ r[n].type = "junk"
         /\ \A i \in 1..(n - 1) : r[i] = q[i]
      \/ /\ q = <<>> \/ q[n].type # "cut"
         /\ Len(r) = n + 1 /\ r[n + 1] = line /\ \A i \in 1..n : r[i] = q[i]
  <2>1. line.type # "junk" /\ line.type # "cut"
    OBVIOUS
  <2>2. q = lines[e] /\ r = Appended(e, line)
    BY <1>1
  <2>3. \/ /\ q # <<>> /\ q[Len(q)].type = "cut" /\ Len(r) = Len(q)
           /\ r[Len(q)].type = IF line.type = "cut" THEN "cut" ELSE "junk"
           /\ \A i \in 1..(Len(q) - 1) : r[i] = q[i]
        \/ /\ q = <<>> \/ q[Len(q)].type # "cut"
           /\ Len(r) = Len(q) + 1 /\ r[Len(q) + 1] = line
           /\ \A i \in 1..Len(q) : r[i] = q[i]
    BY <2>1, <2>2, AppendedIs
  <2>4. QED  BY <1>1, <2>1, <2>3
<1>6. QED  BY <1>3, <1>4, <1>5

\* An append that is.
LEMMA CutCounts ==
    ASSUME CaptureTypeOK, NEW e \in Episodes, FileInvOf(e), NEW line \in Line,
           line.type = "cut", lines'[e] = Appended(e, line)
    PROVE  /\ Readable(e)' = Readable(e) /\ Junk(e)' = Junk(e)
           /\ Cardinality(Broken(e)') <= Cardinality(Broken(e)) + 1
           /\ \A i \in DOMAIN lines'[e] : lines'[e][i].type = "cut" => i = Len(lines'[e])
           /\ \A i \in Readable(e) : lines'[e][i] = lines[e][i]
<1>1. PICK q, r, n : /\ q = lines[e] /\ r = lines'[e] /\ n = Len(q) /\ n \in Nat
                     /\ q \in Seq(Line) /\ DOMAIN q = 1..n /\ r \in Seq(Line)
                     /\ DOMAIN r = 1..Len(r)
  <2>1. lines'[e] \in Seq(Line)
    BY AppendedIs
  <2>2. /\ lines[e] \in Seq(Line) /\ Len(lines[e]) \in Nat
        /\ DOMAIN lines[e] = 1..Len(lines[e]) /\ DOMAIN lines'[e] = 1..Len(lines'[e])
    BY <2>1 DEF CaptureTypeOK
  <2>3. QED  BY <2>1, <2>2
<1>2. \A i \in 1..n : q[i].type = "cut" => i = n
  BY <1>1 DEF FileInvOf
<1>c. IsFiniteSet(Broken(e)) /\ Cardinality(Broken(e)) \in Nat
  BY Counts
<1>3. CASE /\ q # <<>> /\ q[n].type = "cut" /\ Len(r) = n /\ r[n].type = "cut"
           /\ \A i \in 1..(n - 1) : r[i] = q[i]
  <2>0. n \in 1..n /\ \A i \in 1..n : i # n => i \in 1..(n - 1)
    BY <1>1, <1>3, EmptySeq
  <2>1. \A i \in 1..n : i # n => r[i] = q[i] /\ q[i].type # "cut"
    BY <1>2, <1>3, <2>0
  <2>2. Readable(e)' = Readable(e) /\ \A i \in Readable(e) : r[i] = q[i]
    BY <1>1, <1>3, <2>1 DEF Readable
  <2>3. Junk(e)' = Junk(e) /\ Broken(e)' = Broken(e)
    BY <1>1, <1>3, <2>0, <2>1 DEF Junk, Broken
  <2>4. \A i \in DOMAIN r : r[i].type = "cut" => i = n
    BY <1>1, <1>3, <2>1
  <2>5. QED  BY <1>1, <1>3, <1>c, <2>2, <2>3, <2>4
<1>4. CASE /\ q = <<>> \/ q[n].type # "cut"
           /\ Len(r) = n + 1 /\ r[n + 1] = line /\ \A i \in 1..n : r[i] = q[i]
  <2>0. /\ DOMAIN r = (1..n) \cup {n + 1} /\ n + 1 \notin 1..n
        /\ \A i \in 1..n : q[i].type # "cut"
    BY <1>1, <1>2, <1>4, EmptySeq
  <2>1. Readable(e)' = Readable(e) /\ Junk(e)' = Junk(e)
    BY <1>1, <1>4, <2>0 DEF Readable, Junk
  <2>2. Broken(e)' = Broken(e) \cup {n + 1} /\ n + 1 \notin Broken(e)
    BY <1>1, <1>4, <2>0 DEF Broken
  <2>3. \A i \in DOMAIN r : r[i].type = "cut" => i = n + 1
    BY <1>1, <1>4, <2>0
  <2>4. Cardinality(Broken(e)') <= Cardinality(Broken(e)) + 1
    <3>1. Cardinality(Broken(e)') = Cardinality(Broken(e)) + 1
      BY <1>c, <2>2, FS_AddElement
    <3>2. QED  BY <1>c, <3>1
  <2>5. \A i \in Readable(e) : r[i] = q[i]
    BY <1>1, <1>4 DEF Readable
  <2>6. QED  BY <1>1, <1>4, <2>1, <2>3, <2>4, <2>5
<1>5. \/ /\ q # <<>> /\ q[n].type = "cut" /\ Len(r) = n /\ r[n].type = "cut"
         /\ \A i \in 1..(n - 1) : r[i] = q[i]
      \/ /\ q = <<>> \/ q[n].type # "cut"
         /\ Len(r) = n + 1 /\ r[n + 1] = line /\ \A i \in 1..n : r[i] = q[i]
  <2>1. CaptureTypeOK /\ q = lines[e] /\ r = Appended(e, line) /\ line.type = "cut"
    BY <1>1
  <2>3. \/ /\ q # <<>> /\ q[Len(q)].type = "cut" /\ Len(r) = Len(q)
           /\ r[Len(q)].type = "cut" /\ \A i \in 1..(Len(q) - 1) : r[i] = q[i]
        \/ /\ q = <<>> \/ q[Len(q)].type # "cut"
           /\ Len(r) = Len(q) + 1 /\ r[Len(q) + 1] = line
           /\ \A i \in 1..Len(q) : r[i] = q[i]
    BY <2>1, CutIs
  <2>4. QED  BY <1>1, <2>3
<1>6. QED  BY <1>3, <1>4, <1>5

\* Frames: a thread that moves without an append.
LEMMA PendingFrame ==
    ASSUME CaptureType, NEW t \in Threads, NEW s, Moves(t, s), NEW e \in Episodes,
           IsPending(s, e) => IsPending(thread[t], e)
    PROVE  Pending(e)' \subseteq Pending(e)
<1>1. \A u \in Threads : thread'[u] = IF u = t THEN s ELSE thread[u]
  BY DEF Moves, CaptureType, CaptureTypeOK
<1>2. Pending(e)' = {u \in Threads : IsPending(thread'[u], e)}
  BY DEF Pending, IsPending
<1>3. QED  BY <1>1, <1>2 DEF Pending

LEMMA FileFrame ==
    ASSUME CaptureTypeOK, NEW e \in Episodes, FileInvOf(e), lines'[e] = lines[e],
           torn'[e] = torn[e], returned'[e] = returned[e], Pending(e)' \subseteq Pending(e)
    PROVE  FileInvOf(e)'
<1>1. Readable(e)' = Readable(e) /\ Broken(e)' = Broken(e) /\ Junk(e)' = Junk(e)
  BY DEF Readable, Broken, Junk
<1>2. Cardinality(Pending(e)') <= Cardinality(Pending(e)) /\ Cardinality(Pending(e)') \in Nat
  BY Counts, FS_Subset, FS_CardinalityType
<1>3. /\ Cardinality(Readable(e)) \in Nat /\ Cardinality(Junk(e)) \in Nat
      /\ Cardinality(Pending(e)) \in Nat /\ returned[e] \in Nat
  BY Counts DEF CaptureTypeOK
<1>4. Cardinality(Readable(e)) + Cardinality(Junk(e)) >= returned[e] + Cardinality(Pending(e)')
  BY <1>2, <1>3 DEF FileInvOf
<1>5. QED  BY <1>1, <1>4 DEF FileInvOf

LEMMA WriterFrame ==
    ASSUME CaptureType, WriterInv, NEW t \in Threads, NEW s, Moves(t, s), s.pc # "a_write",
           \A u \in Threads : u # t /\ thread[u].pc = "a_write" =>
              /\ holder'[thread[u].ep] = holder[thread[u].ep]
              /\ lines'[thread[u].ep] = lines[thread[u].ep]
    PROVE  WriterInv'
<1>1. \A u \in Threads : thread'[u] = IF u = t THEN s ELSE thread[u]
  BY DEF Moves, CaptureType, CaptureTypeOK
<1>2. SUFFICES ASSUME NEW u \in Threads, thread'[u].pc = "a_write" PROVE Writer(u)'
  BY DEF WriterInv, Writer
<1>3. u # t /\ thread'[u] = thread[u] /\ thread[u].pc = "a_write"
  BY <1>1, <1>2
<1>4. /\ lines'[thread[u].ep] = lines[thread[u].ep] /\ holder'[thread[u].ep] = holder[thread[u].ep]
      /\ Writer(u)
  BY <1>3 DEF WriterInv, Writer
<1>5. QED  BY <1>3, <1>4 DEF Writer, Readable

\* Only one thread writes to an episode at a time.
LEMMA WriterAlone ==
    ASSUME WriterInv, NEW t \in Threads, NEW u \in Threads, u # t,
           thread[t].pc = "a_write", thread[u].pc = "a_write"
    PROVE  thread[u].ep # thread[t].ep
BY DEF WriterInv, Writer

EventsInv == WriterInv /\ FileInv

LEMMA QuietStep ==
    ASSUME CaptureType, EventsInv, NEW t \in Threads, NEW s, Moves(t, s),
           s.pc # "a_write", UNCHANGED <<lines, holder, returned, torn>>,
           \A e \in Episodes : IsPending(s, e) => IsPending(thread[t], e)
    PROVE  EventsInv'
<1>1. WriterInv'
  BY WriterFrame DEF EventsInv
<1>2. ASSUME NEW e \in Episodes PROVE FileInvOf(e)'
  BY PendingFrame, FileFrame DEF EventsInv, FileInv, CaptureType
<1>3. QED  BY <1>1, <1>2 DEF EventsInv, FileInv

LEMMA GoesOnQuietly ==
    ASSUME CaptureType, NEW t \in Threads, NEW s, GoesOn(t, s),
           thread[t].pc \notin {"idle", "a_lock", "a_write", "b_manifest", "a_index", "e_enqueue"}
    PROVE  Moves(t, s) /\ s.pc # "a_write"
           /\ \A e \in Episodes : IsPending(s, e) => IsPending(thread[t], e)
<1>1. thread[t].pc \in Pcs
  BY DEF CaptureType, CaptureTypeOK, Thread
<1>2. s.pc # "a_write" /\ (s.pc \in Appending => thread[t].pc \in Appending)
  BY <1>1, AfterIs, PcsAre DEF GoesOn, Appending
<1>3. QED  BY <1>2 DEF GoesOn, IsPending

LEMMA InitEvents == CaptureInit => EventsInv
<1>. SUFFICES ASSUME CaptureInit PROVE EventsInv
  OBVIOUS
<1>1. \A t \in Threads : thread[t].pc = "idle"
  BY IdleType DEF CaptureInit
<1>2. ASSUME NEW e \in Episodes PROVE FileInvOf(e)
  <2>1. lines[e] = <<>> /\ DOMAIN lines[e] = {} /\ torn[e] = 0 /\ returned[e] = 0
    BY DEF CaptureInit
  <2>2. Readable(e) = {} /\ Broken(e) = {} /\ Junk(e) = {} /\ Pending(e) = {}
    BY <1>1, <2>1 DEF Readable, Broken, Junk, Pending, IsPending, Appending
  <2>3. Cardinality({}) = 0
    BY FS_EmptySet
  <2>4. QED  BY <2>1, <2>2, <2>3 DEF FileInvOf
<1>3. QED  BY <1>1, <1>2 DEF EventsInv, WriterInv, Writer, FileInv

LEMMA WriteKeepsEvents ==
    ASSUME CaptureType, EventsInv, NEW t \in Threads, Write(t)
    PROVE  EventsInv'
<1>1. PICK e, line : e = thread[t].ep /\ line = [seq |-> thread[t].seq, type |-> thread[t].type]
  OBVIOUS
<1>2. /\ thread[t].pc = "a_write" /\ e \in Episodes
      /\ lines' = [lines EXCEPT ![e] = Appended(e, line)]
      /\ holder' = [holder EXCEPT ![e] = NoOne]
      /\ UNCHANGED captureHistory
  BY <1>1, WriteForm
<1>3. PICK s : GoesOn(t, s)
  BY WriteForm
<1>4. CaptureTypeOK /\ WriterInv /\ (\A f \in Episodes : FileInvOf(f))
  BY DEF CaptureType, EventsInv, FileInv
<1>5. s.pc = "a_readconv" /\ s.ep = e /\ s.type = thread[t].type /\ Moves(t, s)
  BY <1>1, <1>2, <1>3, AfterIs DEF GoesOn
<1>6. line \in Line /\ line.type \notin {"cut", "junk"} /\ line.seq = thread[t].seq
      /\ thread[t].type # "none" /\ thread[t].seq \in Nat
  <2>1. thread[t] \in Thread /\ thread[t].type # "none"
    BY <1>2 DEF CaptureType, CaptureTypeOK, Settled
  <2>2. QED  BY <1>1, <2>1 DEF Thread, Line
<1>7. WriterInv'
  <2>1. \A u \in Threads : u # t /\ thread[u].pc = "a_write" => thread[u].ep # e
    BY <1>1, <1>2, <1>4, WriterAlone
  <2>2. \A u \in Threads : u # t /\ thread[u].pc = "a_write" =>
              /\ holder'[thread[u].ep] = holder[thread[u].ep]
              /\ lines'[thread[u].ep] = lines[thread[u].ep]
    BY <1>2, <1>4, <2>1 DEF CaptureTypeOK
  <2>3. QED  BY <1>4, <1>5, <2>2, WriterFrame
<1>8. ASSUME NEW f \in Episodes, f # e PROVE FileInvOf(f)'
  <2>1. ~IsPending(s, f)
    BY <1>5, <1>8 DEF IsPending
  <2>2. Pending(f)' \subseteq Pending(f)
    BY <1>5, <2>1, PendingFrame
  <2>3. lines'[f] = lines[f] /\ torn'[f] = torn[f] /\ returned'[f] = returned[f]
    BY <1>2, <1>4, <1>8 DEF CaptureTypeOK, captureHistory
  <2>4. QED  BY <1>4, <2>2, <2>3, FileFrame
<1>9. FileInvOf(e)'
  <2>1. lines'[e] = Appended(e, line) /\ torn' = torn /\ returned' = returned
    BY <1>2, <1>4 DEF CaptureTypeOK, captureHistory
  <2>2. /\ Cardinality(Readable(e)') + Cardinality(Junk(e)') =
              Cardinality(Readable(e)) + Cardinality(Junk(e)) + 1
        /\ Broken(e)' = Broken(e)
        /\ \A i \in DOMAIN lines'[e] : lines'[e][i].type # "cut"
        /\ \/ Readable(e)' = Readable(e) /\ \A i \in Readable(e) : lines'[e][i] = lines[e][i]
           \/ /\ Readable(e)' = Readable(e) \cup {Len(lines[e]) + 1}
              /\ lines'[e][Len(lines[e]) + 1] = line
              /\ \A i \in Readable(e) : lines'[e][i] = lines[e][i] /\ i <= Len(lines[e])
    BY <1>2, <1>4, <1>6, <2>1, WriteCounts
  <2>3. Cardinality(Pending(e)') = Cardinality(Pending(e)) + 1
    <3>1. \A u \in Threads : thread'[u] = IF u = t THEN s ELSE thread[u]
      BY <1>4, <1>5 DEF Moves, CaptureTypeOK
    <3>2. IsPending(s, e) /\ ~IsPending(thread[t], e)
      BY <1>2, <1>5, <1>6 DEF IsPending, Appending
    <3>3. Pending(e)' = {u \in Threads : IsPending(thread'[u], e)}
      BY DEF Pending, IsPending
    <3>4. Pending(e)' = Pending(e) \cup {t} /\ t \notin Pending(e)
      BY <3>1, <3>2, <3>3 DEF Pending
    <3>5. QED  BY <1>2, <1>4, <3>4, Counts, FS_AddElement
  <2>4. Cardinality(Readable(e)') + Cardinality(Junk(e)') >= returned[e] + Cardinality(Pending(e)')
    <3>1. /\ Cardinality(Readable(e)) \in Nat /\ Cardinality(Junk(e)) \in Nat
          /\ Cardinality(Pending(e)) \in Nat /\ returned[e] \in Nat
          /\ Cardinality(Readable(e)) + Cardinality(Junk(e)) >= returned[e] + Cardinality(Pending(e))
      BY <1>2, <1>4, Counts DEF CaptureTypeOK, FileInvOf
    <3>2. QED  BY <2>2, <2>3, <3>1
  <2>5. \A i \in Readable(e) : lines[e][i].seq < line.seq /\ i \in Nat
    <3>1. \A i \in Readable(e) : lines[e][i].seq < thread[t].seq
      BY <1>1, <1>2, <1>4 DEF WriterInv, Writer
    <3>2. \A i \in Readable(e) : i \in Nat
      BY <1>2, <1>4 DEF Readable, CaptureTypeOK
    <3>3. QED  BY <1>6, <3>1, <3>2
  <2>6. \A i, j \in Readable(e) : i < j => lines[e][i].seq < lines[e][j].seq
    BY <1>2, <1>4 DEF FileInvOf
  <2>7. Len(lines[e]) \in Nat
    BY <1>2, <1>4 DEF CaptureTypeOK
  <2>8. \A i, j \in Readable(e)' : i < j => lines'[e][i].seq < lines'[e][j].seq
    <3>1. CASE Readable(e)' = Readable(e) /\ \A i \in Readable(e) : lines'[e][i] = lines[e][i]
      BY <2>6, <3>1
    <3>2. CASE /\ Readable(e)' = Readable(e) \cup {Len(lines[e]) + 1}
               /\ lines'[e][Len(lines[e]) + 1] = line
               /\ \A i \in Readable(e) : lines'[e][i] = lines[e][i] /\ i <= Len(lines[e])
      <4>. SUFFICES ASSUME NEW i \in Readable(e)', NEW j \in Readable(e)', i < j
                    PROVE  lines'[e][i].seq < lines'[e][j].seq
        OBVIOUS
      <4>1. i \in Readable(e)
        <5>1. i # Len(lines[e]) + 1
          BY <2>5, <2>7, <3>2
        <5>2. QED  BY <3>2, <5>1
      <4>2. QED  BY <2>5, <2>6, <3>2, <4>1
    <3>3. QED  BY <2>2, <3>1, <3>2
  <2>9. Cardinality(Broken(e)') <= torn'[e]
    BY <1>2, <1>4, <2>1, <2>2 DEF FileInvOf
  <2>10. QED  BY <2>1, <2>2, <2>4, <2>8, <2>9 DEF FileInvOf
<1>10. QED  BY <1>7, <1>8, <1>9 DEF EventsInv, FileInv

LEMMA LockKeepsEvents ==
    ASSUME CaptureType, EventsInv, NEW t \in Threads, Lock(t)
    PROVE  EventsInv'
<1>1. PICK e : e = thread[t].ep
  OBVIOUS
<1>2. /\ thread[t].pc = "a_lock" /\ e \in Episodes /\ holder[e] = NoOne
      /\ holder' = [holder EXCEPT ![e] = t] /\ lines' = lines /\ UNCHANGED captureHistory
  BY <1>1, LockForm
<1>3. PICK s : GoesOn(t, s) /\ s.seq = LatestSeq(e) + 1
  BY <1>1, LockForm
<1>4. CaptureTypeOK /\ WriterInv /\ \A f \in Episodes : FileInvOf(f)
  BY DEF CaptureType, EventsInv, FileInv
<1>5. s.pc = "a_write" /\ s.ep = e /\ Moves(t, s)
  BY <1>1, <1>2, <1>3, AfterIs DEF GoesOn
<1>6. \A u \in Threads : thread'[u] = IF u = t THEN s ELSE thread[u]
  BY <1>4, <1>5 DEF Moves, CaptureTypeOK
<1>7. ASSUME NEW u \in Threads PROVE Writer(u)'
  <2>1. CASE u = t
    <3>1. thread'[u] = s /\ holder'[e] = t /\ lines'[e] = lines[e]
      BY <1>2, <1>4, <1>6, <2>1 DEF CaptureTypeOK
    <3>2. Readable(e)' = Readable(e)
      BY <1>2 DEF Readable
    <3>3. \A i \in Readable(e) : lines[e][i].seq < s.seq
      <4>1. LatestSeq(e) \in Nat /\ \A i \in Readable(e) : lines[e][i].seq <= LatestSeq(e)
        BY <1>2, <1>4, LatestSeqIs
      <4>2. \A i \in Readable(e) : lines[e][i].seq \in Nat
        <5>1. lines[e] \in Seq(Line)
          BY <1>2, <1>4 DEF CaptureTypeOK
        <5>2. \A i \in DOMAIN lines[e] : lines[e][i] \in Line
          BY <5>1
        <5>3. QED  BY <5>2 DEF Readable, Line
      <4>3. QED  BY <1>3, <4>1, <4>2
    <3>4. QED  BY <1>2, <1>5, <2>1, <3>1, <3>3 DEF Writer, Readable
  <2>2. CASE u # t
    <3>1. thread'[u] = thread[u] /\ Writer(u)
      BY <1>4, <1>6, <2>2 DEF WriterInv
    <3>2. ASSUME thread[u].pc = "a_write" PROVE holder'[thread[u].ep] = holder[thread[u].ep]
      <4>1. holder[thread[u].ep] = u /\ u # NoOne
        BY <3>1, <3>2, CaptureAssumption DEF Writer
      <4>2. thread[u].ep # e
        BY <1>2, <4>1
      <4>3. QED  BY <1>2, <1>4, <4>2 DEF CaptureTypeOK
    <3>3. QED  BY <1>2, <3>1, <3>2 DEF Writer, Readable
  <2>3. QED  BY <2>1, <2>2
<1>8. ASSUME NEW f \in Episodes PROVE FileInvOf(f)'
  <2>1. ~IsPending(s, f)
    BY <1>5 DEF IsPending, Appending
  <2>2. Pending(f)' \subseteq Pending(f)
    BY <1>5, <2>1, PendingFrame
  <2>3. QED  BY <1>2, <1>4, <2>2, FileFrame DEF captureHistory
<1>9. QED  BY <1>7, <1>8 DEF EventsInv, WriterInv, FileInv

LEMMA UpsertKeepsEvents ==
    ASSUME CaptureType, EventsInv, NEW t \in Threads, UpsertIndex(t)
    PROVE  EventsInv'
<1>1. PICK e : e = thread[t].ep
  OBVIOUS
<1>2. /\ thread[t].pc \in {"a_index", "e_index"} /\ e \in Episodes
      /\ returned' = IF thread[t].pc = "a_index" /\ thread[t].type # "none"
                     THEN [returned EXCEPT ![e] = @ + 1] ELSE returned
      /\ UNCHANGED <<lines, holder, torn>>
  BY <1>1, UpsertForm DEF episodeFiles
<1>3. PICK s : Moves(t, s) /\ s.pc \in {"e_readman", "e_enqueue", "idle"}
  BY UpsertForm, IdleType, AfterIs DEF GoesOn
<1>4. CaptureTypeOK /\ WriterInv /\ \A f \in Episodes : FileInvOf(f)
  BY DEF CaptureType, EventsInv, FileInv
<1>5. WriterInv'
  BY <1>2, <1>3, <1>4, WriterFrame
<1>6. \A f \in Episodes : ~IsPending(s, f)
  BY <1>3 DEF IsPending, Appending
<1>7. ASSUME NEW f \in Episodes, returned'[f] = returned[f] PROVE FileInvOf(f)'
  <2>1. Pending(f)' \subseteq Pending(f)
    BY <1>3, <1>6, PendingFrame
  <2>2. QED  BY <1>2, <1>4, <1>7, <2>1, FileFrame
<1>8. CASE thread[t].pc = "a_index" /\ thread[t].type # "none"
  <2>1. returned'[e] = returned[e] + 1 /\ \A f \in Episodes : f # e => returned'[f] = returned[f]
    BY <1>2, <1>4, <1>8 DEF CaptureTypeOK
  <2>2. Pending(e)' = Pending(e) \ {t} /\ t \in Pending(e)
    <3>1. \A u \in Threads : thread'[u] = IF u = t THEN s ELSE thread[u]
      BY <1>3, <1>4 DEF Moves, CaptureTypeOK
    <3>2. Pending(e)' = {u \in Threads : IsPending(thread'[u], e)}
      BY DEF Pending, IsPending
    <3>3. IsPending(thread[t], e) /\ ~IsPending(s, e)
      BY <1>1, <1>2, <1>6, <1>8 DEF IsPending, Appending
    <3>4. QED  BY <3>1, <3>2, <3>3 DEF Pending
  <2>3. Cardinality(Pending(e)') = Cardinality(Pending(e)) - 1
    BY <1>2, <1>4, <2>2, Counts, FS_RemoveElement
  <2>4. /\ Cardinality(Readable(e)) \in Nat /\ Cardinality(Junk(e)) \in Nat
        /\ Cardinality(Pending(e)) \in Nat /\ returned[e] \in Nat /\ FileInvOf(e)
    BY <1>2, <1>4, Counts DEF CaptureTypeOK
  <2>5. Cardinality(Readable(e)) + Cardinality(Junk(e)) >= returned'[e] + Cardinality(Pending(e)')
    BY <2>1, <2>3, <2>4 DEF FileInvOf
  <2>6. Readable(e)' = Readable(e) /\ Broken(e)' = Broken(e) /\ Junk(e)' = Junk(e)
    BY <1>2 DEF Readable, Broken, Junk
  <2>7. FileInvOf(e)'
    BY <1>2, <2>4, <2>5, <2>6 DEF FileInvOf
  <2>8. QED  BY <1>5, <1>7, <2>1, <2>7 DEF EventsInv, FileInv
<1>9. CASE ~(thread[t].pc = "a_index" /\ thread[t].type # "none")
  BY <1>2, <1>5, <1>7, <1>9 DEF EventsInv, FileInv
<1>10. QED  BY <1>8, <1>9

LEMMA CrashKeepsEvents ==
    ASSUME CaptureType, EventsInv, NEW t \in Threads, Crash(t)
    PROVE  EventsInv'
<1>1. PICK e, line : e = thread[t].ep /\ line = [seq |-> thread[t].seq, type |-> "cut"]
  OBVIOUS
<1>2. /\ e \in Episodes
      /\ \/ UNCHANGED <<lines, torn>>
         \/ /\ thread[t].pc = "a_write"
            /\ lines' = [lines EXCEPT ![e] = Appended(e, line)]
            /\ torn' = [torn EXCEPT ![e] = @ + 1]
      /\ holder' = IF holder[e] = t THEN [holder EXCEPT ![e] = NoOne] ELSE holder
      /\ Moves(t, Idle) /\ returned' = returned
  BY <1>1, CrashForm
<1>3. CaptureTypeOK /\ WriterInv /\ \A f \in Episodes : FileInvOf(f)
  BY DEF CaptureType, EventsInv, FileInv
<1>4. line \in Line /\ line.type = "cut"
  BY <1>1, <1>3 DEF CaptureTypeOK, Thread, Line
<1>5. WriterInv'
  <2>1. ASSUME NEW u \in Threads, u # t, thread[u].pc = "a_write"
        PROVE  /\ holder'[thread[u].ep] = holder[thread[u].ep]
               /\ lines'[thread[u].ep] = lines[thread[u].ep]
    <3>1. holder[thread[u].ep] = u
      BY <1>3, <2>1 DEF WriterInv, Writer
    <3>2. holder[e] = t => thread[u].ep # e
      BY <2>1, <3>1
    <3>3. thread[t].pc = "a_write" => thread[u].ep # e
      BY <1>1, <1>3, <2>1, WriterAlone
    <3>4. holder'[thread[u].ep] = holder[thread[u].ep]
      BY <1>2, <1>3, <3>2 DEF CaptureTypeOK
    <3>5. lines'[thread[u].ep] = lines[thread[u].ep]
      <4>1. CASE lines' = lines
        BY <4>1
      <4>2. CASE thread[t].pc = "a_write" /\ lines' = [lines EXCEPT ![e] = Appended(e, line)]
        <5>1. thread[u].ep \in Episodes
          BY <2>1, AtWork
        <5>2. QED  BY <1>3, <3>3, <4>2, <5>1 DEF CaptureTypeOK
      <4>3. QED  BY <1>2, <4>1, <4>2
    <3>6. QED  BY <3>4, <3>5
  <2>2. QED  BY <1>2, <1>3, <2>1, IdleType, WriterFrame
<1>6. ASSUME NEW f \in Episodes PROVE Pending(f)' \subseteq Pending(f)
  <2>1. ~IsPending(Idle, f)
    BY IdleType DEF IsPending, Appending
  <2>2. QED  BY <1>2, <2>1, PendingFrame
<1>7. CASE UNCHANGED <<lines, torn>>
  BY <1>2, <1>3, <1>5, <1>6, <1>7, FileFrame DEF EventsInv, FileInv
<1>8. CASE /\ lines' = [lines EXCEPT ![e] = Appended(e, line)]
           /\ torn' = [torn EXCEPT ![e] = @ + 1]
  <2>1. lines'[e] = Appended(e, line) /\ torn'[e] = torn[e] + 1
        /\ \A f \in Episodes : f # e => lines'[f] = lines[f] /\ torn'[f] = torn[f]
    BY <1>2, <1>3, <1>8 DEF CaptureTypeOK
  <2>2. /\ Readable(e)' = Readable(e) /\ Junk(e)' = Junk(e)
        /\ Cardinality(Broken(e)') <= Cardinality(Broken(e)) + 1
        /\ \A i \in DOMAIN lines'[e] : lines'[e][i].type = "cut" => i = Len(lines'[e])
        /\ \A i \in Readable(e) : lines'[e][i] = lines[e][i]
    BY <1>2, <1>3, <1>4, <2>1, CutCounts
  <2>3. /\ Cardinality(Pending(e)') <= Cardinality(Pending(e)) /\ Cardinality(Pending(e)') \in Nat
    BY <1>2, <1>3, <1>6, Counts, FS_Subset, FS_CardinalityType
  <2>4. /\ Cardinality(Readable(e)) \in Nat /\ Cardinality(Junk(e)) \in Nat
        /\ Cardinality(Pending(e)) \in Nat /\ returned[e] \in Nat /\ torn[e] \in Nat
        /\ Cardinality(Broken(e)) \in Nat /\ FileInvOf(e)
    BY <1>2, <1>3, Counts DEF CaptureTypeOK
  <2>5. Cardinality(Readable(e)) + Cardinality(Junk(e)) >= returned[e] + Cardinality(Pending(e)')
    BY <2>3, <2>4 DEF FileInvOf
  <2>6. Cardinality(Broken(e)') <= torn'[e]
    <3>1. Cardinality(Broken(e)) <= torn[e]
      BY <2>4 DEF FileInvOf
    <3>2. Cardinality(Broken(e)') \in Nat
      <4>1. CaptureTypeOK'
        BY CaptureTypeStep DEF CaptureNext, CaptureType
      <4>2. DOMAIN lines'[e] = 1..Len(lines'[e]) /\ Len(lines'[e]) \in Int /\ 1 \in Int
        BY <1>2, <4>1 DEF CaptureTypeOK
      <4>3. IsFiniteSet(1..Len(lines'[e]))
        BY <4>2, FS_Interval
      <4>4. Broken(e)' \subseteq 1..Len(lines'[e])
        BY <4>2 DEF Broken
      <4>5. QED  BY <4>3, <4>4, FS_Subset, FS_CardinalityType
    <3>3. QED  BY <2>1, <2>2, <2>4, <3>1, <3>2
  <2>7. \A i, j \in Readable(e) : i < j => lines'[e][i].seq < lines'[e][j].seq
    BY <2>2, <2>4 DEF FileInvOf
  <2>8. FileInvOf(e)'
    BY <1>2, <2>2, <2>5, <2>6, <2>7 DEF FileInvOf
  <2>9. \A f \in Episodes : f # e => FileInvOf(f)'
    BY <1>2, <1>3, <1>6, <2>1, FileFrame
  <2>10. QED  BY <1>5, <2>8, <2>9 DEF EventsInv, FileInv
<1>9. QED  BY <1>2, <1>7, <1>8

LEMMA EventsStep == CaptureType /\ EventsInv /\ [CaptureNext]_captureVars => EventsInv'
<1>. SUFFICES ASSUME CaptureType, EventsInv, [CaptureNext]_captureVars PROVE EventsInv'
  OBVIOUS
<1>1. ASSUME NEW t \in Threads, NEW e \in Episodes,
             \/ t \in Clients /\ (BeginEpisode(t, e) \/ AppendEvent(t, e) \/ EndEpisode(t, e))
             \/ t = Job /\ ExpireEpisode(e)
      PROVE  EventsInv'
  <2>1. UNCHANGED <<lines, holder, returned, torn>>
    BY <1>1, ArrivalForm DEF episodeFiles
  <2>2. PICK s : Moves(t, s) /\ s.pc \in {"b_list", "a_lock"}
    BY <1>1, ArrivalForm
  <2>3. s.pc # "a_write" /\ \A f \in Episodes : ~IsPending(s, f)
    BY <2>2 DEF IsPending, Appending
  <2>4. QED  BY <2>1, <2>2, <2>3, QuietStep
<1>2. ASSUME UNCHANGED <<lines, holder, thread, returned, torn>> PROVE EventsInv'
  BY <1>2 DEF EventsInv, WriterInv, Writer, FileInv, FileInvOf, Readable, Broken, Junk, Pending,
              IsPending
<1>3. CASE ListStaleEpisodes \/ (\E e \in Episodes : HoursPass(e)) \/ UNCHANGED captureVars
  BY <1>2, <1>3 DEF ListStaleEpisodes, HoursPass, captureVars, episodeFiles, captureHistory
<1>4. ASSUME NEW t \in Threads, WriteNewManifest(t) PROVE EventsInv'
  <2>1. UNCHANGED <<lines, holder, returned, torn>>
    BY <1>4, NewManifestForm DEF captureHistory
  <2>2. PICK s : Moves(t, s) /\ (s.pc = "a_lock" \/ (s.pc = "a_readindex" /\ s.type = "none"))
    BY <1>4, NewManifestForm
  <2>3. s.pc # "a_write" /\ \A f \in Episodes : ~IsPending(s, f)
    BY <2>2 DEF IsPending, Appending
  <2>4. QED  BY <2>1, <2>2, <2>3, QuietStep
<1>5. ASSUME NEW t \in Threads,
             \/ ReadConversation(t) \/ WriteConversation(t) \/ ReadManifest(t)
             \/ WriteManifest(t) \/ ReadForIndex(t)
      PROVE  EventsInv'
  <2>1. /\ UNCHANGED <<lines, holder, returned, torn>>
        /\ thread[t].pc \notin {"idle", "a_lock", "a_write", "b_manifest", "a_index", "e_enqueue"}
        /\ \E s : GoesOn(t, s)
    BY <1>5, ConversationForm, ReadForm, WriteManifestForm DEF episodeFiles, captureHistory
  <2>2. PICK s : GoesOn(t, s)
    BY <2>1
  <2>3. QED  BY <2>1, <2>2, GoesOnQuietly, QuietStep
<1>6. ASSUME NEW t \in Threads, EnqueueExtraction(t) PROVE EventsInv'
  <2>1. Moves(t, Idle) /\ UNCHANGED <<lines, holder, returned, torn>>
    BY <1>6, EnqueueForm DEF episodeFiles, captureHistory
  <2>2. Idle.pc # "a_write" /\ \A f \in Episodes : ~IsPending(Idle, f)
    BY IdleType DEF IsPending, Appending
  <2>3. QED  BY <2>1, <2>2, QuietStep
<1>7. Job \in Threads /\ Clients \subseteq Threads
  BY DEF Threads
<1>8. QED
  BY <1>1, <1>3, <1>4, <1>5, <1>6, <1>7, LockKeepsEvents, WriteKeepsEvents, UpsertKeepsEvents,
     CrashKeepsEvents DEF CaptureNext

LEMMA EventsInvariant == CaptureSpec => [](CaptureType /\ EventsInv)
<1>1. CaptureType /\ EventsInv /\ [CaptureNext]_captureVars => (CaptureType /\ EventsInv)'
  BY CaptureTypeStep, EventsStep
<1>2. QED  BY <1>1, CaptureInitType, InitEvents, PTL DEF CaptureSpec

\* Every variable of capture stays in its range: an end sets one of the two
\* statuses a manifest may have, whoever closes the episode.
THEOREM CaptureTypeCorrect == CaptureSpec => []CaptureTypeOK
<1>1. CaptureType /\ EventsInv => CaptureTypeOK
  BY DEF CaptureType
<1>2. QED  BY <1>1, EventsInvariant, PTL

LEMMA EventsHold == CaptureType /\ EventsInv => NoEventLost
<1>. SUFFICES ASSUME CaptureType, EventsInv, NEW e \in Episodes
              PROVE  /\ Cardinality(Readable(e)) + torn[e] >= returned[e]
                     /\ \A i, j \in Readable(e) : i < j => lines[e][i].seq < lines[e][j].seq
  BY DEF NoEventLost
<1>1. CaptureTypeOK /\ FileInvOf(e)
  BY DEF CaptureType, EventsInv, FileInv
<1>2. /\ Cardinality(Readable(e)) \in Nat /\ Cardinality(Broken(e)) \in Nat
      /\ Cardinality(Junk(e)) \in Nat /\ Cardinality(Pending(e)) \in Nat
      /\ Cardinality(Junk(e)) <= Cardinality(Broken(e))
      /\ returned[e] \in Nat /\ torn[e] \in Nat
  BY <1>1, Counts DEF CaptureTypeOK
<1>3. Cardinality(Readable(e)) + torn[e] >= returned[e]
  BY <1>1, <1>2 DEF FileInvOf
<1>4. QED  BY <1>1, <1>3 DEF FileInvOf

\* An append that returned is in the file for good, for any number of threads
\* that append beside it and of crashes in the middle of a write; and the
\* events are numbered in the order of the file.
THEOREM EventsAreKept == CaptureSpec => []NoEventLost
BY EventsHold, EventsInvariant, PTL

-----------------------------------------------------------------------------
(* The records of an episode agree.                                        *)

\* From the new manifest of an ended episode to the end of its request.
Closing == {"e_readconv", "e_list", "e_readindex", "e_index", "e_enqueue"}

\* Event n of the file is the one that ended the episode.
EndedAt(e, n) == n \in DOMAIN lines[e] /\ lines[e][n].type = "episode_ended"

\* How far thread r, alone at episode e, has brought the records.
Progress(r, e) ==
    LET n == Len(lines[e])
    IN  /\ r.pc \in Appending /\ r.type = "episode_ended" => EndedAt(e, n)
        /\ r.pc = "e_readman" => EndedAt(e, n)
        /\ r.pc = "e_manifest" => r.hash = n /\ EndedAt(e, n)
        /\ r.pc \in {"a_manifest", "a_index", "e_index"} => r.man = manifest[e]
        /\ r.pc \in {"a_readindex", "a_index"} \cup Closing => manifest[e].count = n
        /\ r.pc = "e_enqueue" => index[e] = manifest[e]
        /\ r.pc \in Closing => r.hash = manifest[e].hash /\ EndedAt(e, r.hash)

Untouched(e) == \A t \in Threads : thread[t].ep # e

Indexed(e) == manifest[e] # NoManifest =>
                 index[e] = manifest[e] /\ index[e].count = Len(lines[e])

Queued(e) == manifest[e].status \in {"success", "partial"} =>
                queuedHash[e] = manifest[e].hash /\ EndedAt(e, queuedHash[e])

\* What holds of an episode whose threads came one at a time.
RecordsOf(e) ==
    /\ \A t, u \in Threads : thread[t].ep = e /\ thread[u].ep = e => t = u
    /\ \A t \in Threads : thread[t].ep = e => Progress(thread[t], e)
    /\ Untouched(e) => Indexed(e)
    /\ (\A t \in Threads : thread[t].ep = e => thread[t].pc \notin Closing) => Queued(e)

RecordsInv ==
    crashes = 0 =>
        \A e \in Episodes : Broken(e) = {} /\ (e \notin met => RecordsOf(e))

\* Frame: another episode's threads move.
LEMMA RecordsFrame ==
    ASSUME CaptureType, NEW f \in Episodes, RecordsOf(f), NEW t \in Threads, NEW s, Moves(t, s),
           thread[t].ep # f, s.ep # f,
           lines'[f] = lines[f], manifest'[f] = manifest[f], index'[f] = index[f],
           queuedHash'[f] = queuedHash[f]
    PROVE  RecordsOf(f)'
<1>1. \A u \in Threads : thread'[u] = IF u = t THEN s ELSE thread[u]
  BY DEF Moves, CaptureType, CaptureTypeOK
<1>2. \A u \in Threads : /\ thread'[u].ep = f <=> thread[u].ep = f
                         /\ thread[u].ep = f => thread'[u] = thread[u]
  BY <1>1
<1>3. \A t1, u \in Threads : thread'[t1].ep = f /\ thread'[u].ep = f => t1 = u
  BY <1>2 DEF RecordsOf
<1>4. ASSUME NEW u \in Threads, thread'[u].ep = f PROVE Progress(thread[u], f)'
  <2>1. Progress(thread[u], f) /\ thread'[u] = thread[u]
    BY <1>2, <1>4 DEF RecordsOf
  <2>2. QED  BY <2>1 DEF Progress, EndedAt
<1>5. Untouched(f)' => Indexed(f)'
  <2>1. Untouched(f)' => Untouched(f)
    BY <1>2 DEF Untouched
  <2>2. Indexed(f) => Indexed(f)'
    BY DEF Indexed
  <2>3. QED  BY <2>1, <2>2 DEF RecordsOf
<1>6. (\A u \in Threads : thread'[u].ep = f => thread'[u].pc \notin Closing) => Queued(f)'
  <2>1. Queued(f) => Queued(f)'
    BY DEF Queued, EndedAt
  <2>2. QED  BY <1>2, <2>1 DEF RecordsOf
<1>7. QED  BY <1>3, <1>4, <1>5, <1>6 DEF RecordsOf

\* A thread alone at its episode goes on there or leaves.
LEMMA RecordsAlone ==
    ASSUME CaptureType, NEW e \in Episodes, NEW t \in Threads, NEW s, Moves(t, s),
           \A u \in Threads : u # t => thread[u].ep # e,
           IF s.ep = e THEN Progress(s, e)' /\ (s.pc \notin Closing => Queued(e)')
           ELSE Indexed(e)' /\ Queued(e)'
    PROVE  RecordsOf(e)'
<1>1. \A u \in Threads : thread'[u] = IF u = t THEN s ELSE thread[u]
  BY DEF Moves, CaptureType, CaptureTypeOK
<1>2. \A u \in Threads : thread'[u].ep = e => u = t /\ s.ep = e
  BY <1>1
<1>3. thread'[t] = s
  BY <1>1
<1>4. \A u \in Threads : thread'[u].ep = e => Progress(thread[u], e)'
  BY <1>2, <1>3 DEF Progress
<1>5. Untouched(e)' => Indexed(e)'
  BY <1>3 DEF Untouched
<1>6. (\A u \in Threads : thread'[u].ep = e => thread'[u].pc \notin Closing) => Queued(e)'
  BY <1>3
<1>7. QED  BY <1>2, <1>4, <1>5, <1>6 DEF RecordsOf

\* What RecordsOf says of the one thread at the episode.
LEMMA AloneAt ==
    ASSUME NEW e \in Episodes, RecordsOf(e), NEW t \in Threads, thread[t].ep = e
    PROVE  /\ \A u \in Threads : u # t => thread[u].ep # e
           /\ Progress(thread[t], e)
           /\ thread[t].pc \notin Closing => Queued(e)
BY DEF RecordsOf

LEMMA ArrivalRecords ==
    ASSUME CaptureType, RecordsInv, NEW t \in Threads, NEW e \in Episodes, crashes' = 0,
           \/ t \in Clients /\ (BeginEpisode(t, e) \/ AppendEvent(t, e) \/ EndEpisode(t, e))
           \/ t = Job /\ ExpireEpisode(e)
    PROVE  RecordsInv'
<1>1. /\ thread[t].pc = "idle" /\ Arrives(t, e) /\ crashes = 0
      /\ UNCHANGED <<lines, manifest, index, queuedHash>>
  BY ArrivalForm DEF episodeFiles
<1>2. PICK s : Moves(t, s) /\ s.ep = e /\ s.pc \in {"b_list", "a_lock"}
  BY ArrivalForm
<1>3. thread[t].ep = NoEpisode /\ NoEpisode \notin Episodes
  BY <1>1, CaptureAssumption DEF CaptureType, Settled
<1>4. ASSUME NEW f \in Episodes PROVE Broken(f)' = {}
  BY <1>1 DEF RecordsInv, Broken
<1>5. ASSUME NEW f \in Episodes, f \notin met' PROVE RecordsOf(f)'
  <2>0. f \notin met /\ RecordsOf(f)
    BY <1>1, <1>5 DEF Arrives, RecordsInv
  <2>1. CASE f = e
    <3>1. \A u \in Threads : u # t => thread[u].ep # e
      BY <1>1, <1>5, <2>1 DEF Arrives
    <3>2. Queued(e)
      <4>1. \A u \in Threads : thread[u].ep # e
        BY <1>3, <3>1
      <4>2. QED  BY <2>0, <2>1, <4>1 DEF RecordsOf
    <3>3. Queued(e)'
      BY <1>1, <3>2 DEF Queued, EndedAt
    <3>4. Progress(s, e)'
      BY <1>2 DEF Progress, Appending, Closing
    <3>5. QED  BY <1>2, <2>1, <3>1, <3>3, <3>4, RecordsAlone
  <2>2. CASE f # e
    BY <1>1, <1>2, <1>3, <2>0, <2>2, RecordsFrame
  <2>3. QED  BY <2>1, <2>2
<1>6. QED  BY <1>4, <1>5 DEF RecordsInv

\* The steps of a thread at its episode: to show is what becomes of that one.
LEMMA RecordsStep ==
    ASSUME CaptureType, RecordsInv, NEW t \in Threads, NEW s, Moves(t, s),
           crashes' = crashes, crashes = 0, met' = met, NEW e \in Episodes, thread[t].ep = e,
           s.ep \in {e, NoEpisode},
           \A f \in Episodes : f # e => /\ lines'[f] = lines[f] /\ manifest'[f] = manifest[f]
                                       /\ index'[f] = index[f] /\ queuedHash'[f] = queuedHash[f],
           Broken(e)' = {},
           RecordsOf(e) =>
              IF s.ep = e THEN Progress(s, e)' /\ (s.pc \notin Closing => Queued(e)')
              ELSE Indexed(e)' /\ Queued(e)'
    PROVE  RecordsInv'
<1>1. ASSUME NEW f \in Episodes, f # e PROVE Broken(f)' = {} /\ (f \notin met => RecordsOf(f)')
  <2>1. Broken(f)' = {}
    BY <1>1 DEF RecordsInv, Broken
  <2>2. s.ep # f /\ thread[t].ep # f
    BY <1>1, CaptureAssumption
  <2>3. f \notin met => RecordsOf(f)
    BY DEF RecordsInv
  <2>4. QED  BY <1>1, <2>1, <2>2, <2>3, RecordsFrame
<1>2. ASSUME e \notin met PROVE RecordsOf(e)'
  <2>1. RecordsOf(e)
    BY <1>2 DEF RecordsInv
  <2>2. QED  BY <2>1, AloneAt, RecordsAlone
<1>3. QED  BY <1>1, <1>2 DEF RecordsInv

\* The thread goes on and only reads.
LEMMA ReadingRecords ==
    ASSUME CaptureType, RecordsInv, NEW t \in Threads, NEW s, GoesOn(t, s),
           crashes' = 0, UNCHANGED <<lines, manifest, index, queuedHash, met, crashes>>,
           thread[t].ep \in Episodes, thread[t].pc \in DOMAIN After,
           thread[t].pc \notin {"a_write", "a_manifest", "e_manifest", "e_index"},
           thread[t].pc \in {"a_readman", "e_readman", "a_readindex", "e_readindex"} =>
               s.man = manifest[thread[t].ep],
           IF thread[t].pc = "e_readman" THEN s.hash = Len(lines[thread[t].ep])
           ELSE thread[t].pc \in Closing => s.hash = thread[t].hash
    PROVE  RecordsInv'
<1>0. PICK e \in Episodes : e = thread[t].ep
  OBVIOUS
<1>1. Moves(t, s) /\ s.ep = e /\ s.type = thread[t].type /\ s.pc = After[thread[t].pc]
  BY <1>0 DEF GoesOn
<1>2. Broken(e)' = {}
  BY DEF RecordsInv, Broken
<1>3. ASSUME RecordsOf(e) PROVE Progress(s, e)' /\ (s.pc \notin Closing => Queued(e)')
  <2>1. Progress(thread[t], e) /\ (thread[t].pc \notin Closing => Queued(e))
    BY <1>0, <1>3, AloneAt
  <2>2. thread[t].pc \in {"b_list", "a_lock", "a_readconv", "a_list", "a_readman", "a_readindex",
                          "e_readman", "e_readconv", "e_list", "e_readindex"}
    BY DEF After
  <2>3. Progress(s, e)
    BY <1>0, <1>1, <2>1, <2>2, AfterIs DEF Progress, Appending, Closing
  <2>4. s.pc \notin Closing => thread[t].pc \notin Closing
    BY <1>1, <2>2, AfterIs DEF Closing
  <2>5. Progress(s, e)' <=> Progress(s, e)
    BY DEF Progress, EndedAt
  <2>6. Queued(e)' <=> Queued(e)
    BY DEF Queued, EndedAt
  <2>7. QED  BY <2>1, <2>3, <2>4, <2>5, <2>6
<1>4. QED  BY <1>0, <1>1, <1>2, <1>3, RecordsStep

LEMMA WriteRecords ==
    ASSUME CaptureType, RecordsInv, NEW t \in Threads, Write(t), crashes' = 0
    PROVE  RecordsInv'
<1>0. PICK e : e = thread[t].ep
  OBVIOUS
<1>00. PICK line : line = [seq |-> thread[t].seq, type |-> thread[t].type]
  OBVIOUS
<1>1. /\ thread[t].pc = "a_write" /\ e \in Episodes /\ lines' = [lines EXCEPT ![e] = Appended(e, line)]
      /\ UNCHANGED <<manifest, index, queuedHash, met, crashes>>
  BY <1>0, <1>00, WriteForm DEF captureHistory
<1>2. PICK s : GoesOn(t, s)
  BY WriteForm
<1>3. Moves(t, s) /\ s.ep = e /\ s.type = thread[t].type /\ s.pc = "a_readconv"
  BY <1>0, <1>1, <1>2, AfterIs DEF GoesOn
<1>4. line \in Line /\ line.type \notin {"cut", "junk"} /\ line.type = thread[t].type
  BY <1>00, <1>1 DEF CaptureType, CaptureTypeOK, Settled, Thread, Line
<1>5. Broken(e) = {} /\ CaptureTypeOK
  BY <1>1 DEF RecordsInv, CaptureType
<1>6. PICK q, r, n : /\ q = lines[e] /\ r = Appended(e, line) /\ n = Len(q) /\ n \in Nat
                     /\ DOMAIN q = 1..n /\ q \in Seq(Line)
  <2>1. /\ lines[e] \in Seq(Line) /\ Len(lines[e]) \in Nat
        /\ DOMAIN lines[e] = 1..Len(lines[e])
    BY <1>1, <1>5 DEF CaptureTypeOK
  <2>2. QED  BY <2>1
<1>7. /\ r \in Seq(Line) /\ Len(r) = n + 1 /\ r[n + 1] = line
      /\ \A i \in 1..n : r[i] = q[i]
  <2>1. ~(q # <<>> /\ q[Len(q)].type = "cut")
    <3>1. ASSUME q # <<>> PROVE n \in DOMAIN q
      BY <1>6, <3>1, EmptySeq
    <3>2. \A i \in DOMAIN q : q[i].type # "cut"
      BY <1>5, <1>6 DEF Broken
    <3>3. QED  BY <1>6, <3>1, <3>2
  <2>2. QED  BY <1>1, <1>4, <1>5, <1>6, <2>1, AppendedIs
<1>8. lines'[e] = r /\ (\A f \in Episodes : f # e => lines'[f] = lines[f]) /\ DOMAIN r = 1..(n + 1)
  BY <1>1, <1>5, <1>6, <1>7 DEF CaptureTypeOK
<1>9. \A i \in 1..(n + 1) : i \in 1..n \/ i = n + 1
  BY <1>6
<1>10. Broken(e)' = {}
  <2>1. \A i \in 1..n : q[i].type \notin {"cut", "junk"}
    BY <1>5, <1>6 DEF Broken
  <2>2. \A i \in 1..(n + 1) : r[i].type \notin {"cut", "junk"}
    BY <1>4, <1>7, <1>9, <2>1
  <2>3. QED  BY <1>8, <2>2 DEF Broken
<1>11. ASSUME NEW k, EndedAt(e, k) PROVE EndedAt(e, k)'
  <2>1. k \in 1..n /\ q[k].type = "episode_ended"
    BY <1>6, <1>11 DEF EndedAt
  <2>2. k \in 1..(n + 1)
    BY <1>6, <2>1
  <2>3. QED  BY <1>7, <1>8, <2>1, <2>2 DEF EndedAt
<1>12. thread[t].type = "episode_ended" => EndedAt(e, Len(lines[e]))'
  <2>1. n + 1 \in 1..(n + 1)
    BY <1>6
  <2>2. QED  BY <1>4, <1>7, <1>8, <2>1 DEF EndedAt
<1>13. ASSUME RecordsOf(e) PROVE Progress(s, e)' /\ (s.pc \notin Closing => Queued(e)')
  <2>1. Queued(e)
    BY <1>0, <1>1, <1>13, AloneAt DEF Closing
  <2>2. Queued(e)'
    BY <1>1, <1>11, <2>1 DEF Queued
  <2>3. Progress(s, e)'
    BY <1>3, <1>12 DEF Progress, Closing, Appending
  <2>4. QED  BY <2>2, <2>3
<1>14. QED  BY <1>1, <1>3, <1>8, <1>10, <1>13, <1>0, RecordsStep

\* A manifest replaced while its file stays.
LEMMA ManifestRecords ==
    ASSUME CaptureType, RecordsInv, NEW t \in Threads, WriteNewManifest(t) \/ WriteManifest(t),
           crashes' = 0
    PROVE  RecordsInv'
<1>0. PICK e : e = thread[t].ep
  OBVIOUS
<1>1. /\ e \in Episodes /\ thread[t].pc \in {"b_manifest", "a_manifest", "e_manifest"}
      /\ UNCHANGED <<lines, index, queuedHash, met, crashes>>
  BY <1>0, NewManifestForm, WriteManifestForm DEF captureHistory
<1>2. PICK m \in Manifest :
         /\ manifest' = [manifest EXCEPT ![e] = m] /\ m.count = Len(lines[e])
         /\ CASE thread[t].pc = "b_manifest" -> m.status = "active"
              [] thread[t].pc = "e_manifest" -> m.hash = thread[t].hash
              [] OTHER -> m.status = thread[t].man.status /\ m.hash = thread[t].man.hash
  <2>1. CASE WriteNewManifest(t)
    BY <1>0, <2>1, NewManifestForm
  <2>2. CASE WriteManifest(t)
    BY <1>0, <2>2, WriteManifestForm
  <2>3. QED  BY <2>1, <2>2
<1>3. PICK s :
         /\ Moves(t, s) /\ s.ep = e
         /\ IF thread[t].pc = "b_manifest"
            THEN s.type # "episode_ended" /\ s.pc \in {"a_lock", "a_readindex"}
            ELSE s.pc = After[thread[t].pc] /\ s.type = thread[t].type /\ s.hash = thread[t].hash
  <2>1. CASE WriteNewManifest(t)
    BY <1>0, <2>1, NewManifestForm
  <2>2. CASE WriteManifest(t)
    BY <1>0, <2>2, WriteManifestForm DEF GoesOn
  <2>3. QED  BY <2>1, <2>2
<1>4. Broken(e)' = {}
  BY <1>1 DEF RecordsInv, Broken
<1>5. manifest'[e] = m /\ \A f \in Episodes : f # e => manifest'[f] = manifest[f]
  BY <1>1, <1>2 DEF CaptureType, CaptureTypeOK
<1>6. ASSUME NEW k PROVE EndedAt(e, k)' <=> EndedAt(e, k)
  BY <1>1 DEF EndedAt
<1>7. ASSUME RecordsOf(e) PROVE Progress(s, e)' /\ (s.pc \notin Closing => Queued(e)')
  <2>1. Progress(thread[t], e) /\ (thread[t].pc \notin Closing => Queued(e))
    BY <1>0, <1>1, <1>7, AloneAt
  <2>2. CASE thread[t].pc = "b_manifest"
    BY <1>1, <1>2, <1>3, <1>5, <2>2 DEF Progress, Queued, Closing, Appending
  <2>3. CASE thread[t].pc = "a_manifest"
    <3>1. Queued(e) /\ thread[t].man = manifest[e] /\ s.pc = "a_readindex"
          /\ m.status = manifest[e].status /\ m.hash = manifest[e].hash
      BY <1>2, <1>3, <2>1, <2>3, AfterIs DEF Progress, Closing
    <3>2. Queued(e)'
      BY <1>1, <1>5, <1>6, <3>1 DEF Queued
    <3>3. Progress(s, e)'
      <4>1. thread[t].type = "episode_ended" => EndedAt(e, Len(lines[e]))
        BY <2>1, <2>3 DEF Progress, Appending
      <4>2. manifest'[e].count = Len(lines[e]) /\ lines' = lines /\ s.type = thread[t].type
        BY <1>1, <1>2, <1>3, <1>5, <2>3
      <4>3. QED  BY <1>6, <3>1, <4>1, <4>2 DEF Progress, Closing, EndedAt
    <3>4. QED  BY <3>2, <3>3
  <2>4. CASE thread[t].pc = "e_manifest"
    <3>1. /\ thread[t].hash = Len(lines[e]) /\ EndedAt(e, Len(lines[e])) /\ s.pc = "e_readconv"
          /\ m.hash = thread[t].hash /\ s.hash = thread[t].hash
      BY <1>2, <1>3, <2>1, <2>4, AfterIs DEF Progress
    <3>2. Progress(s, e)'
      BY <1>1, <1>2, <1>5, <1>6, <3>1 DEF Progress, Closing, Appending
    <3>3. QED  BY <3>1, <3>2 DEF Closing
  <2>5. QED  BY <1>1, <2>2, <2>3, <2>4
<1>8. QED  BY <1>1, <1>3, <1>4, <1>5, <1>7, <1>0, RecordsStep

LEMMA UpsertRecords ==
    ASSUME CaptureType, RecordsInv, NEW t \in Threads, UpsertIndex(t), crashes' = 0
    PROVE  RecordsInv'
<1>0. PICK e : e = thread[t].ep
  OBVIOUS
<1>1. /\ thread[t].pc \in {"a_index", "e_index"} /\ e \in Episodes /\ thread[t].man \in Manifest
      /\ index' = [index EXCEPT ![e] = Counted(thread[t].man, e)]
      /\ UNCHANGED <<lines, manifest, queuedHash, met, crashes>>
  BY <1>0, UpsertForm DEF episodeFiles
<1>2. PICK s :
         /\ Moves(t, s)
         /\ \/ /\ thread[t].pc = "e_index" /\ s.pc = "e_enqueue" /\ s.ep = e
               /\ s.hash = thread[t].hash
            \/ /\ thread[t].pc = "a_index" /\ thread[t].type = "episode_ended"
               /\ s.pc = "e_readman" /\ s.ep = e
            \/ /\ thread[t].pc = "a_index" /\ s.ep = NoEpisode
  BY <1>0, UpsertForm, AfterIs, IdleType DEF GoesOn
<1>3. Broken(e)' = {}
  BY <1>1 DEF RecordsInv, Broken
<1>4. index'[e] = Counted(thread[t].man, e) /\ \A f \in Episodes : f # e => index'[f] = index[f]
  BY <1>1 DEF CaptureType, CaptureTypeOK
<1>5. ASSUME NEW k PROVE EndedAt(e, k)' <=> EndedAt(e, k)
  BY <1>1 DEF EndedAt
<1>6. Queued(e)' <=> Queued(e)
  BY <1>1, <1>5 DEF Queued
<1>7. ASSUME RecordsOf(e)
      PROVE  IF s.ep = e THEN Progress(s, e)' /\ (s.pc \notin Closing => Queued(e)')
             ELSE Indexed(e)' /\ Queued(e)'
  <2>1. Progress(thread[t], e) /\ (thread[t].pc \notin Closing => Queued(e))
    BY <1>0, <1>1, <1>7, AloneAt
  <2>2. thread[t].man = manifest[e] /\ manifest[e].count = Len(lines[e])
    BY <1>1, <2>1 DEF Progress, Closing
  <2>3. index'[e] = manifest[e]
    BY <1>1, <1>4, <2>2, CountedIs DEF CaptureType
  <2>4. CASE thread[t].pc = "e_index"
    <3>1. s.pc = "e_enqueue" /\ s.ep = e /\ s.hash = thread[t].hash
      BY <1>2, <2>4
    <3>2. thread[t].hash = manifest[e].hash /\ EndedAt(e, thread[t].hash)
      BY <2>1, <2>4 DEF Progress, Closing
    <3>3. Progress(s, e)'
      BY <1>1, <1>5, <2>2, <2>3, <3>1, <3>2 DEF Progress, Closing, Appending
    <3>4. QED  BY <3>1, <3>3 DEF Closing
  <2>5. CASE thread[t].pc = "a_index" /\ s.pc = "e_readman" /\ s.ep = e
             /\ thread[t].type = "episode_ended"
    <3>1. EndedAt(e, Len(lines[e])) /\ Queued(e)
      BY <2>1, <2>5 DEF Progress, Closing, Appending
    <3>2. Progress(s, e)'
      BY <1>1, <1>5, <2>5, <3>1 DEF Progress, Closing, Appending
    <3>3. QED  BY <1>6, <2>5, <3>1, <3>2
  <2>6. CASE thread[t].pc = "a_index" /\ s.ep = NoEpisode
    <3>1. Queued(e) /\ s.ep # e
      BY <1>1, <2>1, <2>6, CaptureAssumption DEF Closing
    <3>2. Indexed(e)'
      BY <1>1, <2>2, <2>3 DEF Indexed
    <3>3. QED  BY <1>6, <3>1, <3>2
  <2>7. QED  BY <1>2, <2>4, <2>5, <2>6
<1>8. QED  BY <1>0, <1>1, <1>2, <1>3, <1>4, <1>7, RecordsStep

LEMMA EnqueueRecords ==
    ASSUME CaptureType, RecordsInv, NEW t \in Threads, EnqueueExtraction(t), crashes' = 0
    PROVE  RecordsInv'
<1>0. PICK e : e = thread[t].ep
  OBVIOUS
<1>1. /\ thread[t].pc = "e_enqueue" /\ e \in Episodes /\ Moves(t, Idle)
      /\ queuedHash' = [queuedHash EXCEPT ![e] = thread[t].hash]
      /\ UNCHANGED <<lines, manifest, index, met, crashes>>
  BY <1>0, EnqueueForm DEF episodeFiles, captureHistory
<1>2. Broken(e)' = {}
  BY <1>1 DEF RecordsInv, Broken
<1>3. queuedHash'[e] = thread[t].hash /\ \A f \in Episodes : f # e => queuedHash'[f] = queuedHash[f]
  BY <1>1 DEF CaptureType, CaptureTypeOK
<1>4. Idle.ep = NoEpisode /\ Idle.ep # e
  BY <1>1, IdleType, CaptureAssumption
<1>5. ASSUME RecordsOf(e) PROVE Indexed(e)' /\ Queued(e)'
  <2>1. /\ index[e] = manifest[e] /\ manifest[e].count = Len(lines[e])
        /\ thread[t].hash = manifest[e].hash /\ EndedAt(e, thread[t].hash)
    BY <1>0, <1>1, <1>5, AloneAt DEF Progress, Closing
  <2>2. QED  BY <1>1, <1>3, <2>1 DEF Indexed, Queued, EndedAt
<1>. PICK s : s = Idle
  OBVIOUS
<1>6. Moves(t, s) /\ s.ep = NoEpisode /\ s.ep # e
  BY <1>1, <1>4
<1>7. QED  BY <1>0, <1>1, <1>2, <1>3, <1>5, <1>6, RecordsStep

LEMMA RecordsKept == CaptureType /\ RecordsInv /\ [CaptureNext]_captureVars => RecordsInv'
<1>. SUFFICES ASSUME CaptureType, RecordsInv, [CaptureNext]_captureVars, crashes' = 0
              PROVE  RecordsInv'
  BY DEF RecordsInv
<1>1. ASSUME NEW t \in Threads, NEW e \in Episodes,
             \/ t \in Clients /\ (BeginEpisode(t, e) \/ AppendEvent(t, e) \/ EndEpisode(t, e))
             \/ t = Job /\ ExpireEpisode(e)
      PROVE  RecordsInv'
  BY <1>1, ArrivalRecords
<1>2. CASE ListStaleEpisodes \/ (\E e \in Episodes : HoursPass(e)) \/ UNCHANGED captureVars
  <2>1. UNCHANGED <<lines, manifest, index, queuedHash, thread, met, crashes>>
    BY <1>2 DEF ListStaleEpisodes, HoursPass, captureVars, episodeFiles, captureHistory
  <2>2. QED  BY <2>1 DEF RecordsInv, RecordsOf, Broken, Progress, Untouched, Indexed, Queued, EndedAt
<1>3. ASSUME NEW t \in Threads, WriteNewManifest(t) \/ WriteManifest(t) PROVE RecordsInv'
  BY <1>3, ManifestRecords
<1>4. ASSUME NEW t \in Threads, Lock(t) PROVE RecordsInv'
  <2>1. PICK s : GoesOn(t, s)
    BY <1>4, LockForm
  <2>2. /\ thread[t].pc = "a_lock" /\ thread[t].ep \in Episodes
        /\ UNCHANGED <<lines, manifest, index, queuedHash, met, crashes>>
    BY <1>4, LockForm DEF captureHistory
  <2>3. QED  BY <2>1, <2>2, ReadingRecords DEF After, Closing
<1>5. ASSUME NEW t \in Threads, ReadConversation(t) \/ WriteConversation(t) PROVE RecordsInv'
  <2>1. PICK s : GoesOn(t, s) /\ s.hash = thread[t].hash
    BY <1>5, ConversationForm
  <2>2. /\ thread[t].pc \in {"b_list", "a_readconv", "a_list", "e_readconv", "e_list"}
        /\ UNCHANGED <<lines, manifest, index, queuedHash, met, crashes>>
    BY <1>5, ConversationForm DEF captureHistory
  <2>3. thread[t].ep \in Episodes
    BY <2>2, AtWork
  <2>4. QED  BY <2>1, <2>2, <2>3, ReadingRecords DEF After, Closing
<1>6. ASSUME NEW t \in Threads, ReadManifest(t) \/ ReadForIndex(t) PROVE RecordsInv'
  <2>1. PICK s : /\ GoesOn(t, s) /\ s.man = manifest[thread[t].ep]
                 /\ thread[t].pc = "e_readman" => s.hash = Len(lines[thread[t].ep])
                 /\ thread[t].pc = "e_readindex" => s.hash = thread[t].hash
    BY <1>6, ReadForm
  <2>2. /\ thread[t].pc \in {"a_readman", "e_readman", "a_readindex", "e_readindex"}
        /\ thread[t].ep \in Episodes
        /\ UNCHANGED <<lines, manifest, index, queuedHash, met, crashes>>
    BY <1>6, ReadForm DEF episodeFiles, captureHistory
  <2>3. QED  BY <2>1, <2>2, ReadingRecords DEF After, Closing
<1>7. ASSUME NEW t \in Threads, Crash(t) PROVE RecordsInv'
  <2>1. crashes' = crashes + 1
    BY <1>7, CrashForm
  <2>2. crashes \in 0..FaultBound
    BY DEF CaptureType, CaptureTypeOK
  <2>3. QED  BY <2>1, <2>2, CaptureAssumption
<1>8. Job \in Threads /\ Clients \subseteq Threads
  BY DEF Threads
<1>9. CASE CaptureNext
  BY <1>1, <1>2, <1>3, <1>4, <1>5, <1>6, <1>7, <1>8, <1>9, WriteRecords, UpsertRecords,
     EnqueueRecords DEF CaptureNext
<1>10. QED  BY <1>2, <1>9

LEMMA InitRecords == CaptureInit => RecordsInv
<1>. SUFFICES ASSUME CaptureInit, NEW e \in Episodes PROVE Broken(e) = {} /\ RecordsOf(e)
  BY DEF RecordsInv
<1>1. /\ lines[e] = <<>> /\ manifest[e] = NoManifest /\ \A t \in Threads : thread[t].ep = NoEpisode
      /\ NoEpisode # e
  BY IdleType, CaptureAssumption DEF CaptureInit
<1>2. manifest[e].status = "absent"
  BY <1>1 DEF NoManifest
<1>3. Broken(e) = {}
  BY <1>1 DEF Broken
<1>4. QED  BY <1>1, <1>2, <1>3 DEF RecordsOf, Indexed, Queued

LEMMA RecordsInvariant == CaptureSpec => [](CaptureType /\ RecordsInv)
<1>1. CaptureType /\ RecordsInv /\ [CaptureNext]_captureVars => (CaptureType /\ RecordsInv)'
  BY CaptureTypeStep, RecordsKept
<1>2. QED  BY <1>1, CaptureInitType, InitRecords, PTL DEF CaptureSpec

LEMMA RecordsHold == CaptureType /\ RecordsInv => EpisodeRecordsAgree
<1>. SUFFICES ASSUME CaptureType, RecordsInv, NEW e \in Episodes, Quiet(e),
                     manifest[e] # NoManifest
              PROVE  /\ index[e] = manifest[e] /\ index[e].count = Len(lines[e])
                     /\ manifest[e].status \in {"success", "partial"} =>
                          /\ queuedHash[e] = manifest[e].hash
                          /\ lines[e][queuedHash[e]].type = "episode_ended"
  BY DEF EpisodeRecordsAgree
<1>1. RecordsOf(e) /\ Untouched(e)
  BY DEF RecordsInv, Quiet, Untouched
<1>2. Indexed(e) /\ Queued(e)
  BY <1>1 DEF RecordsOf, Untouched
<1>3. QED  BY <1>2 DEF Indexed, Queued, EndedAt

\* When nobody is at work on an episode whose threads came one at a time, its
\* row in the index and its entry in the queue say what its manifest says:
\* whatever any number of threads did at other episodes between the steps of a
\* request that reads, writes and enqueues without a lock.
THEOREM RecordsAgree == CaptureSpec => []EpisodeRecordsAgree
BY RecordsHold, RecordsInvariant, PTL

-----------------------------------------------------------------------------
(***************************************************************************)
(* The projection of texts: what a sum over a sequence is.  F has the sums *)
(* of the first members of s.                                              *)
(***************************************************************************)
Total(s) == FoldLeft(LAMBDA a, b : a + b, 0, s)

Sums(F, s) ==
    /\ F \in [0..Len(s) -> Int] /\ F[0] = 0
    /\ \A i \in 1..Len(s) : F[i] = F[i - 1] + s[i]

LEMMA TotalSums == ASSUME NEW s \in Seq(Int) PROVE \E F : Sums(F, s) /\ Total(s) = F[Len(s)]
<1>1. PICK n : n = Len(s)
  OBVIOUS
<1>2. n \in Nat /\ DOMAIN s = 1..n /\ \A i \in 1..n : s[i] \in Int
  BY <1>1, LenProperties, ElementOfSeq
<1>. DEFINE step == [e \in (1..n) \X Int |-> e[2] + s[e[1]]]
            Eq(f) == f = [S \in SUBSET (DOMAIN s) |->
                            IF S = {} THEN 0 ELSE f[S \ {Max(S)}] + s[Max(S)]]
<1>3. StepFunction(1..n, Int, step) /\ \A k \in 1..n, a \in Int : step[<<k, a>>] = a + s[k]
  BY <1>2 DEF StepFunction
<1>. HIDE DEF step
<1>4. ASSUME NEW S \in (SUBSET (1..n)) \ {{}} PROVE Max(S) \in 1..n
  BY <1>2, GreatestPlace
<1>5. \E f : Eq(f)
  <2>1. PICK f \in [SUBSET (1..n) -> Int] : Loops(f, n, Int, 0, step)
    <3>1. n \in Nat /\ 0 \in Int /\ StepFunction(1..n, Int, step)
      BY <1>2, <1>3
    <3>2. QED  BY <3>1, LoopDefined, Zenon
  <2>2. ASSUME NEW S \in SUBSET (1..n), S # {} PROVE f[S] = f[S \ {Max(S)}] + s[Max(S)]
    <3>1. PICK x, a : x = Max(S) /\ a = f[S \ {x}]
      OBVIOUS
    <3>2. x \in 1..n
      BY <1>4, <2>2, <3>1
    <3>3. a \in Int /\ S \ {x} \in SUBSET (1..n)
      BY <3>1
    <3>4. f[S] = step[<<x, a>>]
      BY <2>1, <2>2, <3>1, <3>3 DEF Loops
    <3>5. QED  BY <1>3, <3>1, <3>2, <3>3, <3>4
  <2>3. f[{}] = 0
    BY <2>1 DEF Loops
  <2>4. f = [S \in SUBSET (1..n) |-> f[S]]
    OBVIOUS
  <2>5. Eq(f)
    BY <1>2, <2>2, <2>3, <2>4
  <2>6. QED  BY <2>5
<1>6. PICK f : f = CHOOSE g : Eq(g)
  OBVIOUS
<1>7. Eq(f)
  BY <1>5, <1>6
<1>8. Total(s) = f[1..n]
  BY <1>2, <1>6 DEF Total, FoldLeft, MapThenFoldSet
<1>9. Loops(f, n, Int, 0, step)
  <2>1. f[{}] = 0
    BY <1>2, <1>7
  <2>2. ASSUME NEW S \in (SUBSET (1..n)) \ {{}}, f[S \ {Max(S)}] \in Int
        PROVE  f[S] = step[<<Max(S), f[S \ {Max(S)}]>>]
    <3>1. PICK x, a : x = Max(S) /\ a = f[S \ {x}]
      OBVIOUS
    <3>2. x \in 1..n /\ a \in Int
      BY <1>4, <2>2, <3>1
    <3>3. f[S] = a + s[x]
      BY <1>2, <1>7, <3>1
    <3>4. QED  BY <1>3, <3>1, <3>2, <3>3
  <2>3. QED  BY <2>1, <2>2 DEF Loops
<1>10. PICK F : F = [i \in 0..n |-> f[1..i]]
  OBVIOUS
<1>11. IsRun(F, n, Int, 0, step)
  <2>1. n \in Nat /\ 0 \in Int /\ StepFunction(1..n, Int, step)
    BY <1>2, <1>3
  <2>. HIDE DEF Eq
  <2>2. IsRun([i \in 0..n |-> f[1..i]], n, Int, 0, step)
    BY <1>9, <2>1, LoopRuns, Zenon
  <2>3. QED  BY <1>10, <2>2
<1>12. F \in [0..n -> Int] /\ F[0] = 0 /\ \A i \in 1..n : F[i] = step[<<i, F[i - 1]>>]
  BY <1>11 DEF IsRun
<1>13. ASSUME NEW i \in 1..n PROVE F[i] = F[i - 1] + s[i]
  <2>1. i - 1 \in 0..n
    BY <1>2
  <2>2. PICK a : a = F[i - 1]
    OBVIOUS
  <2>3. a \in Int /\ F[i] = step[<<i, a>>]
    BY <1>12, <2>1, <2>2
  <2>4. QED  BY <1>3, <2>2, <2>3
<1>14. Sums(F, s)
  BY <1>1, <1>12, <1>13 DEF Sums
<1>15. F[n] = f[1..n]
  BY <1>2, <1>10
<1>16. QED  BY <1>1, <1>8, <1>14, <1>15

\* One more member adds its value.
LEMMA TotalGrows ==
    ASSUME NEW s \in Seq(Int), NEW x \in Int
    PROVE  Total(Append(s, x)) = Total(s) + x
<1>1. PICK t : t = Append(s, x)
  OBVIOUS
<1>2. PICK n : n = Len(s)
  OBVIOUS
<1>3. /\ t \in Seq(Int) /\ Len(t) = n + 1 /\ n \in Nat /\ t[n + 1] = x
      /\ \A i \in 1..n : t[i] = s[i]
  BY <1>1, <1>2, AppendProperties, LenProperties
<1>4. PICK F : Sums(F, s) /\ Total(s) = F[n]
  BY <1>2, TotalSums
<1>5. PICK G : Sums(G, t) /\ Total(t) = G[n + 1]
  BY <1>3, TotalSums
<1>6. F[0] = 0 /\ \A i \in 1..n : F[i] = F[i - 1] + s[i]
  BY <1>2, <1>4 DEF Sums
<1>7. G[0] = 0 /\ \A i \in 1..n + 1 : G[i] = G[i - 1] + t[i]
  BY <1>3, <1>5 DEF Sums
<1>8. PICK A : A = {i \in 0..n : F[i] = G[i]}
  OBVIOUS
<1>9. 0 \in A
  BY <1>3, <1>6, <1>7, <1>8
<1>10. ASSUME NEW i \in 1..n, i - 1 \in A PROVE i \in A
  <2>1. i \in 0..n /\ i \in 1..n + 1 /\ F[i - 1] = G[i - 1]
    BY <1>3, <1>8, <1>10
  <2>2. F[i] = G[i]
    BY <1>3, <1>6, <1>7, <2>1
  <2>3. QED  BY <1>8, <2>1, <2>2
<1>11. n \in A
  <2>1. \A i \in 0..n : i \in A
    BY <1>3, <1>9, <1>10, CountUp
  <2>2. QED  BY <1>3, <2>1
<1>12. n + 1 \in 1..n + 1 /\ n + 1 - 1 = n
  BY <1>3
<1>13. G[n + 1] = G[n] + x
  BY <1>3, <1>7, <1>12
<1>14. QED  BY <1>1, <1>4, <1>5, <1>8, <1>11, <1>13


\* A member more leaves the parts of a sequence, and grows those that end it.
LEMMA PartStays ==
    ASSUME NEW D, NEW s \in Seq(D), NEW x \in D, NEW lo \in Nat \ {0}, NEW hi \in Nat, hi <= Len(s)
    PROVE  SubSeq(Append(s, x), lo, hi) = SubSeq(s, lo, hi)
<1>1. PICK r, n : r = Append(s, x) /\ n = Len(s)
  OBVIOUS
<1>2. /\ r \in Seq(D) /\ Len(r) = n + 1 /\ n \in Nat /\ r[n + 1] = x /\ hi <= n
      /\ \A i \in 1..n : r[i] = s[i] /\ s[i] \in D
  BY <1>1, AppendProperties, LenProperties, ElementOfSeq
<1>3. SubSeq(r, lo, hi) = SubSeq(s, lo, hi)
  <2>1. \A i \in lo..hi : r[i] = s[i] /\ s[i] \in D /\ r[i] \in D
    BY <1>2
  <2>2. PICK t, u : t = SubSeq(s, lo, hi) /\ u = SubSeq(r, lo, hi)
    OBVIOUS
  <2>3. /\ t \in Seq(D) /\ Len(t) = IF lo <= hi THEN hi - lo + 1 ELSE 0
        /\ \A i \in 1..hi - lo + 1 : t[i] = s[lo + i - 1]
    BY <2>1, <2>2, SubSeqProperties
  <2>4. /\ u \in Seq(D) /\ Len(u) = IF lo <= hi THEN hi - lo + 1 ELSE 0
        /\ \A i \in 1..hi - lo + 1 : u[i] = r[lo + i - 1]
    BY <2>1, <2>2, SubSeqProperties
  <2>5. \A i \in 1..Len(t) : t[i] = u[i]
    <3>1. ASSUME NEW i \in 1..Len(t) PROVE i \in 1..hi - lo + 1 /\ lo + i - 1 \in lo..hi
      BY <2>3
    <3>2. QED  BY <2>1, <2>3, <2>4, <3>1
  <2>6. t = u
    BY <2>3, <2>4, <2>5, SeqEqual
  <2>7. QED  BY <2>2, <2>6
<1>4. QED  BY <1>1, <1>3

LEMMA PartGrows ==
    ASSUME NEW D, NEW s \in Seq(D), NEW x \in D, NEW lo \in 1..Len(s) + 1
    PROVE  /\ SubSeq(s, lo, Len(s)) \in Seq(D)
           /\ lo <= Len(s) => Len(SubSeq(s, lo, Len(s))) > 0
           /\ SubSeq(Append(s, x), lo, Len(s) + 1) = Append(SubSeq(s, lo, Len(s)), x)
<1>1. PICK r, n : r = Append(s, x) /\ n = Len(s)
  OBVIOUS
<1>2. /\ r \in Seq(D) /\ Len(r) = n + 1 /\ n \in Nat /\ r[n + 1] = x /\ lo \in 1..n + 1
      /\ \A i \in 1..n : r[i] = s[i] /\ s[i] \in D
  BY <1>1, AppendProperties, LenProperties, ElementOfSeq
<1>3. PICK t : t = SubSeq(s, lo, n)
  OBVIOUS
<1>4. /\ t \in Seq(D) /\ Len(t) = IF lo <= n THEN n - lo + 1 ELSE 0
      /\ \A i \in 1..n - lo + 1 : t[i] = s[lo + i - 1]
  <2>1. lo \in Int /\ n \in Int /\ \A i \in lo..n : s[i] \in D
    BY <1>2
  <2>2. QED  BY <1>3, <2>1, SubSeqProperties
<1>5. SubSeq(r, lo, n + 1) = Append(t, x)
  <2>1. PICK m : m = n + 1
    OBVIOUS
  <2>2. m \in Int /\ lo \in Int /\ lo <= m /\ Len(t) = m - lo
    BY <1>2, <1>4, <2>1
  <2>3. PICK u, v : u = SubSeq(r, lo, m) /\ v = Append(t, x)
    OBVIOUS
  <2>4. /\ u \in Seq(D) /\ Len(u) = m - lo + 1
        /\ \A i \in 1..m - lo + 1 : u[i] = r[lo + i - 1]
    <3>1. \A i \in lo..m : r[i] \in D
      BY <1>2, <2>1
    <3>2. /\ u \in Seq(D) /\ Len(u) = IF lo <= m THEN m - lo + 1 ELSE 0
          /\ \A i \in 1..m - lo + 1 : u[i] = r[lo + i - 1]
      BY <2>2, <2>3, <3>1, SubSeqProperties
    <3>3. QED  BY <2>2, <3>2
  <2>5. /\ v \in Seq(D) /\ Len(v) = Len(t) + 1 /\ v[Len(t) + 1] = x
        /\ \A i \in 1..Len(t) : v[i] = t[i]
    BY <1>4, <2>3, AppendProperties
  <2>6. ASSUME NEW i \in 1..m - lo + 1 PROVE v[i] = u[i]
    <3>1. CASE i = m - lo + 1
      <4>1. lo + i - 1 = m
        BY <2>2, <3>1
      <4>2. u[i] = r[m] /\ v[i] = x
        BY <2>2, <2>4, <2>5, <3>1, <4>1
      <4>3. QED  BY <1>2, <2>1, <4>2
    <3>2. CASE i # m - lo + 1
      <4>1. i \in 1..m - lo /\ i \in 1..n - lo + 1 /\ lo + i - 1 \in 1..n
        BY <1>2, <2>1, <2>2, <3>2
      <4>2. QED  BY <1>2, <1>4, <2>2, <2>4, <2>5, <4>1
    <3>3. QED  BY <3>1, <3>2
  <2>7. u = v
    BY <2>2, <2>4, <2>5, <2>6, SeqEqual
  <2>8. QED  BY <2>1, <2>3, <2>7
<1>6. lo <= n => Len(t) > 0
  BY <1>2, <1>4
<1>7. QED  BY <1>1, <1>3, <1>4, <1>5, <1>6

\* A paragraph more leaves the tokens of earlier ones, and adds its own.
LEMMA TokensGrow ==
    ASSUME NEW ps \in Seq(Int), NEW x \in Int, NEW lo \in Nat \ {0}, NEW hi \in Nat, hi <= Len(ps)
    PROVE  /\ Tokens(Append(ps, x), lo, hi) = Tokens(ps, lo, hi)
           /\ lo <= Len(ps) => Tokens(Append(ps, x), lo, Len(ps) + 1) = Tokens(ps, lo, Len(ps)) + x
<1>1. PICK qs, n : qs = Append(ps, x) /\ n = Len(ps)
  OBVIOUS
<1>2. n \in Nat
  BY <1>1
<1>3. PICK s : s = SubSeq(ps, lo, n)
  OBVIOUS
<1>4. /\ SubSeq(qs, lo, hi) = SubSeq(ps, lo, hi) /\ s \in Seq(Int)
      /\ lo <= n + 1 => SubSeq(qs, lo, n + 1) = Append(s, x)
  <2>1. SubSeq(Append(ps, x), lo, hi) = SubSeq(ps, lo, hi)
    BY PartStays
  <2>2. SubSeq(ps, lo, Len(ps)) \in Seq(Int)
    <3>1. \A i \in lo..Len(ps) : ps[i] \in Int
      BY ElementOfSeq
    <3>2. QED  BY <3>1, SubSeqProperties
  <2>3. ASSUME lo <= Len(ps) + 1
        PROVE  SubSeq(Append(ps, x), lo, Len(ps) + 1) = Append(SubSeq(ps, lo, Len(ps)), x)
    <3>1. lo \in 1..Len(ps) + 1
      BY <2>3
    <3>2. QED  BY <3>1, PartGrows
  <2>4. QED  BY <1>1, <1>3, <2>1, <2>2, <2>3
<1>5. Total(Append(s, x)) = Total(s) + x
  BY <1>4, TotalGrows
<1>6. \A rs, a, b : Tokens(rs, a, b) = Total(SubSeq(rs, a, b))
  BY DEF Tokens, Total
<1>7. lo <= n => lo <= n + 1
  BY <1>2
<1>. HIDE DEF Total
<1>8. QED  BY <1>1, <1>3, <1>4, <1>5, <1>6, <1>7

-----------------------------------------------------------------------------
(* The windows of a text.                                                  *)

FirstNew(ws, k) == IF k = 1 THEN 1 ELSE ws[k - 1].hi + 1
Linked(v, w) == v.lo <= w.lo /\ v.hi < w.hi /\ w.lo <= v.hi + 1
Fitting(ps, w, new) == Tokens(ps, w.lo, w.hi) > Slack => w.hi = new

\* The windows ws go through ps from the first paragraph on, and w goes on from them.
Covered(ps, ws) ==
    /\ \A k \in 1..Len(ws) : ws[k].hi <= Len(ps) /\ Fitting(ps, ws[k], FirstNew(ws, k))
    /\ \A k \in 1..Len(ws) - 1 : Linked(ws[k], ws[k + 1])
    /\ ws # <<>> => ws[1].lo = 1

Continues(ps, ws, w) ==
    /\ w.lo <= w.hi /\ w.hi <= Len(ps) /\ Fitting(ps, w, FirstNew(ws, Len(ws) + 1))
    /\ IF ws = <<>> THEN w.lo = 1 ELSE Linked(ws[Len(ws)], w)

LEMMA CoverGrows ==
    ASSUME NEW ps, NEW ws \in Seq(Interval), NEW w \in Interval, Covered(ps, ws), Continues(ps, ws, w)
    PROVE  Covered(ps, Append(ws, w))
<1>1. PICK n, us : n = Len(ws) /\ us = Append(ws, w)
  OBVIOUS
<1>2. /\ n \in Nat /\ us \in Seq(Interval) /\ Len(us) = n + 1 /\ us[n + 1] = w
      /\ \A k \in 1..n : us[k] = ws[k]
  BY <1>1, AppendProperties, LenProperties
<1>3. ws = <<>> <=> n = 0
  BY <1>1, EmptySeq
<1>4. \A k \in 1..n + 1 : FirstNew(us, k) = FirstNew(ws, k)
  <2>1. ASSUME NEW k \in 1..n + 1, k # 1 PROVE us[k - 1] = ws[k - 1]
    BY <1>2, <2>1
  <2>2. QED  BY <2>1 DEF FirstNew
<1>. HIDE DEF FirstNew
<1>5. ASSUME NEW k \in 1..n + 1 PROVE us[k].hi <= Len(ps) /\ Fitting(ps, us[k], FirstNew(us, k))
  <2>1. CASE k = n + 1
    BY <1>1, <1>2, <1>4, <2>1 DEF Continues
  <2>2. CASE k # n + 1
    <3>1. k \in 1..n
      BY <1>2, <2>2
    <3>2. QED  BY <1>1, <1>2, <1>4, <3>1 DEF Covered
  <2>3. QED  BY <2>1, <2>2
<1>6. ASSUME NEW k \in 1..n PROVE Linked(us[k], us[k + 1])
  <2>1. CASE k = n
    <3>1. ws # <<>> /\ us[n] = ws[n]
      BY <1>2, <1>3, <2>1
    <3>2. QED  BY <1>1, <1>2, <2>1, <3>1 DEF Continues
  <2>2. CASE k # n
    <3>1. k \in 1..n - 1 /\ k + 1 \in 1..n
      BY <1>2, <2>2
    <3>2. QED  BY <1>1, <1>2, <3>1 DEF Covered
  <2>3. QED  BY <2>1, <2>2
<1>7. us[1].lo = 1
  <2>1. CASE n = 0
    BY <1>2, <1>3, <2>1 DEF Continues
  <2>2. CASE n # 0
    <3>1. 1 \in 1..n /\ ws # <<>>
      BY <1>2, <1>3, <2>2
    <3>2. QED  BY <1>2, <3>1 DEF Covered
  <2>3. QED  BY <2>1, <2>2
<1>8. Len(us) - 1 = n
  BY <1>2
<1>9. Covered(ps, us)
  BY <1>2, <1>5, <1>6, <1>7, <1>8 DEF Covered
<1>10. QED  BY <1>1, <1>9

LEMMA CoverStays ==
    ASSUME NEW ps \in Seq(Int), NEW x \in Int, NEW ws \in Seq(Interval), Covered(ps, ws)
    PROVE  Covered(Append(ps, x), ws)
<1>1. PICK qs, n : qs = Append(ps, x) /\ n = Len(ps)
  OBVIOUS
<1>2. n \in Nat /\ Len(qs) = n + 1
  BY <1>1, AppendProperties, LenProperties
<1>3. ASSUME NEW k \in 1..Len(ws) PROVE ws[k].hi <= n + 1 /\ Fitting(qs, ws[k], FirstNew(ws, k))
  <2>1. PICK w : w = ws[k]
    OBVIOUS
  <2>2. w \in Interval
    BY <2>1, ElementOfSeq
  <2>3. w.lo \in Nat \ {0} /\ w.hi \in Nat /\ w.hi <= n
    <3>1. w.hi <= n
      BY <1>1, <2>1 DEF Covered
    <3>2. QED  BY <2>2, <3>1, ProjectionAssumption DEF Interval
  <2>4. PICK lo, hi : lo = w.lo /\ hi = w.hi
    OBVIOUS
  <2>5. Tokens(qs, lo, hi) = Tokens(ps, lo, hi)
    <3>1. lo \in Nat \ {0} /\ hi \in Nat /\ hi <= Len(ps)
      BY <1>1, <2>3, <2>4
    <3>2. Tokens(Append(ps, x), lo, hi) = Tokens(ps, lo, hi)
      BY <3>1, TokensGrow
    <3>3. QED  BY <1>1, <3>2
  <2>6. Fitting(ps, w, FirstNew(ws, k))
    BY <2>1 DEF Covered
  <2>7. Fitting(qs, w, FirstNew(ws, k))
    BY <2>4, <2>5, <2>6 DEF Fitting
  <2>8. QED  BY <1>2, <2>1, <2>3, <2>7
<1>4. Covered(qs, ws)
  BY <1>2, <1>3 DEF Covered
<1>5. QED  BY <1>1, <1>4

\* The overlap begins in the window it ends, at its last paragraph or so that it
\* fits; without one it is empty.
LEMMA OverlapFound ==
    ASSUME NEW ps \in Seq(Int), NEW w \in Interval, w.lo <= w.hi, w.hi <= Len(ps)
    PROVE  OverlapStart(ps, w) \in w.lo..w.hi + 1
<1>1. w.lo \in Nat \ {0} /\ w.hi \in Nat
  BY ProjectionAssumption DEF Interval
<1>0. ASSUME NEW i \in w.lo..w.hi PROVE Tokens(ps, i, w.hi) \in Int
  <2>1. PICK lo, hi : lo = i /\ hi = w.hi
    OBVIOUS
  <2>2. lo \in Int /\ hi \in Int /\ \A j \in lo..hi : ps[j] \in Int
    BY <1>1, <2>1, LenProperties, ElementOfSeq
  <2>3. PICK s : s = SubSeq(ps, lo, hi)
    OBVIOUS
  <2>4. s \in Seq(Int)
    BY <2>2, <2>3, SubSeqProperties
  <2>5. PICK F : Sums(F, s) /\ Total(s) = F[Len(s)]
    BY <2>4, TotalSums
  <2>6. Total(s) \in Int
    BY <2>4, <2>5 DEF Sums
  <2>7. QED  BY <2>1, <2>3, <2>6 DEF Tokens, Total
<1>2. CASE TokenOverlap <= 0
  BY <1>1, <1>2 DEF OverlapStart
<1>3. CASE ~(TokenOverlap <= 0)
  <2>. DEFINE Short(i) == i = w.hi \/ Tokens(ps, i, w.hi) <= TokenOverlap
              Start(i) == Short(i) /\ (i = w.lo \/ Tokens(ps, i - 1, w.hi) > TokenOverlap)
  <2>1. \E i \in w.lo..w.hi : Start(i)
    <3>1. PICK A : A = {i \in w.lo..w.hi : Short(i)}
      OBVIOUS
    <3>2. w.hi \in A /\ A \in SUBSET Nat
      BY <1>1, <3>1
    <3>3. PICK i \in A : \A j \in A : i <= j
      BY <3>2, LeastMember
    <3>4. i = w.lo \/ i - 1 \notin A
      BY <3>2, <3>3
    <3>5. i \in w.lo..w.hi /\ Short(i)
      BY <3>1, <3>3
    <3>6. ASSUME i # w.lo PROVE Tokens(ps, i - 1, w.hi) > TokenOverlap
      <4>1. i - 1 \in w.lo..w.hi
        BY <1>1, <3>5, <3>6
      <4>2. ~(Tokens(ps, i - 1, w.hi) <= TokenOverlap)
        BY <3>1, <3>4, <3>6, <4>1
      <4>3. PICK k, T : k = i - 1 /\ T = Tokens(ps, k, w.hi)
        OBVIOUS
      <4>4. T \in Int /\ TokenOverlap \in Int
        BY <1>0, <4>1, <4>3, ProjectionAssumption
      <4>5. QED  BY <4>2, <4>3, <4>4
    <3>7. QED  BY <3>5, <3>6
  <2>2. OverlapStart(ps, w) = CHOOSE i \in w.lo..w.hi : Start(i)
    BY <1>3 DEF OverlapStart
  <2>3. OverlapStart(ps, w) \in w.lo..w.hi
    <3>. HIDE DEF Start
    <3>1. QED  BY <2>1, <2>2
  <2>4. QED  BY <1>1, <2>3
<1>4. QED  BY <1>2, <1>3

WindowInv ==
    /\ paragraphs \in Seq(ParagraphSizes) /\ Len(paragraphs) <= ParagraphBound
    /\ parts \in Interval /\ parts.hi = Len(paragraphs)
    /\ windows \in Seq(Interval) /\ ended \in BOOLEAN
    /\ Covered(paragraphs, windows)
    /\ IF parts.hi = 0 THEN windows = <<>> /\ parts.lo = 1
       ELSE IF ended THEN windows # <<>> /\ windows[Len(windows)].hi = parts.hi
       ELSE Continues(paragraphs, windows, parts)

LEMMA NoWindows == ASSUME NEW ps PROVE <<>> \in Seq(Interval) /\ Covered(ps, <<>>)
<1>1. <<>> \in Seq(Interval) /\ Len(<<>>) = 0
  BY EmptySeq
<1>2. 1..Len(<<>>) = {} /\ 1..Len(<<>>) - 1 = {}
  BY <1>1
<1>3. QED  BY <1>1, <1>2 DEF Covered

LEMMA TextStarts == ProjectionInit => WindowInv
<1>. SUFFICES ASSUME ProjectionInit PROVE WindowInv
  OBVIOUS
<1>1. /\ paragraphs = <<>> /\ parts = [lo |-> 1, hi |-> 0] /\ windows = <<>> /\ ended = FALSE
  BY DEF ProjectionInit
<1>2. paragraphs \in Seq(ParagraphSizes) /\ Len(paragraphs) = 0
  BY <1>1, EmptySeq
<1>3. parts \in Interval /\ parts.hi = 0 /\ parts.lo = 1
  BY <1>1, ProjectionAssumption DEF Interval
<1>4. windows \in Seq(Interval) /\ Covered(paragraphs, windows)
  BY <1>1, NoWindows
<1>5. Len(paragraphs) <= ParagraphBound /\ parts.hi = Len(paragraphs)
  BY <1>2, <1>3, ProjectionAssumption
<1>6. windows = <<>> /\ ended \in BOOLEAN
  BY <1>1
<1>. HIDE DEF ProjectionInit
<1>7. QED  BY ONLY <1>2, <1>3, <1>4, <1>5, <1>6 DEF WindowInv

LEMMA TakenOn ==
    ASSUME WindowInv, NEW size \in ParagraphSizes, TakeParagraph(size)
    PROVE  WindowInv'
<1>1. PICK n, qs : n = Len(paragraphs) /\ qs = Append(paragraphs, size)
  OBVIOUS
<1>2. /\ ~ended /\ n < ParagraphBound /\ paragraphs' = qs /\ ended' = ended /\ ended = FALSE
      /\ n \in Nat /\ size \in Int /\ paragraphs \in Seq(Int)
      /\ qs \in Seq(ParagraphSizes) /\ Len(qs) = n + 1
  <2>1. ParagraphSizes \subseteq Int
    BY ProjectionAssumption
  <2>2. paragraphs \in Seq(Int)
    BY <2>1, SeqMonotonic DEF WindowInv
  <2>3. qs \in Seq(ParagraphSizes) /\ Len(qs) = n + 1 /\ n \in Nat
    BY <1>1, AppendProperties, LenProperties DEF WindowInv
  <2>4. QED  BY <1>1, <2>1, <2>2, <2>3 DEF TakeParagraph, WindowInv
<1>3. /\ parts.hi = n /\ parts.lo \in 1..ParagraphBound /\ parts \in Interval
      /\ windows \in Seq(Interval)
  BY <1>1 DEF WindowInv, Interval
<1>4. Covered(qs, windows)
  BY <1>1, <1>2, <1>3, CoverStays DEF WindowInv
<1>5. PICK ws, w : ws = windows' /\ w = parts'
  OBVIOUS
<1>6. /\ ws \in Seq(Interval) /\ Covered(qs, ws) /\ w \in Interval /\ w.hi = n + 1
      /\ Continues(qs, ws, w)
  <2>1. CASE Overflows(paragraphs, parts, size)
    <3>1. parts.lo <= parts.hi /\ n # 0
      BY <1>3, <2>1, ProjectionAssumption DEF Overflows
    <3>2. /\ ws = Append(windows, parts)
          /\ w = [lo |-> OverlapStart(paragraphs, parts), hi |-> n + 1]
      BY <1>3, <1>5, <2>1 DEF TakeParagraph
    <3>3. Continues(paragraphs, windows, parts)
      BY <1>2, <1>3, <3>1 DEF WindowInv
    <3>4. OverlapStart(paragraphs, parts) \in parts.lo..n + 1
      BY <1>1, <1>2, <1>3, <3>1, OverlapFound
    <3>5. w \in Interval /\ w.hi = n + 1 /\ w.lo \in parts.lo..n + 1
      BY <1>2, <1>3, <3>2, <3>4, ProjectionAssumption DEF Interval
    <3>6. ws \in Seq(Interval) /\ Len(ws) = Len(windows) + 1 /\ ws[Len(ws)] = parts /\ ws # <<>>
      BY <1>3, <3>2, AppendProperties
    <3>7. Continues(qs, windows, parts)
      <4>1. Tokens(qs, parts.lo, parts.hi) = Tokens(paragraphs, parts.lo, parts.hi)
        <5>1. PICK lo, hi : lo = parts.lo /\ hi = parts.hi
          OBVIOUS
        <5>2. lo \in Nat \ {0} /\ hi \in Nat /\ hi <= Len(paragraphs)
          BY <1>1, <1>2, <1>3, <5>1
        <5>3. Tokens(Append(paragraphs, size), lo, hi) = Tokens(paragraphs, lo, hi)
          BY <1>2, <5>2, TokensGrow
        <5>4. QED  BY <1>1, <5>1, <5>3
      <4>2. Fitting(qs, parts, FirstNew(windows, Len(windows) + 1))
        BY <3>3, <4>1 DEF Continues, Fitting
      <4>3. parts.hi <= Len(qs)
        BY <1>2, <1>3
      <4>4. QED  BY <3>3, <4>2, <4>3 DEF Continues
    <3>8. Covered(qs, ws)
      BY <1>3, <1>4, <3>2, <3>7, CoverGrows
    <3>9. FirstNew(ws, Len(ws) + 1) = n + 1
      <4>1. Len(ws) \in Nat /\ Len(ws) # 0
        BY <3>6, LenProperties, EmptySeq
      <4>2. Len(ws) + 1 # 1 /\ Len(ws) + 1 - 1 = Len(ws)
        BY <4>1
      <4>3. FirstNew(ws, Len(ws) + 1) = ws[Len(ws)].hi + 1
        BY <4>2 DEF FirstNew
      <4>4. QED  BY <1>3, <3>6, <4>3
    <3>10. Linked(parts, w)
      BY <1>2, <1>3, <3>5 DEF Linked
    <3>11. Continues(qs, ws, w)
      BY <1>2, <1>3, <3>5, <3>6, <3>9, <3>10 DEF Continues, Fitting
    <3>12. QED  BY <3>5, <3>6, <3>8, <3>11
  <2>2. CASE ~Overflows(paragraphs, parts, size)
    <3>1. ws = windows /\ w = [parts EXCEPT !.hi = @ + 1]
      BY <1>5, <2>2 DEF TakeParagraph
    <3>2. w \in Interval /\ w.lo = parts.lo /\ w.hi = n + 1
      <4>1. PICK lo : lo = parts.lo
        OBVIOUS
      <4>2. parts = [lo |-> lo, hi |-> n]
        BY <1>3, <4>1 DEF Interval
      <4>3. w = [lo |-> lo, hi |-> n + 1]
        BY <3>1, <4>2
      <4>4. lo \in 1..ParagraphBound /\ n + 1 \in 0..ParagraphBound
        BY <1>2, <1>3, <4>1, ProjectionAssumption
      <4>5. QED  BY <4>1, <4>3, <4>4 DEF Interval
    <3>3. w.lo <= w.hi
      <4>1. CASE n = 0
        BY <1>3, <3>2, <4>1 DEF WindowInv
      <4>2. CASE n # 0
        BY <1>2, <1>3, <3>2, <4>2 DEF WindowInv, Continues
      <4>3. QED  BY <4>1, <4>2
    <3>4. CASE n = 0
      <4>1. ws = <<>> /\ w.lo = 1
        BY <1>3, <3>1, <3>2, <3>4 DEF WindowInv
      <4>2. Len(ws) = 0
        BY <4>1, EmptySeq
      <4>3. FirstNew(ws, Len(ws) + 1) = 1
        BY <4>2 DEF FirstNew
      <4>4. Continues(qs, ws, w)
        BY <1>2, <3>2, <3>3, <3>4, <4>1, <4>3 DEF Continues, Fitting
      <4>5. QED  BY <1>3, <1>4, <3>1, <3>2, <4>4
    <3>5. CASE n # 0
      <4>1. Continues(paragraphs, windows, parts)
        BY <1>2, <1>3, <3>5 DEF WindowInv
      <4>2. Tokens(qs, w.lo, w.hi) = Tokens(paragraphs, parts.lo, parts.hi) + size
        <5>1. PICK lo : lo = parts.lo
          OBVIOUS
        <5>2. lo \in Nat \ {0} /\ lo <= Len(paragraphs)
          BY <1>1, <1>2, <1>3, <4>1, <5>1 DEF Continues
        <5>3. 0 \in Nat /\ 0 <= Len(paragraphs)
          BY <1>1, <1>2
        <5>4. Tokens(Append(paragraphs, size), lo, Len(paragraphs) + 1)
                = Tokens(paragraphs, lo, Len(paragraphs)) + size
          BY <1>2, <5>2, <5>3, TokensGrow
        <5>5. QED  BY <1>1, <1>3, <3>2, <5>1, <5>4
      <4>3. ~(Tokens(qs, w.lo, w.hi) > Slack)
        BY <1>3, <2>2, <4>1, <4>2, ProjectionAssumption DEF Overflows, Continues
      <4>4. ASSUME windows # <<>> PROVE Linked(windows[Len(windows)], w)
        <5>1. PICK v : v = windows[Len(windows)]
          OBVIOUS
        <5>2. Linked(v, parts)
          BY <4>1, <4>4, <5>1 DEF Continues
        <5>3. v.hi \in Nat
          <6>1. Len(windows) \in 1..Len(windows)
            BY <1>3, <4>4, EmptySeq
          <6>2. v \in Interval
            BY <1>3, <5>1, <6>1, ElementOfSeq
          <6>3. QED  BY <6>2, ProjectionAssumption DEF Interval
        <5>4. Linked(v, w)
          BY <1>2, <1>3, <3>2, <5>2, <5>3 DEF Linked
        <5>5. QED  BY <5>1, <5>4
      <4>5. windows = <<>> => w.lo = 1
        BY <3>2, <4>1 DEF Continues
      <4>6. Continues(qs, ws, w)
        BY <1>2, <3>1, <3>2, <3>3, <4>3, <4>4, <4>5 DEF Continues, Fitting
      <4>7. QED  BY <1>3, <1>4, <3>1, <3>2, <4>6
    <3>6. QED  BY <3>4, <3>5
  <2>3. QED  BY <2>1, <2>2
<1>7. n + 1 <= ParagraphBound /\ n + 1 # 0
  BY <1>2, ProjectionAssumption
<1>8. QED  BY <1>2, <1>5, <1>6, <1>7 DEF WindowInv

LEMMA TextEnds == ASSUME WindowInv, EndText PROVE WindowInv'
<1>1. /\ ~ended /\ ended' = TRUE /\ paragraphs' = paragraphs /\ parts' = parts
      /\ windows' = IF parts.hi >= parts.lo THEN Append(windows, parts) ELSE windows
  BY DEF EndText
<1>2. parts \in Interval /\ windows \in Seq(Interval) /\ Covered(paragraphs, windows)
  BY DEF WindowInv
<1>3. parts.hi \in Nat /\ parts.lo \in Nat
  BY <1>2, ProjectionAssumption DEF Interval
<1>4. CASE parts.hi = 0
  <2>1. parts.lo = 1 /\ windows = <<>>
    BY <1>4 DEF WindowInv
  <2>2. windows' = windows
    BY <1>1, <1>4, <2>1
  <2>3. QED  BY <1>1, <1>4, <2>2 DEF WindowInv
<1>5. CASE parts.hi # 0
  <2>1. Continues(paragraphs, windows, parts)
    BY <1>1, <1>5 DEF WindowInv
  <2>2. parts.hi >= parts.lo
    BY <1>3, <2>1 DEF Continues
  <2>3. PICK ws : ws = Append(windows, parts)
    OBVIOUS
  <2>4. windows' = ws
    BY <1>1, <2>2, <2>3
  <2>5. ws \in Seq(Interval) /\ ws # <<>> /\ ws[Len(ws)] = parts
    BY <1>2, <2>3, AppendProperties
  <2>6. Covered(paragraphs, ws)
    BY <1>2, <2>1, <2>3, CoverGrows
  <2>7. QED  BY <1>1, <1>5, <2>4, <2>5, <2>6 DEF WindowInv
<1>6. QED  BY <1>4, <1>5

LEMMA TextCovered == WindowInv => WindowsCover
<1>. SUFFICES ASSUME WindowInv PROVE WindowsCover
  OBVIOUS
<1>1. /\ paragraphs \in Seq(ParagraphSizes) /\ parts.hi = Len(paragraphs)
      /\ windows \in Seq(Interval) /\ Covered(paragraphs, windows)
  BY DEF WindowInv
<1>2. ASSUME ended, paragraphs # <<>>
      PROVE  windows # <<>> /\ windows[1].lo = 1 /\ Last(windows).hi = Len(paragraphs)
  <2>1. parts.hi # 0
    BY <1>1, <1>2, EmptySeq
  <2>2. windows # <<>> /\ windows[Len(windows)].hi = parts.hi
    BY <1>2, <2>1 DEF WindowInv
  <2>3. QED  BY <1>1, <2>2 DEF Covered, Last
<1>3. \A k \in 1..Len(windows) - 1 :
          LET v == windows[k] w == windows[k + 1]
          IN  v.lo <= w.lo /\ v.hi < w.hi /\ w.lo <= v.hi + 1
  BY <1>1 DEF Covered, Linked
<1>4. \A k \in 1..Len(windows) :
          LET w == windows[k]
              firstNew == IF k = 1 THEN 1 ELSE windows[k - 1].hi + 1
          IN  Tokens(paragraphs, w.lo, w.hi) > Slack => w.hi = firstNew
  BY <1>1 DEF Covered, Fitting, FirstNew
<1>5. QED  BY <1>2, <1>3, <1>4 DEF WindowsCover

-----------------------------------------------------------------------------
(* The events of an episode.  F has the first members of ss put together.  *)

Joins(F, ss, D) ==
    /\ F \in [1..Len(ss) -> Seq(D)] /\ F[1] = ss[1]
    /\ \A i \in 2..Len(ss) : F[i] = F[i - 1] \o ss[i]

LEMMA FlattenJoins ==
    ASSUME NEW D, NEW ss \in Seq(Seq(D)), Len(ss) > 0
    PROVE  \E F : Joins(F, ss, D) /\ FlattenSeq(ss) = F[Len(ss)]
<1>1. PICK n : n = Len(ss)
  OBVIOUS
<1>2. n \in Nat /\ n >= 1 /\ \A i \in 1..n : ss[i] \in Seq(D)
  BY <1>1, LenProperties, ElementOfSeq
<1>. DEFINE step == [e \in (1..n) \X Seq(D) |-> e[2] \o ss[e[1]]]
            Eq(f) == f = [i \in 1..n |-> IF i = 1 THEN ss[i] ELSE f[i - 1] \o ss[i]]
<1>3. StepFunction(1..n, Seq(D), step) /\ \A i \in 1..n, a \in Seq(D) : step[<<i, a>>] = a \o ss[i]
  <2>1. \A e \in (1..n) \X Seq(D) : e[2] \o ss[e[1]] \in Seq(D)
    BY <1>2, ConcatProperties
  <2>2. QED  BY <2>1 DEF StepFunction
<1>4. FlattenSeq(ss) = (CHOOSE f : Eq(f))[n]
  BY <1>1, <1>2 DEF FlattenSeq
<1>. HIDE DEF step
<1>5. <<>> \in Seq(D)
  BY EmptySeq
<1>6. PICK f : IsRun(f, n, Seq(D), <<>>, step)
  BY <1>2, <1>3, <1>5, RunDefined
<1>7. f \in [0..n -> Seq(D)] /\ f[0] = <<>> /\ \A i \in 1..n : f[i] = step[<<i, f[i - 1]>>]
  BY <1>6 DEF IsRun
<1>8. ASSUME NEW i \in 1..n PROVE f[i] = f[i - 1] \o ss[i]
  <2>1. PICK a : a = f[i - 1]
    OBVIOUS
  <2>2. i - 1 \in 0..n
    BY <1>2
  <2>3. a \in Seq(D) /\ f[i] = step[<<i, a>>]
    BY <1>7, <2>1, <2>2
  <2>4. QED  BY <1>3, <2>1, <2>3
<1>9. f[1] = ss[1]
  <2>1. 1 \in 1..n /\ 1 - 1 = 0 /\ ss[1] \in Seq(D)
    BY <1>2
  <2>2. f[1] = f[0] \o ss[1]
    BY <1>8, <2>1
  <2>3. <<>> \o ss[1] = ss[1]
    BY <2>1, ConcatEmptySeq
  <2>4. QED  BY <1>7, <2>2, <2>3
<1>10. PICK g : g = [i \in 1..n |-> f[i]]
  OBVIOUS
<1>11. ASSUME NEW i \in 1..n PROVE f[i] = IF i = 1 THEN ss[i] ELSE g[i - 1] \o ss[i]
  <2>1. CASE i = 1
    BY <1>9, <2>1
  <2>2. CASE i # 1
    <3>1. i - 1 \in 1..n
      BY <1>2, <2>2
    <3>2. g[i - 1] = f[i - 1]
      BY <1>10, <3>1
    <3>3. QED  BY <1>8, <2>2, <3>2
  <2>3. QED  BY <2>1, <2>2
<1>12. Eq(g)
  BY <1>10, <1>11
<1>13. PICK F : F = CHOOSE h : Eq(h)
  OBVIOUS
<1>14. Eq(F)
  BY <1>12, <1>13
<1>15. F[1] = ss[1] /\ \A i \in 2..n : F[i] = F[i - 1] \o ss[i]
  <2>1. 1 \in 1..n /\ \A i \in 2..n : i \in 1..n /\ i # 1
    BY <1>2
  <2>2. QED  BY <1>14, <2>1
<1>16. F = [i \in 1..n |-> F[i]]
  BY <1>14
<1>. HIDE DEF Eq
<1>17. PICK A : A = {0} \cup {i \in 1..n : F[i] \in Seq(D)}
  OBVIOUS
<1>18. ASSUME NEW i \in 1..n, i - 1 \in A PROVE i \in A
  <2>1. CASE i = 1
    BY <1>2, <1>15, <1>17, <2>1
  <2>2. CASE i # 1
    <3>1. i \in 2..n /\ i - 1 # 0
      BY <1>2, <2>2
    <3>2. PICK a, t : a = F[i - 1] /\ t = ss[i]
      OBVIOUS
    <3>3. a \in Seq(D) /\ t \in Seq(D)
      BY <1>2, <1>17, <1>18, <3>1, <3>2
    <3>4. a \o t \in Seq(D)
      BY <3>3, ConcatProperties
    <3>5. F[i] = a \o t
      BY <1>15, <3>1, <3>2
    <3>6. QED  BY <1>17, <3>4, <3>5
  <2>3. QED  BY <2>1, <2>2
<1>19. \A i \in 0..n : i \in A
  <2>1. 0 \in A
    BY <1>17
  <2>2. QED  BY <1>2, <1>18, <2>1, CountUp
<1>20. \A i \in 1..n : F[i] \in Seq(D)
  <2>1. ASSUME NEW i \in 1..n PROVE i \in 0..n /\ i # 0
    BY <1>2
  <2>2. QED  BY <1>17, <1>19, <2>1
<1>21. F \in [1..n -> Seq(D)]
  BY <1>16, <1>20
<1>22. Joins(F, ss, D)
  BY <1>1, <1>15, <1>21 DEF Joins
<1>23. QED  BY <1>1, <1>4, <1>13, <1>22

\* What FlattenSeq makes of one text, and of one more.
LEMMA FlattenOne == ASSUME NEW D, NEW t \in Seq(D) PROVE FlattenSeq(<<t>>) = t
<1>1. PICK ss : ss = <<t>>
  OBVIOUS
<1>2. ss \in Seq(Seq(D)) /\ Len(ss) = 1 /\ ss[1] = t
  BY <1>1
<1>3. PICK F : Joins(F, ss, D) /\ FlattenSeq(ss) = F[Len(ss)]
  <2>1. Len(ss) > 0
    BY <1>2
  <2>2. QED  BY <1>2, <2>1, FlattenJoins
<1>4. QED  BY <1>1, <1>2, <1>3 DEF Joins

LEMMA FlattenMore ==
    ASSUME NEW D, NEW ss \in Seq(Seq(D)), Len(ss) > 0, NEW t \in Seq(D)
    PROVE  FlattenSeq(Append(ss, t)) = FlattenSeq(ss) \o t
<1>1. PICK n, us : n = Len(ss) /\ us = Append(ss, t)
  OBVIOUS
<1>2. /\ n \in Nat /\ n >= 1 /\ us \in Seq(Seq(D)) /\ Len(us) = n + 1 /\ us[n + 1] = t
      /\ \A i \in 1..n : us[i] = ss[i]
  BY <1>1, AppendProperties, LenProperties
<1>3. PICK F : Joins(F, ss, D) /\ FlattenSeq(ss) = F[n]
  BY <1>1, FlattenJoins
<1>4. PICK G : Joins(G, us, D) /\ FlattenSeq(us) = G[n + 1]
  <2>1. Len(us) > 0
    BY <1>2
  <2>2. QED  BY <1>2, <2>1, FlattenJoins
<1>5. F[1] = ss[1] /\ \A i \in 2..n : F[i] = F[i - 1] \o ss[i]
  BY <1>1, <1>3 DEF Joins
<1>6. G[1] = us[1] /\ \A i \in 2..n + 1 : G[i] = G[i - 1] \o us[i]
  BY <1>2, <1>4 DEF Joins
<1>7. PICK A : A = {0} \cup {i \in 1..n : F[i] = G[i]}
  OBVIOUS
<1>8. ASSUME NEW i \in 1..n, i - 1 \in A PROVE i \in A
  <2>1. CASE i = 1
    BY <1>2, <1>5, <1>6, <1>7, <2>1
  <2>2. CASE i # 1
    <3>1. i \in 2..n /\ i \in 2..n + 1 /\ i - 1 # 0
      BY <1>2, <2>2
    <3>2. F[i - 1] = G[i - 1] /\ us[i] = ss[i]
      BY <1>2, <1>7, <1>8, <3>1
    <3>3. F[i] = G[i]
      BY <1>5, <1>6, <3>1, <3>2
    <3>4. QED  BY <1>7, <3>3
  <2>3. QED  BY <2>1, <2>2
<1>9. \A i \in 0..n : i \in A
  <2>1. 0 \in A
    BY <1>7
  <2>2. QED  BY <1>2, <1>8, <2>1, CountUp
<1>10. F[n] = G[n]
  <2>1. n \in 0..n /\ n # 0
    BY <1>2
  <2>2. QED  BY <1>7, <1>9, <2>1
<1>11. G[n + 1] = G[n] \o t
  <2>1. PICK m : m = n + 1
    OBVIOUS
  <2>2. m \in 2..n + 1 /\ m - 1 = n /\ us[m] = t
    BY <1>2, <2>1
  <2>3. G[m] = G[m - 1] \o us[m]
    BY <1>6, <2>2
  <2>4. QED  BY <2>1, <2>2, <2>3
<1>12. QED  BY <1>1, <1>3, <1>4, <1>10, <1>11

\* A cumulative message is what it continues, and the rest.
LEMMA PrefixAndRest ==
    ASSUME NEW D, NEW p \in Seq(D), NEW t \in Seq(D), IsPrefix(p, t)
    PROVE  /\ Without(t, p) \in Seq(D) /\ Len(Without(t, p)) = Len(t) - Len(p)
           /\ t = p \o Without(t, p)
<1>1. PICK m, n : m = Len(p) /\ n = Len(t)
  OBVIOUS
<1>2. m \in Nat /\ n \in Nat /\ m <= n
  BY <1>1, LenProperties DEF IsPrefix
<1>3. PICK q : q = SubSeq(p, 1, m)
  OBVIOUS
<1>4. q = p /\ q = SubSeq(t, 1, m)
  BY <1>1, <1>3, SubSeqFull DEF IsPrefix
<1>5. SubSeq(t, 1, n) = t
  BY <1>1, SubSeqFull
<1>6. SubSeq(t, 1, m) \o SubSeq(t, m + 1, n) = SubSeq(t, 1, n)
  <2>1. 1 \in 1..Len(t) + 1 /\ m \in 1 - 1..Len(t) /\ n \in m..Len(t)
    BY <1>1, <1>2
  <2>2. QED  BY <2>1, ConcatAdjacentSubSeq
<1>7. Without(t, p) = SubSeq(t, m + 1, n)
  BY <1>1 DEF Without
<1>8. SubSeq(t, m + 1, n) \in Seq(D) /\ Len(SubSeq(t, m + 1, n)) = n - m
  <2>1. PICK k, u : k = m + 1 /\ u = SubSeq(t, k, n)
    OBVIOUS
  <2>2. k \in Int /\ n \in Int /\ \A i \in k..n : t[i] \in D
    BY <1>1, <1>2, <2>1, ElementOfSeq
  <2>3. u \in Seq(D) /\ Len(u) = IF k <= n THEN n - k + 1 ELSE 0
    BY <2>1, <2>2, SubSeqProperties
  <2>4. QED  BY <1>2, <2>1, <2>3
<1>9. QED  BY <1>1, <1>4, <1>5, <1>6, <1>7, <1>8

LEMMA TextFacts ==
    /\ EventTexts \subseteq Seq(Letters) /\ <<>> \in EventTexts
    /\ \A t \in Seq(Letters) : t \in EventTexts <=> Len(t) <= WordLength
<1>1. ASSUME NEW t \in EventTexts PROVE t \in Seq(Letters)
  <2>1. PICK n \in 0..WordLength : t \in [1..n -> Letters]
    BY <1>1 DEF EventTexts
  <2>2. n \in Nat
    BY <2>1, ProjectionAssumption
  <2>3. QED  BY <2>1, <2>2, SeqDef
<1>2. ASSUME NEW t \in Seq(Letters) PROVE t \in EventTexts <=> Len(t) <= WordLength
  <2>1. Len(t) \in Nat /\ t \in [1..Len(t) -> Letters]
    BY LenProperties
  <2>2. ASSUME Len(t) <= WordLength PROVE t \in EventTexts
    <3>1. Len(t) \in 0..WordLength
      BY <2>1, <2>2, ProjectionAssumption
    <3>2. QED  BY <2>1, <3>1 DEF EventTexts
  <2>3. ASSUME t \in EventTexts PROVE Len(t) <= WordLength
    <3>1. PICK n \in 0..WordLength : t \in [1..n -> Letters]
      BY <2>3 DEF EventTexts
    <3>2. n \in Nat /\ n <= WordLength
      BY <3>1, ProjectionAssumption
    <3>3. Len(t) = n
      <4>1. DOMAIN t = 1..n /\ DOMAIN t = 1..Len(t)
        BY <2>1, <3>1
      <4>2. \A k \in Nat : 1..n = 1..k => k = n
        <5>1. ASSUME NEW k \in Nat, 1..n = 1..k PROVE k = n
          <6>1. \A j : j \in 1..n <=> j \in 1..k
            BY <5>1
          <6>2. (n = 0 \/ n \in 1..n) /\ (k = 0 \/ k \in 1..k)
            BY <3>2
          <6>3. (n = 0 \/ n \in 1..k) /\ (k = 0 \/ k \in 1..n)
            BY <6>1, <6>2
          <6>4. QED  BY <3>2, <6>3
        <5>2. QED  BY <5>1
      <4>3. PICK l : l = Len(t)
        OBVIOUS
      <4>4. QED  BY <2>1, <4>1, <4>2, <4>3
    <3>4. QED  BY <3>2, <3>3
  <2>4. QED  BY <2>2, <2>3
<1>3. <<>> \in EventTexts
  <2>1. <<>> \in Seq(Letters) /\ Len(<<>>) = 0
    BY EmptySeq
  <2>2. PICK e : e = <<>>
    OBVIOUS
  <2>3. e \in Seq(Letters) /\ Len(e) <= WordLength
    BY <2>1, <2>2, ProjectionAssumption
  <2>4. QED  BY <1>2, <2>2, <2>3
<1>4. QED  BY <1>1, <1>2, <1>3

EventInv ==
    /\ previous \in EventTexts /\ lastEvent = previous
    /\ retained \in Seq(EventTexts \ {<<>>})
    /\ previous # <<>> => retained # <<>>
    /\ EventsRebuilt

LEMMA EpisodeStarts == ProjectionInit => EventInv
<1>. SUFFICES ASSUME ProjectionInit PROVE EventInv
  OBVIOUS
<1>1. retained = <<>> /\ previous = <<>> /\ lastEvent = <<>>
  BY DEF ProjectionInit
<1>2. previous \in EventTexts /\ retained \in Seq(EventTexts \ {<<>>})
  BY <1>1, TextFacts, EmptySeq
<1>3. QED  BY <1>1, <1>2 DEF EventInv, EventsRebuilt

\* What ends in the text at place k goes on to the text with the piece added; a
\* piece alone is its own text.
LEMMA Rebuilt ==
    ASSUME NEW ss \in Seq(EventTexts \ {<<>>}), NEW t \in EventTexts \ {<<>>}, NEW k \in 1..Len(ss) + 1
    PROVE  FlattenSeq(SubSeq(Append(ss, t), k, Len(Append(ss, t)))) =
              IF k = Len(ss) + 1 THEN t ELSE FlattenSeq(SubSeq(ss, k, Len(ss))) \o t
<1>1. PICK n, us, s : n = Len(ss) /\ us = Append(ss, t) /\ s = SubSeq(ss, k, n)
  OBVIOUS
<1>2. n \in Nat /\ Len(us) = n + 1 /\ k \in Nat \ {0} /\ k <= n + 1
  BY <1>1, AppendProperties, LenProperties
<1>3. /\ s \in Seq(EventTexts \ {<<>>})
      /\ k <= n => Len(s) > 0
      /\ SubSeq(us, k, n + 1) = Append(s, t)
  <2>1. PICK D : D = EventTexts \ {<<>>}
    OBVIOUS
  <2>2. ss \in Seq(D) /\ t \in D /\ k \in 1..Len(ss) + 1
    BY <1>1, <1>2, <2>1
  <2>3. /\ SubSeq(ss, k, Len(ss)) \in Seq(D)
        /\ k <= Len(ss) => Len(SubSeq(ss, k, Len(ss))) > 0
        /\ SubSeq(Append(ss, t), k, Len(ss) + 1) = Append(SubSeq(ss, k, Len(ss)), t)
    BY <2>2, PartGrows
  <2>4. QED  BY <1>1, <1>2, <2>1, <2>3
<1>4. s \in Seq(Seq(Letters)) /\ t \in Seq(Letters)
  <2>1. EventTexts \ {<<>>} \subseteq Seq(Letters)
    BY TextFacts
  <2>2. QED  BY <1>1, <1>3, <2>1, SeqMonotonic
<1>5. CASE k = n + 1
  <2>1. s = <<>>
    BY <1>1, <1>2, <1>5, SubSeqEmpty
  <2>2. Append(s, t) = <<t>>
    BY <2>1
  <2>3. QED  BY <1>1, <1>2, <1>3, <1>4, <1>5, <2>2, FlattenOne
<1>6. CASE k # n + 1
  <2>1. k <= n
    BY <1>2, <1>6
  <2>2. Len(s) > 0
    BY <1>3, <2>1
  <2>3. FlattenSeq(Append(s, t)) = FlattenSeq(s) \o t
    BY <1>4, <2>2, FlattenMore
  <2>4. QED  BY <1>1, <1>2, <1>3, <1>6, <2>3
<1>7. QED  BY <1>5, <1>6

LEMMA EventTaken ==
    ASSUME EventInv, NEW text \in EventTexts, TakeEvent(text)
    PROVE  EventInv'
<1>1. PICK n : n = Len(retained)
  OBVIOUS
<1>2. /\ n \in Nat /\ retained \in Seq(EventTexts \ {<<>>}) /\ previous \in EventTexts
      /\ lastEvent = previous
      /\ retained = <<>> <=> n = 0
  BY <1>1, LenProperties, EmptySeq DEF EventInv
<1>3. CASE text = <<>> \/ (text = previous /\ previous # <<>>)
  <2>1. UNCHANGED eventVars
    <3>1. CASE text = <<>>
      BY <3>1 DEF TakeEvent
    <3>2. CASE text # <<>>
      <4>1. IsPrefix(previous, text)
        <5>1. Len(previous) \in Nat
          BY <1>2, TextFacts, LenProperties
        <5>2. QED  BY <1>3, <3>2, <5>1 DEF IsPrefix
      <4>2. QED  BY <1>2, <1>3, <3>2, <4>1 DEF TakeEvent, eventVars
    <3>3. QED  BY <3>1, <3>2
  <2>2. QED  BY <2>1 DEF EventInv, EventsRebuilt, eventVars
<1>4. CASE text # <<>> /\ ~(text = previous /\ previous # <<>>)
  <2>1. PICK add : add = IF previous # <<>> /\ IsPrefix(previous, text)
                         THEN Without(text, previous) ELSE text
    OBVIOUS
  <2>2. lastEvent' = text /\ previous' = text /\ retained' = Append(retained, add)
    BY <1>4, <2>1 DEF TakeEvent, NextPrevious
  <2>3. /\ add \in EventTexts \ {<<>>}
        /\ previous # <<>> /\ IsPrefix(previous, text) => text = previous \o add
    <3>1. CASE previous # <<>> /\ IsPrefix(previous, text)
      <4>1. previous \in Seq(Letters) /\ text \in Seq(Letters)
        BY <1>2, TextFacts
      <4>2. /\ add \in Seq(Letters) /\ Len(add) = Len(text) - Len(previous)
            /\ text = previous \o add
        BY <2>1, <3>1, <4>1, PrefixAndRest
      <4>3. add # <<>>
        <5>1. ASSUME add = <<>> PROVE FALSE
          <6>1. previous \o <<>> = previous
            BY <4>1, ConcatEmptySeq
          <6>2. QED  BY <1>4, <3>1, <4>2, <5>1, <6>1
        <5>2. QED  BY <5>1
      <4>4. Len(add) <= WordLength
        <5>1. Len(text) \in Nat /\ Len(previous) \in Nat /\ Len(text) <= WordLength
          BY <4>1, TextFacts, LenProperties
        <5>2. QED  BY <4>2, <5>1, ProjectionAssumption
      <4>5. QED  BY <4>2, <4>3, <4>4, TextFacts
    <3>2. CASE ~(previous # <<>> /\ IsPrefix(previous, text))
      BY <1>4, <2>1, <3>2
    <3>3. QED  BY <3>1, <3>2
  <2>4. PICK us : us = Append(retained, add)
    OBVIOUS
  <2>5. us \in Seq(EventTexts \ {<<>>}) /\ us # <<>> /\ Len(us) = n + 1
    BY <1>1, <1>2, <2>3, <2>4, AppendProperties
  <2>6. \E k \in 1..n + 1 : FlattenSeq(SubSeq(us, k, n + 1)) = text
    <3>1. \A k \in 1..n + 1 : FlattenSeq(SubSeq(us, k, n + 1)) =
             IF k = n + 1 THEN add ELSE FlattenSeq(SubSeq(retained, k, n)) \o add
      BY <1>1, <1>2, <2>3, <2>4, <2>5, Rebuilt
    <3>2. CASE previous # <<>> /\ IsPrefix(previous, text)
      <4>1. retained # <<>>
        BY <3>2 DEF EventInv
      <4>2. PICK k \in 1..n : FlattenSeq(SubSeq(retained, k, n)) = lastEvent
        BY <1>1, <4>1 DEF EventInv, EventsRebuilt
      <4>3. k \in 1..n + 1 /\ k # n + 1
        BY <1>2, <4>2
      <4>4. FlattenSeq(SubSeq(us, k, n + 1)) = lastEvent \o add
        BY <3>1, <4>2, <4>3
      <4>5. QED  BY <1>2, <2>3, <3>2, <4>3, <4>4
    <3>3. CASE ~(previous # <<>> /\ IsPrefix(previous, text))
      <4>1. PICK m : m = n + 1
        OBVIOUS
      <4>2. m \in 1..n + 1 /\ add = text
        BY <1>2, <2>1, <3>3, <4>1
      <4>3. FlattenSeq(SubSeq(us, m, n + 1)) = add
        BY <3>1, <4>1, <4>2
      <4>4. QED  BY <4>2, <4>3
    <3>4. QED  BY <3>2, <3>3
  <2>7. QED  BY <2>2, <2>4, <2>5, <2>6 DEF EventInv, EventsRebuilt
<1>5. QED  BY <1>3, <1>4

-----------------------------------------------------------------------------
(* The projections as a whole.                                             *)

LeaseInv ==
    /\ clock \in 0..LeaseTime
    /\ lease \in [open : BOOLEAN, idle : Nat, hard : Nat] /\ lease.idle <= lease.hard

LEMMA LeaseStarts == ProjectionInit => LeaseInv
BY LeaseAssumption DEF ProjectionInit, LeaseInv, NoLease

LEMMA LeaseKeeps == ASSUME LeaseInv, LeaseStep PROVE LeaseInv'
<1>1. /\ clock \in Nat /\ clock <= LeaseTime /\ LeaseTime \in Nat
      /\ IdleTtl \in Nat /\ HardTtl \in Nat /\ IdleTtl <= HardTtl
  BY LeaseAssumption DEF LeaseInv
<1>2. NoLease \in [open : BOOLEAN, idle : Nat, hard : Nat] /\ NoLease.idle <= NoLease.hard
  BY DEF NoLease
<1>3. CASE OpenProjection
  BY <1>1, <1>3 DEF OpenProjection, LeaseInv
<1>4. CASE RequireLease
  <2>1. CASE LeaseExpired
    BY <1>2, <1>4, <2>1 DEF RequireLease, LeaseInv
  <2>2. CASE ~LeaseExpired
    <3>1. PICK i : i = LeastOf(clock + IdleTtl, lease.hard)
      OBVIOUS
    <3>2. i \in Nat /\ i <= lease.hard
      BY <1>1, <3>1 DEF LeaseInv, LeastOf
    <3>3. lease' = [lease EXCEPT !.idle = i] /\ clock' = clock
      BY <1>4, <2>2, <3>1 DEF RequireLease
    <3>4. QED  BY <3>2, <3>3 DEF LeaseInv
  <2>3. QED  BY <2>1, <2>2
<1>5. CASE CloseProjection
  BY <1>2, <1>5 DEF CloseProjection, LeaseInv
<1>6. CASE Second
  BY <1>1, <1>6 DEF Second, LeaseInv
<1>7. QED  BY <1>3, <1>4, <1>5, <1>6 DEF LeaseStep

LEMMA WindowStays == ASSUME WindowInv, UNCHANGED windowVars PROVE WindowInv'
BY DEF WindowInv, windowVars

LEMMA EventStays == ASSUME EventInv, UNCHANGED eventVars PROVE EventInv'
BY DEF EventInv, EventsRebuilt, eventVars

LEMMA LeaseStays == ASSUME LeaseInv, UNCHANGED leaseVars PROVE LeaseInv'
BY DEF LeaseInv, leaseVars

ProjectionInv == WindowInv /\ EventInv /\ LeaseInv

LEMMA ProjectionStart == ProjectionInit => ProjectionInv
BY TextStarts, EpisodeStarts, LeaseStarts DEF ProjectionInv

LEMMA WindowKeeps ==
    ASSUME ProjectionInv, WindowStep, UNCHANGED <<eventVars, leaseVars>>
    PROVE  ProjectionInv'
<1>1. WindowInv'
  BY TakenOn, TextEnds DEF ProjectionInv, WindowStep
<1>2. QED  BY <1>1, EventStays, LeaseStays DEF ProjectionInv

LEMMA EventKeeps ==
    ASSUME ProjectionInv, EventStep, UNCHANGED <<windowVars, leaseVars>>
    PROVE  ProjectionInv'
<1>1. EventInv'
  BY EventTaken DEF ProjectionInv, EventStep
<1>2. QED  BY <1>1, WindowStays, LeaseStays DEF ProjectionInv

LEMMA LeasesKeep ==
    ASSUME ProjectionInv, LeaseStep, UNCHANGED <<windowVars, eventVars>>
    PROVE  ProjectionInv'
BY LeaseKeeps, WindowStays, EventStays DEF ProjectionInv

LEMMA ProjectionStays ==
    ASSUME ProjectionInv, UNCHANGED projectionVars
    PROVE  ProjectionInv'
<1>1. UNCHANGED windowVars /\ UNCHANGED eventVars /\ UNCHANGED leaseVars
  BY DEF projectionVars, windowVars, eventVars, leaseVars
<1>2. QED  BY <1>1, WindowStays, EventStays, LeaseStays DEF ProjectionInv

LEMMA ProjectionAlways == ProjectionSpec => []ProjectionInv
<1>1. ProjectionInv /\ [ProjectionNext]_projectionVars => ProjectionInv'
  BY WindowKeeps, EventKeeps, LeasesKeep, ProjectionStays DEF ProjectionNext
<1>2. QED  BY <1>1, ProjectionStart, PTL DEF ProjectionSpec

LEMMA ProjectionHolds == ProjectionInv => ProjectionTypeOK /\ ProjectionKeepsText
<1>. SUFFICES ASSUME ProjectionInv PROVE ProjectionTypeOK /\ ProjectionKeepsText
  OBVIOUS
<1>1. ProjectionTypeOK
  BY DEF ProjectionInv, WindowInv, EventInv, LeaseInv, ProjectionTypeOK
<1>2. ProjectionKeepsText
  BY TextCovered DEF ProjectionInv, EventInv, ProjectionKeepsText
<1>3. QED  BY <1>1, <1>2

\* The variables of the projections stay in their ranges, and a lease is never
\* idle later than its hard limit.
THEOREM ProjectionTypeCorrect == ProjectionSpec => []ProjectionTypeOK
BY ProjectionHolds, ProjectionAlways, PTL

\* The windows go through the whole text in order, and the events kept end with
\* the whole of the last one: for texts and episodes of any length, any sizes of
\* paragraphs, target and overlap.
THEOREM NoTextIsCut == ProjectionSpec => []ProjectionKeepsText
BY ProjectionHolds, ProjectionAlways, PTL

-----------------------------------------------------------------------------
(* What comes into the vault and what becomes of it, all together.         *)

VaultInv ==
    /\ IngestInv /\ ProjectionInv /\ LifeInv
    /\ CaptureType /\ EventsInv /\ RecordsInv

LEMMA VaultStart == VaultInit => VaultInv
BY IngestStart, ProjectionStart, LifeStart, CaptureInitType, InitEvents, InitRecords
   DEF VaultInit, VaultInv

LEMMA CaptureGoesOn ==
    ASSUME CaptureType, EventsInv, RecordsInv, [CaptureNext]_captureVars
    PROVE  (CaptureType /\ EventsInv /\ RecordsInv)'
BY CaptureTypeStep, EventsStep, RecordsKept

\* A part's step leaves the variables of the others as they are.
LEMMA VaultKeeps == VaultInv /\ [VaultNext]_vaultVars => VaultInv'
<1>. SUFFICES ASSUME VaultInv, [VaultNext]_vaultVars PROVE VaultInv'
  OBVIOUS
<1>1. CASE IngestPart
  BY <1>1, IngestKeeps, ProjectionStays, CaptureGoesOn, LifeKeeps DEF IngestPart, VaultInv
<1>2. CASE ProjectionPart
  <2>1. ProjectionInv'
    BY <1>2, WindowKeeps, EventKeeps, LeasesKeep DEF ProjectionPart, VaultInv
  <2>2. UNCHANGED ingestVars /\ UNCHANGED captureVars /\ UNCHANGED lifeVars
    BY <1>2 DEF ProjectionPart
  <2>3. QED  BY <2>1, <2>2, IngestKeeps, CaptureGoesOn, LifeKeeps DEF VaultInv
<1>3. CASE CapturePart
  BY <1>3, IngestKeeps, ProjectionStays, CaptureGoesOn, LifeKeeps DEF CapturePart, VaultInv
<1>4. CASE LifePart
  BY <1>4, IngestKeeps, ProjectionStays, CaptureGoesOn, LifeKeeps DEF LifePart, VaultInv
<1>5. CASE UNCHANGED vaultVars
  <2>1. /\ UNCHANGED ingestVars /\ UNCHANGED projectionVars
        /\ UNCHANGED captureVars /\ UNCHANGED lifeVars
    BY <1>5 DEF vaultVars
  <2>2. QED  BY <2>1, IngestKeeps, ProjectionStays, CaptureGoesOn, LifeKeeps DEF VaultInv
<1>6. QED  BY <1>1, <1>2, <1>3, <1>4, <1>5 DEF VaultNext

LEMMA VaultAlways == VaultSpec => []VaultInv
BY VaultStart, VaultKeeps, PTL DEF VaultSpec

\* The variables of ingest, projection, capture and the life of notes stay in
\* their ranges, for any files, texts, clients, pages and thresholds.
THEOREM VaultTypeCorrect == VaultSpec => []VaultTypeOK
<1>1. VaultInv => VaultTypeOK
  <2>. SUFFICES ASSUME VaultInv PROVE VaultTypeOK
    OBVIOUS
  <2>1. IngestTypeOK /\ CaptureTypeOK
    BY DEF VaultInv, IngestInv, IngestType, CaptureType
  <2>2. ProjectionTypeOK
    BY ProjectionHolds DEF VaultInv
  <2>3. LifeTypeOK
    BY LifeTyped DEF VaultInv
  <2>4. QED  BY <2>1, <2>2, <2>3 DEF VaultTypeOK
<1>2. QED  BY <1>1, VaultAlways, PTL

\* What is promised of each of them holds of all together, in the behaviours the
\* model checker explores, for every value of the constants; of the life of notes
\* where the renderer agrees with the configuration.
THEOREM VaultIsSound ==
    VaultSpec => /\ [](RedirectsEnd /\ NoIngestLost /\ ProjectionKeepsText /\ NoEventLost
                       /\ EpisodeRecordsAgree)
                 /\ [](RendererAgrees => LifecycleConsistent)
<1>1. VaultInv => RedirectsEnd /\ NoIngestLost
  BY IngestKept DEF VaultInv, IngestInv
<1>2. VaultInv => ProjectionKeepsText /\ (RendererAgrees => LifecycleConsistent)
  BY ProjectionHolds, LifeKept DEF VaultInv
<1>3. VaultInv => NoEventLost /\ EpisodeRecordsAgree
  BY EventsHold, RecordsHold DEF VaultInv
<1>4. QED  BY <1>1, <1>2, <1>3, VaultAlways, PTL
=============================================================================
