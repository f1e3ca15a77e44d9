---------------------------- MODULE ProcessesProofs ----------------------------
(***************************************************************************)
(* Proofs about processes that come and go.  Attempts at one item that     *)
(* follow each other never delete a candidate an earlier one stored, and   *)
(* add up to one: for every number of windows, versions of the source,     *)
(* artifacts and batch sizes.  The commands around the daemon keep their   *)
(* word, for every number of daemons, shells and mishaps.                  *)
(***************************************************************************)
EXTENDS MCProcesses, OrderLemmas

-----------------------------------------------------------------------------
(* The item: batches of windows.                                           *)

LEMMA TotalPositive == \A v \in Versions : Total(v) \in Nat \ {0}
BY ItemAssumption DEF Total

LEMMA BatchEndPositive == \A v \in Versions, n \in Nat : BatchEnd(n, v) \in Nat \ {0}
BY ItemAssumption, TotalPositive DEF BatchEnd

\* An attempt that starts afresh has a batch before it.
LEMMA FirstBatchType ==
    ASSUME NEW v \in Versions, NEW start \in Nat
    PROVE  FirstBatch(start, v) \in Nat /\ (start = 0 => FirstBatch(start, v) # Total(v))
<1>. DEFINE todo == {n \in BatchStarts(v) : BatchEnd(n, v) > start}
<1>1. todo \in SUBSET (0..(Total(v) - 1)) /\ todo \in SUBSET Nat /\ Total(v) \in Nat \ {0}
  BY TotalPositive DEF BatchStarts
<1>2. CASE todo = {}
  <2>1. start # 0
    <3>1. 0 \in BatchStarts(v)
      BY <1>1, ItemAssumption DEF BatchStarts
    <3>2. BatchEnd(0, v) > 0
      BY BatchEndPositive
    <3>3. QED  BY <1>2, <3>1, <3>2
  <2>2. QED  BY <1>1, <1>2, <2>1 DEF FirstBatch
<1>3. CASE todo # {}
  <2>1. FirstBatch(start, v) \in todo
    <3>1. \E n \in todo : \A m \in todo : n <= m
      BY <1>1, <1>3, LeastMember
    <3>. HIDE DEF todo
    <3>2. (CHOOSE n \in todo : \A m \in todo : n <= m) \in todo
      BY <3>1
    <3>3. QED  BY <1>3, <3>2 DEF FirstBatch, todo
  <2>2. QED  BY <1>1, <2>1
<1>4. QED  BY <1>2, <1>3

-----------------------------------------------------------------------------
(* Types, as far as the argument needs them.                               *)

Finds == [window : Nat, version : Versions]

Workshop == [pc : Pcs, start : Nat, version : Versions, base : Nat,
             known : [Artifacts -> SnippetKinds], at : Nat, all : SUBSET Finds]

ItemType ==
    /\ content \in Versions
    /\ row \in [status : Statuses, hash : Nat, done : Nat]
    /\ IsFiniteSet(cands) /\ cands \subseteq [index : Nat, found : Finds]
    /\ decided \in BOOLEAN
    /\ snippets \in [Artifacts -> SnippetKinds]
    /\ worker \in [Workers -> Workshop]
    /\ \A w \in Workers : IsFiniteSet(worker[w].all)
    /\ overlap \in BOOLEAN
    /\ interrupted \in BOOLEAN

\* Past the reading of its row.
Started(w) == worker[w].pc \in {"opened", "vlm", "llm"}

\* What is stored has left its checkpoint in the row, and whoever reads the
\* row after that resumes.
ResumeInv ==
    /\ \A v, w \in Workers : Working(v) /\ Working(w) => v = w
    /\ cands # {} => row.done > 0
    /\ \A w \in Workers : Started(w) =>
          IF worker[w].start = 0 THEN cands = {} ELSE row.done > 0
    /\ \A w \in Workers : ReadyToStore(w) => row.done > 0

ItemInv == ItemType /\ (~overlap => ResumeInv)

LEMMA VersionType == Versions \subseteq Nat /\ 1 \in Versions
<1>1. Cardinality(Versions) \in Nat
  BY ItemAssumption, FS_CardinalityType
<1>2. QED  BY <1>1, ItemAssumption

LEMMA IdleType == Idle \in Workshop /\ Idle.pc = "idle" /\ IsFiniteSet(Idle.all)
BY VersionType, FS_EmptySet DEF Idle, Workshop, Pcs, NoSnippets, SnippetKinds

LEMMA InitItem == Init => ItemInv
<1>. SUFFICES ASSUME Init PROVE ItemInv
  OBVIOUS
<1>1. ItemType
  BY IdleType, VersionType, FS_EmptySet DEF Init, ItemType, Statuses, NoSnippets, SnippetKinds
<1>2. ResumeInv
  BY IdleType DEF Init, ResumeInv, Working, Started, ReadyToStore
<1>3. QED  BY <1>1, <1>2 DEF ItemInv

\* Frame: no worker starts or goes on to its last transaction, and neither
\* candidates nor the checkpoint go back.
LEMMA ItemFrame ==
    ASSUME ItemInv, cands' = cands, row'.done = row.done, overlap' = overlap,
           \A w \in Workers : \/ worker'[w] = worker[w]
                              \/ worker'[w].pc \in {"idle", "killed", "stored"}
    PROVE  ~overlap' => ResumeInv'
<1>. SUFFICES ASSUME ~overlap PROVE ResumeInv'
  OBVIOUS
<1>1. ResumeInv
  BY DEF ItemInv
<1>2. ASSUME NEW w \in Workers, Working(w)'
      PROVE  worker'[w] = worker[w] /\ Working(w)
  BY <1>2 DEF Working
<1>3. \A v, w \in Workers : Working(v)' /\ Working(w)' => v = w
  BY <1>1, <1>2 DEF ResumeInv
<1>4. cands' # {} => row'.done > 0
  BY <1>1 DEF ResumeInv
<1>5. \A w \in Workers : Started(w)' =>
          IF worker'[w].start = 0 THEN cands' = {} ELSE row'.done > 0
  BY <1>1, <1>2 DEF ResumeInv, Started, Working
<1>6. \A w \in Workers : ReadyToStore(w)' => row'.done > 0
  BY <1>1, <1>2 DEF ResumeInv, ReadyToStore, Working
<1>7. QED  BY <1>3, <1>4, <1>5, <1>6 DEF ResumeInv

\* One worker at work goes from one place to the next.
LEMMA WorkerStep ==
    ASSUME ItemInv, ~overlap, overlap' = overlap, NEW w \in Workers, Working(w), NEW s,
           worker' = [worker EXCEPT ![w] = s], cands' = cands,
           row'.done \in Nat, row.done > 0 => row'.done > 0,
           s.pc \in {"opened", "vlm", "llm"} =>
              IF s.start = 0 THEN cands = {} ELSE row'.done > 0,
           s.pc = "llm" /\ s.at = Total(s.version) => row'.done > 0
    PROVE  ResumeInv'
<1>1. ResumeInv /\ worker'[w] = s /\ \A v \in Workers : v # w => worker'[v] = worker[v]
  BY DEF ItemInv, ItemType
<1>2. \A v \in Workers : v # w => ~Working(v) /\ ~Working(v)'
  BY <1>1 DEF ResumeInv, Working
<1>3. \A u, v \in Workers : Working(u)' /\ Working(v)' => u = v
  BY <1>2
<1>4. cands' # {} => row'.done > 0
  BY <1>1 DEF ResumeInv
<1>5. \A v \in Workers : Started(v)' =>
          IF worker'[v].start = 0 THEN cands' = {} ELSE row'.done > 0
  BY <1>1, <1>2 DEF Started, Working
<1>6. \A v \in Workers : ReadyToStore(v)' => row'.done > 0
  BY <1>1, <1>2 DEF ReadyToStore, Working
<1>7. QED  BY <1>3, <1>4, <1>5, <1>6 DEF ResumeInv

\* A set made by one expression from a finite one is finite.
LEMMA FoundInFinite ==
    ASSUME NEW n \in Nat, NEW m \in Nat, NEW v \in Versions
    PROVE  IsFiniteSet(FoundIn(n, m, v)) /\ FoundIn(n, m, v) \in SUBSET Finds
<1>. DEFINE S == n..(m - 1)
            T == FoundIn(n, m, v)
            f == [k \in S |-> [window |-> k, version |-> v]]
<1>1. f \in Surjection(S, T)
  BY DEF Surjection, FoundIn
<1>2. IsFiniteSet(S)
  BY FS_Interval
<1>. HIDE DEF S, T, f
<1>3. IsFiniteSet(T)
  BY <1>1, <1>2, FS_Surjection
<1>4. FoundIn(n, m, v) \in SUBSET Finds
  BY DEF FoundIn, Finds
<1>5. QED  BY <1>3, <1>4 DEF T

LEMMA NumberedFinite ==
    ASSUME ItemType, NEW w \in Workers
    PROVE  IsFiniteSet(Numbered(w))
<1>. DEFINE S == worker[w].all
            Index(x) == worker[w].base + Cardinality({g \in S : g.window < x.window})
            f == [x \in S |-> [index |-> Index(x), found |-> x]]
            T == {[index |-> Index(x), found |-> x] : x \in S}
<1>1. f \in Surjection(S, T)
  BY DEF Surjection
<1>2. IsFiniteSet(S)
  BY DEF ItemType
<1>3. Numbered(w) = T
  BY DEF Numbered
<1>. HIDE DEF S, T, f
<1>4. QED  BY <1>1, <1>2, <1>3, FS_Surjection

LEMMA NumberedType ==
    ASSUME ItemType, NEW w \in Workers
    PROVE  Numbered(w) \subseteq [index : Nat, found : Finds]
<1>. DEFINE S == worker[w].all
            Index(x) == worker[w].base + Cardinality({g \in S : g.window < x.window})
<1>1. IsFiniteSet(S) /\ S \subseteq Finds /\ worker[w].base \in Nat
  BY DEF ItemType, Workshop
<1>2. ASSUME NEW f \in S PROVE Index(f) \in Nat
  <2>1. Cardinality({g \in S : g.window < f.window}) \in Nat
    BY <1>1, FS_Subset, FS_CardinalityType
  <2>2. QED  BY <1>1, <2>1
<1>3. Numbered(w) = {[index |-> Index(f), found |-> f] : f \in S}
  BY DEF Numbered
<1>. HIDE DEF S, Index
<1>4. QED  BY <1>1, <1>2, <1>3

-----------------------------------------------------------------------------
(* Every step.                                                             *)

LEMMA ItemTypeStep == ItemType /\ [Next]_vars => ItemType'
<1>. SUFFICES ASSUME ItemType, [Next]_vars PROVE ItemType'
  OBVIOUS
<1>w. ASSUME NEW w \in Workers, NEW s \in Workshop, IsFiniteSet(s.all),
             worker' = [worker EXCEPT ![w] = s]
      PROVE  /\ worker' \in [Workers -> Workshop]
             /\ \A v \in Workers : IsFiniteSet(worker'[v].all)
  BY <1>w DEF ItemType
<1>f. \A w \in Workers : worker[w] \in Workshop /\ IsFiniteSet(worker[w].all)
  BY DEF ItemType
<1>1. CASE ContentChanges
  BY <1>1 DEF ContentChanges, ItemType
<1>2. ASSUME NEW hash \in {0, content}, EnqueueExtraction(hash) PROVE ItemType'
  BY <1>2, VersionType DEF EnqueueExtraction, ItemType, Statuses
<1>3. CASE Requeue \/ Decide
  BY <1>3 DEF Requeue, Decide, ItemType, Statuses
<1>4. ASSUME NEW w \in Workers, Attempt(w) PROVE ItemType'
  <2>1. CASE Claim(w)
    <3>1. [Idle EXCEPT !.pc = "claimed"] \in Workshop /\ IsFiniteSet([Idle EXCEPT !.pc = "claimed"].all)
      BY IdleType DEF Workshop, Pcs
    <3>2. QED  BY <2>1, <3>1, <1>w DEF Claim, ItemType, Statuses
  <2>2. CASE OpenProjection(w)
    <3>. DEFINE s == [worker[w] EXCEPT !.pc = "opened", !.start = row.done, !.version = content]
    <3>1. s \in Workshop /\ IsFiniteSet(s.all)
      BY <1>f DEF ItemType, Workshop, Pcs
    <3>2. worker' = [worker EXCEPT ![w] = s]
      BY <2>2 DEF OpenProjection
    <3>. HIDE DEF s
    <3>3. QED  BY <2>2, <3>1, <3>2, <1>w DEF OpenProjection, ItemType
  <2>3. CASE LoadPrior(w)
    <3>. DEFINE b == IF worker[w].start > 0 THEN Cardinality(cands) ELSE 0
                s == [worker[w] EXCEPT !.pc = "vlm", !.known = snippets, !.base = b]
    <3>1. b \in Nat
      BY FS_CardinalityType DEF ItemType
    <3>2. s \in Workshop /\ IsFiniteSet(s.all)
      BY <1>f, <3>1 DEF ItemType, Workshop, Pcs
    <3>3. worker' = [worker EXCEPT ![w] = s]
      BY <2>3 DEF LoadPrior
    <3>. HIDE DEF s
    <3>4. QED  BY <2>3, <3>2, <3>3, <1>w DEF LoadPrior, ItemType
  <2>4. ASSUME NEW a \in Artifacts, DescribeArtifact(w, a) PROVE ItemType'
    <3>1. PICK kind \in {"skipped", "described"} :
             /\ snippets' = [snippets EXCEPT ![a] = kind]
             /\ worker' = [worker EXCEPT ![w].known[a] = kind]
      BY <2>4 DEF DescribeArtifact
    <3>. DEFINE s == [worker[w] EXCEPT !.known[a] = kind]
    <3>2. s \in Workshop /\ IsFiniteSet(s.all)
      BY <1>f DEF Workshop, SnippetKinds
    <3>3. worker' = [worker EXCEPT ![w] = s]
      BY <3>1
    <3>4. snippets' \in [Artifacts -> SnippetKinds]
      BY <3>1 DEF ItemType, SnippetKinds
    <3>. HIDE DEF s
    <3>5. QED  BY <2>4, <3>2, <3>3, <3>4, <1>w DEF DescribeArtifact, ItemType
  <2>5. CASE BeginWindows(w)
    <3>. DEFINE first == FirstBatch(worker[w].start, worker[w].version)
                s == [worker[w] EXCEPT !.pc = "llm", !.at = first]
    <3>1. first \in Nat
      BY <1>f, FirstBatchType DEF Workshop
    <3>2. s \in Workshop /\ IsFiniteSet(s.all)
      BY <1>f, <3>1 DEF Workshop, Pcs
    <3>3. worker' = [worker EXCEPT ![w] = s]
      BY <2>5 DEF BeginWindows
    <3>. HIDE DEF s
    <3>4. QED  BY <2>5, <3>2, <3>3, <1>w DEF BeginWindows, ItemType
  <2>6. CASE ExtractBatch(w)
    <3>. DEFINE v == worker[w].version
                at == worker[w].at
                next == BatchEnd(at, v)
                s == [worker[w] EXCEPT !.at = next, !.all = worker[w].all \cup FoundIn(at, next, v)]
    <3>1. v \in Versions /\ at \in Nat /\ worker[w].all \in SUBSET Finds
      BY <1>f DEF Workshop
    <3>2. next \in Nat
      BY <3>1, BatchEndPositive
    <3>3. IsFiniteSet(FoundIn(at, next, v)) /\ FoundIn(at, next, v) \in SUBSET Finds
      BY <3>1, <3>2, FoundInFinite
    <3>4. IsFiniteSet(worker[w].all \cup FoundIn(at, next, v))
      BY <1>f, <3>3, FS_Union
    <3>5. worker' = [worker EXCEPT ![w] = s] /\ row' = [row EXCEPT !.done = next]
      BY <2>6 DEF ExtractBatch
    <3>. HIDE DEF at, next, v
    <3>6. s \in Workshop /\ IsFiniteSet(s.all)
      BY <1>f, <3>1, <3>2, <3>3, <3>4 DEF Workshop
    <3>. HIDE DEF s
    <3>7. QED  BY <2>6, <3>2, <3>5, <3>6, <1>w DEF ExtractBatch, ItemType
  <2>7. CASE Store(w)
    <3>. DEFINE s == [worker[w] EXCEPT !.pc = "stored"]
    <3>1. s \in Workshop /\ IsFiniteSet(s.all)
      BY <1>f DEF Workshop, Pcs
    <3>2. worker' = [worker EXCEPT ![w] = s]
      BY <2>7 DEF Store
    <3>3. IsFiniteSet(cands') /\ cands' \subseteq [index : Nat, found : Finds]
      BY <2>7, NumberedFinite, NumberedType, FS_Union DEF Store, ItemType
    <3>. HIDE DEF s
    <3>4. QED  BY <2>7, <3>1, <3>2, <3>3, <1>w DEF Store, ItemType, Statuses
  <2>8. QED  BY <1>4, <2>1, <2>2, <2>3, <2>4, <2>5, <2>6, <2>7 DEF Attempt
<1>5. ASSUME NEW w \in Workers, Ends(w) PROVE ItemType'
  <2>1. [Idle EXCEPT !.pc = "killed"] \in Workshop /\ IsFiniteSet([Idle EXCEPT !.pc = "killed"].all)
    BY IdleType DEF Workshop, Pcs
  <2>2. QED
    BY <1>5, <2>1, IdleType, <1>w DEF Ends, Fail, KillOverdue, MarkTimeout, Dies, ItemType, Statuses
<1>6. CASE UNCHANGED vars
  BY <1>6 DEF vars, ItemType
<1>7. QED  BY <1>1, <1>2, <1>3, <1>4, <1>5, <1>6 DEF Next

LEMMA ResumeStep == ItemInv /\ [Next]_vars => (~overlap' => ResumeInv')
<1>. SUFFICES ASSUME ItemInv, [Next]_vars PROVE ~overlap' => ResumeInv'
  OBVIOUS
<1>i. ItemType /\ (~overlap => ResumeInv)
  BY DEF ItemInv
<1>f. \A w \in Workers : worker[w] \in Workshop
  BY <1>i DEF ItemType
<1>1. CASE ContentChanges \/ Requeue \/ Decide
  BY <1>1, <1>i, ItemFrame DEF ContentChanges, Requeue, Decide, ItemType
<1>2. ASSUME NEW hash \in {0, content}, EnqueueExtraction(hash)
      PROVE  ~overlap' => ResumeInv'
  BY <1>2, <1>i, ItemFrame DEF EnqueueExtraction, ItemType
<1>3. ASSUME NEW w \in Workers, Attempt(w) PROVE ~overlap' => ResumeInv'
  <2>o. overlap => overlap'
    BY <1>3, <1>i DEF Attempt, Claim, OpenProjection, LoadPrior, DescribeArtifact, BeginWindows,
                      ExtractBatch, Store, ItemType
  <2>. SUFFICES ASSUME ~overlap' PROVE ResumeInv'
    OBVIOUS
  <2>r. ~overlap /\ ResumeInv
    BY <1>i, <2>o
  <2>1. CASE Claim(w)
    <3>1. /\ \A v \in Workers : ~Working(v)
          /\ worker' = [worker EXCEPT ![w] = [Idle EXCEPT !.pc = "claimed"]]
          /\ cands' = cands /\ row'.done = row.done
      BY <2>1, <1>i DEF Claim, ItemType
    <3>2. worker'[w].pc = "claimed" /\ \A v \in Workers : v # w => worker'[v] = worker[v]
      BY <3>1, <1>i DEF ItemType, Idle
    <3>3. \A v \in Workers : (Working(v)' => v = w) /\ ~Started(v)' /\ ~ReadyToStore(v)'
      BY <3>1, <3>2 DEF Working, Started, ReadyToStore
    <3>4. QED  BY <3>1, <3>3, <2>r DEF ResumeInv
  <2>2. CASE OpenProjection(w)
    <3>. DEFINE s == [worker[w] EXCEPT !.pc = "opened", !.start = row.done, !.version = content]
    <3>1. /\ worker' = [worker EXCEPT ![w] = s] /\ Working(w)
          /\ UNCHANGED <<cands, row, overlap>>
      BY <2>2 DEF OpenProjection, Working
    <3>2. s.pc = "opened" /\ s.start = row.done /\ row.done \in Nat
      BY <1>f, <1>i DEF Workshop, ItemType
    <3>. HIDE DEF s
    <3>3. IF s.start = 0 THEN cands = {} ELSE row'.done > 0
      BY <3>1, <3>2, <2>r DEF ResumeInv
    <3>4. QED  BY <3>1, <3>2, <3>3, <2>r, WorkerStep
  <2>3. CASE LoadPrior(w)
    <3>. DEFINE s == [worker[w] EXCEPT !.pc = "vlm", !.known = snippets,
                        !.base = IF worker[w].start > 0 THEN Cardinality(cands) ELSE 0]
    <3>1. /\ worker' = [worker EXCEPT ![w] = s] /\ Working(w) /\ Started(w)
          /\ UNCHANGED <<cands, row, overlap>>
      BY <2>3 DEF LoadPrior, Working, Started
    <3>2. s.pc = "vlm" /\ s.start = worker[w].start /\ row.done \in Nat
      BY <1>f, <1>i DEF Workshop, ItemType
    <3>. HIDE DEF s
    <3>3. IF s.start = 0 THEN cands = {} ELSE row'.done > 0
      BY <3>1, <3>2, <2>r DEF ResumeInv
    <3>4. QED  BY <3>1, <3>2, <3>3, <2>r, WorkerStep
  <2>4. ASSUME NEW a \in Artifacts, DescribeArtifact(w, a) PROVE ResumeInv'
    <3>1. PICK kind : worker' = [worker EXCEPT ![w].known[a] = kind]
      BY <2>4 DEF DescribeArtifact
    <3>. DEFINE s == [worker[w] EXCEPT !.known[a] = kind]
    <3>2. /\ worker' = [worker EXCEPT ![w] = s] /\ Working(w) /\ Started(w)
          /\ UNCHANGED <<cands, row, overlap>>
      BY <2>4, <3>1 DEF DescribeArtifact, Working, Started
    <3>3. s.pc = worker[w].pc /\ worker[w].pc = "vlm" /\ s.start = worker[w].start
          /\ row.done \in Nat
      BY <2>4, <1>f, <1>i DEF DescribeArtifact, Workshop, ItemType
    <3>. HIDE DEF s
    <3>4. IF s.start = 0 THEN cands = {} ELSE row'.done > 0
      BY <3>2, <3>3, <2>r DEF ResumeInv
    <3>5. QED  BY <3>2, <3>3, <3>4, <2>r, WorkerStep
  <2>5. CASE BeginWindows(w)
    <3>. DEFINE s == [worker[w] EXCEPT !.pc = "llm",
                        !.at = FirstBatch(worker[w].start, worker[w].version)]
    <3>1. /\ worker' = [worker EXCEPT ![w] = s] /\ Working(w) /\ Started(w)
          /\ UNCHANGED <<cands, row, overlap>>
      BY <2>5 DEF BeginWindows, Working, Started
    <3>2. /\ s.pc = "llm" /\ s.start = worker[w].start /\ row.done \in Nat /\ s.start \in Nat
          /\ s.version = worker[w].version /\ s.version \in Versions
          /\ s.at = FirstBatch(s.start, s.version)
      BY <1>f, <1>i DEF Workshop, ItemType
    <3>. HIDE DEF s
    <3>3. IF s.start = 0 THEN cands = {} ELSE row'.done > 0
      BY <3>1, <3>2, <2>r DEF ResumeInv
    <3>4. s.at = Total(s.version) => row'.done > 0
      BY <3>2, <3>3, FirstBatchType
    <3>5. QED  BY <3>1, <3>2, <3>3, <3>4, <2>r, WorkerStep
  <2>6. CASE ExtractBatch(w)
    <3>. DEFINE next == BatchEnd(worker[w].at, worker[w].version)
                s == [worker[w] EXCEPT !.at = next, !.all = worker[w].all
                        \cup FoundIn(worker[w].at, next, worker[w].version)]
    <3>1. /\ worker' = [worker EXCEPT ![w] = s] /\ Working(w) /\ Started(w)
          /\ row' = [row EXCEPT !.done = next] /\ UNCHANGED <<cands, overlap>>
      BY <2>6 DEF ExtractBatch, Working, Started
    <3>2. s.start = worker[w].start /\ next \in Nat \ {0}
      BY <1>f, BatchEndPositive DEF Workshop
    <3>. HIDE DEF s, next
    <3>3. row'.done \in Nat /\ row'.done > 0
      BY <3>1, <3>2, <1>i DEF ItemType
    <3>4. s.start = 0 => cands = {}
      BY <3>1, <3>2, <2>r DEF ResumeInv
    <3>5. QED  BY <3>1, <3>3, <3>4, <2>r, WorkerStep
  <2>7. CASE Store(w)
    <3>1. /\ worker' = [worker EXCEPT ![w].pc = "stored"] /\ ReadyToStore(w) /\ Working(w)
          /\ row' = [row EXCEPT !.status = "processed"]
      BY <2>7 DEF Store, ReadyToStore, Working
    <3>2. worker'[w].pc = "stored" /\ \A v \in Workers : v # w => worker'[v] = worker[v]
      BY <3>1, <1>i DEF ItemType, Workshop
    <3>3. \A v \in Workers : ~Working(v)'
      BY <3>1, <3>2, <2>r DEF ResumeInv, Working
    <3>4. row'.done > 0
      BY <3>1, <2>r, <1>i DEF ResumeInv, ItemType
    <3>5. QED  BY <3>3, <3>4 DEF ResumeInv, Working, Started, ReadyToStore
  <2>8. QED  BY <1>3, <2>1, <2>2, <2>3, <2>4, <2>5, <2>6, <2>7 DEF Attempt
<1>4. ASSUME NEW w \in Workers, Ends(w) PROVE ~overlap' => ResumeInv'
  <2>1. PICK s : worker' = [worker EXCEPT ![w] = s] /\ s.pc \in {"idle", "killed"}
    BY <1>4, IdleType DEF Ends, Fail, KillOverdue, MarkTimeout, Dies, Idle
  <2>2. \A v \in Workers : worker'[v] = worker[v] \/ worker'[v].pc \in {"idle", "killed", "stored"}
    BY <2>1, <1>i DEF ItemType
  <2>3. cands' = cands /\ overlap' = overlap /\ row'.done = row.done
    BY <1>4, <1>i DEF Ends, Fail, KillOverdue, MarkTimeout, Dies, ItemType
  <2>4. QED  BY <2>2, <2>3, ItemFrame
<1>5. CASE UNCHANGED vars
  BY <1>5, ItemFrame DEF vars
<1>6. QED  BY <1>1, <1>2, <1>3, <1>4, <1>5 DEF Next

-----------------------------------------------------------------------------
(* What the attempts at an item come to.                                   *)

\* Every batch of version v ends at or before the checkpoint: an attempt at
\* that version that starts now skips them all.
Exhausted(v) == \A n \in BatchStarts(v) : BatchEnd(n, v) <= row.done

\* The attempt in subprocess w agrees with the tables, and what it finds from
\* here on is in no candidate yet.
InStep(w) ==
    LET s == worker[w]
    IN  /\ s.pc \in {"opened", "vlm"} => s.start = row.done
        /\ s.pc \in {"claimed", "opened", "vlm"} => s.all = {}
        /\ s.pc = "vlm" => s.known = snippets
        /\ s.pc \in {"vlm", "llm"} => s.base = Cardinality(cands)
        /\ s.pc = "llm" =>
              /\ s.at <= Total(s.version)
              /\ s.at < Total(s.version) => BatchEnd(s.at, s.version) > row.done
              /\ s.at = Total(s.version) => Exhausted(s.version)
              /\ \A f \in s.all : f.version = s.version
              /\ \/ \A c \in cands : c.found.version # s.version
                 \/ s.at = Total(s.version) /\ s.all = {}

\* Candidates come from versions that are exhausted, so that no later attempt
\* meets their windows; their indices stay below their number, where the next
\* resumed attempt goes on counting.
CandsSound ==
    /\ \A c \in cands : c.index < Cardinality(cands) /\ Exhausted(c.found.version)
    /\ \A c, d \in cands : c.found = d.found => c = d
    /\ decided => cands # {}
    /\ Cardinality(DescribedSnippets) <= VlmCap

AtWindows(w) == worker[w].pc = "llm"

\* Before the transaction that stores the candidates, and after it.
NothingStored ==
    /\ cands = {} /\ row.status # "processed"
    /\ row.done > 0 => \E w \in Workers : AtWindows(w)
    /\ \A w \in Workers : AtWindows(w) =>
          worker[w].at = row.done /\ worker[w].all = FoundIn(0, row.done, 1)

AllStored ==
    /\ row.done = Total(1) /\ WindowsStored = 0..(Total(1) - 1)
    /\ \A w \in Workers : AtWindows(w) => worker[w].at = Total(1) /\ worker[w].all = {}

Whole ==
    ~interrupted /\ content = 1 =>
        /\ \A w \in Workers : Started(w) => worker[w].version = 1
        /\ NothingStored \/ AllStored

SumInv == ~overlap => CandsSound /\ (\A w \in Workers : InStep(w)) /\ Whole

LEMMA InitSum == Init => SumInv
<1>. SUFFICES ASSUME Init PROVE SumInv
  OBVIOUS
<1>1. /\ cands = {} /\ decided = FALSE /\ row.done = 0 /\ row.status = "absent"
      /\ \A w \in Workers : worker[w].pc = "idle"
  BY IdleType DEF Init
<1>2. DescribedSnippets = {}
  BY DEF Init, DescribedSnippets, NoSnippets
<1>3. CandsSound
  BY <1>1, <1>2, FS_EmptySet, ItemAssumption DEF CandsSound
<1>4. \A w \in Workers : InStep(w)
  BY <1>1 DEF InStep
<1>5. Whole
  BY <1>1 DEF Whole, Started, NothingStored, AtWindows
<1>6. QED  BY <1>3, <1>4, <1>5 DEF SumInv

\* Frame for the tables.
LEMMA CandsFrame ==
    ASSUME CandsSound, ItemType, cands' = cands, decided' => decided \/ cands # {},
           snippets' = snippets, row'.done \in Nat, row'.done >= row.done
    PROVE  CandsSound'
<1>1. ASSUME NEW v \in Versions, Exhausted(v) PROVE Exhausted(v)'
  <2>1. \A n \in BatchStarts(v) : BatchEnd(n, v) \in Nat
    BY BatchEndPositive DEF BatchStarts
  <2>2. QED  BY <1>1, <2>1 DEF Exhausted, ItemType
<1>2. \A c \in cands : c.found.version \in Versions
  BY DEF ItemType, Finds
<1>3. DescribedSnippets' = DescribedSnippets
  BY DEF DescribedSnippets
<1>4. QED  BY <1>1, <1>2, <1>3 DEF CandsSound

\* Frame for the attempts: a worker that stays where it is, or stops.
LEMMA InStepFrame ==
    ASSUME NEW w \in Workers, InStep(w),
           UNCHANGED <<cands, snippets>>, row'.done = row.done,
           \/ worker'[w] = worker[w]
           \/ worker'[w].pc \in {"idle", "killed", "stored"}
           \/ worker'[w].pc = "claimed" /\ worker'[w].all = {}
    PROVE  InStep(w)'
<1>1. CASE worker'[w] = worker[w]
  BY <1>1 DEF InStep, Exhausted
<1>2. CASE worker'[w] # worker[w]
  BY <1>2 DEF InStep
<1>3. QED  BY <1>1, <1>2

\* Only the worker at work has anything to agree with.
LEMMA AloneInStep ==
    ASSUME ItemType, ResumeInv, NEW w \in Workers, Working(w), NEW s,
           worker' = [worker EXCEPT ![w] = s], InStep(w)'
    PROVE  \A v \in Workers : InStep(v)'
<1>1. ASSUME NEW v \in Workers, v # w PROVE InStep(v)'
  <2>1. worker'[v] = worker[v] /\ ~Working(v)
    BY <1>1 DEF ResumeInv, ItemType
  <2>2. QED  BY <2>1 DEF InStep, Working
<1>2. QED  BY <1>1

LEMMA BatchEndBounds ==
    ASSUME NEW v \in Versions, NEW n \in Nat
    PROVE  BatchEnd(n, v) <= Total(v) /\ (n < Total(v) => BatchEnd(n, v) > n)
BY ItemAssumption, TotalPositive DEF BatchEnd

\* What a resumed attempt takes up: a batch that ends past its checkpoint, or
\* the end of the text when there is none.
LEMMA FirstBatchFinds ==
    ASSUME NEW v \in Versions, NEW start \in Nat
    PROVE  LET at == FirstBatch(start, v)
           IN  \/ at < Total(v) /\ at \in BatchStarts(v) /\ BatchEnd(at, v) > start
               \/ at = Total(v) /\ \A n \in BatchStarts(v) : BatchEnd(n, v) <= start
<1>. DEFINE todo == {n \in BatchStarts(v) : BatchEnd(n, v) > start}
<1>1. todo \in SUBSET (0..(Total(v) - 1)) /\ todo \in SUBSET Nat /\ Total(v) \in Nat \ {0}
  BY TotalPositive DEF BatchStarts
<1>2. CASE todo = {}
  <2>1. \A n \in BatchStarts(v) : BatchEnd(n, v) \in Nat
    BY BatchEndPositive DEF BatchStarts
  <2>2. \A n \in BatchStarts(v) : BatchEnd(n, v) <= start
    BY <1>2, <2>1
  <2>3. QED  BY <1>2, <2>2 DEF FirstBatch
<1>3. CASE todo # {}
  <2>1. FirstBatch(start, v) \in todo
    <3>1. \E n \in todo : \A m \in todo : n <= m
      BY <1>1, <1>3, LeastMember
    <3>. HIDE DEF todo
    <3>2. (CHOOSE n \in todo : \A m \in todo : n <= m) \in todo
      BY <3>1
    <3>3. QED  BY <1>3, <3>2 DEF FirstBatch, todo
  <2>2. QED  BY <1>1, <2>1
<1>4. QED  BY <1>2, <1>3

LEMMA FirstBatchEnds ==
    ASSUME NEW v \in Versions
    PROVE  FirstBatch(0, v) = 0 /\ FirstBatch(Total(v), v) = Total(v)
<1>1. 0 \in BatchStarts(v) /\ BatchEnd(0, v) > 0
  <2>1. Total(v) \in Nat \ {0}
    BY TotalPositive
  <2>2. 0 \in BatchStarts(v)
    BY <2>1, ItemAssumption DEF BatchStarts
  <2>3. BatchEnd(0, v) \in Nat \ {0}
    BY BatchEndPositive
  <2>4. QED  BY <2>2, <2>3
<1>2. FirstBatch(0, v) = 0
  <2>. DEFINE todo == {n \in BatchStarts(v) : BatchEnd(n, v) > 0}
  <2>1. 0 \in todo /\ todo \in SUBSET Nat
    BY <1>1 DEF BatchStarts
  <2>2. FirstBatch(0, v) = CHOOSE n \in todo : \A m \in todo : n <= m
    BY <2>1 DEF FirstBatch
  <2>. HIDE DEF todo
  <2>3. \A m \in todo : 0 <= m
    BY <2>1
  <2>4. PICK k \in todo : k = FirstBatch(0, v) /\ \A m \in todo : k <= m
    BY <2>1, <2>2, <2>3
  <2>5. k \in Nat /\ k <= 0
    BY <2>1, <2>4
  <2>6. QED  BY <2>4, <2>5
<1>3. FirstBatch(Total(v), v) = Total(v)
  <2>1. Total(v) \in Nat
    BY TotalPositive
  <2>2. \A n \in BatchStarts(v) : BatchEnd(n, v) <= Total(v) /\ BatchEnd(n, v) \in Nat
    BY BatchEndBounds, BatchEndPositive DEF BatchStarts
  <2>3. QED  BY <2>1, <2>2, FirstBatchFinds
<1>4. QED  BY <1>2, <1>3

\* Storing the list in memory: one candidate for each window of it.
LEMMA NumberedCounts ==
    ASSUME ItemType, NEW w \in Workers
    PROVE  /\ Cardinality(Numbered(w)) = Cardinality(worker[w].all)
           /\ \A c \in Numbered(w) : /\ c.found \in worker[w].all
                                     /\ c.index >= worker[w].base
                                     /\ c.index < worker[w].base + Cardinality(worker[w].all)
           /\ \A c, d \in Numbered(w) : c.found = d.found => c = d
           /\ {c.found : c \in Numbered(w)} = worker[w].all
<1>. DEFINE S == worker[w].all
            base == worker[w].base
            Before(x) == {g \in S : g.window < x.window}
            Index(x) == base + Cardinality(Before(x))
            T == {[index |-> Index(x), found |-> x] : x \in S}
            f == [x \in S |-> [index |-> Index(x), found |-> x]]
<1>1. IsFiniteSet(S) /\ S \subseteq Finds /\ base \in Nat
  BY DEF ItemType, Workshop
<1>2. ASSUME NEW x \in S PROVE Index(x) >= base /\ Index(x) < base + Cardinality(S)
  <2>1. Before(x) \subseteq S /\ Before(x) # S
    <3>1. x.window \in Nat
      BY <1>1 DEF Finds
    <3>2. x \notin Before(x)
      BY <3>1
    <3>3. QED  BY <3>2
  <2>. HIDE DEF Before
  <2>2. /\ Cardinality(Before(x)) \in Nat /\ Cardinality(S) \in Nat
        /\ Cardinality(Before(x)) < Cardinality(S)
    BY <1>1, <2>1, FS_Subset, FS_CardinalityType
  <2>. HIDE DEF S, base
  <2>3. QED  BY <1>1, <2>2
<1>3. Numbered(w) = T
  BY DEF Numbered
<1>. HIDE DEF S, base, Index
<1>4. f \in Bijection(S, T)
  BY DEF Bijection, Injection, Surjection, IsInjective
<1>. HIDE DEF f
<1>5. Cardinality(T) = Cardinality(S)
  <2>. HIDE DEF T
  <2>1. ExistsBijection(S, T)
    BY <1>4 DEF ExistsBijection
  <2>2. QED  BY <1>1, <2>1, FS_Bijection
<1>6. \A c \in T : c.found \in S /\ c.index >= base /\ c.index < base + Cardinality(S)
  BY <1>2
<1>7. \A c, d \in T : c.found = d.found => c = d
  OBVIOUS
<1>8. {c.found : c \in T} = S
  <2>1. \A x \in S : [index |-> Index(x), found |-> x] \in T
    OBVIOUS
  <2>2. \A x \in S : \E c \in T : x = c.found
    BY <2>1
  <2>3. QED  BY <2>2
<1>9. QED  BY <1>3, <1>5, <1>6, <1>7, <1>8 DEF S, base

Sound == CandsSound /\ \A w \in Workers : InStep(w)

LEMMA StoreSound ==
    ASSUME ItemType, ResumeInv, Sound, NEW w \in Workers, Store(w)
    PROVE  Sound' /\ cands' = cands \cup Numbered(w)
<1>. DEFINE N == Numbered(w)
            base == worker[w].base
            v == worker[w].version
<1>1. /\ worker[w].pc = "llm" /\ worker[w].at = Total(v) /\ Working(w) /\ Started(w)
      /\ base = Cardinality(cands) /\ Exhausted(v) /\ worker[w].start \in Nat
      /\ \A f \in worker[w].all : f.version = v
      /\ (\A c \in cands : c.found.version # v) \/ worker[w].all = {}
  BY DEF Store, ReadyToStore, Sound, InStep, Working, Started, ItemType, Workshop
<1>2. cands' = cands \cup N
  <2>1. IsResume(w) \/ cands = {}
    BY <1>1 DEF ResumeInv, IsResume
  <2>2. QED  BY <2>1 DEF Store
<1>3. row'.done = row.done /\ decided' = decided /\ snippets' = snippets
  BY DEF Store, ItemType
<1>4. /\ Cardinality(cands) \in Nat /\ IsFiniteSet(N) /\ Cardinality(N) = Cardinality(worker[w].all)
      /\ Cardinality(N) \in Nat
  BY NumberedFinite, NumberedCounts, FS_CardinalityType DEF ItemType
<1>5. \A c \in N : /\ c.found \in worker[w].all /\ c.index \in Nat
                   /\ c.index >= base /\ c.index < base + Cardinality(N)
  BY <1>4, NumberedCounts, NumberedType
<1>6. \A c \in cands : c.index \in Nat /\ c.index < base
  BY <1>1 DEF Sound, CandsSound, ItemType
<1>7. \A c, d \in N : c.found = d.found => c = d
  BY NumberedCounts
<1>8. cands \cap N = {}
  BY <1>5, <1>6, <1>1, <1>4
<1>9. Cardinality(cands \cup N) = base + Cardinality(N)
  <2>1. Cardinality(cands \cap N) = 0
    BY <1>8, FS_EmptySet
  <2>2. Cardinality(cands \cup N) = Cardinality(cands) + Cardinality(N) - Cardinality(cands \cap N)
    BY <1>4, FS_Union DEF ItemType
  <2>. HIDE DEF N, base
  <2>3. QED  BY <1>1, <1>4, <2>1, <2>2
<1>10. \A c \in cands \cup N : c.index < Cardinality(cands \cup N) /\ Exhausted(c.found.version)
  <2>1. ASSUME NEW c \in cands PROVE c.index < base + Cardinality(N) /\ Exhausted(c.found.version)
    <3>1. c.index \in Nat /\ c.index < base /\ base \in Nat
      BY <1>1, <1>4, <1>6
    <3>. HIDE DEF N, base
    <3>2. c.index < base + Cardinality(N)
      BY <3>1, <1>4
    <3>3. QED  BY <3>2 DEF Sound, CandsSound
  <2>2. ASSUME NEW c \in N PROVE c.index < base + Cardinality(N) /\ Exhausted(c.found.version)
    BY <1>1, <1>5
  <2>3. QED  BY <1>9, <2>1, <2>2
<1>11. \A c, d \in cands \cup N : c.found = d.found => c = d
  <2>1. \A c \in cands, d \in N : c.found # d.found
    BY <1>1, <1>5
  <2>2. \A c, d \in cands : c.found = d.found => c = d
    BY DEF Sound, CandsSound
  <2>3. QED  BY <1>7, <2>1, <2>2
<1>. HIDE DEF N, base, v
<1>12. \A u : Exhausted(u) => Exhausted(u)'
  BY <1>3 DEF Exhausted
<1>13. CandsSound'
  <2>1. (decided => cands # {}) /\ Cardinality(DescribedSnippets) <= VlmCap
    BY DEF Sound, CandsSound
  <2>2. (decided => cands # {})' /\ (Cardinality(DescribedSnippets) <= VlmCap)'
    BY <1>2, <1>3, <2>1 DEF DescribedSnippets
  <2>3. QED  BY <1>2, <1>10, <1>11, <1>12, <2>2 DEF CandsSound
<1>14. \A u \in Workers : InStep(u)'
  <2>1. worker' = [worker EXCEPT ![w] = [worker[w] EXCEPT !.pc = "stored"]]
    BY DEF Store
  <2>2. worker'[w].pc = "stored"
    BY <2>1 DEF ItemType, Workshop
  <2>3. InStep(w)'
    BY <2>2 DEF InStep
  <2>4. QED  BY <1>1, <2>1, <2>3, AloneInStep
<1>15. QED  BY <1>2, <1>13, <1>14 DEF Sound, N

LEMMA DescribeSound ==
    ASSUME ItemType, ResumeInv, Sound, NEW w \in Workers, NEW a \in Artifacts,
           DescribeArtifact(w, a)
    PROVE  Sound'
<1>1. PICK kind : /\ kind = IF Cardinality(Described(w)) >= VlmCap THEN "skipped" ELSE "described"
                  /\ snippets' = [snippets EXCEPT ![a] = kind]
                  /\ worker' = [worker EXCEPT ![w].known[a] = kind]
  BY DEF DescribeArtifact
<1>2. PICK s : s = [worker[w] EXCEPT !.known[a] = kind] /\ worker' = [worker EXCEPT ![w] = s]
  BY <1>1
<1>3. /\ worker[w].pc = "vlm" /\ worker[w].known[a] = "none" /\ Working(w)
      /\ UNCHANGED <<row, cands, decided>> /\ worker[w] \in Workshop
      /\ snippets \in [Artifacts -> SnippetKinds]
  BY DEF DescribeArtifact, Working, ItemType
<1>4. InStep(w) /\ worker[w].known = snippets
  BY <1>3 DEF Sound, InStep
<1>5. InStep(w)'
  <2>1. /\ s.pc = "vlm" /\ s.start = worker[w].start /\ s.all = worker[w].all
        /\ s.base = worker[w].base /\ s.known = [snippets EXCEPT ![a] = kind]
    BY <1>2, <1>3, <1>4 DEF Workshop
  <2>2. worker'[w] = s
    BY <1>2 DEF ItemType
  <2>3. QED  BY <1>1, <1>3, <1>4, <2>1, <2>2 DEF InStep
<1>6. Cardinality(DescribedSnippets') <= VlmCap
  <2>1. Described(w) = DescribedSnippets /\ a \notin DescribedSnippets
    BY <1>3, <1>4 DEF Described, DescribedSnippets
  <2>2. /\ IsFiniteSet(DescribedSnippets) /\ Cardinality(DescribedSnippets) \in Nat
        /\ Cardinality(DescribedSnippets) <= VlmCap /\ VlmCap \in Nat
    BY ItemAssumption, FS_Subset, FS_CardinalityType DEF DescribedSnippets, Sound, CandsSound
  <2>3. CASE kind = "skipped"
    <3>1. DescribedSnippets' = DescribedSnippets
      BY <1>1, <1>3, <1>4, <2>3 DEF DescribedSnippets
    <3>2. QED  BY <2>2, <3>1
  <2>4. CASE kind = "described"
    <3>1. DescribedSnippets' = DescribedSnippets \cup {a}
      BY <1>1, <1>3, <2>4 DEF DescribedSnippets
    <3>2. Cardinality(DescribedSnippets \cup {a}) = Cardinality(DescribedSnippets) + 1
      BY <2>1, <2>2, FS_AddElement
    <3>3. ~(Cardinality(DescribedSnippets) >= VlmCap)
      BY <1>1, <2>1, <2>4
    <3>4. QED  BY <2>2, <3>1, <3>2, <3>3
  <2>5. QED  BY <1>1, <2>3, <2>4
<1>7. CandsSound'
  BY <1>3, <1>6 DEF Sound, CandsSound, Exhausted
<1>8. QED  BY <1>2, <1>3, <1>5, <1>7, AloneInStep DEF Sound

LEMMA BatchSound ==
    ASSUME ItemType, ResumeInv, Sound, NEW w \in Workers, ExtractBatch(w)
    PROVE  Sound'
<1>1. PICK v, at, next, all :
         v = worker[w].version /\ at = worker[w].at /\ next = BatchEnd(at, v)
         /\ all = worker[w].all \cup FoundIn(at, next, v)
  OBVIOUS
<1>2. PICK s : /\ s = [worker[w] EXCEPT !.at = next, !.all = all]
               /\ worker' = [worker EXCEPT ![w] = s]
  BY <1>1 DEF ExtractBatch
<1>3. /\ worker[w].pc = "llm" /\ at < Total(v) /\ Working(w) /\ row'.done = next
      /\ UNCHANGED <<cands, decided, snippets>> /\ worker[w] \in Workshop
      /\ row.done \in Nat /\ at \in Nat /\ v \in Versions /\ Total(v) \in Nat
  BY <1>1, TotalPositive DEF ExtractBatch, Working, ItemType, Workshop
<1>4. next \in Nat /\ next > at /\ next <= Total(v)
  BY <1>1, <1>3, BatchEndPositive, BatchEndBounds
<1>5. /\ next > row.done /\ worker[w].base = Cardinality(cands)
      /\ \A f \in worker[w].all : f.version = v
      /\ \A c \in cands : c.found.version # v
  BY <1>1, <1>3 DEF Sound, InStep
<1>6. CandsSound'
  BY <1>3, <1>4, <1>5, CandsFrame DEF Sound
<1>7. InStep(w)'
  <2>1. /\ s.pc = "llm" /\ s.base = worker[w].base /\ s.version = v /\ s.at = next
        /\ s.all = all
    BY <1>1, <1>2, <1>3 DEF Workshop
  <2>2. worker'[w] = s
    BY <1>2 DEF ItemType
  <2>3. next < Total(v) => BatchEnd(next, v) > next
    BY <1>3, <1>4, BatchEndBounds
  <2>4. next = Total(v) => \A n \in BatchStarts(v) : BatchEnd(n, v) <= next
    BY <1>3, BatchEndBounds DEF BatchStarts
  <2>5. \A f \in all : f.version = v
    BY <1>1, <1>5 DEF FoundIn
  <2>6. QED  BY <1>3, <1>4, <1>5, <2>1, <2>2, <2>3, <2>4, <2>5 DEF InStep, Exhausted
<1>8. QED  BY <1>2, <1>3, <1>6, <1>7, AloneInStep DEF Sound

LEMMA SoundStep == ItemInv /\ SumInv /\ [Next]_vars => (~overlap' => Sound')
<1>. SUFFICES ASSUME ItemInv, SumInv, [Next]_vars, ~overlap' PROVE Sound'
  OBVIOUS
<1>i. ItemType
  BY DEF ItemInv
<1>f. (\A w \in Workers : worker[w] \in Workshop) /\ row.done \in Nat
  BY <1>i DEF ItemType
<1>o. ~overlap
  BY <1>i DEF Next, vars, ContentChanges, EnqueueExtraction, Requeue, Decide, Attempt, Claim,
              OpenProjection, LoadPrior, DescribeArtifact, BeginWindows, ExtractBatch, Store,
              Ends, Fail, KillOverdue, MarkTimeout, Dies, ItemType
<1>r. ResumeInv /\ Sound /\ CandsSound /\ \A w \in Workers : InStep(w)
  BY <1>o DEF ItemInv, SumInv, Sound
<1>1. ASSUME UNCHANGED <<cands, snippets, worker>>, row'.done = row.done,
             decided' => decided \/ cands # {}
      PROVE  Sound'
  BY <1>1, <1>i, <1>f, <1>r, CandsFrame, InStepFrame DEF Sound
<1>2. CASE ContentChanges \/ Requeue \/ Decide \/ UNCHANGED vars
  BY <1>1, <1>2, <1>i DEF ContentChanges, Requeue, Decide, vars, ItemType
<1>3. ASSUME NEW hash \in {0, content}, EnqueueExtraction(hash) PROVE Sound'
  BY <1>1, <1>3, <1>i DEF EnqueueExtraction, ItemType
<1>4. ASSUME NEW w \in Workers, Attempt(w) PROVE Sound'
  <2>c. ASSUME UNCHANGED <<cands, snippets, decided, row>> PROVE CandsSound'
    BY <2>c, <1>i, <1>f, <1>r, CandsFrame
  <2>1. CASE Claim(w)
    <3>1. /\ worker' = [worker EXCEPT ![w] = [Idle EXCEPT !.pc = "claimed"]]
          /\ UNCHANGED <<cands, snippets, decided>> /\ row'.done = row.done
      BY <2>1, <1>i DEF Claim, ItemType
    <3>2. worker'[w].pc = "claimed" /\ worker'[w].all = {}
          /\ \A v \in Workers : v # w => worker'[v] = worker[v]
      BY <3>1, <1>i DEF ItemType, Idle
    <3>3. \A v \in Workers : InStep(v)'
      BY <3>1, <3>2, <1>r, InStepFrame
    <3>4. QED  BY <3>1, <3>3, <1>i, <1>f, <1>r, CandsFrame DEF Sound
  <2>2. CASE OpenProjection(w)
    <3>1. PICK s : /\ s = [worker[w] EXCEPT !.pc = "opened", !.start = row.done, !.version = content]
                   /\ worker' = [worker EXCEPT ![w] = s]
      BY <2>2 DEF OpenProjection
    <3>2. /\ UNCHANGED <<cands, snippets, decided, row>> /\ Working(w) /\ worker[w].pc = "claimed"
          /\ worker[w].all = {} /\ worker'[w] = s
      BY <2>2, <3>1, <1>i, <1>r DEF OpenProjection, Working, InStep, ItemType
    <3>3. s.pc = "opened" /\ s.start = row.done /\ s.all = {}
      BY <3>1, <3>2, <1>f DEF Workshop
    <3>4. InStep(w)'
      BY <3>2, <3>3 DEF InStep
    <3>5. QED  BY <3>1, <3>2, <3>4, <2>c, <1>i, <1>r, AloneInStep DEF Sound
  <2>3. CASE LoadPrior(w)
    <3>1. PICK b, s : /\ b = (IF worker[w].start > 0 THEN Cardinality(cands) ELSE 0)
                      /\ s = [worker[w] EXCEPT !.pc = "vlm", !.known = snippets, !.base = b]
                      /\ worker' = [worker EXCEPT ![w] = s]
      BY <2>3 DEF LoadPrior
    <3>2. /\ UNCHANGED <<cands, snippets, decided, row>> /\ Working(w) /\ Started(w)
          /\ worker[w].all = {} /\ worker[w].start = row.done /\ worker'[w] = s
      BY <2>3, <3>1, <1>i, <1>r DEF LoadPrior, Working, Started, InStep, ItemType
    <3>3. b = Cardinality(cands)
      BY <3>1, <3>2, <1>f, <1>r, FS_EmptySet DEF ResumeInv
    <3>4. /\ s.pc = "vlm" /\ s.start = worker[w].start /\ s.all = {} /\ s.known = snippets
          /\ s.base = Cardinality(cands)
      BY <3>1, <3>2, <3>3, <1>f DEF Workshop
    <3>5. InStep(w)'
      BY <3>2, <3>4 DEF InStep
    <3>6. QED  BY <3>1, <3>2, <3>5, <2>c, <1>i, <1>r, AloneInStep DEF Sound
  <2>4. ASSUME NEW a \in Artifacts, DescribeArtifact(w, a) PROVE Sound'
    BY <2>4, <1>i, <1>r, DescribeSound
  <2>5. CASE BeginWindows(w)
    <3>1. PICK at, s : /\ at = FirstBatch(worker[w].start, worker[w].version)
                       /\ s = [worker[w] EXCEPT !.pc = "llm", !.at = at]
                       /\ worker' = [worker EXCEPT ![w] = s]
      BY <2>5 DEF BeginWindows
    <3>2. /\ UNCHANGED <<cands, snippets, decided, row>> /\ Working(w) /\ worker[w].pc = "vlm"
          /\ worker[w].all = {} /\ worker[w].start = row.done /\ worker'[w] = s
          /\ worker[w].base = Cardinality(cands)
      BY <2>5, <3>1, <1>i, <1>r DEF BeginWindows, Working, InStep, ItemType
    <3>3. /\ s.pc = "llm" /\ s.version = worker[w].version /\ s.all = {} /\ s.at = at
          /\ s.base = Cardinality(cands) /\ s.version \in Versions
      BY <3>1, <3>2, <1>f DEF Workshop
    <3>4. \/ at < Total(s.version) /\ at \in BatchStarts(s.version)
             /\ BatchEnd(at, s.version) > row.done
          \/ at = Total(s.version) /\ Exhausted(s.version)
      BY <3>1, <3>2, <3>3, <1>f, FirstBatchFinds DEF Exhausted
    <3>5. Total(s.version) \in Nat /\ (at \in Nat => BatchEnd(at, s.version) \in Nat)
          /\ (at \in BatchStarts(s.version) => at \in Nat)
      BY <3>3, TotalPositive, BatchEndPositive DEF BatchStarts
    <3>6. \A c \in cands : c.found.version = s.version => at = Total(s.version)
      BY <3>4, <3>5, <1>f, <1>r DEF CandsSound, Exhausted
    <3>7. InStep(w)'
      BY <3>2, <3>3, <3>4, <3>5, <3>6 DEF InStep, Exhausted
    <3>8. QED  BY <3>1, <3>2, <3>7, <2>c, <1>i, <1>r, AloneInStep DEF Sound
  <2>6. CASE ExtractBatch(w)
    BY <2>6, <1>i, <1>r, BatchSound
  <2>7. CASE Store(w)
    BY <2>7, <1>i, <1>r, StoreSound
  <2>8. QED  BY <1>4, <2>1, <2>2, <2>3, <2>4, <2>5, <2>6, <2>7 DEF Attempt
<1>5. ASSUME NEW w \in Workers, Ends(w) PROVE Sound'
  <2>1. PICK s : worker' = [worker EXCEPT ![w] = s] /\ s.pc \in {"idle", "killed"}
    BY <1>5, IdleType DEF Ends, Fail, KillOverdue, MarkTimeout, Dies, Idle
  <2>2. /\ worker'[w].pc \in {"idle", "killed"}
        /\ \A v \in Workers : v # w => worker'[v] = worker[v]
    BY <2>1, <1>i DEF ItemType
  <2>3. UNCHANGED <<cands, snippets, decided>> /\ row'.done = row.done
    BY <1>5, <1>i DEF Ends, Fail, KillOverdue, MarkTimeout, Dies, ItemType
  <2>4. \A v \in Workers : InStep(v)'
    BY <2>2, <2>3, <1>r, InStepFrame
  <2>5. QED  BY <2>3, <2>4, <1>i, <1>f, <1>r, CandsFrame DEF Sound
<1>6. QED  BY <1>2, <1>3, <1>4, <1>5 DEF Next

\* Frame: nobody begins or leaves the windows, or moves while there.
LEMMA WholeFrame ==
    ASSUME NothingStored \/ AllStored, cands' = cands, row'.done = row.done,
           row'.status = "processed" => row.status = "processed",
           \A v \in Workers : \/ worker'[v] = worker[v]
                              \/ worker'[v].pc # "llm" /\ worker[v].pc # "llm"
    PROVE  (NothingStored \/ AllStored)'
<1>1. \A v \in Workers : /\ AtWindows(v)' <=> AtWindows(v)
                         /\ AtWindows(v) => worker'[v] = worker[v]
  BY DEF AtWindows
<1>2. NothingStored => NothingStored'
  BY <1>1 DEF NothingStored
<1>3. AllStored => AllStored'
  BY <1>1 DEF AllStored, WindowsStored
<1>4. QED  BY <1>2, <1>3

\* One worker at the windows, and what is to hold of it there.
LEMMA WholeAt ==
    ASSUME ItemType, ResumeInv, NEW w \in Workers, Working(w), NEW s,
           worker' = [worker EXCEPT ![w] = s], s.pc = "llm",
           \/ /\ cands' = {} /\ row'.status # "processed" /\ s.at = row'.done
              /\ s.all = FoundIn(0, row'.done, 1)
           \/ /\ row'.done = Total(1) /\ {c.found.window : c \in cands'} = 0..(Total(1) - 1)
              /\ s.at = Total(1) /\ s.all = {}
    PROVE  (NothingStored \/ AllStored)'
<1>1. worker'[w] = s /\ AtWindows(w)'
  BY DEF ItemType, AtWindows
<1>2. \A v \in Workers : AtWindows(v)' => v = w
  BY DEF ResumeInv, Working, AtWindows, ItemType
<1>3. QED  BY <1>1, <1>2 DEF NothingStored, AllStored, WindowsStored

LEMMA WholeStore ==
    ASSUME ItemType, ResumeInv, Sound, NEW w \in Workers, Store(w),
           worker[w].version = 1, NothingStored \/ AllStored
    PROVE  (NothingStored \/ AllStored)'
<1>1. /\ worker[w].pc = "llm" /\ AtWindows(w) /\ worker[w].at = Total(1) /\ Working(w)
      /\ row'.done = row.done /\ worker' = [worker EXCEPT ![w].pc = "stored"]
  BY DEF Store, ReadyToStore, AtWindows, Working, ItemType
<1>2. \A v \in Workers : ~AtWindows(v)'
  BY <1>1 DEF ResumeInv, Working, AtWindows, ItemType, Workshop
<1>3. cands' = cands \cup Numbered(w)
  BY StoreSound
<1>4. {c.found : c \in Numbered(w)} = worker[w].all
  BY NumberedCounts
<1>5. row.done = Total(1) /\ WindowsStored' = 0..(Total(1) - 1)
  <2>1. CASE NothingStored
    <3>1. cands' = Numbered(w) /\ row.done = Total(1) /\ worker[w].all = FoundIn(0, Total(1), 1)
      BY <1>1, <1>3, <2>1 DEF NothingStored
    <3>2. {f.window : f \in FoundIn(0, Total(1), 1)} = 0..(Total(1) - 1)
      <4>. DEFINE S == 0..(Total(1) - 1)
      <4>1. FoundIn(0, Total(1), 1) = {[window |-> k, version |-> 1] : k \in S}
        BY DEF FoundIn
      <4>. HIDE DEF S
      <4>2. \A k \in S : [window |-> k, version |-> 1].window = k
        OBVIOUS
      <4>3. {f.window : f \in {[window |-> k, version |-> 1] : k \in S}} = S
        BY <4>2
      <4>4. QED  BY <4>1, <4>3 DEF S
    <3>3. {c.found.window : c \in Numbered(w)} = {f.window : f \in worker[w].all}
      BY <1>4
    <3>4. QED  BY <3>1, <3>2, <3>3 DEF WindowsStored
  <2>2. CASE AllStored
    <3>1. Numbered(w) = {} /\ row.done = Total(1) /\ WindowsStored = 0..(Total(1) - 1)
      BY <1>1, <1>4, <2>2 DEF AllStored
    <3>2. QED  BY <1>3, <3>1 DEF WindowsStored
  <2>3. QED  BY <2>1, <2>2
<1>6. QED  BY <1>1, <1>2, <1>5 DEF AllStored

LEMMA WholeStep == ItemInv /\ SumInv /\ [Next]_vars => (~overlap' => Whole')
<1>. SUFFICES ASSUME ItemInv, SumInv, [Next]_vars, ~overlap', ~interrupted', content' = 1
              PROVE  /\ \A w \in Workers : Started(w)' => worker'[w].version = 1
                     /\ (NothingStored \/ AllStored)'
  BY DEF Whole
<1>i. ItemType
  BY DEF ItemInv
<1>f. (\A w \in Workers : worker[w] \in Workshop) /\ row.done \in Nat
  BY <1>i DEF ItemType
<1>o. ~overlap /\ ~interrupted /\ content = 1
  <2>1. content \in Nat /\ content # 0
    <3>1. Cardinality(Versions) \in Nat
      BY ItemAssumption, FS_CardinalityType
    <3>2. QED  BY <1>i, <3>1, ItemAssumption DEF ItemType
  <2>2. content' = content \/ content' = content + 1
    BY DEF Next, vars, ContentChanges, EnqueueExtraction, Requeue, Decide, Attempt, Claim,
              OpenProjection, LoadPrior, DescribeArtifact, BeginWindows, ExtractBatch, Store,
              Ends, Fail, KillOverdue, MarkTimeout, Dies
  <2>3. ~overlap /\ ~interrupted
    BY <1>i DEF Next, vars, ContentChanges, EnqueueExtraction, Requeue, Decide, Attempt, Claim,
              OpenProjection, LoadPrior, DescribeArtifact, BeginWindows, ExtractBatch, Store,
              Ends, Fail, KillOverdue, MarkTimeout, Dies, ItemType
  <2>4. QED  BY <2>1, <2>2, <2>3
<1>r. /\ ResumeInv /\ Sound /\ \A w \in Workers : InStep(w)
      /\ \A w \in Workers : Started(w) => worker[w].version = 1
      /\ NothingStored \/ AllStored
  BY <1>o DEF ItemInv, SumInv, Sound, Whole
<1>1. CASE ContentChanges \/ Requeue \/ Decide \/ UNCHANGED vars
  <2>1. /\ cands' = cands /\ row'.done = row.done /\ worker' = worker
        /\ row'.status = "processed" => row.status = "processed"
    BY <1>1, <1>i DEF ContentChanges, Requeue, Decide, vars, ItemType
  <2>2. QED  BY <1>r, <2>1, WholeFrame DEF Started
<1>2. ASSUME NEW hash \in {0, content}, EnqueueExtraction(hash)
      PROVE  /\ \A w \in Workers : Started(w)' => worker'[w].version = 1
             /\ (NothingStored \/ AllStored)'
  <2>1. /\ cands' = cands /\ row'.done = row.done /\ worker' = worker
        /\ row'.status = "processed" => row.status = "processed"
    BY <1>2, <1>i DEF EnqueueExtraction, ItemType
  <2>2. QED  BY <1>r, <2>1, WholeFrame DEF Started
<1>3. ASSUME NEW w \in Workers, Attempt(w)
      PROVE  /\ \A v \in Workers : Started(v)' => worker'[v].version = 1
             /\ (NothingStored \/ AllStored)'
  <2>1. PICK s : worker' = [worker EXCEPT ![w] = s]
    BY <1>3, <1>i DEF Attempt, Claim, OpenProjection, LoadPrior, DescribeArtifact, BeginWindows,
              ExtractBatch, Store, ItemType
  <2>2. worker'[w] = s /\ \A v \in Workers : v # w => worker'[v] = worker[v]
    BY <2>1, <1>i DEF ItemType
  <2>s. ASSUME s.pc \in {"opened", "vlm", "llm"} => s.version = 1
        PROVE  \A v \in Workers : Started(v)' => worker'[v].version = 1
    BY <2>s, <2>2, <1>r DEF Started
  <2>q. ASSUME UNCHANGED <<cands, row>> \/ Claim(w),
               worker[w].pc # "llm", s.pc # "llm", s.pc \in {"opened", "vlm"} => s.version = 1
        PROVE  /\ \A v \in Workers : Started(v)' => worker'[v].version = 1
               /\ (NothingStored \/ AllStored)'
    <3>1. /\ cands' = cands /\ row'.done = row.done
          /\ row'.status = "processed" => row.status = "processed"
      BY <2>q, <1>i DEF Claim, ItemType
    <3>2. QED  BY <3>1, <2>2, <2>q, <2>s, <1>r, WholeFrame
  <2>3. CASE Claim(w)
    <3>1. s.pc = "claimed" /\ worker[w].pc # "llm"
      BY <2>2, <2>3, <1>i DEF Claim, Idle, ItemType
    <3>2. QED  BY <2>3, <2>q, <3>1
  <2>4. CASE OpenProjection(w)
    <3>1. /\ s = [worker[w] EXCEPT !.pc = "opened", !.start = row.done, !.version = content]
          /\ worker[w].pc = "claimed" /\ UNCHANGED <<cands, row>>
      BY <2>2, <2>4, <1>i DEF OpenProjection, ItemType
    <3>2. s.pc = "opened" /\ s.version = 1
      BY <3>1, <1>f, <1>o DEF Workshop
    <3>3. QED  BY <2>q, <3>1, <3>2
  <2>5. CASE LoadPrior(w)
    <3>1. PICK b : /\ s = [worker[w] EXCEPT !.pc = "vlm", !.known = snippets, !.base = b]
                   /\ worker[w].pc = "opened" /\ UNCHANGED <<cands, row>>
      BY <2>2, <2>5, <1>i DEF LoadPrior, ItemType
    <3>2. s.pc = "vlm" /\ s.version = worker[w].version
      BY <3>1, <1>f DEF Workshop
    <3>3. QED  BY <2>q, <3>1, <3>2, <1>r DEF Started
  <2>6. CASE \E a \in Artifacts : DescribeArtifact(w, a)
    <3>1. /\ s.pc = "vlm" /\ s.version = worker[w].version /\ worker[w].pc = "vlm"
          /\ UNCHANGED <<cands, row>>
      BY <2>2, <2>6, <1>i DEF DescribeArtifact, ItemType, Workshop
    <3>2. QED  BY <2>q, <3>1, <1>r DEF Started
  <2>7. CASE BeginWindows(w)
    <3>1. /\ s.pc = "llm" /\ s.version = worker[w].version /\ worker[w].pc = "vlm"
          /\ s.at = FirstBatch(worker[w].start, worker[w].version) /\ s.all = worker[w].all
          /\ UNCHANGED <<cands, row>>
      BY <2>2, <2>7, <1>i DEF BeginWindows, ItemType, Workshop
    <3>2. /\ worker[w].version = 1 /\ worker[w].start = row.done /\ worker[w].all = {}
          /\ Working(w)
      BY <3>1, <1>r DEF Started, InStep, Working
    <3>3. \A v \in Workers : ~AtWindows(v)
      BY <3>1, <3>2, <1>r DEF AtWindows, Working, ResumeInv
    <3>4. CASE NothingStored
      <4>1. row.done = 0 /\ cands = {} /\ row.status # "processed"
        BY <3>3, <3>4, <1>f DEF NothingStored
      <4>2. FoundIn(0, 0, 1) = {} /\ FirstBatch(0, 1) = 0
        BY FirstBatchEnds, VersionType DEF FoundIn
      <4>3. QED  BY <2>1, <2>s, <3>1, <3>2, <4>1, <4>2, <1>i, <1>r, WholeAt
    <3>5. CASE AllStored
      <4>1. row.done = Total(1) /\ {c.found.window : c \in cands} = 0..(Total(1) - 1)
        BY <3>5 DEF AllStored, WindowsStored
      <4>2. FirstBatch(Total(1), 1) = Total(1)
        BY FirstBatchEnds, VersionType
      <4>3. /\ row'.done = Total(1) /\ {c.found.window : c \in cands'} = 0..(Total(1) - 1)
            /\ s.at = Total(1) /\ s.all = {}
        BY <3>1, <3>2, <4>1, <4>2
      <4>4. (NothingStored \/ AllStored)'
        BY <2>1, <3>1, <3>2, <4>3, <1>i, <1>r, WholeAt
      <4>5. QED  BY <2>s, <3>1, <3>2, <4>4
    <3>6. QED  BY <3>4, <3>5, <1>r
  <2>8. CASE ExtractBatch(w)
    <3>0. PICK next, all :
              /\ next = BatchEnd(worker[w].at, worker[w].version)
              /\ all = worker[w].all \cup FoundIn(worker[w].at, next, worker[w].version)
              /\ worker[w].pc = "llm" /\ worker[w].at < Total(worker[w].version)
              /\ s = [worker[w] EXCEPT !.at = next, !.all = all]
              /\ cands' = cands /\ row' = [row EXCEPT !.done = next]
      BY <2>2, <2>8, <1>i DEF ExtractBatch, ItemType
    <3>1. /\ next = BatchEnd(worker[w].at, worker[w].version)
          /\ worker[w].pc = "llm" /\ worker[w].at < Total(worker[w].version)
          /\ s.pc = "llm" /\ s.version = worker[w].version /\ s.at = next
          /\ s.all = worker[w].all \cup FoundIn(worker[w].at, next, worker[w].version)
          /\ cands' = cands /\ row'.done = next /\ row'.status = row.status
      BY <3>0, <1>f, <1>i DEF ItemType, Workshop
    <3>2. /\ worker[w].version = 1 /\ AtWindows(w) /\ Working(w)
      BY <3>1, <1>r DEF Started, Working, AtWindows
    <3>3. Total(1) \in Nat /\ worker[w].at \in Nat
      BY <1>f, TotalPositive, VersionType DEF Workshop
    <3>4. /\ cands = {} /\ row.status # "processed" /\ worker[w].at = row.done
          /\ worker[w].all = FoundIn(0, row.done, 1)
      BY <3>1, <3>2, <3>3, <1>r DEF NothingStored, AllStored
    <3>5. next \in Nat /\ next > row.done
      BY <3>1, <3>2, <3>3, <3>4, VersionType, BatchEndPositive, BatchEndBounds
    <3>6. s.all = FoundIn(0, next, 1)
      <4>1. 0..(next - 1) = (0..(row.done - 1)) \cup (row.done..(next - 1))
        BY <3>5, <1>f
      <4>2. QED  BY <3>1, <3>2, <3>4, <4>1 DEF FoundIn
    <3>7. QED  BY <2>1, <2>s, <3>1, <3>2, <3>4, <3>6, <1>i, <1>r, WholeAt
  <2>9. CASE Store(w)
    <3>1. worker[w].version = 1 /\ s.pc = "stored"
      BY <2>2, <2>9, <1>i, <1>r DEF Store, ReadyToStore, Started, ItemType, Workshop
    <3>2. QED  BY <2>9, <2>s, <3>1, <1>i, <1>r, WholeStore
  <2>10. QED  BY <1>3, <2>3, <2>4, <2>5, <2>6, <2>7, <2>8, <2>9 DEF Attempt
<1>4. ASSUME NEW w \in Workers, Ends(w)
      PROVE  /\ \A v \in Workers : Started(v)' => worker'[v].version = 1
             /\ (NothingStored \/ AllStored)'
  <2>1. PICK s : worker' = [worker EXCEPT ![w] = s] /\ s.pc \in {"idle", "killed"}
    BY <1>4, IdleType DEF Ends, Fail, KillOverdue, MarkTimeout, Dies, Idle
  <2>2. /\ worker'[w].pc \in {"idle", "killed"}
        /\ \A v \in Workers : v # w => worker'[v] = worker[v]
    BY <2>1, <1>i DEF ItemType
  <2>3. /\ cands' = cands /\ row'.done = row.done
        /\ row'.status = "processed" => row.status = "processed"
    BY <1>4, <1>i DEF Ends, Fail, KillOverdue, MarkTimeout, Dies, ItemType
  <2>4. worker[w].pc = "llm" => worker[w].all = {}
    BY <1>4 DEF Ends, Fail, KillOverdue, MarkTimeout, Dies, HoldsUnstored
  <2>5. \A v \in Workers : Started(v)' => worker'[v].version = 1
    BY <2>2, <1>r DEF Started
  <2>6. CASE worker[w].pc # "llm"
    BY <2>2, <2>3, <2>5, <2>6, <1>r, WholeFrame
  <2>7. CASE worker[w].pc = "llm"
    <3>1. AtWindows(w) /\ Working(w) /\ worker[w].all = {}
      BY <2>4, <2>7 DEF AtWindows, Working
    <3>2. \A v \in Workers : ~AtWindows(v)'
      BY <2>2, <3>1, <1>r DEF AtWindows, Working, ResumeInv
    <3>3. NothingStored => row.done = 0
      <4>1. NothingStored => FoundIn(0, row.done, 1) = {}
        BY <3>1 DEF NothingStored
      <4>2. row.done > 0 => [window |-> 0, version |-> 1] \in FoundIn(0, row.done, 1)
        BY <1>f DEF FoundIn
      <4>3. QED  BY <4>1, <4>2, <1>f
    <3>4. NothingStored => NothingStored'
      BY <2>3, <3>2, <3>3 DEF NothingStored
    <3>5. AllStored => AllStored'
      BY <2>3, <3>2 DEF AllStored, WindowsStored
    <3>6. QED  BY <2>5, <3>4, <3>5, <1>r
  <2>8. QED  BY <2>6, <2>7
<1>5. QED  BY <1>1, <1>2, <1>3, <1>4 DEF Next

LEMMA ItemInvariant == Spec => []ItemInv
<1>1. ItemInv /\ [Next]_vars => ItemInv'
  BY ItemTypeStep, ResumeStep DEF ItemInv
<1>2. QED  BY <1>1, InitItem, PTL DEF Spec

\* SumInv and ItemInv together are inductive.
LEMMA ItemSumKept == ItemInv /\ SumInv /\ [Next]_vars => ItemInv' /\ SumInv'
BY ItemTypeStep, ResumeStep, SoundStep, WholeStep DEF ItemInv, SumInv, Sound

LEMMA SumInvariant == Spec => [](ItemInv /\ SumInv)
BY ItemSumKept, InitItem, InitSum, PTL DEF Spec

LEMMA CandidatesStep == ItemInv /\ [Next]_vars => [~overlap => cands \subseteq cands']_vars
<1>. SUFFICES ASSUME ItemInv, Next, ~overlap PROVE cands \subseteq cands'
  OBVIOUS
<1>1. ASSUME NEW w \in Workers, Store(w) PROVE cands \subseteq cands'
  <2>1. Started(w) /\ worker[w].start \in Nat
    BY <1>1 DEF Store, ReadyToStore, Started, ItemInv, ItemType, Workshop
  <2>2. IsResume(w) \/ cands = {}
    BY <2>1 DEF ItemInv, ResumeInv, IsResume
  <2>3. QED  BY <1>1, <2>2 DEF Store
<1>2. QED
  BY <1>1 DEF Next, Attempt, Ends, ContentChanges, EnqueueExtraction, Requeue, Decide, Claim,
              OpenProjection, LoadPrior, DescribeArtifact, BeginWindows, ExtractBatch, Fail,
              KillOverdue, MarkTimeout, Dies

\* While attempts follow each other, whatever kills, late timeouts, re-enqueues
\* and changes of the source come between them: no step deletes a candidate.
\* The delete of replace_candidates only runs for an item that has none.
THEOREM CandidatesAreKept == Spec => CandidatesStay
<1>1. ItemInv /\ [Next]_vars => [~overlap => cands \subseteq cands']_vars
  BY CandidatesStep
<1>2. QED  BY <1>1, ItemInvariant, PTL DEF Spec, CandidatesStay

LEMMA SumsAddUp == ItemInv /\ SumInv => AttemptsAddUp
<1>. SUFFICES ASSUME ItemInv, SumInv PROVE AttemptsAddUp
  OBVIOUS
<1>1. VlmCapForItem /\ NoWindowTwice
  BY DEF SumInv, CandsSound, VlmCapForItem, NoWindowTwice
<1>2. StoreNeverConflicts
  <2>. SUFFICES ASSUME ~overlap, NEW w \in Workers, ReadyToStore(w) PROVE ConstraintsHold(w)
    BY DEF StoreNeverConflicts
  <2>1. /\ worker[w].start \in Nat /\ worker[w].base = Cardinality(cands) /\ CandsSound
        /\ ~IsResume(w) => cands = {}
    BY DEF ItemInv, ItemType, ResumeInv, SumInv, InStep, ReadyToStore, Started, Workshop, IsResume
  <2>2. Cardinality(cands) \in Nat /\ Cardinality(worker[w].all) \in Nat
        /\ \A c \in cands : c.index \in Nat
    BY FS_CardinalityType DEF ItemInv, ItemType
  <2>3. \A c \in cands : c.index \notin Indices(w)
    BY <2>1, <2>2 DEF CandsSound, Indices
  <2>4. QED  BY <2>1, <2>3 DEF ConstraintsHold, CandsSound
<1>3. CompleteUnlessInterrupted
  BY DEF SumInv, Whole, NothingStored, AllStored, CompleteUnlessInterrupted
<1>4. QED  BY <1>1, <1>2, <1>3 DEF AttemptsAddUp

\* Attempts that follow each other add up to one: no more figures are
\* described than the cap allows, no window is stored twice, the last
\* transaction never runs into the tables' constraints, and an item marked
\* processed has all its windows unless an attempt was cut off or the source
\* changed.
THEOREM AttemptsAreOne == Spec => []AttemptsAddUp
<1>1. ItemInv /\ SumInv => AttemptsAddUp
  BY SumsAddUp
<1>2. QED  BY <1>1, SumInvariant, PTL

-----------------------------------------------------------------------------
(* The item: what its declarations say beyond that.                        *)

InReach(s) ==
    /\ s.start \in 0..MaxTotal /\ s.at \in 0..MaxTotal
    /\ \A f \in s.all : f.window \in 0..(MaxTotal - 1)

\* No window beyond the longest version, no claim beyond the bound.
Bounded ==
    /\ row.hash \in {0} \cup Versions /\ row.done \in 0..MaxTotal
    /\ \A c \in cands : c.found.window \in 0..(MaxTotal - 1)
    /\ \A w \in Workers : InReach(worker[w])
    /\ claims \in 0..ClaimBound

LEMMA LongestVersion == MaxTotal \in Nat /\ \A v \in Versions : Total(v) <= MaxTotal
<1>. DEFINE T == {Total(v) : v \in Versions}
            f == [v \in Versions |-> Total(v)]
<1>1. f \in Surjection(Versions, T)
  BY DEF Surjection
<1>2. IsFiniteSet(T)
  <2>. HIDE DEF T, f
  <2>1. QED  BY <1>1, ItemAssumption, FS_Surjection
<1>3. T \in SUBSET Nat /\ T # {}
  BY TotalPositive, ItemAssumption
<1>4. PICK n \in T : \A m \in T : m <= n
  <2>. HIDE DEF T
  <2>1. QED  BY <1>2, <1>3, GreatestMember
<1>5. \A v \in Versions : Total(v) <= n
  BY <1>4
<1>6. MaxTotal \in T /\ \A v \in Versions : Total(v) <= MaxTotal
  BY <1>4, <1>5 DEF MaxTotal
<1>7. QED  BY <1>3, <1>6

LEMMA BoundedTypes == ItemType /\ Bounded => TypeOK
<1>. SUFFICES ASSUME ItemType, Bounded PROVE TypeOK
  OBVIOUS
<1>1. \A f \in Finds : f.window \in 0..(MaxTotal - 1) => f \in Found
  BY DEF Finds, Found
<1>2. cands \subseteq Candidate
  BY <1>1 DEF ItemType, Bounded, Candidate
<1>3. \A w \in Workers : worker[w] \in Worker
  BY <1>1 DEF ItemType, Bounded, InReach, Workshop, Worker
<1>4. row \in [status : Statuses, hash : {0} \cup Versions, done : 0..MaxTotal]
  BY DEF ItemType, Bounded
<1>5. QED  BY <1>2, <1>3, <1>4 DEF ItemType, Bounded, TypeOK

LEMMA IdleInReach == InReach(Idle) /\ \A pc : InReach([Idle EXCEPT !.pc = pc])
BY LongestVersion DEF InReach, Idle

LEMMA InitBounded == Init => Bounded
BY IdleInReach, LongestVersion, ItemAssumption DEF Init, Bounded

LEMMA BoundedStep == ItemType /\ Bounded /\ [Next]_vars => Bounded'
<1>. SUFFICES ASSUME ItemType, Bounded, [Next]_vars PROVE Bounded'
  OBVIOUS
<1>w. ASSUME NEW w \in Workers, NEW s, InReach(s), worker' = [worker EXCEPT ![w] = s]
      PROVE  \A v \in Workers : InReach(worker'[v])
  BY <1>w DEF ItemType, Bounded
<1>f. \A w \in Workers : worker[w] \in Workshop /\ InReach(worker[w])
  BY DEF ItemType, Bounded
<1>1. CASE ContentChanges
  BY <1>1 DEF ContentChanges, Bounded
<1>2. ASSUME NEW hash \in {0, content}, EnqueueExtraction(hash) PROVE Bounded'
  <2>1. row'.hash \in {0} \cup Versions /\ row'.done = row.done
    BY <1>2 DEF EnqueueExtraction, ItemType, Bounded
  <2>2. QED  BY <1>2, <2>1 DEF EnqueueExtraction, Bounded
<1>3. CASE Requeue \/ Decide
  BY <1>3 DEF Requeue, Decide, ItemType, Bounded
<1>4. ASSUME NEW w \in Workers, Attempt(w) PROVE Bounded'
  <2>1. CASE Claim(w)
    <3>1. claims' \in 0..ClaimBound
      BY <2>1, ItemAssumption DEF Claim, Bounded
    <3>2. \A v \in Workers : InReach(worker'[v])
      BY <2>1, <1>w, IdleInReach DEF Claim
    <3>3. QED  BY <2>1, <3>1, <3>2 DEF Claim, ItemType, Bounded
  <2>2. CASE OpenProjection(w)
    <3>. DEFINE s == [worker[w] EXCEPT !.pc = "opened", !.start = row.done, !.version = content]
    <3>1. InReach(s)
      BY <1>f DEF Bounded, InReach, Workshop
    <3>2. worker' = [worker EXCEPT ![w] = s]
      BY <2>2 DEF OpenProjection
    <3>. HIDE DEF s
    <3>3. \A v \in Workers : InReach(worker'[v])
      BY <3>1, <3>2, <1>w
    <3>4. QED  BY <2>2, <3>3 DEF OpenProjection, Bounded
  <2>3. CASE LoadPrior(w)
    <3>. DEFINE s == [worker[w] EXCEPT !.pc = "vlm", !.known = snippets,
                        !.base = IF worker[w].start > 0 THEN Cardinality(cands) ELSE 0]
    <3>1. InReach(s)
      BY <1>f DEF InReach, Workshop
    <3>2. worker' = [worker EXCEPT ![w] = s]
      BY <2>3 DEF LoadPrior
    <3>. HIDE DEF s
    <3>3. \A v \in Workers : InReach(worker'[v])
      BY <3>1, <3>2, <1>w
    <3>4. QED  BY <2>3, <3>3 DEF LoadPrior, Bounded
  <2>4. ASSUME NEW a \in Artifacts, DescribeArtifact(w, a) PROVE Bounded'
    <3>1. PICK kind : worker' = [worker EXCEPT ![w].known[a] = kind]
      BY <2>4 DEF DescribeArtifact
    <3>. DEFINE s == [worker[w] EXCEPT !.known[a] = kind]
    <3>2. InReach(s)
      BY <1>f DEF InReach, Workshop
    <3>3. worker' = [worker EXCEPT ![w] = s]
      BY <3>1
    <3>. HIDE DEF s
    <3>4. \A v \in Workers : InReach(worker'[v])
      BY <3>2, <3>3, <1>w
    <3>5. QED  BY <2>4, <3>4 DEF DescribeArtifact, Bounded
  <2>5. CASE BeginWindows(w)
    <3>1. PICK v \in Versions, start \in Nat : v = worker[w].version /\ start = worker[w].start
      BY <1>f DEF Workshop
    <3>2. PICK first : first = FirstBatch(start, v)
      OBVIOUS
    <3>3. first \in 0..MaxTotal
      <4>1. first \in Nat /\ Total(v) \in Nat \ {0} /\ Total(v) <= MaxTotal /\ MaxTotal \in Nat
        BY <3>2, FirstBatchType, TotalPositive, LongestVersion
      <4>2. first <= Total(v)
        BY <3>2, <4>1, FirstBatchFinds
      <4>3. QED  BY <4>1, <4>2
    <3>4. PICK s : s = [worker[w] EXCEPT !.pc = "llm", !.at = first]
      OBVIOUS
    <3>5. InReach(s)
      BY <1>f, <3>3, <3>4 DEF InReach, Workshop
    <3>6. worker' = [worker EXCEPT ![w] = s]
      BY <2>5, <3>1, <3>2, <3>4 DEF BeginWindows
    <3>7. \A u \in Workers : InReach(worker'[u])
      BY <3>5, <3>6, <1>w
    <3>8. QED  BY <2>5, <3>7 DEF BeginWindows, Bounded
  <2>6. CASE ExtractBatch(w)
    <3>1. PICK v \in Versions, at \in Nat : v = worker[w].version /\ at = worker[w].at
      BY <1>f DEF Workshop
    <3>2. PICK next : next = BatchEnd(at, v)
      OBVIOUS
    <3>3. next \in 0..MaxTotal
      <4>1. Total(v) \in Nat \ {0} /\ Total(v) <= MaxTotal /\ MaxTotal \in Nat
        BY TotalPositive, LongestVersion
      <4>2. next \in Nat /\ next <= Total(v)
        BY <3>2, <4>1, BatchEndPositive, ItemAssumption DEF BatchEnd
      <4>3. QED  BY <4>1, <4>2
    <3>4. PICK s : s = [worker[w] EXCEPT !.at = next,
                                         !.all = worker[w].all \cup FoundIn(at, next, v)]
      OBVIOUS
    <3>5. worker' = [worker EXCEPT ![w] = s] /\ row' = [row EXCEPT !.done = next]
      BY <2>6, <3>1, <3>2, <3>4 DEF ExtractBatch
    <3>6. \A f \in FoundIn(at, next, v) : f.window \in 0..(MaxTotal - 1)
      <4>1. MaxTotal \in Nat /\ at \in Nat /\ next \in Nat /\ next <= MaxTotal
        BY <3>3, LongestVersion
      <4>2. QED  BY <4>1 DEF FoundIn
    <3>7. InReach(s)
      BY <1>f, <3>3, <3>4, <3>6 DEF InReach, Workshop
    <3>8. \A u \in Workers : InReach(worker'[u])
      BY <3>5, <3>7, <1>w
    <3>9. row'.done \in 0..MaxTotal /\ row'.hash = row.hash
      BY <3>3, <3>5 DEF ItemType
    <3>10. QED  BY <2>6, <3>8, <3>9 DEF ExtractBatch, Bounded
  <2>7. CASE Store(w)
    <3>1. PICK s : s = [worker[w] EXCEPT !.pc = "stored"]
      OBVIOUS
    <3>2. InReach(s)
      BY <1>f, <3>1 DEF InReach, Workshop
    <3>3. \A u \in Workers : InReach(worker'[u])
      BY <2>7, <3>1, <3>2, <1>w DEF Store
    <3>4. \A c \in Numbered(w) : c.found \in worker[w].all
      BY NumberedCounts
    <3>5. \A c \in cands' : c.found.window \in 0..(MaxTotal - 1)
      BY <1>f, <2>7, <3>4 DEF Store, Bounded, InReach
    <3>6. row'.done = row.done /\ row'.hash = row.hash
      BY <2>7 DEF Store, ItemType
    <3>7. QED  BY <2>7, <3>3, <3>5, <3>6 DEF Store, Bounded
  <2>8. QED  BY <1>4, <2>1, <2>2, <2>3, <2>4, <2>5, <2>6, <2>7 DEF Attempt
<1>5. ASSUME NEW w \in Workers, Ends(w) PROVE Bounded'
  <2>1. worker' = [worker EXCEPT ![w] = Idle] \/ worker' = [worker EXCEPT ![w] = [Idle EXCEPT !.pc = "killed"]]
    BY <1>5 DEF Ends, Fail, KillOverdue, MarkTimeout, Dies
  <2>2. \A u \in Workers : InReach(worker'[u])
    BY <2>1, <1>w, IdleInReach
  <2>3. row'.done = row.done /\ row'.hash = row.hash /\ cands' = cands /\ claims' = claims
    BY <1>5 DEF Ends, Fail, KillOverdue, MarkTimeout, Dies, ItemType
  <2>4. QED  BY <2>2, <2>3 DEF Bounded
<1>6. CASE UNCHANGED vars
  BY <1>6 DEF vars, Bounded
<1>7. QED  BY <1>1, <1>2, <1>3, <1>4, <1>5, <1>6 DEF Next

-----------------------------------------------------------------------------
(* Daemons and shells: the inductive invariant.                            *)

Running(d) == daemon[d].pc \in Coming \cup Present

\* The pid file: whose it is, unless a daemon was started that it did not guard.
PidGuards ==
    /\ \A d, e \in Daemons : Running(d) /\ Running(e) => d = e
    /\ \A d \in Daemons : daemon[d].pc \in Present => pidFile = d
    /\ \A d \in Daemons : DaemonAt(d, "writing") => pidFile = Empty
    /\ \A d \in Daemons : pidFile = d => daemon[d].pc \in Present \cup {"dead"}
    /\ \A c \in Commands : CmdAt(c, "spawning") => \A d \in Daemons : ~Running(d)
    /\ \A b, c \in Commands : CmdAt(b, "spawning") /\ CmdAt(c, "spawning") => b = c

\* The socket thread is not there before the threads start, and has ended
\* before the pid file is unlinked; a subprocess is a born daemon's.
ServerLife ==
    \A d \in Daemons :
        /\ daemon[d].pc \in Coming \cup {"unborn", "booting"} => daemon[d].server = "none"
        /\ daemon[d].pc \in {"unlinking", "exiting"} => daemon[d].server = "ended"
        /\ DaemonAt(d, "unborn") => ~daemon[d].child

\* A daemon that serves has its socket, or is about to.
SocketHeld ==
    \A d \in Daemons : DaemonAt(d, "up") /\ ~daemon[d].asked =>
        \/ daemon[d].server = "none"
        \/ daemon[d].server = "cleared" /\ daemon[d].open /\ path = NoDaemon
        \/ daemon[d].server \in {"bound", "serving"} /\ daemon[d].open /\ path = d

\* The daemon that a stop command is at work on is the one there is.
StopsAim ==
    \A c \in Commands : cmd[c].pc \in StopPcs =>
        \A d \in Daemons : Running(d) => cmd[c].pid = d

\* What a stop command knows, and what it has come to when it reports.
StopsKnow ==
    \A c \in Commands :
        /\ cmd[c].pc \in StopPcs \cup {"stopped"} =>
              /\ cmd[c].pid \in Daemons /\ daemon[cmd[c].pid].pc # "unborn"
              /\ daemon[cmd[c].pid].child => cmd[c].knows \/ cmd[c].missed
        /\ CmdAt(c, "stopped") =>
              /\ DaemonAt(cmd[c].pid, "dead")
              /\ daemon[cmd[c].pid].child => cmd[c].missed

ControlInv ==
    /\ ControlTypeOK /\ ServerLife /\ StopsKnow
    /\ ~raced => PidGuards
    /\ ~raced /\ ~crossed => SocketHeld /\ StopsAim

-----------------------------------------------------------------------------
(* Types of daemons and shells.                                            *)

DaemonRecord ==
    [pc : Coming \cup Present \cup {"unborn", "exiting", "dead"}, asked : BOOLEAN,
     server : {"none", "cleared", "bound", "serving", "ended"}, open : BOOLEAN,
     held : BOOLEAN, child : BOOLEAN]

CmdRecord ==
    [pc : StopPcs \cup {"idle", "spawning", "stopped"},
     pid : Daemons \cup {NoDaemon}, knows : BOOLEAN, missed : BOOLEAN]

LEMMA ControlTypes ==
    ControlTypeOK <=> /\ daemon \in [Daemons -> DaemonRecord]
                      /\ cmd \in [Commands -> CmdRecord]
                      /\ pidFile \in Daemons \cup {NoDaemon, Empty}
                      /\ path \in Daemons \cup {NoDaemon}
BY DEF ControlTypeOK, DaemonRecord, CmdRecord

LEMMA DaemonIds == NoDaemon \notin Daemons /\ Empty \notin Daemons
BY ControlAssumption DEF Daemons, NoDaemon, Empty

LEMMA InitControl == ControlInit => ControlInv
<1>. SUFFICES ASSUME ControlInit PROVE ControlInv
  OBVIOUS
<1>1. ControlTypeOK
  BY DEF ControlInit, ControlTypeOK, Unborn, Prompt, Coming, Present, StopPcs
<1>2. ServerLife /\ StopsKnow
  BY DEF ControlInit, ServerLife, DaemonAt, StopsKnow, Unborn, Prompt, Coming, StopPcs, CmdAt
<1>3. PidGuards /\ SocketHeld /\ StopsAim
  BY DaemonIds DEF ControlInit, PidGuards, SocketHeld, StopsAim, Running, Unborn, Prompt, Coming,
                   Present, StopPcs, CmdAt, DaemonAt
<1>4. QED  BY <1>1, <1>2, <1>3 DEF ControlInv

-----------------------------------------------------------------------------
(* What a step may do to one daemon, and to one shell.                     *)

\* A shell goes on with its stop command, or is back at its prompt.
CmdsCarryOn ==
    /\ cmd' \in [Commands -> CmdRecord]
    /\ \A c \in Commands :
        /\ cmd'[c].pc \in StopPcs => cmd[c].pc \in StopPcs
        /\ cmd'[c].pc \in {"spawning", "stopped"} => cmd[c].pc = cmd'[c].pc
        /\ cmd'[c].pc # "idle" => /\ cmd'[c].pid = cmd[c].pid
                                  /\ cmd[c].knows => cmd'[c].knows
                                  /\ cmd[c].missed => cmd'[c].missed

\* The step of a daemon d whose record becomes s.
Moves(d, s) ==
    /\ daemon' = [daemon EXCEPT ![d] = s]
    /\ UNCHANGED <<raced, crossed>>
    /\ pidFile' \in Daemons \cup {NoDaemon, Empty} /\ path' \in Daemons \cup {NoDaemon}
    /\ daemon[d].pc # "unborn" /\ s.pc # "unborn"
    /\ daemon[d].pc = "dead" => s.pc = "dead"
    /\ s.pc \in Coming \cup Present => Running(d)

LEMMA DaemonMoves ==
    ASSUME ControlInv, CmdsCarryOn, NEW d \in Daemons, NEW s \in DaemonRecord, Moves(d, s),
           s.pc \in Coming \cup {"booting"} => s.server = "none",
           s.pc \in {"unlinking", "exiting"} => s.server = "ended",
           s.child => daemon[d].child \/ \A c \in Commands : cmd'[c].pid = d => cmd'[c].missed,
           pidFile' = pidFile \/ (Running(d) /\ pidFile' \in {Empty, NoDaemon, d}),
           ~raced => /\ s.pc \in Present => pidFile' = d
                     /\ s.pc = "writing" => pidFile' = Empty
                     /\ pidFile' = d => s.pc \in Present \cup {"dead"},
           path' = path \/ Running(d),
           ~raced /\ ~crossed /\ s.pc = "up" /\ ~s.asked =>
              \/ s.server = "none"
              \/ s.server = "cleared" /\ s.open /\ path' = NoDaemon
              \/ s.server \in {"bound", "serving"} /\ s.open /\ path' = d
    PROVE  ControlInv'
<1>t. ControlTypeOK /\ daemon \in [Daemons -> DaemonRecord]
  BY ControlTypes DEF ControlInv
<1>1. daemon'[d] = s /\ \A e \in Daemons : e # d => daemon'[e] = daemon[e]
  BY <1>t DEF Moves
<1>2. daemon' \in [Daemons -> DaemonRecord]
  BY <1>t DEF Moves
<1>3. ControlTypeOK'
  <2>1. /\ daemon' \in [Daemons -> DaemonRecord]
        /\ cmd' \in [Commands -> CmdRecord]
        /\ pidFile' \in Daemons \cup {NoDaemon, Empty}
        /\ path' \in Daemons \cup {NoDaemon}
    BY <1>2 DEF CmdsCarryOn, Moves
  <2>2. QED  BY <2>1, ControlTypes DEF DaemonRecord, CmdRecord, ControlTypeOK
<1>4. ServerLife'
  BY <1>1 DEF ControlInv, ServerLife, DaemonAt, Moves
<1>5. StopsKnow'
  <2>. SUFFICES ASSUME NEW c \in Commands, cmd'[c].pc \in StopPcs \cup {"stopped"}
                PROVE  /\ cmd'[c].pid \in Daemons /\ daemon'[cmd'[c].pid].pc # "unborn"
                       /\ daemon'[cmd'[c].pid].child => cmd'[c].knows \/ cmd'[c].missed
                       /\ cmd'[c].pc = "stopped" =>
                             /\ daemon'[cmd'[c].pid].pc = "dead"
                             /\ daemon'[cmd'[c].pid].child => cmd'[c].missed
    BY DEF StopsKnow, CmdAt, DaemonAt
  <2>1. cmd[c].pc \in StopPcs \cup {"stopped"} /\ cmd'[c].pid = cmd[c].pid
        /\ (cmd[c].knows => cmd'[c].knows) /\ (cmd[c].missed => cmd'[c].missed)
        /\ (cmd'[c].pc = "stopped" => cmd[c].pc = "stopped")
    BY DEF CmdsCarryOn, StopPcs
  <2>2. /\ cmd[c].pid \in Daemons /\ daemon[cmd[c].pid].pc # "unborn"
        /\ daemon[cmd[c].pid].child => cmd[c].knows \/ cmd[c].missed
        /\ cmd[c].pc = "stopped" => /\ daemon[cmd[c].pid].pc = "dead"
                                    /\ daemon[cmd[c].pid].child => cmd[c].missed
    BY <2>1 DEF ControlInv, StopsKnow, CmdAt, DaemonAt
  <2>3. CASE cmd[c].pid = d
    BY <1>1, <2>1, <2>2, <2>3 DEF Moves
  <2>4. CASE cmd[c].pid # d
    BY <1>1, <2>1, <2>2, <2>4
  <2>5. QED  BY <2>3, <2>4
<1>r. \A e \in Daemons : Running(e)' => Running(e)
  BY <1>1 DEF Running, Moves
<1>6. ASSUME ~raced' PROVE PidGuards'
  <2>1. ~raced /\ PidGuards
    BY <1>6 DEF ControlInv, Moves
  <2>2. \A e \in Daemons : e # d /\ Running(d) => ~Running(e)
    BY <2>1 DEF PidGuards
  <2>3. \A e \in Daemons : e # d /\ daemon'[e].pc \in Present => pidFile' = e
    BY <1>1, <2>1, <2>2 DEF PidGuards, Running
  <2>4. \A e \in Daemons : e # d /\ daemon'[e].pc = "writing" => pidFile' = Empty
    BY <1>1, <2>1, <2>2 DEF PidGuards, Running, DaemonAt, Coming
  <2>5. \A e \in Daemons : e # d /\ pidFile' = e => daemon'[e].pc \in Present \cup {"dead"}
    BY <1>1, <2>1, DaemonIds DEF PidGuards
  <2>6. \A c \in Commands : cmd'[c].pc = "spawning" => cmd[c].pc = "spawning"
    BY DEF CmdsCarryOn
  <2>7. \A e, f \in Daemons : Running(e)' /\ Running(f)' => e = f
    BY <1>r, <2>1 DEF PidGuards
  <2>8. \A e \in Daemons : daemon'[e].pc \in Present => pidFile' = e
    BY <1>1, <2>1, <2>3
  <2>9. \A e \in Daemons : daemon'[e].pc = "writing" => pidFile' = Empty
    BY <1>1, <2>1, <2>4
  <2>10. \A e \in Daemons : pidFile' = e => daemon'[e].pc \in Present \cup {"dead"}
    BY <1>1, <2>1, <2>5
  <2>11. \A c \in Commands : cmd'[c].pc = "spawning" => \A e \in Daemons : ~Running(e)'
    BY <1>r, <2>1, <2>6 DEF PidGuards, CmdAt
  <2>12. \A b, c \in Commands : cmd'[b].pc = "spawning" /\ cmd'[c].pc = "spawning" => b = c
    BY <2>1, <2>6 DEF PidGuards, CmdAt
  <2>13. QED  BY <2>7, <2>8, <2>9, <2>10, <2>11, <2>12 DEF PidGuards, CmdAt, DaemonAt
<1>7. ASSUME ~raced', ~crossed' PROVE SocketHeld' /\ StopsAim'
  <2>1. ~raced /\ ~crossed /\ PidGuards /\ SocketHeld /\ StopsAim
    BY <1>7 DEF ControlInv, Moves
  <2>2. \A e \in Daemons : e # d /\ daemon'[e].pc = "up" => path' = path /\ daemon'[e] = daemon[e]
    BY <1>1, <2>1 DEF PidGuards, Running, Present
  <2>3. SocketHeld'
    BY <1>1, <2>1, <2>2 DEF SocketHeld, DaemonAt
  <2>4. \A c \in Commands : cmd'[c].pc \in StopPcs => cmd[c].pc \in StopPcs /\ cmd'[c].pid = cmd[c].pid
    BY DEF CmdsCarryOn, StopPcs
  <2>5. StopsAim'
    BY <1>r, <2>1, <2>4 DEF StopsAim
  <2>6. QED  BY <2>3, <2>5
<1>8. QED  BY <1>3, <1>4, <1>5, <1>6, <1>7 DEF ControlInv

\* The step of a shell c whose record becomes p; the daemons do nothing.
LEMMA CmdMoves ==
    ASSUME ControlInv, NEW c \in Commands, NEW p \in CmdRecord, cmd' = [cmd EXCEPT ![c] = p],
           UNCHANGED <<daemon, pidFile>>, raced => raced', crossed => crossed',
           path' = path \/ (path' = NoDaemon /\ \A d \in Daemons : cmd[c].pid = d => ~Running(d)),
           path' # path => cmd[c].pc \in StopPcs,
           p.pc = "spawning" /\ ~raced' =>
              /\ \A d \in Daemons : ~Running(d)
              /\ \A b \in Commands : ~CmdAt(b, "spawning"),
           p.pc \in StopPcs \cup {"stopped"} =>
              /\ p.pid \in Daemons /\ daemon[p.pid].pc # "unborn"
              /\ daemon[p.pid].child => p.knows \/ p.missed,
           p.pc = "stopped" => /\ daemon[p.pid].pc = "dead"
                               /\ daemon[p.pid].child => p.missed,
           ~raced /\ ~crossed /\ p.pc \in StopPcs => \A d \in Daemons : Running(d) => p.pid = d
    PROVE  ControlInv'
<1>t. ControlTypeOK /\ daemon \in [Daemons -> DaemonRecord] /\ cmd \in [Commands -> CmdRecord]
  BY ControlTypes DEF ControlInv
<1>1. cmd'[c] = p /\ \A b \in Commands : b # c => cmd'[b] = cmd[b]
  BY <1>t
<1>2. ControlTypeOK'
  BY <1>t DEF ControlTypeOK, CmdRecord
<1>3. ServerLife'
  BY DEF ControlInv, ServerLife, DaemonAt
<1>4. StopsKnow'
  BY <1>1 DEF ControlInv, StopsKnow, CmdAt, DaemonAt
<1>5. ASSUME ~raced' PROVE PidGuards'
  <2>1. PidGuards
    BY <1>5 DEF ControlInv
  <2>2. \A b \in Commands : cmd'[b].pc = "spawning" => \A d \in Daemons : ~Running(d)
    BY <1>1, <1>5, <2>1 DEF PidGuards, CmdAt
  <2>3. \A a, b \in Commands : cmd'[a].pc = "spawning" /\ cmd'[b].pc = "spawning" => a = b
    BY <1>1, <1>5, <2>1 DEF PidGuards, CmdAt
  <2>4. QED  BY <2>1, <2>2, <2>3 DEF PidGuards, Running, CmdAt, DaemonAt
<1>6. ASSUME ~raced', ~crossed' PROVE SocketHeld' /\ StopsAim'
  <2>1. ~raced /\ ~crossed /\ SocketHeld /\ StopsAim
    BY <1>6 DEF ControlInv
  <2>2. StopsAim'
    BY <1>1, <2>1 DEF StopsAim, Running
  <2>3. \A d \in Daemons : daemon[d].pc = "up" => path' = path
    <3>1. \A d \in Daemons : daemon[d].pc = "up" => Running(d)
      BY DEF Running, Present
    <3>2. QED  BY <2>1, <3>1 DEF StopsAim
  <2>4. SocketHeld'
    BY <2>1, <2>3 DEF SocketHeld, DaemonAt
  <2>5. QED  BY <2>2, <2>4
<1>7. QED  BY <1>2, <1>3, <1>4, <1>5, <1>6 DEF ControlInv

\* A daemon is born where there is none, unless that is recorded.
LEMMA Births ==
    ASSUME ControlInv, NEW d \in Unused, daemon' = [daemon EXCEPT ![d].pc = "starting"],
           CmdsCarryOn, UNCHANGED <<pidFile, path>>,
           raced => raced', crossed => crossed',
           ~raced' => /\ \A e \in Daemons : ~Running(e)
                      /\ \A c \in Commands : ~CmdAt(c, "spawning")',
           ~crossed' => \A c \in Commands : cmd[c].pc \notin StopPcs
    PROVE  ControlInv'
<1>t. ControlTypeOK /\ daemon \in [Daemons -> DaemonRecord] /\ d \in Daemons
      /\ daemon[d].pc = "unborn"
  BY ControlTypes DEF ControlInv, Unused
<1>. DEFINE s == [daemon[d] EXCEPT !.pc = "starting"]
<1>1. /\ daemon'[d] = s /\ \A e \in Daemons : e # d => daemon'[e] = daemon[e]
      /\ daemon' \in [Daemons -> DaemonRecord]
  <2>1. s \in DaemonRecord
    BY <1>t DEF DaemonRecord, Coming
  <2>2. daemon' = [daemon EXCEPT ![d] = s]
    BY <1>t
  <2>. HIDE DEF s
  <2>3. QED  BY <1>t, <2>1, <2>2
<1>2. s.pc = "starting" /\ s.server = daemon[d].server
  BY <1>t DEF DaemonRecord
<1>. HIDE DEF s
<1>3. ControlTypeOK'
  BY <1>t, <1>1 DEF ControlTypeOK, CmdsCarryOn, DaemonRecord, CmdRecord
<1>4. ServerLife'
  BY <1>t, <1>1, <1>2 DEF ControlInv, ServerLife, DaemonAt
<1>5. StopsKnow'
  <2>. SUFFICES ASSUME NEW c \in Commands, cmd'[c].pc \in StopPcs \cup {"stopped"}
                PROVE  /\ cmd'[c].pid \in Daemons /\ daemon'[cmd'[c].pid].pc # "unborn"
                       /\ daemon'[cmd'[c].pid].child => cmd'[c].knows \/ cmd'[c].missed
                       /\ cmd'[c].pc = "stopped" =>
                             /\ daemon'[cmd'[c].pid].pc = "dead"
                             /\ daemon'[cmd'[c].pid].child => cmd'[c].missed
    BY DEF StopsKnow, CmdAt, DaemonAt
  <2>1. cmd[c].pc \in StopPcs \cup {"stopped"} /\ cmd'[c].pid = cmd[c].pid
        /\ (cmd[c].knows => cmd'[c].knows) /\ (cmd[c].missed => cmd'[c].missed)
        /\ (cmd'[c].pc = "stopped" => cmd[c].pc = "stopped")
    BY DEF CmdsCarryOn, StopPcs
  <2>2. /\ cmd[c].pid \in Daemons /\ daemon[cmd[c].pid].pc # "unborn"
        /\ daemon[cmd[c].pid].child => cmd[c].knows \/ cmd[c].missed
        /\ cmd[c].pc = "stopped" => /\ daemon[cmd[c].pid].pc = "dead"
                                    /\ daemon[cmd[c].pid].child => cmd[c].missed
    BY <2>1 DEF ControlInv, StopsKnow, CmdAt, DaemonAt
  <2>3. cmd[c].pid # d
    BY <1>t, <2>2
  <2>4. QED  BY <1>1, <2>1, <2>2, <2>3
<1>6. ASSUME ~raced' PROVE PidGuards'
  <2>1. PidGuards /\ \A e \in Daemons : ~Running(e)
    BY <1>6 DEF ControlInv
  <2>2. \A e \in Daemons : Running(e)' => e = d
    BY <1>1, <2>1 DEF Running
  <2>3. \A e \in Daemons : daemon'[e].pc \notin Present /\ daemon'[e].pc # "writing"
    <3>1. \A e \in Daemons : daemon[e].pc \notin Present /\ daemon[e].pc # "writing"
      BY <2>1 DEF Running, Coming
    <3>2. QED  BY <1>1, <1>2, <3>1 DEF Present
  <2>4. \A e \in Daemons : pidFile' = e => daemon'[e].pc \in Present \cup {"dead"}
    <3>1. pidFile # d
      BY <1>t, <2>1 DEF PidGuards, Present
    <3>2. QED  BY <1>1, <2>1, <3>1 DEF PidGuards
  <2>5. \A c \in Commands : ~CmdAt(c, "spawning")'
    BY <1>6
  <2>6. QED  BY <2>2, <2>3, <2>4, <2>5 DEF PidGuards, DaemonAt
<1>7. ASSUME ~raced', ~crossed' PROVE SocketHeld' /\ StopsAim'
  <2>1. \A c \in Commands : cmd'[c].pc \notin StopPcs
    BY <1>7 DEF CmdsCarryOn
  <2>2. \A e \in Daemons : daemon'[e].pc # "up"
    <3>1. \A e \in Daemons : daemon[e].pc # "up"
      BY <1>7 DEF Running, Present
    <3>2. QED  BY <1>1, <1>2, <3>1
  <2>3. QED  BY <2>1, <2>2 DEF SocketHeld, StopsAim, DaemonAt
<1>8. QED  BY <1>3, <1>4, <1>5, <1>6, <1>7 DEF ControlInv

-----------------------------------------------------------------------------
(* The steps of daemons and shells.                                        *)

LEMMA CmdsStay == ControlTypeOK /\ cmd' = cmd => CmdsCarryOn
BY ControlTypes DEF CmdsCarryOn

\* A shell whose stop command goes on, or ends.
LEMMA CmdGoesOn ==
    ASSUME ControlTypeOK, NEW c \in Commands,
           \/ \E pc \in StopPcs : CmdGoes(c, pc) /\ cmd[c].pc \in StopPcs
           \/ ToPrompt(c)
    PROVE  CmdsCarryOn
<1>t. cmd \in [Commands -> CmdRecord]
  BY ControlTypes
<1>1. ASSUME NEW pc \in StopPcs, CmdGoes(c, pc), cmd[c].pc \in StopPcs PROVE CmdsCarryOn
  <2>. DEFINE p == [cmd[c] EXCEPT !.pc = pc]
  <2>1. p \in CmdRecord /\ p.pc = pc /\ p.pid = cmd[c].pid /\ p.knows = cmd[c].knows
        /\ p.missed = cmd[c].missed
    BY <1>t DEF CmdRecord
  <2>2. cmd' = [cmd EXCEPT ![c] = p]
    BY <1>1 DEF CmdGoes
  <2>. HIDE DEF p
  <2>3. cmd' \in [Commands -> CmdRecord] /\ cmd'[c] = p /\ \A b \in Commands : b # c => cmd'[b] = cmd[b]
    BY <1>t, <2>1, <2>2
  <2>4. QED  BY <1>1, <2>1, <2>3 DEF CmdsCarryOn, StopPcs
<1>2. ASSUME ToPrompt(c) PROVE CmdsCarryOn
  <2>1. Prompt \in CmdRecord /\ Prompt.pc = "idle"
    BY DEF Prompt, CmdRecord
  <2>2. cmd' \in [Commands -> CmdRecord] /\ cmd'[c] = Prompt
        /\ \A b \in Commands : b # c => cmd'[b] = cmd[b]
    BY <1>t, <1>2, <2>1 DEF ToPrompt
  <2>3. QED  BY <2>1, <2>2 DEF CmdsCarryOn, StopPcs
<1>3. QED  BY <1>1, <1>2

LEMMA PcRecord ==
    ASSUME ControlTypeOK, NEW d \in Daemons,
           NEW pc \in Coming \cup Present \cup {"unborn", "exiting", "dead"}, DaemonGoes(d, pc)
    PROVE  \E s \in DaemonRecord :
              /\ daemon' = [daemon EXCEPT ![d] = s] /\ s.pc = pc
              /\ s.server = daemon[d].server /\ s.open = daemon[d].open
              /\ s.asked = daemon[d].asked /\ s.child = daemon[d].child
<1>. DEFINE s == [daemon[d] EXCEPT !.pc = pc]
<1>1. s \in DaemonRecord /\ s.pc = pc /\ s.server = daemon[d].server /\ s.open = daemon[d].open
      /\ s.asked = daemon[d].asked /\ s.child = daemon[d].child
  BY ControlTypes DEF DaemonRecord
<1>2. daemon' = [daemon EXCEPT ![d] = s]
  BY DEF DaemonGoes
<1>. HIDE DEF s
<1>3. QED  BY <1>1, <1>2

\* What is left of a process.
LEMMA EndedRecord ==
    ASSUME ControlTypeOK, NEW d \in Daemons
    PROVE  \E s \in DaemonRecord :
              /\ Ended(d) = [daemon EXCEPT ![d] = s] /\ s.pc = "dead" /\ s.child = daemon[d].child
<1>. DEFINE s == [Unborn EXCEPT !.pc = "dead", !.child = daemon[d].child]
<1>1. s \in DaemonRecord /\ s.pc = "dead" /\ s.child = daemon[d].child
  BY ControlTypes DEF DaemonRecord, Unborn
<1>2. Ended(d) = [daemon EXCEPT ![d] = s]
  BY DEF Ended
<1>. HIDE DEF s
<1>3. QED  BY <1>1, <1>2

\* A step of a daemon that stays where it is in Daemon.run.
LEMMA SamePlace ==
    ASSUME ControlInv, CmdsCarryOn, NEW d \in Daemons, NEW s \in DaemonRecord,
           daemon' = [daemon EXCEPT ![d] = s], s.pc = daemon[d].pc, s.pc # "unborn",
           UNCHANGED <<pidFile, raced, crossed>>,
           s.pc \in Coming \cup {"booting"} => s.server = "none",
           s.pc \in {"unlinking", "exiting"} => s.server = "ended",
           s.child => daemon[d].child \/ \A c \in Commands : cmd'[c].pid = d => cmd'[c].missed,
           path' \in Daemons \cup {NoDaemon}, path' = path \/ Running(d),
           ~raced /\ ~crossed /\ s.pc = "up" /\ ~s.asked =>
              \/ s.server = "none"
              \/ s.server = "cleared" /\ s.open /\ path' = NoDaemon
              \/ s.server \in {"bound", "serving"} /\ s.open /\ path' = d
    PROVE  ControlInv'
<1>1. pidFile \in Daemons \cup {NoDaemon, Empty}
  BY ControlTypes DEF ControlInv
<1>2. Moves(d, s)
  BY <1>1 DEF Moves, Running
<1>3. ~raced => /\ s.pc \in Present => pidFile' = d
                /\ s.pc = "writing" => pidFile' = Empty
                /\ pidFile' = d => s.pc \in Present \cup {"dead"}
  BY DEF ControlInv, PidGuards, DaemonAt
<1>4. QED  BY <1>2, <1>3, DaemonMoves

\* A daemon that is there dies.
LEMMA DeathKeeps ==
    ASSUME ControlInv, CmdsCarryOn, NEW d \in Daemons, NEW s \in DaemonRecord,
           daemon' = [daemon EXCEPT ![d] = s], s.pc = "dead", daemon[d].pc # "unborn",
           s.child => daemon[d].child, UNCHANGED <<pidFile, path, raced, crossed>>
    PROVE  ControlInv'
<1>1. pidFile \in Daemons \cup {NoDaemon, Empty} /\ path \in Daemons \cup {NoDaemon}
  BY ControlTypes DEF ControlInv
<1>2. Moves(d, s)
  BY <1>1 DEF Moves, Coming, Present
<1>3. QED  BY <1>2, DaemonMoves DEF Coming, Present

\* SIGTERM.
LEMMA TerminatedStep ==
    ASSUME ControlInv, CmdsCarryOn, NEW d \in Daemons, Alive(d), Terminated(d),
           UNCHANGED <<pidFile, path, raced, crossed>>
    PROVE  ControlInv'
<1>t. /\ ControlTypeOK /\ ServerLife /\ daemon \in [Daemons -> DaemonRecord]
      /\ path \in Daemons \cup {NoDaemon}
  BY ControlTypes DEF ControlInv
<1>1. CASE daemon' = [daemon EXCEPT ![d].asked = TRUE]
  <2>. DEFINE s == [daemon[d] EXCEPT !.asked = TRUE]
  <2>1. /\ s \in DaemonRecord /\ s.pc = daemon[d].pc /\ s.server = daemon[d].server
        /\ s.child = daemon[d].child
    BY <1>t DEF DaemonRecord
  <2>2. s.asked
    BY <1>t DEF DaemonRecord
  <2>3. daemon' = [daemon EXCEPT ![d] = s]
    BY <1>1
  <2>. HIDE DEF s
  <2>4. QED  BY <1>t, <2>1, <2>2, <2>3, SamePlace DEF Alive, ServerLife
<1>2. CASE daemon' = Ended(d)
  <2>1. PICK s \in DaemonRecord :
              /\ daemon' = [daemon EXCEPT ![d] = s] /\ s.pc = "dead"
              /\ s.child = daemon[d].child
    BY <1>2, <1>t, EndedRecord
  <2>2. QED  BY <2>1, DeathKeeps DEF Alive
<1>3. QED  BY <1>1, <1>2 DEF Terminated

LEMMA ControlStep == ControlInv /\ [ControlNext]_controlVars => ControlInv'
<1>. SUFFICES ASSUME ControlInv, [ControlNext]_controlVars PROVE ControlInv'
  OBVIOUS
<1>t. /\ ControlTypeOK /\ ServerLife /\ StopsKnow
      /\ daemon \in [Daemons -> DaemonRecord] /\ cmd \in [Commands -> CmdRecord]
      /\ pidFile \in Daemons \cup {NoDaemon, Empty} /\ path \in Daemons \cup {NoDaemon}
  BY ControlTypes DEF ControlInv
<1>s. cmd' = cmd => CmdsCarryOn
  BY <1>t, CmdsStay
<1>g. ~raced => PidGuards
  BY DEF ControlInv
<1>h. ~raced /\ ~crossed => SocketHeld /\ StopsAim
  BY DEF ControlInv
<1>1. CASE RunDirectly
  <2>1. PICK d \in Unused : daemon' = [daemon EXCEPT ![d].pc = "starting"]
    BY <1>1 DEF RunDirectly, Spawned
  <2>2. \A e \in Daemons : Running(e) => Alive(e)
    BY DEF Running, Alive, Coming, Present
  <2>3. /\ UNCHANGED <<pidFile, path, cmd>>
        /\ raced' = (raced \/ (\E e \in Daemons : Alive(e)) \/ \E c \in Commands : CmdAt(c, "spawning"))
        /\ crossed' = (crossed \/ \E c \in Commands : cmd[c].pc \in StopPcs)
    BY <1>1 DEF RunDirectly
  <2>4. QED  BY <1>s, <2>1, <2>2, <2>3, Births DEF CmdAt
<1>2. ASSUME NEW d \in Daemons, OpenPid(d) PROVE ControlInv'
  <2>1. PICK s \in DaemonRecord :
              /\ daemon' = [daemon EXCEPT ![d] = s] /\ s.pc = "writing"
              /\ s.server = daemon[d].server /\ s.child = daemon[d].child
    BY <1>2, <1>t, PcRecord DEF OpenPid, Coming
  <2>2. /\ daemon[d].pc = "starting" /\ pidFile' = Empty
        /\ UNCHANGED <<path, cmd, raced, crossed, mishaps>>
    BY <1>2 DEF OpenPid, DaemonAt
  <2>3. Moves(d, s) /\ Running(d)
    BY <1>t, <2>1, <2>2 DEF Moves, Running, Coming
  <2>4. QED
    BY <1>t, <1>s, <2>1, <2>2, <2>3, DaemonIds, DaemonMoves DEF ServerLife, Coming, Present
<1>3. ASSUME NEW d \in Daemons, WritePid(d) PROVE ControlInv'
  <2>1. PICK s \in DaemonRecord :
              /\ daemon' = [daemon EXCEPT ![d] = s] /\ s.pc = "booting"
              /\ s.server = daemon[d].server /\ s.child = daemon[d].child
    BY <1>3, <1>t, PcRecord DEF WritePid, Present
  <2>2. /\ daemon[d].pc = "writing" /\ pidFile' = d
        /\ UNCHANGED <<path, cmd, raced, crossed, mishaps>>
    BY <1>3 DEF WritePid, DaemonAt
  <2>3. Moves(d, s) /\ Running(d)
    BY <1>t, <2>1, <2>2 DEF Moves, Running, Coming
  <2>4. QED
    BY <1>t, <1>s, <2>1, <2>2, <2>3, DaemonIds, DaemonMoves DEF ServerLife, Coming, Present
<1>4. ASSUME NEW d \in Daemons, StartThreads(d) PROVE ControlInv'
  <2>1. PICK s \in DaemonRecord :
              /\ daemon' = [daemon EXCEPT ![d] = s] /\ s.pc = "up"
              /\ s.server = daemon[d].server /\ s.child = daemon[d].child
    BY <1>4, <1>t, PcRecord DEF StartThreads, Present
  <2>2. /\ daemon[d].pc = "booting"
        /\ UNCHANGED <<pidFile, path, cmd, raced, crossed, mishaps>>
    BY <1>4 DEF StartThreads, DaemonAt
  <2>3. Moves(d, s) /\ Running(d)
    BY <1>t, <2>1, <2>2 DEF Moves, Running, Present
  <2>4. ~raced => pidFile' = d
    BY <1>g, <2>2 DEF PidGuards, Present
  <2>5. QED
    BY <1>t, <1>s, <2>1, <2>2, <2>3, <2>4, DaemonMoves DEF ServerLife, Coming, Present
<1>5. ASSUME NEW d \in Daemons, SpawnChild(d) PROVE ControlInv'
  <2>. DEFINE s == [daemon[d] EXCEPT !.child = TRUE]
  <2>1. /\ s \in DaemonRecord /\ s.pc = daemon[d].pc /\ s.server = daemon[d].server
        /\ s.open = daemon[d].open /\ s.asked = daemon[d].asked
    BY <1>t DEF DaemonRecord
  <2>2. /\ daemon' = [daemon EXCEPT ![d] = s] /\ daemon[d].pc \notin {"unborn", "dead"}
        /\ UNCHANGED <<pidFile, path, raced, crossed, mishaps>>
    BY <1>5 DEF SpawnChild, Threaded, Alive
  <2>. HIDE DEF s
  <2>3. CmdsCarryOn /\ \A c \in Commands : cmd'[c].pid = d => cmd'[c].missed
    <3>1. cmd' = [c \in Commands |->
                    IF cmd[c].pid = d THEN [cmd[c] EXCEPT !.missed = TRUE] ELSE cmd[c]]
      BY <1>5 DEF SpawnChild
    <3>2. ASSUME NEW c \in Commands
          PROVE  /\ cmd'[c] \in CmdRecord /\ cmd'[c].pc = cmd[c].pc /\ cmd'[c].pid = cmd[c].pid
                 /\ cmd'[c].knows = cmd[c].knows /\ (cmd[c].missed => cmd'[c].missed)
                 /\ cmd'[c].pid = d => cmd'[c].missed
      <4>1. cmd[c] \in CmdRecord
        BY <1>t
      <4>2. CASE cmd[c].pid = d
        BY <3>1, <4>1, <4>2 DEF CmdRecord
      <4>3. CASE cmd[c].pid # d
        BY <3>1, <4>1, <4>3
      <4>4. QED  BY <4>2, <4>3
    <3>3. cmd' \in [Commands -> CmdRecord]
      BY <3>1, <3>2
    <3>4. QED  BY <3>2, <3>3 DEF CmdsCarryOn
  <2>4. ~raced /\ ~crossed /\ s.pc = "up" /\ ~s.asked =>
              \/ s.server = "none"
              \/ s.server = "cleared" /\ s.open /\ path' = NoDaemon
              \/ s.server \in {"bound", "serving"} /\ s.open /\ path' = d
    BY <1>h, <2>1, <2>2 DEF SocketHeld, DaemonAt
  <2>5. QED  BY <1>t, <2>1, <2>2, <2>3, <2>4, SamePlace DEF ServerLife
<1>6. ASSUME NEW d \in Daemons, ChildEnds(d) PROVE ControlInv'
  <2>. DEFINE s == [daemon[d] EXCEPT !.child = FALSE]
  <2>1. /\ s \in DaemonRecord /\ s.pc = daemon[d].pc /\ s.server = daemon[d].server
        /\ s.open = daemon[d].open /\ s.asked = daemon[d].asked
    BY <1>t DEF DaemonRecord
  <2>2. ~s.child
    BY <1>t DEF DaemonRecord
  <2>3. /\ daemon' = [daemon EXCEPT ![d] = s] /\ daemon[d].pc # "unborn"
        /\ UNCHANGED <<pidFile, path, cmd, raced, crossed, mishaps>>
    BY <1>6, <1>t DEF ChildEnds, ServerLife, DaemonAt
  <2>. HIDE DEF s
  <2>4. ~raced /\ ~crossed /\ s.pc = "up" /\ ~s.asked =>
              \/ s.server = "none"
              \/ s.server = "cleared" /\ s.open /\ path' = NoDaemon
              \/ s.server \in {"bound", "serving"} /\ s.open /\ path' = d
    BY <1>h, <2>1, <2>3 DEF SocketHeld, DaemonAt
  <2>5. QED  BY <1>t, <1>s, <2>1, <2>2, <2>3, <2>4, SamePlace DEF ServerLife
<1>7. ASSUME NEW d \in Daemons, LeaveLoop(d) PROVE ControlInv'
  <2>1. PICK s \in DaemonRecord :
              /\ daemon' = [daemon EXCEPT ![d] = s] /\ s.pc = "stopping"
              /\ s.child = daemon[d].child
    BY <1>7, <1>t, PcRecord DEF LeaveLoop, Present
  <2>2. daemon[d].pc = "up" /\ UNCHANGED <<pidFile, path, cmd, raced, crossed, mishaps>>
    BY <1>7 DEF LeaveLoop, DaemonAt
  <2>3. Moves(d, s) /\ Running(d)
    BY <1>t, <2>1, <2>2 DEF Moves, Running, Present
  <2>4. ~raced => pidFile' = d
    BY <1>g, <2>2 DEF PidGuards, Present
  <2>5. QED
    BY <1>t, <1>s, <2>1, <2>2, <2>3, <2>4, DaemonMoves DEF Coming, Present
<1>8. ASSUME NEW d \in Daemons, StopAll(d) PROVE ControlInv'
  <2>. DEFINE s == [daemon[d] EXCEPT !.pc = "closing", !.child = FALSE]
  <2>1. s \in DaemonRecord /\ s.pc = "closing"
    BY <1>t DEF DaemonRecord, Present
  <2>2. ~s.child
    BY <1>t DEF DaemonRecord
  <2>3. /\ daemon' = [daemon EXCEPT ![d] = s] /\ daemon[d].pc = "stopping"
        /\ UNCHANGED <<pidFile, path, cmd, raced, crossed, mishaps>>
    BY <1>8 DEF StopAll, DaemonAt
  <2>. HIDE DEF s
  <2>4. Moves(d, s) /\ Running(d)
    BY <1>t, <2>1, <2>3 DEF Moves, Running, Present
  <2>5. ~raced => pidFile' = d
    BY <1>g, <2>3 DEF PidGuards, Present
  <2>6. QED
    BY <1>t, <1>s, <2>1, <2>2, <2>3, <2>4, <2>5, DaemonMoves DEF Coming, Present
<1>27. ASSUME NEW d \in Daemons, JoinFails(d) PROVE ControlInv'
  <2>. DEFINE s == [daemon[d] EXCEPT !.pc = "failing", !.child = FALSE]
  <2>1. s \in DaemonRecord /\ s.pc = "failing"
    BY <1>t DEF DaemonRecord, Present
  <2>2. ~s.child
    BY <1>t DEF DaemonRecord
  <2>3. /\ daemon' = [daemon EXCEPT ![d] = s] /\ daemon[d].pc = "stopping"
        /\ UNCHANGED <<pidFile, path, cmd, raced, crossed, mishaps>>
    BY <1>27 DEF JoinFails, DaemonAt
  <2>. HIDE DEF s
  <2>4. Moves(d, s) /\ Running(d)
    BY <1>t, <2>1, <2>3 DEF Moves, Running, Present
  <2>5. ~raced => pidFile' = d
    BY <1>g, <2>3 DEF PidGuards, Present
  <2>6. QED
    BY <1>t, <1>s, <2>1, <2>2, <2>3, <2>4, <2>5, DaemonMoves DEF Coming, Present
<1>9. ASSUME NEW d \in Daemons, CloseServer(d) PROVE ControlInv'
  <2>. DEFINE s == [daemon[d] EXCEPT !.pc = "marking", !.open = FALSE]
  <2>1. s \in DaemonRecord /\ s.pc = "marking" /\ s.child = daemon[d].child
    BY <1>t DEF DaemonRecord, Present
  <2>2. /\ daemon' = [daemon EXCEPT ![d] = s] /\ daemon[d].pc = "closing"
        /\ UNCHANGED <<pidFile, cmd, raced, crossed, mishaps>>
        /\ path' \in Daemons \cup {NoDaemon}
    BY <1>9, <1>t DEF CloseServer, DaemonAt, Unlinked
  <2>. HIDE DEF s
  <2>3. Moves(d, s) /\ Running(d)
    BY <1>t, <2>1, <2>2 DEF Moves, Running, Present
  <2>4. ~raced => pidFile' = d
    BY <1>g, <2>2 DEF PidGuards, Present
  <2>5. QED
    BY <1>t, <1>s, <2>1, <2>2, <2>3, <2>4, DaemonMoves DEF Coming, Present
<1>10. ASSUME NEW d \in Daemons, ReadOwnPid(d) PROVE ControlInv'
  <2>. DEFINE pc == IF pidFile = d THEN "unlinking" ELSE "exiting"
  <2>1. PICK s \in DaemonRecord :
              /\ daemon' = [daemon EXCEPT ![d] = s] /\ s.pc = pc
              /\ s.server = daemon[d].server /\ s.child = daemon[d].child
    BY <1>10, <1>t, PcRecord DEF ReadOwnPid, Present
  <2>2. /\ daemon[d].pc = "marking" /\ daemon[d].server = "ended"
        /\ UNCHANGED <<pidFile, path, cmd, raced, crossed, mishaps>>
    BY <1>10 DEF ReadOwnPid, DaemonAt
  <2>3. Moves(d, s) /\ Running(d)
    BY <1>t, <2>1, <2>2 DEF Moves, Running, Present
  <2>4. ~raced => pidFile' = d /\ s.pc = "unlinking"
    BY <1>g, <2>1, <2>2 DEF PidGuards, Present
  <2>5. s.pc \in {"unlinking", "exiting"}
    BY <2>1
  <2>. HIDE DEF pc
  <2>6. QED
    BY <1>t, <1>s, <2>1, <2>2, <2>3, <2>4, <2>5, DaemonMoves DEF Coming, Present
<1>11. ASSUME NEW d \in Daemons, RemovePid(d) PROVE ControlInv'
  <2>1. PICK s \in DaemonRecord :
              /\ daemon' = [daemon EXCEPT ![d] = s] /\ s.pc = "exiting"
              /\ s.server = daemon[d].server /\ s.child = daemon[d].child
    BY <1>11, <1>t, PcRecord DEF RemovePid
  <2>2. /\ daemon[d].pc = "unlinking" /\ pidFile' = NoDaemon
        /\ UNCHANGED <<path, cmd, raced, crossed, mishaps>>
    BY <1>11 DEF RemovePid, DaemonAt
  <2>3. Moves(d, s) /\ Running(d)
    BY <1>t, <2>1, <2>2 DEF Moves, Running, Present, Coming
  <2>4. QED
    BY <1>t, <1>s, <2>1, <2>2, <2>3, DaemonIds, DaemonMoves DEF ServerLife, Coming, Present
<1>12. ASSUME NEW d \in Daemons, ExitDaemon(d) \/ DaemonDies(d) PROVE ControlInv'
  <2>1. PICK s \in DaemonRecord :
              /\ daemon' = [daemon EXCEPT ![d] = s] /\ s.pc = "dead"
              /\ s.child = daemon[d].child
    BY <1>12, <1>t, EndedRecord DEF ExitDaemon, DaemonDies
  <2>2. QED  BY <1>12, <1>s, <2>1, DeathKeeps DEF ExitDaemon, DaemonDies, DaemonAt, Alive
<1>13. ASSUME NEW d \in Daemons, Interrupted(d) PROVE ControlInv'
  BY <1>13, <1>s, TerminatedStep DEF Interrupted
<1>14. ASSUME NEW d \in Daemons, RemoveStaleSocket(d) PROVE ControlInv'
  <2>. DEFINE s == [daemon[d] EXCEPT !.server = "cleared", !.open = TRUE]
  <2>1. s \in DaemonRecord /\ s.pc = daemon[d].pc /\ s.server = "cleared"
        /\ s.child = daemon[d].child
    BY <1>t DEF DaemonRecord
  <2>2. s.open
    BY <1>t DEF DaemonRecord
  <2>3. /\ daemon' = [daemon EXCEPT ![d] = s] /\ path' = NoDaemon
        /\ daemon[d].pc \notin {"unborn", "dead", "booting"} \cup Coming
        /\ daemon[d].server = "none"
        /\ UNCHANGED <<pidFile, cmd, raced, crossed, mishaps>>
    BY <1>14 DEF RemoveStaleSocket, Threaded, Alive
  <2>. HIDE DEF s
  <2>4. Running(d) /\ daemon[d].pc \notin {"unlinking", "exiting"}
    <3>1. daemon[d].pc \notin {"unlinking", "exiting"}
      BY <1>t, <2>3 DEF ServerLife
    <3>2. QED  BY <1>t, <2>3, <3>1 DEF DaemonRecord, Running
  <2>5. QED  BY <1>s, <2>1, <2>2, <2>3, <2>4, SamePlace
<1>15. ASSUME NEW d \in Daemons, Bind(d) PROVE ControlInv'
  <2>. DEFINE free == path = NoDaemon /\ daemon[d].open
              s == [daemon[d] EXCEPT !.server = IF free THEN "bound" ELSE "ended"]
  <2>1. s \in DaemonRecord /\ s.pc = daemon[d].pc /\ s.child = daemon[d].child
        /\ s.server = (IF free THEN "bound" ELSE "ended") /\ s.asked = daemon[d].asked
    BY <1>t DEF DaemonRecord
  <2>2. /\ daemon' = [daemon EXCEPT ![d] = s] /\ path' = (IF free THEN d ELSE path)
        /\ daemon[d].pc \notin {"unborn", "dead", "booting"} \cup Coming
        /\ daemon[d].server = "cleared"
        /\ UNCHANGED <<pidFile, cmd, raced, crossed, mishaps>>
    BY <1>15 DEF Bind, Threaded, Alive
  <2>. HIDE DEF s
  <2>3. Running(d) /\ daemon[d].pc \notin {"unlinking", "exiting"}
    <3>1. daemon[d].pc \notin {"unlinking", "exiting"}
      BY <1>t, <2>2 DEF ServerLife
    <3>2. QED  BY <1>t, <2>2, <3>1 DEF DaemonRecord, Running
  <2>7. s.open = daemon[d].open
    BY <1>t DEF DaemonRecord, s
  <2>4. ~raced /\ ~crossed /\ s.pc = "up" /\ ~s.asked =>
           s.server = "bound" /\ s.open /\ path' = d
    BY <1>h, <2>1, <2>2, <2>7 DEF SocketHeld, DaemonAt
  <2>5. path' \in Daemons \cup {NoDaemon}
    BY <1>t, <2>2
  <2>. HIDE DEF free
  <2>6. QED  BY <1>s, <2>1, <2>2, <2>3, <2>4, <2>5, SamePlace
<1>26. ASSUME NEW d \in Daemons, Listen(d) PROVE ControlInv'
  <2>. DEFINE server == IF daemon[d].open THEN "serving" ELSE "ended"
              s == [daemon[d] EXCEPT !.held = TRUE, !.server = server]
  <2>1. s \in DaemonRecord /\ s.pc = daemon[d].pc /\ s.child = daemon[d].child
        /\ s.server = server /\ s.asked = daemon[d].asked /\ s.open = daemon[d].open
    BY <1>t DEF DaemonRecord
  <2>2. /\ daemon' = [daemon EXCEPT ![d] = s]
        /\ daemon[d].pc \notin {"unborn", "dead", "booting"} \cup Coming
        /\ daemon[d].server = "bound"
        /\ UNCHANGED <<pidFile, path, cmd, raced, crossed, mishaps>>
    BY <1>26 DEF Listen, Threaded, Alive
  <2>. HIDE DEF s
  <2>3. Running(d) /\ daemon[d].pc \notin {"unlinking", "exiting"}
    <3>1. daemon[d].pc \notin {"unlinking", "exiting"}
      BY <1>t, <2>2 DEF ServerLife
    <3>2. QED  BY <1>t, <2>2, <3>1 DEF DaemonRecord, Running
  <2>4. ~raced /\ ~crossed /\ s.pc = "up" /\ ~s.asked =>
           s.server = "serving" /\ s.open /\ path' = d
    BY <1>h, <2>1, <2>2 DEF SocketHeld, DaemonAt
  <2>. HIDE DEF server
  <2>5. QED  BY <1>t, <1>s, <2>1, <2>2, <2>3, <2>4, SamePlace
<1>16. ASSUME NEW d \in Daemons, ServeEnds(d) PROVE ControlInv'
  <2>. DEFINE s == [daemon[d] EXCEPT !.server = "ended", !.open = FALSE]
  <2>1. s \in DaemonRecord /\ s.pc = daemon[d].pc /\ s.server = "ended"
        /\ s.child = daemon[d].child /\ s.asked = daemon[d].asked
    BY <1>t DEF DaemonRecord
  <2>2. /\ daemon' = [daemon EXCEPT ![d] = s] /\ path' \in {NoDaemon, path}
        /\ daemon[d].pc \notin {"unborn", "dead", "booting"} \cup Coming
        /\ daemon[d].server = "serving" /\ daemon[d].asked
        /\ UNCHANGED <<pidFile, cmd, raced, crossed, mishaps>>
    BY <1>16 DEF ServeEnds, Threaded, Alive, Unlinked
  <2>. HIDE DEF s
  <2>3. Running(d) /\ daemon[d].pc \notin {"unlinking", "exiting"}
    <3>1. daemon[d].pc \notin {"unlinking", "exiting"}
      BY <1>t, <2>2 DEF ServerLife
    <3>2. QED  BY <1>t, <2>2, <3>1 DEF DaemonRecord, Running
  <2>4. QED  BY <1>t, <1>s, <2>1, <2>2, <2>3, SamePlace
<1>17. ASSUME NEW c \in Commands, StartChecks(c) PROVE ControlInv'
  <2>. DEFINE p == [cmd[c] EXCEPT !.pc = "spawning"]
  <2>1. p \in CmdRecord /\ p.pc = "spawning"
    BY <1>t DEF CmdRecord
  <2>2. /\ cmd' = [cmd EXCEPT ![c] = p] /\ ~PidAlive(pidFile)
        /\ UNCHANGED <<daemon, pidFile, path, crossed>>
        /\ raced' = (raced \/ (\E b \in Commands : CmdAt(b, "spawning"))
                           \/ \E d \in Daemons : daemon[d].pc \in Coming)
    BY <1>17 DEF StartChecks, CmdGoes
  <2>3. ~raced' => \A d \in Daemons : ~Running(d)
    <3>1. ASSUME ~raced', NEW d \in Daemons, Running(d) PROVE FALSE
      <4>1. daemon[d].pc \in Present /\ pidFile = d
        BY <1>g, <2>2, <3>1 DEF PidGuards, Running
      <4>2. QED  BY <2>2, <4>1 DEF PidAlive, Alive, Present
    <3>2. QED  BY <3>1
  <2>. HIDE DEF p
  <2>4. QED  BY <2>1, <2>2, <2>3, CmdMoves DEF StopPcs
<1>18. ASSUME NEW c \in Commands, StartSpawns(c) PROVE ControlInv'
  <2>1. CmdsCarryOn
    BY <1>18, <1>t, CmdGoesOn DEF StartSpawns
  <2>2. /\ UNCHANGED <<pidFile, path, raced>>
        /\ crossed' = (crossed \/ \E b \in Commands : cmd[b].pc \in StopPcs)
        /\ cmd' = [cmd EXCEPT ![c] = Prompt] /\ cmd[c].pc = "spawning"
    BY <1>18 DEF StartSpawns, ToPrompt, CmdAt
  <2>3. Prompt.pc = "idle" /\ Prompt \in CmdRecord
    BY DEF Prompt, CmdRecord
  <2>4. CASE Spawned(daemon)
    <3>1. PICK d \in Unused : daemon' = [daemon EXCEPT ![d].pc = "starting"]
      BY <2>4 DEF Spawned
    <3>2. ~raced => (\A e \in Daemons : ~Running(e)) /\ \A b \in Commands : ~CmdAt(b, "spawning")'
      <4>1. cmd'[c].pc = "idle" /\ \A b \in Commands : b # c => cmd'[b] = cmd[b]
        BY <1>t, <2>2, <2>3
      <4>2. QED  BY <1>g, <2>2, <4>1 DEF PidGuards, CmdAt
    <3>3. QED  BY <2>1, <2>2, <3>1, <3>2, Births
  <2>5. CASE UNCHANGED daemon
    BY <2>2, <2>3, <2>5, CmdMoves DEF StopPcs
  <2>6. QED  BY <1>18, <2>4, <2>5 DEF StartSpawns
<1>19. ASSUME NEW c \in Commands, StopReads(c) PROVE ControlInv'
  <2>. DEFINE p == [pc |-> "asking", pid |-> pidFile, knows |-> daemon[pidFile].child,
                    missed |-> FALSE]
  <2>1. /\ cmd' = [cmd EXCEPT ![c] = p] /\ pidFile \in Daemons /\ Alive(pidFile)
        /\ UNCHANGED <<daemon, pidFile, path, raced, crossed>>
    BY <1>19 DEF StopReads, PidAlive
  <2>2. p \in CmdRecord
    BY <1>t, <2>1 DEF CmdRecord, StopPcs, DaemonRecord
  <2>3. p.pc = "asking" /\ p.pid = pidFile /\ (daemon[pidFile].child => p.knows)
    BY <1>t, <2>1 DEF DaemonRecord
  <2>. HIDE DEF p
  <2>4. daemon[pidFile].pc # "unborn"
    BY <2>1 DEF Alive
  <2>5. ~raced => \A d \in Daemons : Running(d) => pidFile = d
    <3>1. ASSUME ~raced PROVE Running(pidFile)
      BY <1>g, <2>1, <3>1 DEF PidGuards, Alive, Running
    <3>2. QED  BY <1>g, <2>1, <3>1 DEF PidGuards
  <2>6. QED  BY <2>1, <2>2, <2>3, <2>4, <2>5, CmdMoves
<1>20. ASSUME NEW c \in Commands, StopAsks(c) PROVE ControlInv'
  <2>1. CmdsCarryOn
    <3>1. CmdGoes(c, "waiting") /\ "waiting" \in StopPcs /\ cmd[c].pc \in StopPcs
      BY <1>20 DEF StopAsks, CmdAt, StopPcs
    <3>2. QED  BY <1>t, <3>1, CmdGoesOn
  <2>2. UNCHANGED <<pidFile, path, raced, crossed>>
    BY <1>20 DEF StopAsks
  <2>3. CASE Listening(path) /\ daemon' = [daemon EXCEPT ![path].asked = TRUE]
    <3>1. path \in Daemons /\ Alive(path) /\ daemon[path].server = "serving"
      BY <2>3 DEF Listening
    <3>2. daemon[path].pc \notin Coming
      BY <1>t, <3>1 DEF ServerLife
    <3>3. Terminated(path)
      BY <2>3, <3>2 DEF Terminated
    <3>4. QED  BY <2>1, <2>2, <3>1, <3>3, TerminatedStep
  <2>4. CASE PidAlive(cmd[c].pid) /\ Terminated(cmd[c].pid)
    BY <2>1, <2>2, <2>4, TerminatedStep DEF PidAlive
  <2>5. QED  BY <1>20, <2>3, <2>4 DEF StopAsks
<1>21. ASSUME NEW c \in Commands, StopFails(c) \/ StopReturns(c) PROVE ControlInv'
  <2>1. Prompt.pc = "idle" /\ Prompt \in CmdRecord
    BY DEF Prompt, CmdRecord
  <2>2. QED
    BY <1>21, <2>1, CmdMoves DEF StopFails, StopReturns, ToPrompt, StopPcs
<1>22. ASSUME NEW c \in Commands, StopPolls(c) PROVE ControlInv'
  <2>. DEFINE pid == cmd[c].pid
              knows == IF CmdAt(c, "killing") THEN cmd[c].knows ELSE Refreshed(c, pid)
              gone == ~Alive(pid) /\ ~(knows /\ daemon[pid].child)
              missed == cmd[c].missed /\ (~Alive(pid) \/ CmdAt(c, "killing"))
              pathNow == IF gone /\ ~CmdAt(c, "waiting") THEN NoDaemon ELSE path
              pc == IF gone /\ pathNow = NoDaemon THEN "stopped" ELSE cmd[c].pc
              p == [cmd[c] EXCEPT !.knows = knows, !.missed = missed, !.pc = pc]
  <2>1. /\ cmd[c].pc \in StopPcs /\ path' = pathNow /\ cmd' = [cmd EXCEPT ![c] = p]
        /\ UNCHANGED <<daemon, pidFile, raced, crossed>>
    BY <1>22 DEF StopPolls
  <2>2. /\ pid \in Daemons /\ daemon[pid].pc # "unborn"
        /\ daemon[pid].child => cmd[c].knows \/ cmd[c].missed
    BY <1>t, <2>1 DEF StopsKnow
  <2>3. knows \in BOOLEAN /\ missed \in BOOLEAN
    BY <1>t, <2>2 DEF CmdRecord, DaemonRecord, Refreshed, Alive, CmdAt
  <2>4. daemon[pid].child => knows \/ missed
    BY <2>2 DEF Refreshed
  <2>5. gone => daemon[pid].pc = "dead" /\ (daemon[pid].child => missed)
    <3>1. gone => ~Alive(pid) /\ (daemon[pid].child => ~knows)
      OBVIOUS
    <3>2. QED  BY <2>2, <2>4, <3>1 DEF Alive
  <2>6. pc \in StopPcs \cup {"stopped"} /\ (pc = "stopped" => gone)
    BY <2>1 DEF StopPcs
  <2>7. pathNow = path \/ (pathNow = NoDaemon /\ gone)
    OBVIOUS
  <2>. HIDE DEF knows, missed, gone, pathNow, pc
  <2>8. p \in CmdRecord /\ p.pc = pc /\ p.pid = pid
    BY <1>t, <2>3, <2>6 DEF CmdRecord
  <2>9. p.knows = knows /\ p.missed = missed
    BY <1>t DEF CmdRecord
  <2>. HIDE DEF p
  <2>10. path' = path \/ (path' = NoDaemon /\ \A d \in Daemons : cmd[c].pid = d => ~Running(d))
    BY <2>1, <2>5, <2>7 DEF Running, Coming, Present
  <2>11. ~raced /\ ~crossed => \A d \in Daemons : Running(d) => p.pid = d
    BY <1>h, <2>1, <2>8 DEF StopsAim
  <2>12. /\ p.pid \in Daemons /\ daemon[p.pid].pc # "unborn"
         /\ daemon[p.pid].child => p.knows \/ p.missed
    BY <2>2, <2>4, <2>8, <2>9
  <2>13. p.pc = "stopped" => daemon[p.pid].pc = "dead" /\ (daemon[p.pid].child => p.missed)
    BY <2>5, <2>6, <2>8, <2>9
  <2>14. p.pc # "spawning"
    BY <2>6, <2>8 DEF StopPcs
  <2>. HIDE DEF pid
  <2>15. QED  BY <2>1, <2>8, <2>10, <2>11, <2>12, <2>13, <2>14, CmdMoves
<1>23. ASSUME NEW c \in Commands, StopEscalates(c) PROVE ControlInv'
  <2>. DEFINE pid == cmd[c].pid
  <2>1. cmd[c].pc \in StopPcs /\ UNCHANGED <<pidFile, path, raced, crossed>>
    BY <1>23 DEF StopEscalates, CmdAt, StopPcs
  <2>2. pid \in Daemons /\ daemon[pid].pc # "unborn" /\ daemon[pid] \in DaemonRecord
    BY <1>t, <2>1 DEF StopsKnow
  <2>3. CASE CmdGoes(c, "terminating")
             /\ daemon' = Killed([daemon EXCEPT ![pid].asked = @ \/ Alive(pid)], c)
    <3>. DEFINE asked == daemon[pid].asked \/ Alive(pid)
                child == daemon[pid].child /\ ~cmd[c].knows
                s == [daemon[pid] EXCEPT !.asked = asked, !.child = child]
    <3>1. asked \in BOOLEAN /\ child \in BOOLEAN /\ (child => daemon[pid].child)
      BY <1>t, <2>2 DEF DaemonRecord
    <3>2. daemon' = [daemon EXCEPT ![pid] = s]
      BY <1>t, <2>2, <2>3 DEF Killed, DaemonRecord
    <3>3. asked => daemon[pid].asked \/ daemon[pid].pc # "dead"
      BY DEF Alive
    <3>4. daemon[pid].pc = "up" => asked
      BY DEF Alive
    <3>. HIDE DEF asked, child
    <3>5. /\ s \in DaemonRecord /\ s.pc = daemon[pid].pc /\ s.server = daemon[pid].server
          /\ s.asked = asked /\ s.child = child
      BY <2>2, <3>1 DEF DaemonRecord
    <3>. HIDE DEF s
    <3>6. CmdsCarryOn
      BY <1>t, <2>1, <2>3, CmdGoesOn DEF StopPcs
    <3>. HIDE DEF pid
    <3>7. QED  BY <1>t, <2>1, <2>2, <3>1, <3>2, <3>4, <3>5, <3>6, SamePlace DEF ServerLife
  <2>4. CASE CmdGoes(c, "killing") /\ daemon' = Killed(Ended(pid), c)
    <3>. DEFINE child == daemon[pid].child /\ ~cmd[c].knows
                s == [Unborn EXCEPT !.pc = "dead", !.child = child]
    <3>1. child \in BOOLEAN /\ (child => daemon[pid].child)
      BY <1>t, <2>2 DEF DaemonRecord
    <3>2. daemon' = [daemon EXCEPT ![pid] = s]
      BY <1>t, <2>2, <2>4 DEF Killed, Ended, Unborn
    <3>. HIDE DEF child
    <3>3. s \in DaemonRecord /\ s.pc = "dead" /\ s.child = child
      BY <2>2, <3>1 DEF DaemonRecord, Unborn
    <3>. HIDE DEF s
    <3>4. CmdsCarryOn
      BY <1>t, <2>1, <2>4, CmdGoesOn DEF StopPcs
    <3>. HIDE DEF pid
    <3>5. QED  BY <2>1, <2>2, <3>1, <3>2, <3>3, <3>4, DeathKeeps
  <2>5. CASE ToPrompt(c) /\ UNCHANGED daemon
    <3>1. Prompt.pc = "idle" /\ Prompt \in CmdRecord
      BY DEF Prompt, CmdRecord
    <3>2. QED  BY <2>1, <2>5, <3>1, CmdMoves DEF ToPrompt, StopPcs
  <2>6. QED  BY <1>23, <2>3, <2>4, <2>5 DEF StopEscalates
<1>24. CASE UNCHANGED controlVars
  <2>1. ControlTypeOK' /\ ServerLife' /\ StopsKnow'
    BY <1>24, <1>t DEF controlVars, ControlTypeOK, ServerLife, StopsKnow, DaemonAt, CmdAt
  <2>2. (PidGuards => PidGuards') /\ (SocketHeld => SocketHeld') /\ (StopsAim => StopsAim')
    BY <1>24 DEF controlVars, PidGuards, SocketHeld, StopsAim, Running, DaemonAt, CmdAt
  <2>3. QED  BY <1>24, <1>g, <1>h, <2>1, <2>2 DEF controlVars, ControlInv
<1>25. QED
  BY <1>1, <1>2, <1>3, <1>4, <1>5, <1>6, <1>7, <1>8, <1>9, <1>10, <1>11, <1>12, <1>13, <1>14,
     <1>15, <1>16, <1>17, <1>18, <1>19, <1>20, <1>21, <1>22, <1>23, <1>24,
     <1>26, <1>27
  DEF ControlNext, DaemonStep, CommandStep

-----------------------------------------------------------------------------
(* Daemons and shells: the theorems.                                       *)

\* The invariant of pid file, socket and stop commands holds always.
THEOREM ControlSound == ControlSpec => []ControlInv
<1>1. QED  BY InitControl, ControlStep, PTL DEF ControlSpec

\* The processes, the two files and the shells have their types.
THEOREM ControlTypeCorrect == ControlSpec => []ControlTypeOK
<1>1. ControlInv => ControlTypeOK
  BY DEF ControlInv
<1>2. QED  BY <1>1, ControlSound, PTL

LEMMA WordFollows == ControlInv => CommandsKeepWord
<1>. SUFFICES ASSUME ControlInv PROVE CommandsKeepWord
  OBVIOUS
<1>1. OneDaemon
  BY DEF ControlInv, PidGuards, OneDaemon, Running
<1>2. ServingIsReached
  BY DEF ControlInv, SocketHeld, ServingIsReached
<1>3. StoppedMeansGone
  BY DEF ControlInv, StopsKnow, StoppedMeansGone, CmdAt
<1>4. QED  BY <1>1, <1>2, <1>3 DEF CommandsKeepWord

\* Starts that come one after the other make one daemon; while it serves it is
\* reached at the path, unless it was started into the work of a stop; and a
\* stop that reports daemon_stopped leaves no daemon and no subprocess it could
\* have known of.
THEOREM WordKept == ControlSpec => []CommandsKeepWord
<1>1. ControlInv => CommandsKeepWord
  BY WordFollows
<1>2. QED  BY <1>1, ControlSound, PTL

-----------------------------------------------------------------------------
(* The processes as a whole: a step is one of one part.                    *)

ProcessesInv == ItemInv /\ SumInv /\ Bounded /\ ControlInv

LEMMA ProcessesStart == ProcessesInit => ProcessesInv
BY InitItem, InitSum, InitBounded, InitControl DEF ProcessesInit, ProcessesInv

LEMMA ProcessesKeep ==
    ProcessesInv /\ [ItemPart \/ DaemonPart]_<<part, vars, controlVars>> => ProcessesInv'
<1>. SUFFICES ASSUME ProcessesInv, [ItemPart \/ DaemonPart]_<<part, vars, controlVars>>
              PROVE  ProcessesInv'
  OBVIOUS
<1>1. [Next]_vars /\ [ControlNext]_controlVars
  BY DEF ItemPart, DaemonPart
<1>2. ItemInv' /\ SumInv'
  BY <1>1, ItemSumKept DEF ProcessesInv
<1>3. Bounded'
  BY <1>1, BoundedStep DEF ProcessesInv, ItemInv
<1>4. ControlInv'
  BY <1>1, ControlStep DEF ProcessesInv
<1>5. QED  BY <1>2, <1>3, <1>4 DEF ProcessesInv

LEMMA ProcessesAlways == ProcessesSpec => []ProcessesInv
BY ProcessesStart, ProcessesKeep, PTL DEF ProcessesSpec

\* ProcessesTypeOK: the item, its attempts, the daemons, the shells and their
\* two files stay in range.
THEOREM ProcessesTypeCorrect == ProcessesSpec => []ProcessesTypeOK
<1>1. ProcessesInv => ProcessesTypeOK
  BY BoundedTypes DEF ProcessesInv, ItemInv, ControlInv, ProcessesTypeOK
<1>2. QED  BY <1>1, ProcessesAlways, PTL

\* AttemptsAddUp, CommandsKeepWord and CandidatesStay hold of the processes
\* whichever part runs.
THEOREM ProcessesAreSound ==
    ProcessesSpec => [](AttemptsAddUp /\ CommandsKeepWord) /\ CandidatesStay
<1>1. ProcessesInv => AttemptsAddUp /\ CommandsKeepWord
  BY SumsAddUp, WordFollows DEF ProcessesInv
<1>2. ProcessesInv /\ [ItemPart \/ DaemonPart]_<<part, vars, controlVars>>
         => [~overlap => cands \subseteq cands']_vars
  BY CandidatesStep DEF ProcessesInv, ItemPart, DaemonPart
<1>3. QED  BY <1>1, <1>2, ProcessesAlways, PTL DEF ProcessesSpec, CandidatesStay

==============================================================================
