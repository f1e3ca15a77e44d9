----------------------------- MODULE OrderLemmas -----------------------------
(***************************************************************************)
(* Least and greatest members of sets of numbers, which the proofs need    *)
(* wherever the code takes the next chunk, the latest sequence number or   *)
(* the first window; and folds over finite sets, which stand for its loops.*)
(***************************************************************************)
EXTENDS FiniteSetsExt, FiniteSetTheorems, WellFoundedInduction, TLAPS

\* Every nonempty set of natural numbers has a least member.
LEMMA LeastMember ==
    ASSUME NEW S \in SUBSET Nat, S # {}
    PROVE  \E n \in S : \A m \in S : n <= m
<1>. DEFINE R == OpToRel(<, Nat)
<1>1. \A x, y \in Nat : <<x, y>> \in R <=> x < y
  BY DEF OpToRel
<1>2. IsWellFoundedOn(R, Nat)
  BY NatLessThanWellFounded
<1>. HIDE DEF R
<1>3. PICK n \in S : \A m \in S : ~(<<m, n>> \in R)
  BY <1>2, WFMin
<1>4. ASSUME NEW m \in S PROVE n <= m
  <2>1. n \in Nat /\ m \in Nat /\ ~(m < n)
    BY <1>1, <1>3
  <2>2. QED  BY <2>1
<1>5. QED  BY <1>4

\* A finite set of natural numbers is bounded: a smallest unbounded subset
\* would be bounded without any one of its members, and so with it.
LEMMA FiniteBounded ==
    ASSUME NEW S \in SUBSET Nat, IsFiniteSet(S)
    PROVE  \E b \in Nat : \A m \in S : m <= b
<1>. DEFINE Bounded(T) == \E b \in Nat : \A m \in T : m <= b
            Finite == FiniteSubsetsOf(S)
            R == StrictSubsetOrdering(S)
            B == {T \in Finite : ~Bounded(T)}
<1>. SUFFICES ASSUME ~Bounded(S) PROVE FALSE
  OBVIOUS
<1>1. IsWellFoundedOn(R, Finite)
  BY FS_StrictSubsetOrderingWellFounded
<1>2. S \in B /\ B \subseteq Finite
  BY DEF FiniteSubsetsOf
<1>. HIDE DEF R, Finite
<1>3. PICK T \in B : \A U \in B : ~(<<U, T>> \in R)
  BY <1>1, <1>2, WFMin
<1>4. T \subseteq S /\ IsFiniteSet(T) /\ ~Bounded(T)
  BY <1>3 DEF Finite, FiniteSubsetsOf
<1>5. PICK x \in T : TRUE
  BY <1>4
<1>6. T \ {x} \in Finite /\ <<T \ {x}, T>> \in R
  BY <1>4, <1>5, FS_RemoveElement DEF Finite, FiniteSubsetsOf, R, StrictSubsetOrdering
<1>7. PICK b \in Nat : \A m \in T \ {x} : m <= b
  BY <1>3, <1>6
<1>8. x \in Nat /\ \A m \in T : m \in Nat /\ m <= b + x
  BY <1>4, <1>5, <1>7
<1>9. b + x \in Nat
  BY <1>8
<1>10. QED  BY <1>4, <1>8, <1>9

\* Every nonempty finite set of natural numbers has a greatest member.
LEMMA GreatestMember ==
    ASSUME NEW S \in SUBSET Nat, S # {}, IsFiniteSet(S)
    PROVE  \E n \in S : \A m \in S : m <= n
<1>. DEFINE Bounds == {b \in Nat : \A m \in S : m <= b}
<1>1. PICK n \in Bounds : \A b \in Bounds : n <= b
  <2>1. Bounds # {} /\ Bounds \in SUBSET Nat
    BY FiniteBounded
  <2>. HIDE DEF Bounds
  <2>2. QED  BY <2>1, LeastMember
<1>2. n \in Nat /\ \A m \in S : m <= n
  BY <1>1
<1>3. n \in S
  <2>. SUFFICES ASSUME n \notin S PROVE FALSE
    OBVIOUS
  <2>0. \A m \in S : m \in Nat /\ m < n
    BY <1>2
  <2>1. n # 0 /\ \A m \in S : m <= n - 1
    <3>0. PICK x \in S : TRUE
      OBVIOUS
    <3>1. n # 0
      BY <2>0, <3>0
    <3>2. ASSUME NEW m \in S PROVE m <= n - 1
      <4>1. m \in Nat /\ m < n /\ n \in Nat
        BY <1>2, <2>0
      <4>2. QED  BY <4>1
    <3>3. QED  BY <3>1, <3>2
  <2>2. n - 1 \in Bounds
    BY <1>2, <2>1
  <2>3. QED  BY <1>1, <1>2, <2>2
<1>4. QED  BY <1>2, <1>3

-----------------------------------------------------------------------------
\* Among the subsets of a finite set that have some property, one has it while
\* no subset with one member less does: induction over finite sets.
LEMMA MinimalSubset ==
    ASSUME NEW S, IsFiniteSet(S), NEW B \in SUBSET (SUBSET S), B # {}
    PROVE  \E T \in B : \A x \in T : T \ {x} \notin B
<1>. DEFINE Finite == FiniteSubsetsOf(S)
            R == StrictSubsetOrdering(S)
<1>1. IsWellFoundedOn(R, Finite)
  BY FS_StrictSubsetOrderingWellFounded
<1>2. Finite = SUBSET S
  BY FS_Subset DEF FiniteSubsetsOf
<1>. HIDE DEF R, Finite
<1>3. PICK T \in B : \A U \in B : ~(<<U, T>> \in R)
  BY <1>1, <1>2, WFMin
<1>4. ASSUME NEW x \in T PROVE T \ {x} \notin B
  <2>1. <<T \ {x}, T>> \in R
    BY <1>2, <1>3 DEF R, StrictSubsetOrdering
  <2>2. QED  BY <1>3, <2>1
<1>5. QED  BY <1>3, <1>4

\* f is the fold of step over the subsets of S that starts with base and takes
\* from a set the member that pick says.
StepFunction(S, D, step) == step \in [S \X D -> D]
Picks(S, pick) == \A s \in (SUBSET S) \ {{}} : pick[s] \in s
IsFold(f, S, D, base, pick, step) ==
    /\ f \in [SUBSET S -> D]
    /\ \A s \in SUBSET S :
          f[s] = IF s = {} THEN base ELSE step[<<pick[s], f[s \ {pick[s]}]>>]

\* A fold over a finite set is defined, and it stays where its steps stay.
LEMMA FoldDefined ==
    ASSUME NEW S, IsFiniteSet(S), NEW D, NEW base, base \in D,
           NEW pick, Picks(S, pick), NEW step, StepFunction(S, D, step)
    PROVE  \E f : IsFold(f, S, D, base, pick, step)
<1>. USE DEF StepFunction
<1>a. \A s \in (SUBSET S) \ {{}} : pick[s] \in s
  BY DEF Picks
<1>. DEFINE Sat(T, f) ==
               /\ f \in [SUBSET T -> D]
               /\ \A s \in SUBSET T :
                     f[s] = IF s = {} THEN base ELSE step[<<pick[s], f[s \ {pick[s]}]>>]
            F == [T \in SUBSET S |-> CHOOSE f : Sat(T, f)]
<1>1. \A T, U, V \in SUBSET S : \A f, g :
          V \subseteq T /\ V \subseteq U /\ Sat(T, f) /\ Sat(U, g) => f[V] = g[V]
  <2>1. SUFFICES ASSUME NEW T \in SUBSET S, NEW U \in SUBSET S, NEW V \in SUBSET S, NEW f, NEW g,
                        V \subseteq T, V \subseteq U, Sat(T, f), Sat(U, g), f[V] # g[V]
                 PROVE  FALSE
    <3>. HIDE DEF Sat
    <3>1. QED  OBVIOUS
  <2>. DEFINE B == {W \in SUBSET (T \cap U) : f[W] # g[W]}
  <2>2. IsFiniteSet(S) /\ B \in SUBSET (SUBSET S) /\ B # {}
    BY <2>1
  <2>. HIDE DEF B
  <2>3. PICK W \in B : \A x \in W : W \ {x} \notin B
    BY <2>2, MinimalSubset
  <2>4. W \in SUBSET T /\ W \in SUBSET U /\ f[W] # g[W]
    BY <2>3 DEF B
  <2>5. W # {}
    BY <2>1, <2>4
  <2>6. pick[W] \in W
    BY <1>a, <2>4, <2>5
  <2>7. f[W \ {pick[W]}] = g[W \ {pick[W]}]
    BY <2>3, <2>6 DEF B
  <2>8. f[W] = step[<<pick[W], f[W \ {pick[W]}]>>] /\ g[W] = step[<<pick[W], g[W \ {pick[W]}]>>]
    BY <2>1, <2>4, <2>5
  <2>9. QED  BY <2>4, <2>7, <2>8
<1>b. ASSUME NEW s \in SUBSET S, NEW r \in SUBSET S, r \subseteq s, NEW h, NEW k, Sat(s, h), Sat(r, k)
      PROVE  h[r] = k[r]
  <2>. HIDE DEF Sat
  <2>1. QED  BY <1>1, <1>b
<1>2. ASSUME NEW T \in SUBSET S, \A U \in SUBSET T : U # T => Sat(U, F[U])
      PROVE  \E f : Sat(T, f)
  <2>. DEFINE last == IF T = {} THEN base ELSE step[<<pick[T], F[T \ {pick[T]}][T \ {pick[T]}]>>]
              f == [s \in SUBSET T |-> IF s = T THEN last ELSE F[s][s]]
  <2>1. ASSUME NEW s \in SUBSET T, s # T PROVE F[s][s] \in D /\ f[s] = F[s][s]
    <3>1. Sat(s, F[s]) /\ s \in SUBSET s
      BY <1>2, <2>1
    <3>2. QED  BY <2>1, <3>1
  <2>2. last \in D /\ f[T] = last
    <3>1. CASE T = {}
      BY <3>1
    <3>2. CASE T # {}
      <4>1. pick[T] \in T
        BY <1>a, <3>2
      <4>2. PICK r : r = T \ {pick[T]}
        OBVIOUS
      <4>3. r \in SUBSET T /\ r # T
        BY <4>1, <4>2
      <4>4. F[r][r] \in D
        BY <2>1, <4>3
      <4>5. last = step[<<pick[T], F[r][r]>>]
        BY <3>2, <4>2
      <4>6. pick[T] \in S
        BY <4>1
      <4>. HIDE DEF last, F
      <4>7. last \in D
        BY <4>4, <4>5, <4>6
      <4>8. QED  BY <4>7
    <3>3. QED  BY <3>1, <3>2
  <2>3. f \in [SUBSET T -> D]
    BY <2>1, <2>2
  <2>4. ASSUME NEW s \in SUBSET T, s # {}
        PROVE  f[s] = step[<<pick[s], f[s \ {pick[s]}]>>]
    <3>1. PICK x : x = pick[s]
      OBVIOUS
    <3>2. PICK r : r = s \ {x}
      OBVIOUS
    <3>3. x \in s /\ r \in SUBSET T /\ r # T /\ r \in SUBSET s
      BY <1>a, <1>2, <2>4, <3>1, <3>2
    <3>4. f[r] = F[r][r]
      BY <2>1, <3>3
    <3>5. CASE s = T
      BY <2>2, <2>4, <3>1, <3>2, <3>4, <3>5
    <3>6. CASE s # T
      <4>1. Sat(s, F[s]) /\ Sat(r, F[r])
        BY <1>2, <2>4, <3>3, <3>6
      <4>2. F[s][r] = F[r][r]
        <5>1. s \in SUBSET S /\ r \in SUBSET S /\ r \subseteq s
          BY <2>4, <3>3
        <5>. HIDE DEF Sat, F, f, last
        <5>2. PICK h, k : h = F[s] /\ k = F[r]
          OBVIOUS
        <5>3. Sat(s, h) /\ Sat(r, k)
          BY <4>1, <5>2
        <5>5. h[r] = k[r]
          BY <1>b, <5>1, <5>3
        <5>6. QED  BY <5>2, <5>5
      <4>3. F[s][s] = step[<<x, F[s][r]>>]
        BY <2>4, <3>1, <3>2, <4>1
      <4>4. f[s] = F[s][s]
        BY <2>1, <2>4, <3>6
      <4>5. QED  BY <3>1, <3>2, <3>4, <4>2, <4>3, <4>4
    <3>7. QED  BY <3>5, <3>6
  <2>5. f[{}] = base
    <3>1. CASE T = {}
      BY <2>2, <3>1
    <3>2. CASE T # {}
      <4>1. Sat({}, F[{}])
        BY <1>2, <3>2
      <4>2. QED  BY <2>1, <3>2, <4>1
    <3>3. QED  BY <3>1, <3>2
  <2>. HIDE DEF f
  <2>6. QED  BY <2>3, <2>4, <2>5
<1>3. \A T \in SUBSET S : \E f : Sat(T, f)
  <2>. DEFINE Finite == FiniteSubsetsOf(S)
              R == StrictSubsetOrdering(S)
              B == {T \in Finite : ~\E f : Sat(T, f)}
  <2>1. IsWellFoundedOn(R, Finite)
    BY FS_StrictSubsetOrderingWellFounded
  <2>2. Finite = SUBSET S
    BY FS_Subset DEF FiniteSubsetsOf
  <2>. HIDE DEF Finite, R, Sat, F
  <2>3. SUFFICES ASSUME B # {} PROVE FALSE
    BY <2>2
  <2>a. B \subseteq Finite
    OBVIOUS
  <2>. HIDE DEF B
  <2>4. PICK T \in B : \A U \in B : ~(<<U, T>> \in R)
    BY <2>1, <2>3, <2>a, WFMin
  <2>. USE DEF B
  <2>5. T \in SUBSET S
    BY <2>2, <2>4
  <2>6. ASSUME NEW U \in SUBSET T, U # T PROVE Sat(U, F[U])
    <3>1. <<U, T>> \in R /\ U \in SUBSET S
      BY <2>5, <2>6 DEF R, StrictSubsetOrdering
    <3>2. \E f : Sat(U, f)
      BY <2>2, <2>4, <3>1
    <3>3. QED  BY <3>1, <3>2 DEF F
  <2>7. QED  BY <1>2, <2>4, <2>5, <2>6
<1>4. PICK f : Sat(S, f)
  BY <1>3
<1>5. IsFold(f, S, D, base, pick, step)
  BY <1>4 DEF IsFold
<1>6. QED  BY <1>5

-----------------------------------------------------------------------------
\* What holds at 0 and goes on from each place to the next, holds up to n.
LEMMA CountUp ==
    ASSUME NEW n \in Nat, NEW G, 0 \in G, \A i \in 1..n : i - 1 \in G => i \in G
    PROVE  \A i \in 0..n : i \in G
<1>. DEFINE Bad == {i \in 0..n : i \notin G}
<1>1. SUFFICES ASSUME Bad # {} PROVE FALSE
  OBVIOUS
<1>2. Bad \in SUBSET Nat
  OBVIOUS
<1>. HIDE DEF Bad
<1>3. PICK i \in Bad : \A m \in Bad : i <= m
  BY <1>1, <1>2, LeastMember
<1>4. i \in 0..n /\ i \notin G
  BY <1>3 DEF Bad
<1>5. i \in 1..n /\ i - 1 \in 0..n /\ ~(i <= i - 1)
  BY <1>4
<1>6. i - 1 \in G
  BY <1>3, <1>5 DEF Bad
<1>7. QED  BY <1>4, <1>5, <1>6

\* f runs step over the places up to n, from base on.
IsRun(f, n, D, base, step) ==
    /\ f \in [0..n -> D] /\ f[0] = base
    /\ \A i \in 1..n : f[i] = step[<<i, f[i - 1]>>]

LEMMA TopPlace ==
    ASSUME NEW n \in Nat, NEW pick, pick = [s \in SUBSET (1..n) |-> CHOOSE x \in s : \A y \in s : x >= y]
    PROVE  /\ Picks(1..n, pick)
           /\ \A i \in 1..n : pick[1..i] = i
<1>1. ASSUME NEW s \in (SUBSET (1..n)) \ {{}} PROVE pick[s] \in s /\ \A y \in s : pick[s] >= y
  <2>0. IsFiniteSet(1..n) /\ s \subseteq 1..n
    BY FS_Interval
  <2>1. IsFiniteSet(s)
    BY <2>0, FS_Subset
  <2>2. s \in SUBSET Nat /\ s # {}
    OBVIOUS
  <2>3. PICK x \in s : \A y \in s : y <= x
    BY <2>1, <2>2, GreatestMember
  <2>4. \A y \in s : x >= y
    BY <2>2, <2>3
  <2>5. QED  BY <2>4
<1>2. ASSUME NEW i \in 1..n PROVE pick[1..i] = i
  <2>1. PICK s : s = 1..i
    OBVIOUS
  <2>2. s \in SUBSET (1..n) /\ i \in s
    BY <2>1
  <2>3. pick[s] \in s /\ pick[s] >= i
    BY <1>1, <2>2
  <2>4. QED  BY <2>1, <2>3
<1>3. QED  BY <1>1, <1>2 DEF Picks

LEMMA RunDefined ==
    ASSUME NEW n \in Nat, NEW D, NEW base, base \in D, NEW step, StepFunction(1..n, D, step)
    PROVE  \E f : IsRun(f, n, D, base, step)
<1>1. PICK pick : pick = [s \in SUBSET (1..n) |-> CHOOSE x \in s : \A y \in s : x >= y]
  OBVIOUS
<1>2. Picks(1..n, pick) /\ \A i \in 1..n : pick[1..i] = i
  BY <1>1, TopPlace
<1>3. IsFiniteSet(1..n)
  BY FS_Interval
<1>4. PICK f : IsFold(f, 1..n, D, base, pick, step)
  BY <1>2, <1>3, FoldDefined
<1>5. PICK g : g = [i \in 0..n |-> f[1..i]]
  OBVIOUS
<1>6. ASSUME NEW i \in 0..n PROVE 1..i \in SUBSET (1..n) /\ g[i] = f[1..i]
  BY <1>5
<1>7. g \in [0..n -> D]
  BY <1>4, <1>5, <1>6 DEF IsFold
<1>8. g[0] = base
  <2>1. 1..0 = {} /\ {} \in SUBSET (1..n)
    OBVIOUS
  <2>2. f[{}] = base
    BY <1>4, <2>1 DEF IsFold
  <2>3. QED  BY <1>6, <2>1, <2>2
<1>9. ASSUME NEW i \in 1..n PROVE g[i] = step[<<i, g[i - 1]>>]
  <2>1. PICK s : s = 1..i
    OBVIOUS
  <2>2. s \in SUBSET (1..n) /\ i \in s /\ s # {}
    <3>1. (\A j \in 1..i : j \in 1..n) /\ i \in 1..i
      OBVIOUS
    <3>2. QED  BY <2>1, <3>1
  <2>3. pick[s] = i
    BY <1>2, <2>1
  <2>4. PICK t : t = s \ {i}
    OBVIOUS
  <2>5. t = 1..(i - 1)
    BY <2>1, <2>4
  <2>6. f[s] = step[<<i, f[t]>>]
    BY <1>4, <2>2, <2>3, <2>4 DEF IsFold
  <2>7. i \in 0..n /\ i - 1 \in 0..n
    OBVIOUS
  <2>8. g[i] = f[s] /\ g[i - 1] = f[t]
    BY <1>6, <2>1, <2>5, <2>7
  <2>9. QED  BY <2>6, <2>8
<1>10. IsRun(g, n, D, base, step)
  BY <1>7, <1>8, <1>9 DEF IsRun
<1>11. QED  BY <1>10

LEMMA GreatestPlace ==
    ASSUME NEW L \in Nat
    PROVE  /\ \A s \in SUBSET (1..L) : s # {} => Max(s) \in s
           /\ \A i \in 1..L : Max(1..i) = i /\ (1..i) \ {i} = 1..(i - 1)
<1>1. ASSUME NEW s \in SUBSET (1..L), s # {} PROVE Max(s) \in s
  <2>0. 1 \in Int /\ L \in Int /\ s \in SUBSET Nat
    OBVIOUS
  <2>1. s \in SUBSET Nat /\ IsFiniteSet(s)
    <3>1. IsFiniteSet(1..L)
      BY <2>0, FS_Interval
    <3>2. QED  BY <2>0, <3>1, FS_Subset
  <2>2. \E n \in s : \A m \in s : m <= n
    BY <1>1, <2>1, GreatestMember
  <2>3. \E n \in s : \A m \in s : n >= m
    BY <2>1, <2>2
  <2>4. QED  BY <2>3 DEF Max
<1>2. ASSUME NEW i \in 1..L PROVE Max(1..i) = i /\ (1..i) \ {i} = 1..(i - 1)
  <2>1. PICK x : x = Max(1..i)
    OBVIOUS
  <2>2. i \in 1..i /\ \A y \in 1..i : i >= y
    OBVIOUS
  <2>3. x \in 1..i /\ \A y \in 1..i : x >= y
    BY <2>1, <2>2 DEF Max
  <2>4. x = i
    BY <2>2, <2>3
  <2>5. (1..i) \ {i} = 1..(i - 1)
    OBVIOUS
  <2>6. QED  BY <2>1, <2>4, <2>5
<1>3. QED  BY <1>1, <1>2

\* f runs through the sets of places of a fold over a sequence of n members.
Loops(f, n, D, base, step) ==
    /\ f[{}] = base
    /\ \A s \in (SUBSET (1..n)) \ {{}} :
          f[s \ {Max(s)}] \in D => f[s] = step[<<Max(s), f[s \ {Max(s)}]>>]

LEMMA LoopDefined ==
    ASSUME NEW n \in Nat, NEW D, NEW base, base \in D, NEW step, StepFunction(1..n, D, step)
    PROVE  \E f \in [SUBSET (1..n) -> D] : Loops(f, n, D, base, step)
<1>1. PICK pick : pick = [s \in SUBSET (1..n) |-> Max(s)]
  OBVIOUS
<1>2. Picks(1..n, pick) /\ \A s \in SUBSET (1..n) : pick[s] = Max(s)
  BY <1>1, GreatestPlace DEF Picks
<1>3. IsFiniteSet(1..n)
  BY FS_Interval
<1>4. PICK f : IsFold(f, 1..n, D, base, pick, step)
  BY <1>2, <1>3, FoldDefined
<1>5. f \in [SUBSET (1..n) -> D]
  BY <1>4 DEF IsFold
<1>6. f[{}] = base
  BY <1>4 DEF IsFold
<1>7. ASSUME NEW s \in (SUBSET (1..n)) \ {{}}
      PROVE  f[s] = step[<<Max(s), f[s \ {Max(s)}]>>]
  <2>1. PICK x : x = pick[s]
    OBVIOUS
  <2>2. f[s] = step[<<x, f[s \ {x}]>>] /\ x = Max(s)
    BY <1>2, <1>4, <1>7, <2>1 DEF IsFold
  <2>3. QED  BY <2>2
<1>8. Loops(f, n, D, base, step)
  BY <1>6, <1>7 DEF Loops
<1>9. QED  BY <1>5, <1>8

LEMMA LoopRuns ==
    ASSUME NEW n \in Nat, NEW D, NEW base, base \in D, NEW step, StepFunction(1..n, D, step),
           NEW f, Loops(f, n, D, base, step)
    PROVE  IsRun([i \in 0..n |-> f[1..i]], n, D, base, step)
<1>1. PICK g : g = [i \in 0..n |-> f[1..i]]
  OBVIOUS
<1>2. g[0] = base
  <2>1. 1..0 = {} /\ 0 \in 0..n
    OBVIOUS
  <2>2. QED  BY <1>1, <2>1 DEF Loops
<1>3. ASSUME NEW i \in 1..n, g[i - 1] \in D PROVE g[i] = step[<<i, g[i - 1]>>] /\ g[i] \in D
  <2>1. PICK s, t : s = 1..i /\ t = 1..(i - 1)
    OBVIOUS
  <2>2. s \in (SUBSET (1..n)) \ {{}} /\ i \in 0..n /\ i - 1 \in 0..n
    <3>1. \A j \in 1..i : j \in 1..n
      OBVIOUS
    <3>2. i \in 1..i
      OBVIOUS
    <3>3. QED  BY <2>1, <3>1, <3>2
  <2>3. Max(s) = i /\ s \ {i} = t
    <3>1. Max(1..i) = i /\ (1..i) \ {i} = 1..(i - 1)
      BY GreatestPlace
    <3>2. QED  BY <2>1, <3>1
  <2>4. g[i] = f[s] /\ g[i - 1] = f[t]
    BY <1>1, <2>1, <2>2
  <2>5. f[s] = step[<<i, f[t]>>]
    <3>1. PICK x, u : x = Max(s) /\ u = s \ {x}
      OBVIOUS
    <3>2. x = i /\ u = t
      BY <2>3, <3>1
    <3>3. f[u] \in D => f[s] = step[<<x, f[u]>>]
      BY <2>2, <3>1 DEF Loops
    <3>4. QED  BY <1>3, <2>4, <3>2, <3>3
  <2>6. step[<<i, f[t]>>] \in D
    BY <1>3, <2>4 DEF StepFunction
  <2>7. QED  BY <2>4, <2>5, <2>6
<1>4. \A i \in 0..n : g[i] \in D
  <2>1. PICK G : G = {i \in 0..n : g[i] \in D}
    OBVIOUS
  <2>2. 0 \in G
    BY <1>2, <2>1
  <2>3. ASSUME NEW i \in 1..n, i - 1 \in G PROVE i \in G
    <3>1. g[i - 1] \in D
      BY <2>1, <2>3
    <3>2. g[i] \in D
      BY <1>3, <3>1
    <3>3. i \in 0..n
      OBVIOUS
    <3>4. QED  BY <2>1, <3>2, <3>3
  <2>4. \A i \in 0..n : i \in G
    BY <2>2, <2>3, CountUp
  <2>5. QED  BY <2>1, <2>4
<1>5. \A i \in 1..n : g[i] = step[<<i, g[i - 1]>>]
  <2>1. \A i \in 1..n : i - 1 \in 0..n
    OBVIOUS
  <2>2. QED  BY <1>3, <1>4, <2>1
<1>6. g \in [0..n -> D]
  BY <1>1, <1>4
<1>7. QED  BY <1>1, <1>2, <1>5, <1>6 DEF IsRun
-----------------------------------------------------------------------------
(* FoldSet: what holds of its steps holds of the whole.                    *)

\* A loop takes one element after the other, in whatever order.
IsLoop(g, S, D, base, step) ==
    /\ g[{}] = base
    /\ \A s \in (SUBSET S) \ {{}} : \E x \in s :
          g[s \ {x}] \in D => g[s] = step[<<x, g[s \ {x}]>>]

\* It stays where its steps stay, and ends with a step.
LEMMA SetLoopStays ==
    ASSUME NEW S, IsFiniteSet(S), NEW D, NEW base, base \in D,
           NEW step, StepFunction(S, D, step), NEW g, IsLoop(g, S, D, base, step)
    PROVE  /\ g[S] \in D
           /\ S # {} => \E x \in S, b \in D : g[S] = step[<<x, b>>]
<1>. USE DEF IsLoop
<1>1. \A s \in SUBSET S : g[s] \in D
  <2>. DEFINE B == {s \in SUBSET S : g[s] \notin D}
  <2>1. SUFFICES ASSUME B # {} PROVE FALSE
    OBVIOUS
  <2>2. B \in SUBSET (SUBSET S)
    OBVIOUS
  <2>. HIDE DEF B
  <2>3. PICK s \in B : \A x \in s : s \ {x} \notin B
    BY <2>1, <2>2, MinimalSubset
  <2>4. s \in (SUBSET S) \ {{}} /\ g[s] \notin D
    BY <2>3 DEF B
  <2>5. PICK x \in s : g[s \ {x}] \in D => g[s] = step[<<x, g[s \ {x}]>>]
    BY <2>4
  <2>6. g[s \ {x}] \in D
    BY <2>3, <2>4 DEF B
  <2>7. step[<<x, g[s \ {x}]>>] \in D
    BY <2>4, <2>6 DEF StepFunction
  <2>8. QED  BY <2>4, <2>5, <2>6, <2>7
<1>2. ASSUME S # {}
      PROVE  \E x \in S, b \in D : g[S] = step[<<x, b>>]
  <2>1. S \in (SUBSET S) \ {{}}
    BY <1>2
  <2>2. PICK x \in S : g[S \ {x}] \in D => g[S] = step[<<x, g[S \ {x}]>>]
    BY <2>1
  <2>3. g[S \ {x}] \in D
    BY <1>1
  <2>4. QED  BY <2>2, <2>3
<1>3. QED  BY <1>1, <1>2
=============================================================================
