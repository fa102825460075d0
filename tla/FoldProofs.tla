----------------------------- MODULE FoldProofs -----------------------------
(***************************************************************************)
(* What FoldLeft of the community modules computes, for proofs about       *)
(* operators that are folds.  A fold over positions 1 .. n is a function   *)
(* on the subsets of 1 .. n, applied to all of them.  Theorems about       *)
(* operators cannot be instantiated here, so the step of the fold is a     *)
(* function F[k] from what may stand before position k to what may stand   *)
(* after it, and a user of these lemmas names that function.               *)
(***************************************************************************)
EXTENDS Integers, Sequences, SequencesExt, FiniteSetTheorems, WellFoundedInduction, TLAPS

\* A non-empty set of natural numbers has a least member.
LEMMA LeastNumber ==
  ASSUME NEW S \in SUBSET Nat, S # {}
  PROVE  \E i \in S : \A j \in S : i <= j
<1> DEFINE T == {1 .. i : i \in S}
<1>1. T \subseteq FiniteSubsetsOf(Nat) /\ T # {}
  <2>1. ASSUME NEW i \in S
        PROVE  1 .. i \in SUBSET Nat /\ IsFiniteSet(1 .. i)
    BY FS_Interval
  <2> QED BY <2>1 DEF FiniteSubsetsOf
<1>2. IsWellFoundedOn(StrictSubsetOrdering(Nat), FiniteSubsetsOf(Nat))
  BY FS_StrictSubsetOrderingWellFounded
<1>3. PICK x \in T : \A y \in T : ~ (<<y, x>> \in StrictSubsetOrdering(Nat))
  <2> HIDE DEF T
  <2> QED BY <1>1, <1>2, WFMin
<1>4. PICK i \in S : x = 1 .. i
  OBVIOUS
<1>5. ASSUME NEW j \in S, j < i
      PROVE  FALSE
  <2>1. 1 .. j \in SUBSET Nat /\ 1 .. i \in SUBSET Nat /\ 1 .. j \subseteq 1 .. i
    BY <1>5
  <2>2. i \in 1 .. i /\ i \notin 1 .. j
    BY <1>5
  <2>3. <<1 .. j, 1 .. i>> \in StrictSubsetOrdering(Nat)
    BY <2>1, <2>2 DEF StrictSubsetOrdering
  <2> QED BY <1>3, <1>4, <2>3
<1> QED BY <1>5

\* Induction up to a bound, for a set.
LEMMA UpTo ==
  ASSUME NEW n \in Nat, NEW T, 0 \in T, \A k \in 1 .. n : k - 1 \in T => k \in T
  PROVE  0 .. n \subseteq T
<1> SUFFICES ASSUME (0 .. n) \ T # {} PROVE FALSE
  OBVIOUS
<1> DEFINE S == (0 .. n) \ T
<1>0. S \in SUBSET Nat /\ S # {}
  OBVIOUS
<1>1. PICK i \in S : \A j \in S : i <= j
  <2> HIDE DEF S
  <2> QED BY <1>0, LeastNumber
<1>2. i \in 1 .. n /\ i - 1 \in 0 .. n
  BY <1>1
<1>3. i - 1 \in T
  BY <1>1, <1>2
<1> QED BY <1>1, <1>2, <1>3

\* Max of FiniteSetsExt, for positions.
LEMMA MaxOfPositions ==
  ASSUME NEW n \in Nat, NEW s \in SUBSET (1 .. n), s # {}
  PROVE  Max(s) \in s /\ \A y \in s : y <= Max(s)
<1> DEFINE below == {n - y : y \in s}
<1>1. below \subseteq Nat /\ below # {}
  OBVIOUS
<1>2. PICK i \in below : \A j \in below : i <= j
  <2> HIDE DEF below
  <2> QED BY <1>1, LeastNumber
<1>3. PICK x \in s : i = n - x
  OBVIOUS
<1>4. \A y \in s : x >= y
  <2> TAKE y \in s
  <2>1. n - x <= n - y
    BY <1>2, <1>3
  <2> QED BY <2>1
<1>5. (CHOOSE z \in s : \A y \in s : z >= y) \in s /\ \A y \in s : (CHOOSE z \in s : \A w \in s : z >= w) >= y
  BY <1>4
<1> QED BY <1>5 DEF Max

LEMMA MinOfNumbers ==
  ASSUME NEW s \in SUBSET Nat, s # {}
  PROVE  Min(s) \in s /\ \A y \in s : Min(s) <= y
BY LeastNumber DEF Min

\* A recursion over the subsets of 1 .. n that takes the last position off
\* first has a solution, and its values stay where F keeps them.
Taken(n, base, F, g) ==
  g = [s \in SUBSET (1 .. n) |-> IF s = {} THEN base ELSE F[Max(s)][g[s \ {Max(s)}]]]
Kept(n, V, g) == \A s \in SUBSET (1 .. n) : s # {} => g[s] \in V[Max(s)]

LEMMA FoldExists ==
  ASSUME NEW n \in Nat, NEW V, \A j, k \in 0 .. n : j <= k => V[j] \subseteq V[k],
         NEW base \in V[0], NEW F, \A k \in 1 .. n : F[k] \in [V[k - 1] -> V[k]]
  PROVE  \E g : Taken(n, base, F, g) /\ Kept(n, V, g)
<1> DEFINE T == {m \in 0 .. n : \E g : Taken(m, base, F, g) /\ Kept(m, V, g)}
<1>1. 0 \in T
  <2> DEFINE g == [s \in SUBSET (1 .. 0) |-> base]
  <2>1. 1 .. 0 = {}
    OBVIOUS
  <2>2. Taken(0, base, F, g)
    BY <2>1 DEF Taken
  <2>3. Kept(0, V, g)
    BY <2>1 DEF Kept
  <2> QED BY <2>2, <2>3
<1>2. ASSUME NEW m \in 1 .. n, m - 1 \in T
      PROVE  m \in T
  <2>1. PICK g : Taken(m - 1, base, F, g) /\ Kept(m - 1, V, g)
    BY <1>2
  <2> DEFINE h == [s \in SUBSET (1 .. m) |-> IF m \in s THEN F[m][g[s \ {m}]] ELSE g[s]]
  <2>2. ASSUME NEW s \in SUBSET (1 .. (m - 1))
        PROVE  g[s] \in V[m - 1] /\ g[s] = IF s = {} THEN base ELSE F[Max(s)][g[s \ {Max(s)}]]
    <3>1. g[s] = IF s = {} THEN base ELSE F[Max(s)][g[s \ {Max(s)}]]
      BY <2>1 DEF Taken
    <3>2. CASE s = {}
      <4>1. V[0] \subseteq V[m - 1]
        BY <1>2
      <4> QED BY <3>1, <3>2, <4>1
    <3>3. CASE s # {}
      <4>1. Max(s) \in s
        <5>1. m - 1 \in Nat
          OBVIOUS
        <5> QED BY <3>3, <5>1, MaxOfPositions
      <4>2. Max(s) \in 0 .. n /\ m - 1 \in 0 .. n /\ Max(s) <= m - 1
        <5>1. Max(s) \in 1 .. (m - 1)
          BY <4>1
        <5> QED BY <5>1
      <4>3. V[Max(s)] \subseteq V[m - 1]
        BY <4>2
      <4> QED BY <2>1, <3>1, <3>3, <4>3 DEF Kept
    <3> QED BY <3>2, <3>3
  <2>3. ASSUME NEW s \in SUBSET (1 .. m)
        PROVE  /\ h[s] = IF s = {} THEN base ELSE F[Max(s)][h[s \ {Max(s)}]]
               /\ s # {} => h[s] \in V[Max(s)]
    <3>1. CASE m \in s
      <4>1. Max(s) = m
        <5>1. Max(s) \in s /\ m <= Max(s)
          BY <3>1, MaxOfPositions
        <5> QED BY <5>1
      <4>2. s \ {m} \in SUBSET (1 .. (m - 1)) /\ s \ {m} \in SUBSET (1 .. m) /\ m \notin s \ {m}
        OBVIOUS
      <4>3. h[s \ {m}] = g[s \ {m}] /\ h[s] = F[m][g[s \ {m}]]
        BY <3>1, <4>2
      <4>4. g[s \ {m}] \in V[m - 1] /\ F[m] \in [V[m - 1] -> V[m]]
        BY <2>2, <4>2
      <4>5. h[s] \in V[m]
        BY <4>3, <4>4
      <4> HIDE DEF h
      <4> QED BY <3>1, <4>1, <4>3, <4>5
    <3>2. CASE m \notin s
      <4>1. s \in SUBSET (1 .. (m - 1)) /\ s \ {Max(s)} \in SUBSET (1 .. m) /\ m \notin s \ {Max(s)}
        <5>1. \A x \in 1 .. m : x # m => x \in 1 .. (m - 1)
          OBVIOUS
        <5>2. s \in SUBSET (1 .. (m - 1))
          BY <3>2, <5>1
        <5> QED BY <3>2, <5>2
      <4>2. h[s] = g[s] /\ h[s \ {Max(s)}] = g[s \ {Max(s)}]
        BY <3>2, <4>1
      <4>3. s # {} => g[s] \in V[Max(s)]
        BY <2>1, <4>1 DEF Kept
      <4> HIDE DEF h
      <4> QED BY <2>2, <4>1, <4>2, <4>3
    <3> QED BY <3>1, <3>2
  <2>4. Taken(m, base, F, h)
    <3>1. h = [s \in SUBSET (1 .. m) |-> h[s]]
      OBVIOUS
    <3> HIDE DEF h
    <3> QED BY <2>3, <3>1 DEF Taken
  <2>5. Kept(m, V, h)
    <3> HIDE DEF h
    <3> QED BY <2>3 DEF Kept
  <2> HIDE DEF h
  <2> QED BY <2>4, <2>5
<1>3. 0 .. n \subseteq T
  <2> HIDE DEF T
  <2> QED BY <1>1, <1>2, UpTo
<1> QED BY <1>3

\* The segments of the positions that a fold passes through.
LEMMA Segments ==
  ASSUME NEW n \in Nat, NEW k \in 1 .. n
  PROVE  /\ 1 .. k \in SUBSET (1 .. n) /\ 1 .. k # {} /\ Max(1 .. k) = k
         /\ (1 .. k) \ {Max(1 .. k)} = 1 .. (k - 1)
<1>1. 1 .. k \in SUBSET (1 .. n) /\ k \in 1 .. k
  OBVIOUS
<1>2. Max(1 .. k) = k
  <2>1. Max(1 .. k) \in 1 .. k /\ k <= Max(1 .. k)
    BY <1>1, MaxOfPositions
  <2> QED BY <2>1
<1>3. \A j \in Int : j \in (1 .. k) \ {k} <=> j \in 1 .. (k - 1)
  OBVIOUS
<1>4. (1 .. k) \ {k} = 1 .. (k - 1)
  BY <1>3
<1> QED BY <1>1, <1>2, <1>4

\* What stands before the last position of a set was kept there.
LEMMA BeforeLast ==
  ASSUME NEW n \in Nat, NEW V, \A j, k \in 0 .. n : j <= k => V[j] \subseteq V[k],
         NEW base \in V[0], NEW F, NEW g, Taken(n, base, F, g), Kept(n, V, g),
         NEW s \in SUBSET (1 .. n), s # {}
  PROVE  Max(s) \in 1 .. n /\ g[s \ {Max(s)}] \in V[Max(s) - 1]
<1> DEFINE m == Max(s)
           r == s \ {Max(s)}
<1>1. m \in 1 .. n /\ m \in s /\ \A y \in s : y <= m
  BY MaxOfPositions
<1>2. CASE r = {}
  <2>1. g[{}] = base
    BY DEF Taken
  <2>2. V[0] \subseteq V[m - 1]
    BY <1>1
  <2> QED BY <1>1, <1>2, <2>1, <2>2
<1>3. CASE r # {}
  <2>1. Max(r) \in r /\ g[r] \in V[Max(r)]
    BY <1>3, MaxOfPositions DEF Kept
  <2>2. Max(r) \in 0 .. n /\ m - 1 \in 0 .. n /\ Max(r) <= m - 1
    <3>1. Max(r) \in 1 .. n /\ Max(r) # m /\ Max(r) <= m
      BY <1>1, <2>1
    <3> HIDE DEF r, m
    <3> QED BY <1>1, <3>1
  <2>3. V[Max(r)] \subseteq V[m - 1]
    BY <2>2
  <2> QED BY <1>1, <2>1, <2>3
<1> QED BY <1>2, <1>3

\* A solution passes through the initial segments of the positions.
LEMMA FoldClimbs ==
  ASSUME NEW n \in Nat, NEW V, NEW g, g[{}] \in V[0],
         \A k \in 1 .. n : g[1 .. (k - 1)] \in V[k - 1] => g[1 .. k] \in V[k]
  PROVE  g[1 .. n] \in V[n]
<1> DEFINE T == {k \in 0 .. n : g[1 .. k] \in V[k]}
<1>1. 0 \in T
  <2>1. 1 .. 0 = {}
    OBVIOUS
  <2> QED BY <2>1
<1>2. 0 .. n \subseteq T
  <2>1. \A k \in 1 .. n : k - 1 \in T => k \in T
    OBVIOUS
  <2> HIDE DEF T
  <2> QED BY <1>1, <2>1, UpTo
<1> QED BY <1>2
=============================================================================
