---------------------------- MODULE SlotPlanProofs ----------------------------
(***************************************************************************)
(* Proofs about SlotPlan and RangePlan, for every number of workers,       *)
(* orphans and slots and for every limit on walks, pages and lists.        *)
(***************************************************************************)
EXTENDS RangePlan, FiniteSetTheorems, SequenceTheorems, WellFoundedInduction, TLAPS

(* LeastNat: a set of naturals has a least element, which Min returns. *)
LEMMA LeastNat ==
  ASSUME NEW S, S \subseteq Nat, S # {}
  PROVE  Min(S) \in S /\ \A y \in S : Min(S) <= y
<1> DEFINE R == {ss \in Nat \X Nat : ss[1] < ss[2]}
<1>1. IsWellFoundedOn(R, Nat)
  BY NatLessThanWellFounded DEF OpToRel
<1> HIDE DEF R
<1>2. PICK x \in S : \A y \in S : ~ (<<y, x>> \in R)
  BY <1>1, WFMin
<1>3. \A y \in S : x <= y
  <2> SUFFICES ASSUME NEW y \in S, y < x PROVE FALSE
    OBVIOUS
  <2>1. <<y, x>> \in R
    BY DEF R
  <2> QED BY <1>2, <2>1
<1> QED BY <1>3 DEF Min

(* CountUp: induction over an index, stated for a set. *)
LEMMA CountUp ==
  ASSUME NEW n \in Nat, NEW S, 0 \in S, \A i \in 1 .. n : i - 1 \in S => i \in S
  PROVE  \A i \in 0 .. n : i \in S
<1> DEFINE Bad == {i \in 0 .. n : i \notin S}
<1> SUFFICES ASSUME Bad # {} PROVE FALSE
  OBVIOUS
<1>1. Bad \subseteq Nat
  OBVIOUS
<1>2. Min(Bad) \in Bad /\ \A y \in Bad : Min(Bad) <= y
  BY <1>1, LeastNat
<1> DEFINE m == Min(Bad)
<1> HIDE DEF m
<1>3. m \in 0 .. n /\ m \notin S /\ m # 0
  BY <1>2 DEF m
<1>4. m - 1 \in 0 .. n /\ m \in 1 .. n /\ ~ (m <= m - 1)
  BY <1>3
<1>5. m - 1 \in S
  BY <1>2, <1>4 DEF m
<1> QED BY <1>3, <1>4, <1>5

(* Recursion: a loop with a bounded index computes something, given by a    *)
(* function of the index.                                                   *)
Loops(n, A, b, G, f) ==
  /\ f \in [0 .. n -> A] /\ f[0] = b
  /\ \A i \in 1 .. n : f[i] = G[<<i, f[i - 1]>>]

LEMMA Recursion ==
  ASSUME NEW n \in Nat, NEW A, NEW b \in A, NEW G \in [(1 .. n) \X A -> A]
  PROVE  \E f : Loops(n, A, b, G, f)
<1> USE DEF Loops
<1> DEFINE Runs(m, f) == Loops(m, A, b, G, f)
           S == {m \in 0 .. n : \E f : Runs(m, f)}
<1>1. 0 \in S
  <2> DEFINE z == [i \in 0 .. 0 |-> b]
  <2>1. z \in [0 .. 0 -> A] /\ z[0] = b
    OBVIOUS
  <2> HIDE DEF z
  <2>2. Runs(0, z)
    BY <2>1
  <2> QED BY <2>2
<1>2. ASSUME NEW m \in 1 .. n, m - 1 \in S PROVE m \in S
  <2>1. PICK f : Runs(m - 1, f)
    BY <1>2
  <2> DEFINE g == [i \in 0 .. m |-> IF i = m THEN G[<<m, f[m - 1]>>] ELSE f[i]]
  <2>2. f[m - 1] \in A
    BY <2>1
  <2>3. G[<<m, f[m - 1]>>] \in A
    BY <2>2
  <2>4. /\ g \in [0 .. m -> A] /\ g[0] = b /\ g[m] = G[<<m, f[m - 1]>>]
        /\ \A i \in 0 .. m - 1 : g[i] = f[i]
    BY <2>1, <2>3
  <2> HIDE DEF g
  <2>5. \A i \in 1 .. m : g[i] = G[<<i, g[i - 1]>>]
    <3> SUFFICES ASSUME NEW i \in 1 .. m PROVE g[i] = G[<<i, g[i - 1]>>]
      OBVIOUS
    <3>1. i - 1 \in 0 .. m - 1
      OBVIOUS
    <3>2. g[i - 1] = f[i - 1]
      BY <2>4, <3>1
    <3>3. CASE i = m
      BY <2>4, <3>2, <3>3
    <3>4. CASE i # m
      <4>1. i \in 1 .. m - 1 /\ i \in 0 .. m - 1
        BY <3>4
      <4> QED BY <2>1, <2>4, <3>2, <4>1
    <3> QED BY <3>3, <3>4
  <2> QED BY <2>4, <2>5
<1>3. n \in S
  <2> HIDE DEF S
  <2>1. \A i \in 1 .. n : i - 1 \in S => i \in S
    BY <1>2
  <2> QED BY <1>1, <2>1, CountUp
<1> QED BY <1>3

(* FoldIter: the function behind FoldLeft, which is defined on all sets of  *)
(* indices.                                                                 *)
Folds(n, A, b, G, f) ==
  /\ f \in [SUBSET (1 .. n) -> A] /\ f[{}] = b
  /\ \A s \in SUBSET (1 .. n) : s # {} => f[s] = G[<<Max(s), f[s \ {Max(s)}]>>]

(* LargestNat: Max of a nonempty set of bounded naturals. *)
LEMMA LargestNat ==
  ASSUME NEW n \in Nat, NEW s \in SUBSET (0 .. n), s # {}
  PROVE  Max(s) \in s /\ \A y \in s : y <= Max(s)
<1> DEFINE D == {n - y : y \in s}
<1>1. D \subseteq Nat /\ D # {}
  <2>1. \A y \in s : y \in 0 .. n
    OBVIOUS
  <2>2. \A y \in s : n - y \in Nat
    BY <2>1
  <2> QED BY <2>2
<1>2. Min(D) \in D /\ \A y \in D : Min(D) <= y
  BY <1>1, LeastNat
<1>3. PICK x \in s : Min(D) = n - x
  BY <1>2
<1>4. \A y \in s : y <= x
  <2> SUFFICES ASSUME NEW y \in s PROVE y <= x
    OBVIOUS
  <2>1. n - y \in D
    OBVIOUS
  <2>2. n - x <= n - y
    BY <1>2, <1>3, <2>1
  <2> HIDE DEF D
  <2> QED BY <2>2
<1>5. \E z \in s : \A y \in s : z >= y
  BY <1>4
<1>6. Max(s) \in s /\ \A y \in s : Max(s) >= y
  BY <1>5, Zenon DEF Max
<1>7. \A y \in s : y \in Int
  OBVIOUS
<1> QED BY <1>6, <1>7

(* LargestOf: the same for a set of indices. *)
LEMMA LargestOf ==
  ASSUME NEW n \in Nat, NEW s \in SUBSET (1 .. n), s # {}
  PROVE  Max(s) \in s /\ \A y \in s : y <= Max(s)
<1>1. s \in SUBSET (0 .. n)
  OBVIOUS
<1> QED BY <1>1, LargestNat

LEMMA FoldIter ==
  ASSUME NEW n \in Nat, NEW A, NEW b \in A, NEW G \in [(1 .. n) \X A -> A]
  PROVE  \E f : Folds(n, A, b, G, f)
<1> DEFINE P == SUBSET (1 .. n)
           F == [P -> A]
           c == [s \in P |-> b]
           Turn(i, h) == [s \in P |-> IF i \in s THEN G[<<i, h[s]>>] ELSE h[s]]
           H == [x \in (1 .. n) \X F |-> Turn(x[1], x[2])]
<1>1. c \in F
  OBVIOUS
<1>2. ASSUME NEW i \in 1 .. n, NEW h \in F PROVE Turn(i, h) \in F
  OBVIOUS
<1>3. H \in [(1 .. n) \X F -> F] /\ \A i \in 1 .. n, h \in F : H[<<i, h>>] = Turn(i, h)
  <2> HIDE DEF Turn, F
  <2> QED BY <1>2
<1>4. PICK g : Loops(n, F, c, H, g)
  <2> HIDE DEF H, F, c
  <2> QED BY <1>1, <1>3, Recursion
<1>5. /\ g \in [0 .. n -> F] /\ g[0] = c
      /\ \A i \in 1 .. n : g[i] = Turn(i, g[i - 1])
  <2>1. g \in [0 .. n -> F] /\ g[0] = c /\ \A i \in 1 .. n : g[i] = H[<<i, g[i - 1]>>]
    BY <1>4 DEF Loops
  <2>2. \A i \in 1 .. n : i - 1 \in 0 .. n
    OBVIOUS
  <2> HIDE DEF H, F, c, Turn
  <2> QED BY <1>3, <2>1, <2>2
<1>6. \A i \in 1 .. n, s \in P : g[i][s] = IF i \in s THEN G[<<i, g[i - 1][s]>>] ELSE g[i - 1][s]
  <2> SUFFICES ASSUME NEW i \in 1 .. n, NEW s \in P
               PROVE  g[i][s] = IF i \in s THEN G[<<i, g[i - 1][s]>>] ELSE g[i - 1][s]
    OBVIOUS
  <2>2. g[i] = Turn(i, g[i - 1])
    BY <1>5
  <2> DEFINE h == g[i - 1]
  <2> HIDE DEF h
  <2>3. Turn(i, h)[s] = IF i \in s THEN G[<<i, h[s]>>] ELSE h[s]
    OBVIOUS
  <2> HIDE DEF Turn
  <2> QED BY <2>2, <2>3 DEF h
<1>7. \A s \in P : g[0][s] = b
  BY <1>5
<1>8. \A i \in 0 .. n : g[i] \in [P -> A]
  BY <1>5, Zenon
<1> HIDE DEF H, F, c, Turn
<1>9. ASSUME NEW s \in P, NEW t \in P, NEW k \in 0 .. n,
             \A x \in 1 .. k : x \in s <=> x \in t
      PROVE  g[k][s] = g[k][t]
  <2> DEFINE S == {i \in 0 .. n : i <= k => g[i][s] = g[i][t]}
  <2>1. 0 \in S
    BY <1>7
  <2>2. ASSUME NEW i \in 1 .. n, i - 1 \in S PROVE i \in S
    <3> SUFFICES ASSUME i <= k PROVE g[i][s] = g[i][t]
      OBVIOUS
    <3>1. g[i - 1][s] = g[i - 1][t] /\ (i \in s <=> i \in t)
      BY <1>9, <2>2
    <3>2. /\ g[i][s] = IF i \in s THEN G[<<i, g[i - 1][s]>>] ELSE g[i - 1][s]
          /\ g[i][t] = IF i \in t THEN G[<<i, g[i - 1][t]>>] ELSE g[i - 1][t]
      BY <1>6
    <3> QED BY <3>1, <3>2, Zenon
  <2>3. \A i \in 0 .. n : i \in S
    <3> HIDE DEF S
    <3> QED BY <2>1, <2>2, CountUp
  <2> QED BY <2>3
<1>10. ASSUME NEW s \in P, NEW k \in 0 .. n, \A x \in s : x <= k
       PROVE  g[n][s] = g[k][s]
  <2> DEFINE S == {i \in 0 .. n : k <= i => g[i][s] = g[k][s]}
  <2>1. 0 \in S
    OBVIOUS
  <2>2. ASSUME NEW i \in 1 .. n, i - 1 \in S PROVE i \in S
    <3> SUFFICES ASSUME k <= i PROVE g[i][s] = g[k][s]
      OBVIOUS
    <3>1. CASE i = k
      BY <3>1
    <3>2. CASE i # k
      <4>1. k <= i - 1 /\ i \notin s
        BY <1>10, <3>2
      <4> QED BY <1>6, <2>2, <4>1
    <3> QED BY <3>1, <3>2
  <2>3. \A i \in 0 .. n : i \in S
    <3> HIDE DEF S
    <3> QED BY <2>1, <2>2, CountUp
  <2> QED BY <2>3
<1>11. g[n] \in [P -> A]
  <2>1. n \in 0 .. n
    OBVIOUS
  <2> QED BY <1>8, <2>1
<1>12. g[n][{}] = b
  <2>1. {} \in P /\ 0 \in 0 .. n
    OBVIOUS
  <2>2. g[n][{}] = g[0][{}]
    BY <1>10, <2>1
  <2> QED BY <1>7, <2>1, <2>2
<1>13. ASSUME NEW s \in P, s # {}
       PROVE  g[n][s] = G[<<Max(s), g[n][s \ {Max(s)}]>>]
  <2> DEFINE m == Max(s)
             t == s \ {m}
  <2>1. m \in s /\ \A y \in s : y <= m
    BY <1>13, LargestOf
  <2> HIDE DEF m
  <2>2. m \in 1 .. n /\ m \in 0 .. n /\ m - 1 \in 0 .. n /\ t \in P
    BY <2>1
  <2>3. g[n][s] = g[m][s]
    BY <1>10, <2>1, <2>2
  <2>4. g[m][s] = G[<<m, g[m - 1][s]>>]
    BY <1>6, <2>1, <2>2
  <2>5. g[m - 1][s] = g[m - 1][t]
    <3>1. \A x \in 1 .. m - 1 : x \in s <=> x \in t
      BY <2>2
    <3> HIDE DEF t
    <3> QED BY <1>9, <2>2, <3>1
  <2>6. g[n][t] = g[m - 1][t]
    <3>1. \A x \in t : x <= m - 1
      BY <2>1, <2>2
    <3> HIDE DEF t
    <3> QED BY <1>10, <2>2, <3>1
  <2>7. g[n][s] = G[<<m, g[n][t]>>]
    BY <2>3, <2>4, <2>5, <2>6
  <2> QED BY <2>7 DEF m
<1>14. Folds(n, A, b, G, g[n])
  BY <1>11, <1>12, <1>13 DEF Folds
<1> QED BY <1>14
-------------------------------------------------------------------------------
(* Sequences made of a finite set.                                          *)

(* SortExists: a finite set in which every nonempty subset has a first      *)
(* element can be arranged in order.                                        *)
Arranged(D, U, R, q) ==
  /\ q \in [D -> U]
  /\ \A i, j \in D : i # j => q[i] # q[j]
  /\ \A i, j \in D : i < j => <<q[i], q[j]>> \in R

LEMMA SortExists ==
  ASSUME NEW T, IsFiniteSet(T), NEW R,
         \A U \in SUBSET T : U # {} => \E x \in U : \A y \in U : y # x => <<x, y>> \in R
  PROVE  \E q \in SetToSeqs(T) : \A i, j \in DOMAIN q : i < j => <<q[i], q[j]>> \in R
<1> DEFINE N == Cardinality(T)
           D(c) == N - c + 1 .. N
           S == {c \in 0 .. N : \A U \in SUBSET T :
                   Cardinality(U) = c => \E q : Arranged(D(c), U, R, q)}
<1>1. N \in Nat
  BY FS_CardinalityType
<1> HIDE DEF N
<1>2. 0 \in S
  <2> SUFFICES ASSUME NEW U \in SUBSET T, Cardinality(U) = 0
               PROVE  \E q : Arranged(D(0), U, R, q)
    BY <1>1
  <2>1. IsFiniteSet(U)
    BY FS_Subset
  <2>2. U = {} /\ D(0) = {}
    BY <1>1, <2>1, FS_EmptySet
  <2> DEFINE q == [i \in D(0) |-> 0]
  <2>3. q \in [D(0) -> U]
    BY <2>2
  <2> HIDE DEF q
  <2>4. Arranged(D(0), U, R, q)
    BY <2>2, <2>3 DEF Arranged
  <2> QED BY <2>4
<1>3. ASSUME NEW c \in 1 .. N, c - 1 \in S PROVE c \in S
  <2> SUFFICES ASSUME NEW U \in SUBSET T, Cardinality(U) = c
               PROVE  \E q : Arranged(D(c), U, R, q)
    BY <1>1
  <2>1. IsFiniteSet(U)
    BY FS_Subset
  <2>2. U # {}
    <3>1. c # 0
      BY <1>1
    <3> QED BY <2>1, <3>1, FS_EmptySet
  <2>3. PICK x \in U : \A y \in U : y # x => <<x, y>> \in R
    BY <2>2
  <2> DEFINE V == U \ {x}
             k == N - c + 1
  <2>4. V \in SUBSET T /\ Cardinality(V) = c - 1
    BY <2>1, FS_RemoveElement
  <2>5. PICK p : Arranged(D(c - 1), V, R, p)
    BY <1>3, <2>4
  <2>6. k \in Int /\ D(c) = D(c - 1) \cup {k} /\ k \notin D(c - 1) /\ \A i \in D(c - 1) : k < i
    BY <1>1
  <2> DEFINE E == D(c - 1)
             q == [i \in E \cup {k} |-> IF i = k THEN x ELSE p[i]]
  <2>7. /\ p \in [E -> V]
        /\ \A i, j \in E : i # j => p[i] # p[j]
        /\ \A i, j \in E : i < j => <<p[i], p[j]>> \in R
    BY <2>5 DEF Arranged
  <2>8. \A i \in E : i \in Int
    BY <1>1
  <2> HIDE DEF E, k, D
  <2>9. D(c) = E \cup {k} /\ k \notin E /\ \A i \in E : k < i
    BY <2>6 DEF E
  <2>10. q \in [E \cup {k} -> U] /\ q[k] = x /\ \A i \in E : q[i] = p[i] /\ p[i] \in U /\ p[i] # x
    BY <2>7, <2>9
  <2> HIDE DEF q
  <2>11. \A i, j \in E \cup {k} : i # j => q[i] # q[j]
    BY <2>7, <2>10
  <2>12. \A i, j \in E \cup {k} : i < j => <<q[i], q[j]>> \in R
    <3> SUFFICES ASSUME NEW i \in E \cup {k}, NEW j \in E \cup {k}, i < j
                 PROVE  <<q[i], q[j]>> \in R
      OBVIOUS
    <3>1. j \in E
      BY <2>6, <2>8, <2>9
    <3>2. CASE i = k
      BY <2>3, <2>10, <3>1, <3>2
    <3>3. CASE i \in E
      BY <2>7, <2>10, <3>1, <3>3
    <3> QED BY <3>2, <3>3
  <2>13. Arranged(D(c), U, R, q)
    BY <2>9, <2>10, <2>11, <2>12 DEF Arranged
  <2> QED BY <2>13
<1>4. N \in S
  <2> HIDE DEF S
  <2> QED BY <1>1, <1>2, <1>3, CountUp
<1>5. D(N) = 1 .. N
  BY <1>1
<1>6. PICK q : Arranged(1 .. N, T, R, q)
  BY <1>4, <1>5 DEF N
<1>7. q \in SetToSeqs(T) /\ DOMAIN q = 1 .. N
  BY <1>6 DEF Arranged, SetToSeqs, N
<1> QED BY <1>6, <1>7 DEF Arranged

(* SeqsHold: a sequence made of a finite set holds exactly its elements. *)
LEMMA SeqsHold ==
  ASSUME NEW T, IsFiniteSet(T), NEW q \in SetToSeqs(T)
  PROVE  q \in Seq(T) /\ Range(q) = T
<1> DEFINE N == Cardinality(T)
           D == 1 .. N
<1>1. N \in Nat
  BY FS_CardinalityType
<1>2. q \in [D -> T] /\ \A i, j \in D : i # j => q[i] # q[j]
  BY DEF SetToSeqs
<1> HIDE DEF N
<1>3. q \in Injection(D, T)
  BY <1>2 DEF Injection, IsInjective
<1>4. IsFiniteSet(D) /\ Cardinality(D) = N
  BY <1>1, FS_Interval
<1>5. q \in Surjection(D, T)
  BY <1>3, <1>4, FS_Injection DEF N
<1>6. \A t \in T : \E i \in D : q[i] = t
  BY <1>5 DEF Surjection
<1>7. Range(q) = T
  BY <1>2, <1>6 DEF Range
<1> QED BY <1>1, <1>2, <1>7
-------------------------------------------------------------------------------
(* The block tree, which no step changes.                                   *)

TreeOK ==
  /\ tree.canonical \subseteq Slots
  /\ tree.slot \in [Orphans -> Slots]
  /\ tree.parent \in [Orphans -> tree.canonical \cup Orphans]
  /\ tree.archive \subseteq Orphans
  /\ \A o \in Orphans : SlotOf(tree.parent[o]) < tree.slot[o]
  /\ \A o \in Orphans : tree.carrier[o] # NoBlock => SlotOf(tree.carrier[o]) > tree.slot[o]
  /\ \A w \in Workers : WarmupSlot[w] \in tree.canonical

(* OrphanSlots: the slot of an orphan. *)
LEMMA OrphanSlots ==
  ASSUME TreeOK, NEW o \in Orphans
  PROVE  /\ SlotOf(o) = tree.slot[o] /\ SlotOf(o) \in Slots /\ SlotOf(o) \in Nat
         /\ o \in Nat /\ o \notin Slots
BY SlotPlanAssumption DEF TreeOK, SlotOf, Slots

(* Finite: sets of orphans are finite. *)
LEMMA Finite ==
  ASSUME NEW S, S \subseteq Orphans
  PROVE  IsFiniteSet(S) /\ Cardinality(S) \in Nat
BY SlotPlanAssumption, FS_Subset, FS_CardinalityType

(* SortedHolds: Sorted lists every orphan of a set. *)
LEMMA SortedHolds ==
  ASSUME TreeOK, NEW S, S \subseteq Orphans
  PROVE  Sorted(S) \in Seq(S) /\ Range(Sorted(S)) = S /\ Sorted(S) \in SetToSeqs(S)
<1> DEFINE R == {p \in Orphans \X Orphans :
                   \/ SlotOf(p[1]) < SlotOf(p[2])
                   \/ SlotOf(p[1]) = SlotOf(p[2]) /\ p[1] < p[2]}
<1>1. ASSUME NEW U \in SUBSET S, U # {}
      PROVE  \E x \in U : \A y \in U : y # x => <<x, y>> \in R
  <2> DEFINE At == {SlotOf(o) : o \in U}
             m == Min(At)
             V == {o \in U : SlotOf(o) = m}
             x == Min(V)
  <2>1. At \subseteq Nat /\ At # {}
    BY <1>1, OrphanSlots
  <2>2. m \in At /\ \A y \in At : m <= y
    BY <2>1, LeastNat
  <2> HIDE DEF m
  <2>3. V \subseteq Nat /\ V # {}
    BY <2>2, OrphanSlots
  <2>4. x \in V /\ \A y \in V : x <= y
    BY <2>3, LeastNat
  <2> HIDE DEF x
  <2>5. ASSUME NEW y \in U, y # x PROVE <<x, y>> \in R
    <3>1. x \in Orphans /\ y \in Orphans /\ x \in U /\ SlotOf(x) = m
      BY <2>4
    <3>2. x \in Nat /\ y \in Nat /\ SlotOf(x) \in Nat /\ SlotOf(y) \in Nat
      BY <3>1, OrphanSlots
    <3>3. m <= SlotOf(y)
      BY <2>2
    <3>4. SlotOf(y) = m => x <= y
      BY <2>4
    <3>5. SlotOf(x) < SlotOf(y) \/ (SlotOf(x) = SlotOf(y) /\ x < y)
      BY <2>5, <3>1, <3>2, <3>3, <3>4
    <3> QED BY <3>1, <3>5
  <2> QED BY <2>4, <2>5
<1>2. IsFiniteSet(S)
  BY Finite
<1>3. PICK q \in SetToSeqs(S) : \A i, j \in DOMAIN q : i < j => <<q[i], q[j]>> \in R
  <2> HIDE DEF R
  <2> QED BY <1>1, <1>2, SortExists
<1>4. \A i, j \in DOMAIN q : i < j => \/ SlotOf(q[i]) < SlotOf(q[j])
                                      \/ SlotOf(q[i]) = SlotOf(q[j]) /\ q[i] < q[j]
  BY <1>3
<1>5. Sorted(S) \in SetToSeqs(S)
  BY <1>3, <1>4, Zenon DEF Sorted
<1> QED BY <1>2, <1>5, SeqsHold

(* RootKeysHold: so does SortedRootKeys. *)
LEMMA RootKeysHold ==
  ASSUME TreeOK, NEW S, S \subseteq Orphans
  PROVE  SortedRootKeys(S) \in Seq(S) /\ Range(SortedRootKeys(S)) = S
         /\ Len(SortedRootKeys(S)) = Cardinality(S)
<1> DEFINE R == {p \in Orphans \X Orphans : p[1] < p[2]}
<1>1. ASSUME NEW U \in SUBSET S, U # {}
      PROVE  \E x \in U : \A y \in U : y # x => <<x, y>> \in R
  <2> DEFINE x == Min(U)
  <2>1. U \subseteq Nat
    BY OrphanSlots
  <2>2. x \in U /\ \A y \in U : x <= y
    BY <1>1, <2>1, LeastNat
  <2> HIDE DEF x
  <2>3. ASSUME NEW y \in U, y # x PROVE <<x, y>> \in R
    <3>1. x \in Orphans /\ y \in Orphans /\ x \in Nat /\ y \in Nat /\ x <= y
      BY <2>1, <2>2
    <3>2. x < y
      BY <2>3, <3>1
    <3> QED BY <3>1, <3>2
  <2> QED BY <2>2, <2>3
<1>2. IsFiniteSet(S) /\ Cardinality(S) \in Nat
  BY Finite
<1>3. PICK q \in SetToSeqs(S) : \A i, j \in DOMAIN q : i < j => <<q[i], q[j]>> \in R
  <2> HIDE DEF R
  <2> QED BY <1>1, <1>2, SortExists
<1>4. \A i, j \in DOMAIN q : i < j => q[i] < q[j]
  BY <1>3
<1>5. SortedRootKeys(S) \in SetToSeqs(S)
  BY <1>3, <1>4, Zenon DEF SortedRootKeys
<1>6. SortedRootKeys(S) \in [1 .. Cardinality(S) -> S]
  BY <1>5 DEF SetToSeqs
<1>7. SortedRootKeys(S) \in Seq(S) /\ Range(SortedRootKeys(S)) = S
  BY <1>2, <1>5, SeqsHold
<1> QED BY <1>2, <1>6, <1>7

(* CanonicalHolds: canonicalImport is the canonical block, if there is one. *)
LEMMA CanonicalHolds ==
  ASSUME NEW s
  PROVE  /\ canonicalImport(s) \in Seq(CanonicalAt({s}))
         /\ Range(canonicalImport(s)) = CanonicalAt({s}) /\ IsInjective(canonicalImport(s))
<1> DEFINE S == CanonicalAt({s})
           N == Cardinality(S)
<1>1. IsFiniteSet(S) /\ N \in Nat /\ ExistsBijection(1 .. N, S)
  <2>1. S \in SUBSET {s}
    BY DEF CanonicalAt
  <2>2. IsFiniteSet({s})
    BY FS_Singleton
  <2>3. IsFiniteSet(S)
    <3> HIDE DEF S
    <3> QED BY <2>1, <2>2, FS_Subset
  <2> QED BY <2>3, FS_CardinalityType
<1> HIDE DEF S
<1>2. \E f \in [1 .. N -> S] : IsInjective(f)
  BY <1>1 DEF ExistsBijection, Bijection, Injection
<1>3. SetToSeq(S) \in [1 .. N -> S] /\ IsInjective(SetToSeq(S))
  BY <1>2, Zenon DEF SetToSeq
<1> DEFINE q == SetToSeq(S)
<1> HIDE DEF q
<1>4. q \in SetToSeqs(S)
  BY <1>3 DEF SetToSeqs, IsInjective, q
<1>5. q \in Seq(S) /\ Range(q) = S
  BY <1>1, <1>4, SeqsHold
<1>6. IsInjective(q)
  BY <1>3 DEF q
<1> QED BY <1>5, <1>6 DEF canonicalImport, q, S

(* ListHolds: page after page, the listing names every archived orphan of   *)
(* the slots, whatever the page size.                                       *)
LEMMA ListHolds ==
  ASSUME TreeOK, NEW lo, NEW hi
  PROVE  ListIndexBySlotRange(lo, hi) = {o \in tree.archive : SlotOf(o) \in lo .. hi}
<1> DEFINE X == {o \in tree.archive : SlotOf(o) \in lo .. hi}
           all == Sorted(X)
           L == Len(all)
           Page(offset) == SubSeq(all, offset + 1, Min({offset + IndexPageSize, L}))
           A == {SubSeq(all, 1, k) : k \in 0 .. L}
           b == << >>
           Turn(i, e) == e \o Page(Len(e))
           G == [x \in (1 .. L) \X A |-> Turn(x[1], x[2])]
           entries == CHOOSE f : f = [n \in 0 .. L |-> IF n = 0 THEN b
                                                       ELSE f[n - 1] \o Page(Len(f[n - 1]))]
<1>0. ListIndexBySlotRange(lo, hi) = Range(entries[L])
  BY DEF ListIndexBySlotRange
<1>1. all \in Seq(Orphans) /\ Range(all) = X /\ L \in Nat
  <2>1. X \subseteq Orphans
    BY DEF TreeOK
  <2> HIDE DEF X
  <2>2. all \in Seq(X) /\ Range(all) = X
    BY <2>1, SortedHolds
  <2> HIDE DEF all
  <2> QED BY <2>1, <2>2
<1> HIDE DEF all, X
<1>2. \A k \in 0 .. L : Len(SubSeq(all, 1, k)) = k
  <2> SUFFICES ASSUME NEW k \in 0 .. L PROVE Len(SubSeq(all, 1, k)) = k
    OBVIOUS
  <2>1. \A i \in 1 .. k : all[i] \in Orphans
    BY <1>1
  <2>2. Len(SubSeq(all, 1, k)) = IF 1 <= k THEN k - 1 + 1 ELSE 0
    BY <2>1, SubSeqProperties
  <2> QED BY <1>1, <2>2
<1> HIDE DEF L
<1>3. b \in A
  <2>1. SubSeq(all, 1, 0) = b
    BY SubSeqEmpty
  <2>2. 0 \in 0 .. L
    BY <1>1
  <2> HIDE DEF b
  <2> QED BY <2>1, <2>2
<1>4. ASSUME NEW k \in 0 .. L
      PROVE  \E m \in 0 .. L : /\ SubSeq(all, 1, k) \o Page(k) = SubSeq(all, 1, m)
                               /\ k <= m /\ (k < L => k < m)
  <2> DEFINE m == Min({k + IndexPageSize, L})
  <2>1. k + IndexPageSize \in Nat /\ k < k + IndexPageSize /\ L \in Nat /\ k <= L /\ k \in Nat
    BY <1>1, SlotPlanAssumption
  <2>2. m \in {k + IndexPageSize, L} /\ \A y \in {k + IndexPageSize, L} : m <= y
    <3>1. {k + IndexPageSize, L} \subseteq Nat /\ {k + IndexPageSize, L} # {}
      BY <2>1
    <3> QED BY <3>1, LeastNat
  <2> HIDE DEF m
  <2>3. m \in k .. L /\ m \in 0 .. L /\ k <= m /\ (k < L => k < m)
    BY <2>1, <2>2
  <2>4. SubSeq(all, 1, k) \o SubSeq(all, k + 1, m) = SubSeq(all, 1, m)
    <3>1. 1 \in 1 .. L + 1 /\ k \in 1 - 1 .. L
      BY <2>1
    <3> QED BY <1>1, <2>3, <3>1, ConcatAdjacentSubSeq DEF L
  <2>5. Page(k) = SubSeq(all, k + 1, m)
    BY DEF m
  <2> QED BY <2>3, <2>4, <2>5
<1>5. ASSUME NEW e \in A
      PROVE  /\ e \o Page(Len(e)) \in A
             /\ Len(e) \in 0 .. L /\ Len(e \o Page(Len(e))) \in 0 .. L
             /\ Len(e) <= Len(e \o Page(Len(e)))
             /\ Len(e) < L => Len(e) < Len(e \o Page(Len(e)))
  <2> HIDE DEF Page
  <2>1. PICK k \in 0 .. L : e = SubSeq(all, 1, k)
    OBVIOUS
  <2>2. Len(e) = k
    BY <1>2, <2>1
  <2>3. PICK m \in 0 .. L : e \o Page(Len(e)) = SubSeq(all, 1, m) /\ k <= m /\ (k < L => k < m)
    BY <1>4, <2>1, <2>2
  <2>4. Len(e \o Page(Len(e))) = m
    BY <1>2, <2>3
  <2>5. e \o Page(Len(e)) \in A
    BY <2>3
  <2> QED BY <2>2, <2>3, <2>4, <2>5
<1> HIDE DEF b, A, Page
<1>6. entries[0] = b /\ entries \in [0 .. L -> A]
      /\ \A i \in 1 .. L : entries[i] = entries[i - 1] \o Page(Len(entries[i - 1]))
  <2>1. G \in [(1 .. L) \X A -> A] /\ \A i \in 1 .. L, e \in A : G[<<i, e>>] = Turn(i, e)
    BY <1>5
  <2> HIDE DEF G, Turn
  <2>2. PICK f : Loops(L, A, b, G, f)
    BY <1>1, <1>3, <2>1, Recursion
  <2>3. f \in [0 .. L -> A] /\ f[0] = b /\ \A i \in 1 .. L : f[i] = G[<<i, f[i - 1]>>]
    BY <2>2 DEF Loops
  <2>4. \A i \in 0 .. L : i # 0 => i \in 1 .. L /\ i - 1 \in 0 .. L
    BY <1>1
  <2>5. \A i \in 0 .. L : f[i] = IF i = 0 THEN b ELSE f[i - 1] \o Page(Len(f[i - 1]))
    <3> SUFFICES ASSUME NEW i \in 0 .. L, i # 0 PROVE f[i] = f[i - 1] \o Page(Len(f[i - 1]))
      BY <2>3
    <3>1. f[i] = Turn(i, f[i - 1])
      BY <2>1, <2>3, <2>4
    <3> QED BY <3>1 DEF Turn
  <2>6. f = [i \in 0 .. L |-> IF i = 0 THEN b ELSE f[i - 1] \o Page(Len(f[i - 1]))]
    BY <2>3, <2>5
  <2>7. entries = [i \in 0 .. L |-> IF i = 0 THEN b ELSE entries[i - 1] \o Page(Len(entries[i - 1]))]
    BY <2>6, Zenon
  <2> HIDE DEF entries
  <2>8. entries[0] = b /\ \A i \in 1 .. L : entries[i] = entries[i - 1] \o Page(Len(entries[i - 1]))
    <3>1. 0 \in 0 .. L /\ \A i \in 1 .. L : i \in 0 .. L /\ i # 0
      BY <1>1
    <3>2. \A i \in 0 .. L : entries[i] = IF i = 0 THEN b ELSE entries[i - 1] \o Page(Len(entries[i - 1]))
      BY <2>7, Zenon
    <3> QED BY <3>1, <3>2
  <2>9. \A i \in 0 .. L : entries[i] \in A
    <3> DEFINE S == {i \in 0 .. L : entries[i] \in A}
    <3>1. 0 \in S
      BY <1>1, <1>3, <2>8
    <3>2. ASSUME NEW i \in 1 .. L, i - 1 \in S PROVE i \in S
      <4>1. entries[i - 1] \in A /\ i \in 0 .. L
        BY <1>1, <3>2
      <4>2. entries[i - 1] \o Page(Len(entries[i - 1])) \in A
        BY <1>5, <4>1
      <4> QED BY <2>8, <4>1, <4>2
    <3>3. \A i \in 0 .. L : i \in S
      <4> HIDE DEF S
      <4> QED BY <1>1, <3>1, <3>2, CountUp
    <3> QED BY <3>3
  <2>10. entries = [i \in 0 .. L |-> entries[i]]
    BY <2>7
  <2> QED BY <2>8, <2>9, <2>10
<1> HIDE DEF entries
<1>7. \A i \in 0 .. L : i <= Len(entries[i]) /\ Len(entries[i]) \in 0 .. L
  <2> DEFINE S == {i \in 0 .. L : i <= Len(entries[i]) /\ Len(entries[i]) \in 0 .. L}
  <2>1. 0 \in S
    <3>1. Len(entries[0]) = 0
      BY <1>6 DEF b
    <3> QED BY <1>1, <3>1
  <2>2. ASSUME NEW i \in 1 .. L, i - 1 \in S PROVE i \in S
    <3> DEFINE e == entries[i - 1]
               d == entries[i]
    <3>1. e \in A /\ d = e \o Page(Len(e))
      BY <1>1, <1>6
    <3> HIDE DEF e, d
    <3>2. Len(d) \in 0 .. L /\ Len(e) \in 0 .. L /\ Len(e) <= Len(d) /\ (Len(e) < L => Len(e) < Len(d))
      BY <1>5, <3>1
    <3>3. i - 1 <= Len(e)
      BY <2>2 DEF e
    <3> DEFINE x == Len(e)
               y == Len(d)
    <3>4. i <= y
      <4> HIDE DEF x, y
      <4>1. x \in 0 .. L /\ y \in 0 .. L /\ x <= y /\ (x < L => x < y) /\ i - 1 <= x
        BY <3>2, <3>3 DEF x, y
      <4> QED BY <1>1, <4>1
    <3> QED BY <3>2, <3>4 DEF d
  <2>3. \A i \in 0 .. L : i \in S
    <3> HIDE DEF S
    <3> QED BY <1>1, <2>1, <2>2, CountUp
  <2> QED BY <2>3
<1>8. entries[L] = all
  <2>1. L \in 0 .. L
    BY <1>1
  <2>2. entries[L] \in A /\ Len(entries[L]) = L
    <3>1. L <= Len(entries[L]) /\ Len(entries[L]) \in 0 .. L
      BY <1>7, <2>1
    <3> QED BY <1>1, <1>6, <2>1, <3>1
  <2>3. PICK k \in 0 .. L : entries[L] = SubSeq(all, 1, k)
    BY <2>2 DEF A
  <2>4. k = L
    BY <1>2, <2>2, <2>3
  <2>5. SubSeq(all, 1, L) = all
    BY <1>1 DEF L
  <2> QED BY <2>3, <2>4, <2>5
<1> QED BY <1>0, <1>1, <1>8 DEF X

(* FlattenLoop: FlattenSeq puts one sequence after the other. *)
FlattensBy(X, ss, h) ==
  /\ h \in [0 .. Len(ss) -> Seq(X)] /\ h[0] = << >>
  /\ \A i \in 1 .. Len(ss) : h[i] = h[i - 1] \o ss[i]
  /\ FlattenSeq(ss) = h[Len(ss)]

LEMMA FlattenLoop ==
  ASSUME NEW X, NEW ss \in Seq(Seq(X))
  PROVE  \E h : FlattensBy(X, ss, h)
<1> DEFINE n == Len(ss)
           A == Seq(X)
           b == << >>
           Turn(i, e) == IF i = 1 THEN ss[i] ELSE e \o ss[i]
           G == [x \in (1 .. n) \X A |-> Turn(x[1], x[2])]
           flatten == CHOOSE f : f = [i \in 1 .. n |-> IF i = 1 THEN ss[i] ELSE f[i - 1] \o ss[i]]
<1>1. n \in Nat /\ \A i \in 1 .. n : ss[i] \in A
  OBVIOUS
<1>2. CASE n = 0
  <2> DEFINE h == [i \in 0 .. 0 |-> << >>]
  <2>1. ss = << >>
    BY <1>2
  <2>2. FlattenSeq(ss) = << >>
    BY <1>2, <2>1 DEF FlattenSeq
  <2>3. h \in [0 .. n -> Seq(X)] /\ h[0] = << >> /\ 1 .. n = {} /\ h[n] = << >>
    BY <1>2
  <2> QED BY <2>2, <2>3 DEF FlattensBy
<1>3. CASE n # 0
  <2>0. FlattenSeq(ss) = flatten[n]
    BY <1>3 DEF FlattenSeq
  <2>1. b \in A
    OBVIOUS
  <2>2. ASSUME NEW i \in 1 .. n, NEW e \in A PROVE Turn(i, e) \in A
    BY <1>1
  <2> HIDE DEF b, n, A
  <2>3. G \in [(1 .. n) \X A -> A] /\ \A i \in 1 .. n, e \in A : G[<<i, e>>] = Turn(i, e)
    <3> HIDE DEF Turn
    <3> QED BY <2>2
  <2> HIDE DEF G
  <2>4. PICK g : Loops(n, A, b, G, g)
    BY <1>1, <2>1, <2>3, Recursion
  <2>5. g \in [0 .. n -> A] /\ \A i \in 1 .. n : g[i] = Turn(i, g[i - 1])
    <3>1. g \in [0 .. n -> A] /\ \A i \in 1 .. n : g[i] = G[<<i, g[i - 1]>>]
      BY <2>4 DEF Loops
    <3>2. \A i \in 1 .. n : i - 1 \in 0 .. n
      BY <1>1
    <3> HIDE DEF Turn
    <3> QED BY <2>3, <3>1, <3>2
  <2> DEFINE f == [i \in 1 .. n |-> g[i]]
  <2>6. \A i \in 1 .. n : f[i] = IF i = 1 THEN ss[i] ELSE f[i - 1] \o ss[i]
    <3> SUFFICES ASSUME NEW i \in 1 .. n PROVE f[i] = IF i = 1 THEN ss[i] ELSE f[i - 1] \o ss[i]
      OBVIOUS
    <3>1. i # 1 => i - 1 \in 1 .. n
      BY <1>1
    <3>2. \A j \in 1 .. n : f[j] = g[j]
      OBVIOUS
    <3> HIDE DEF f
    <3> QED BY <2>5, <3>1, <3>2
  <2>7. f = [i \in 1 .. n |-> IF i = 1 THEN ss[i] ELSE f[i - 1] \o ss[i]]
    <3>1. f = [i \in 1 .. n |-> f[i]]
      OBVIOUS
    <3> HIDE DEF f
    <3> QED BY <2>6, <3>1
  <2> HIDE DEF f
  <2>8. flatten = [i \in 1 .. n |-> IF i = 1 THEN ss[i] ELSE flatten[i - 1] \o ss[i]]
    BY <2>7, Zenon
  <2> HIDE DEF flatten
  <2>9. \A i \in 1 .. n : flatten[i] = IF i = 1 THEN ss[i] ELSE flatten[i - 1] \o ss[i]
    BY <2>8, Zenon
  <2> DEFINE S == {i \in 0 .. n : i # 0 => flatten[i] \in A}
  <2>10. 0 \in S
    BY <1>1
  <2>11. ASSUME NEW i \in 1 .. n, i - 1 \in S PROVE i \in S
    <3>1. i \in 0 .. n
      BY <1>1
    <3>2. CASE i = 1
      BY <1>1, <2>9, <3>1, <3>2
    <3>3. CASE i # 1
      <4>1. i - 1 # 0
        BY <1>1, <3>3
      <4>2. flatten[i - 1] \in Seq(X)
        BY <2>11, <4>1 DEF A
      <4>3. ss[i] \in Seq(X)
        BY <1>1 DEF A
      <4>4. flatten[i] = flatten[i - 1] \o ss[i]
        BY <2>9, <3>3
      <4>5. flatten[i] \in A
        BY <4>2, <4>3, <4>4 DEF A
      <4> HIDE DEF A
      <4> QED BY <3>1, <4>5
    <3> QED BY <3>2, <3>3
  <2>12. \A i \in 0 .. n : i \in S
    <3> HIDE DEF S
    <3> QED BY <1>1, <2>10, <2>11, CountUp
  <2> DEFINE h == [i \in 0 .. n |-> IF i = 0 THEN << >> ELSE flatten[i]]
  <2>13. \A i \in 1 .. n : i \in 0 .. n /\ i # 0
    BY <1>1
  <2>14. \A i \in 1 .. n : flatten[i] \in Seq(X) /\ h[i] = flatten[i]
    BY <2>12, <2>13 DEF A
  <2>15. h \in [0 .. n -> Seq(X)] /\ h[0] = << >> /\ 0 \in 0 .. n
    <3>1. 0 \in 0 .. n /\ \A i \in 0 .. n : i = 0 \/ i \in 1 .. n
      BY <1>1
    <3>2. << >> \in Seq(X)
      OBVIOUS
    <3>3. \A i \in 1 .. n : flatten[i] \in Seq(X)
      BY <2>14
    <3>4. \A i \in 0 .. n : (IF i = 0 THEN << >> ELSE flatten[i]) \in Seq(X)
      BY <3>1, <3>2, <3>3, Zenon
    <3> QED BY <3>1, <3>4
  <2> HIDE DEF h
  <2>16. ASSUME NEW i \in 1 .. n PROVE h[i] = h[i - 1] \o ss[i]
    <3>1. ss[i] \in Seq(X) /\ flatten[i] = IF i = 1 THEN ss[i] ELSE flatten[i - 1] \o ss[i]
      BY <1>1, <2>9 DEF A
    <3>2. CASE i = 1
      <4>1. h[i - 1] = << >>
        BY <2>15, <3>2
      <4> QED BY <2>14, <3>1, <3>2, <4>1
    <3>3. CASE i # 1
      <4>1. i - 1 \in 1 .. n
        BY <1>1, <3>3
      <4> QED BY <2>14, <3>1, <3>3, <4>1
    <3> QED BY <3>2, <3>3
  <2>17. FlattenSeq(ss) = h[n]
    <3>1. n \in 1 .. n
      BY <1>1, <1>3
    <3> QED BY <2>0, <2>14, <3>1
  <2>18. FlattensBy(X, ss, h)
    BY <2>15, <2>16, <2>17 DEF FlattensBy, n
  <2> QED BY <2>18
<1> QED BY <1>2, <1>3

(* FlattenHolds: and so holds the elements of all. *)
LEMMA FlattenHolds ==
  ASSUME NEW X, NEW ss \in Seq(Seq(X))
  PROVE  /\ FlattenSeq(ss) \in Seq(X)
         /\ Range(FlattenSeq(ss)) = UNION {Range(ss[i]) : i \in 1 .. Len(ss)}
<1> DEFINE n == Len(ss)
           A == Seq(X)
<1>1. n \in Nat /\ \A i \in 1 .. n : ss[i] \in A
  OBVIOUS
<1>2. PICK h : FlattensBy(X, ss, h)
  BY FlattenLoop
<1>3. /\ h \in [0 .. n -> A] /\ h[0] = << >> /\ FlattenSeq(ss) = h[n]
      /\ \A i \in 1 .. n : h[i] = h[i - 1] \o ss[i]
  BY <1>2 DEF FlattensBy
<1> HIDE DEF n, A
<1> DEFINE S == {i \in 0 .. n : Range(h[i]) = UNION {Range(ss[j]) : j \in 1 .. i}}
<1>4. 0 \in S
  <2>1. DOMAIN << >> = {} /\ 1 .. 0 = {}
    OBVIOUS
  <2>2. Range(<< >>) = {}
    BY <2>1 DEF Range
  <2> QED BY <1>1, <1>3, <2>1, <2>2
<1>5. ASSUME NEW i \in 1 .. n, i - 1 \in S PROVE i \in S
  <2> DEFINE e == h[i - 1]
             d == ss[i]
  <2>1. i - 1 \in 0 .. n /\ i \in 0 .. n /\ 1 .. i = (1 .. i - 1) \cup {i}
    BY <1>1
  <2>2. e \in A /\ d \in A /\ Range(e) = UNION {Range(ss[j]) : j \in 1 .. i - 1} /\ h[i] = e \o d
    BY <1>1, <1>3, <1>5, <2>1
  <2> HIDE DEF e, d
  <2>3. Range(e \o d) = Range(e) \cup Range(d)
    BY <2>2, RangeConcatenation DEF A
  <2>4. UNION {Range(ss[j]) : j \in 1 .. i} = (UNION {Range(ss[j]) : j \in 1 .. i - 1}) \cup Range(d)
    BY <2>1 DEF d
  <2> QED BY <2>1, <2>2, <2>3, <2>4
<1>6. \A i \in 0 .. n : i \in S
  <2> HIDE DEF S
  <2> QED BY <1>1, <1>4, <1>5, CountUp
<1>7. n \in 0 .. n
  BY <1>1
<1> QED BY <1>3, <1>6, <1>7 DEF n, A
-------------------------------------------------------------------------------
(* The line of an orphan: its ancestors up to the canonical block the       *)
(* branch leaves from.                                                      *)

Climbs(k, U) == \A i \in 0 .. k - 1 : U[i] \in Orphans /\ U[i + 1] = tree.parent[U[i]]

Line(o, k, U) ==
  /\ k \in Nat \ {0} /\ U \in [0 .. k -> tree.canonical \cup Orphans] /\ U[0] = o
  /\ Climbs(k, U)
  /\ U[k] \in tree.canonical

(* BlockSlots: the slot of a block. *)
LEMMA BlockSlots ==
  ASSUME TreeOK, NEW b \in tree.canonical \cup Orphans
  PROVE  /\ SlotOf(b) \in Nat /\ SlotOf(b) <= MaxSlot
         /\ b \in tree.canonical => b \notin Orphans /\ SlotOf(b) = b
<1>1. CASE b \in Orphans
  BY <1>1, OrphanSlots, SlotPlanAssumption DEF TreeOK, Slots
<1>2. CASE b \in tree.canonical
  BY <1>2, SlotPlanAssumption DEF TreeOK, Slots, SlotOf
<1> QED BY <1>1, <1>2

(* ClimbSlots: slots fall along a line. *)
LEMMA ClimbSlots ==
  ASSUME TreeOK, NEW k \in Nat, NEW U \in [0 .. k -> tree.canonical \cup Orphans], Climbs(k, U)
  PROVE  \A i, j \in 0 .. k : i < j => SlotOf(U[j]) < SlotOf(U[i])
<1> SUFFICES ASSUME NEW i \in 0 .. k PROVE \A j \in 0 .. k : i < j => SlotOf(U[j]) < SlotOf(U[i])
  OBVIOUS
<1> DEFINE At == [j \in 0 .. k |-> SlotOf(U[j])]
<1>1. \A j \in 0 .. k : At[j] = SlotOf(U[j]) /\ At[j] \in Nat
  BY BlockSlots
<1> HIDE DEF At
<1>2. ASSUME NEW j \in 1 .. k PROVE At[j] < At[j - 1]
  <2>1. j - 1 \in 0 .. k - 1 /\ j - 1 \in 0 .. k /\ j \in 0 .. k /\ (j - 1) + 1 = j
    OBVIOUS
  <2>2. U[j - 1] \in Orphans /\ U[j] = tree.parent[U[j - 1]]
    BY <2>1 DEF Climbs
  <2>3. SlotOf(U[j]) < SlotOf(U[j - 1])
    BY <2>2, OrphanSlots DEF TreeOK
  <2> QED BY <1>1, <2>1, <2>3
<1> DEFINE S == {j \in 0 .. k : i < j => At[j] < At[i]}
<1>3. 0 \in S
  OBVIOUS
<1>4. ASSUME NEW j \in 1 .. k, j - 1 \in S PROVE j \in S
  <2>1. At[j] < At[j - 1] /\ At[j] \in Nat /\ At[j - 1] \in Nat /\ At[i] \in Nat
    BY <1>1, <1>2
  <2>2. CASE i = j - 1
    BY <2>1, <2>2
  <2>3. CASE i < j - 1
    BY <1>4, <2>1, <2>3
  <2>4. CASE i >= j
    BY <2>4
  <2> QED BY <2>2, <2>3, <2>4
<1>5. \A j \in 0 .. k : j \in S
  <2> HIDE DEF S
  <2> QED BY <1>3, <1>4, CountUp
<1> QED BY <1>1, <1>5

(* ClimbApart: no block is met twice. *)
LEMMA ClimbApart ==
  ASSUME TreeOK, NEW k \in Nat, NEW U \in [0 .. k -> tree.canonical \cup Orphans], Climbs(k, U)
  PROVE  \A i, j \in 0 .. k : U[i] = U[j] => i = j
<1> SUFFICES ASSUME NEW i \in 0 .. k, NEW j \in 0 .. k, U[i] = U[j], i # j PROVE FALSE
  OBVIOUS
<1>1. SlotOf(U[i]) \in Nat
  BY BlockSlots
<1>2. i < j \/ j < i
  OBVIOUS
<1>3. SlotOf(U[i]) < SlotOf(U[i])
  BY <1>2, ClimbSlots
<1> QED BY <1>1, <1>3

(* Rises: the ancestors of a block, computed by index; they stay where they *)
(* meet the canonical chain.                                                *)
Above(b) == IF b \in Orphans THEN tree.parent[b] ELSE b

Rises(o, n, f) ==
  /\ f \in [0 .. n -> tree.canonical \cup Orphans] /\ f[0] = o
  /\ \A i \in 1 .. n : f[i] = Above(f[i - 1])

LEMMA RiseExists ==
  ASSUME TreeOK, NEW n \in Nat, NEW o \in tree.canonical \cup Orphans
  PROVE  \E f : Rises(o, n, f)
<1> DEFINE A == tree.canonical \cup Orphans
           G == [x \in (1 .. n) \X A |-> Above(x[2])]
<1>1. \A x \in A : Above(x) \in A
  BY DEF Above, TreeOK
<1>2. G \in [(1 .. n) \X A -> A] /\ \A i \in 1 .. n, x \in A : G[<<i, x>>] = Above(x)
  BY <1>1
<1>3. o \in A
  OBVIOUS
<1> HIDE DEF G, A
<1>4. PICK f : Loops(n, A, o, G, f)
  BY <1>2, <1>3, Recursion
<1>5. f \in [0 .. n -> A] /\ f[0] = o /\ \A i \in 1 .. n : f[i] = G[<<i, f[i - 1]>>]
  BY <1>4 DEF Loops
<1>6. \A i \in 1 .. n : i - 1 \in 0 .. n
  OBVIOUS
<1>7. \A i \in 1 .. n : f[i] = Above(f[i - 1])
  BY <1>2, <1>5, <1>6
<1> QED BY <1>5, <1>7 DEF Rises, A

(* LineExists: the line of an orphan ends, after at most all orphans. *)
LEMMA LineExists ==
  ASSUME TreeOK, NEW o \in Orphans
  PROVE  \E k, U : Line(o, k, U) /\ k <= Cardinality(Orphans)
<1> DEFINE N == Cardinality(Orphans)
           X == tree.canonical \cup Orphans
<1>1. N \in Nat
  BY Finite
<1> HIDE DEF N
<1>2. PICK f : Rises(o, N, f)
  BY <1>1, RiseExists
<1>3. f \in [0 .. N -> X] /\ f[0] = o /\ \A i \in 1 .. N : f[i] = Above(f[i - 1])
  BY <1>2 DEF Rises
<1> DEFINE Bad == {i \in 0 .. N : f[i] \notin Orphans}
<1>4. Bad # {}
  <2> SUFFICES ASSUME Bad = {} PROVE FALSE
    OBVIOUS
  <2>1. \A i \in 0 .. N : f[i] \in Orphans
    OBVIOUS
  <2>2. Climbs(N, f)
    <3> SUFFICES ASSUME NEW i \in 0 .. N - 1 PROVE f[i] \in Orphans /\ f[i + 1] = tree.parent[f[i]]
      BY DEF Climbs
    <3>1. i \in 0 .. N /\ i + 1 \in 1 .. N /\ (i + 1) - 1 = i
      BY <1>1
    <3>2. f[i + 1] = Above(f[i])
      BY <1>3, <3>1
    <3> QED BY <2>1, <3>1, <3>2 DEF Above
  <2>3. \A i, j \in 0 .. N : f[i] = f[j] => i = j
    BY <1>1, <1>3, <2>2, ClimbApart
  <2>4. f \in [0 .. N -> Orphans]
    BY <1>3, <2>1
  <2>5. IsFiniteSet(0 .. N) /\ Cardinality(0 .. N) = N + 1 /\ IsFiniteSet(Orphans)
    <3>1. IsFiniteSet(0 .. N) /\ Cardinality(0 .. N) = IF 0 > N THEN 0 ELSE N - 0 + 1
      BY <1>1, FS_Interval
    <3> QED BY <1>1, <3>1, Finite
  <2>6. f \in Injection(0 .. N, Orphans)
    BY <2>3, <2>4 DEF Injection, IsInjective
  <2>7. Cardinality(0 .. N) <= Cardinality(Orphans)
    BY <2>5, <2>6, FS_Injection
  <2> QED BY <1>1, <2>5, <2>7 DEF N
<1> DEFINE k == Min(Bad)
<1>5. k \in Bad /\ \A y \in Bad : k <= y
  <2>1. Bad \subseteq Nat
    BY <1>1
  <2> QED BY <1>4, <2>1, LeastNat
<1> HIDE DEF k
<1>6. k \in 1 .. N /\ f[k] \in tree.canonical /\ \A i \in 0 .. k - 1 : f[i] \in Orphans
  <2>1. k \in 0 .. N /\ f[k] \notin Orphans
    BY <1>5
  <2>2. k # 0
    BY <1>3, <2>1
  <2>3. ASSUME NEW i \in 0 .. k - 1 PROVE f[i] \in Orphans
    <3>1. i \in 0 .. N /\ ~ (k <= i)
      BY <1>1, <2>1
    <3> QED BY <1>5, <3>1
  <2>4. f[k] \in X
    BY <1>3, <2>1
  <2> QED BY <1>1, <2>1, <2>2, <2>3, <2>4
<1> DEFINE U == [i \in 0 .. k |-> f[i]]
<1>7. \A i \in 0 .. k : i \in 0 .. N /\ U[i] = f[i]
  BY <1>1, <1>6
<1>8. U \in [0 .. k -> X]
  BY <1>3, <1>7
<1> HIDE DEF U
<1>9. Climbs(k, U)
  <2> SUFFICES ASSUME NEW i \in 0 .. k - 1 PROVE U[i] \in Orphans /\ U[i + 1] = tree.parent[U[i]]
    BY DEF Climbs
  <2>1. i \in 0 .. k /\ i + 1 \in 0 .. k /\ i + 1 \in 1 .. N /\ (i + 1) - 1 = i
    BY <1>1, <1>6
  <2>2. f[i + 1] = Above(f[i]) /\ f[i] \in Orphans
    BY <1>3, <1>6, <2>1
  <2> QED BY <1>7, <2>1, <2>2 DEF Above
<1>10. k \in Nat \ {0} /\ U[0] = o /\ U[k] \in tree.canonical /\ k <= N
  <2>1. 0 \in 0 .. k /\ k \in 0 .. k
    BY <1>1, <1>6
  <2> QED BY <1>1, <1>3, <1>6, <1>7, <2>1
<1>11. Line(o, k, U)
  BY <1>8, <1>9, <1>10 DEF Line
<1> QED BY <1>10, <1>11 DEF N

(* LineRise: a rise follows the line and then stays. *)
LEMMA LineRise ==
  ASSUME TreeOK, NEW o, NEW k, NEW U, Line(o, k, U), NEW n \in Nat, NEW f, Rises(o, n, f)
  PROVE  \A i \in 0 .. n : f[i] = IF i <= k THEN U[i] ELSE U[k]
<1>1. /\ k \in Nat \ {0} /\ U \in [0 .. k -> tree.canonical \cup Orphans] /\ U[0] = o
      /\ U[k] \in tree.canonical /\ Climbs(k, U)
  BY DEF Line
<1>2. f[0] = o /\ \A i \in 1 .. n : f[i] = Above(f[i - 1])
  BY DEF Rises
<1> DEFINE S == {i \in 0 .. n : f[i] = IF i <= k THEN U[i] ELSE U[k]}
<1>3. 0 \in S
  BY <1>1, <1>2
<1>4. ASSUME NEW i \in 1 .. n, i - 1 \in S PROVE i \in S
  <2>1. f[i] = Above(f[i - 1]) /\ i \in 0 .. n
    BY <1>2
  <2>2. CASE i <= k
    <3>1. i - 1 \in 0 .. k - 1 /\ i - 1 <= k /\ (i - 1) + 1 = i
      BY <1>1, <2>2
    <3>2. U[i - 1] \in Orphans /\ U[i] = tree.parent[U[i - 1]]
      BY <1>1, <3>1 DEF Climbs
    <3>3. f[i - 1] = U[i - 1]
      BY <1>4, <3>1
    <3> QED BY <2>1, <2>2, <3>2, <3>3 DEF Above
  <2>3. CASE ~ (i <= k)
    <3>1. f[i - 1] = U[k]
      <4>1. i - 1 = k \/ ~ (i - 1 <= k)
        BY <1>1, <2>3
      <4> QED BY <1>1, <1>4, <4>1
    <3>2. U[k] \notin Orphans
      BY <1>1, BlockSlots
    <3> QED BY <2>1, <2>3, <3>1, <3>2 DEF Above
  <2> QED BY <2>2, <2>3
<1>5. \A i \in 0 .. n : i \in S
  <2> HIDE DEF S
  <2> QED BY <1>3, <1>4, CountUp
<1> QED BY <1>5

(* BranchLine: Branch gives the orphans of the line and its canonical end. *)
LineOfBranch(o, k, U) ==
  /\ Line(o, k, U)
  /\ Branch(o).orphans = {U[i] : i \in 0 .. k - 1}
  /\ Branch(o).base = U[k]
  /\ Cardinality(Branch(o).orphans) = k

LEMMA BranchLine ==
  ASSUME TreeOK, NEW o \in Orphans
  PROVE  \E k, U : LineOfBranch(o, k, U)
<1> DEFINE N == Cardinality(Orphans)
           X == tree.canonical \cup Orphans
           up == CHOOSE f : f = [d \in 0 .. N |->
                   IF d = 0 THEN o
                   ELSE IF f[d - 1] \in Orphans THEN tree.parent[f[d - 1]] ELSE f[d - 1]]
<1>0. Branch(o) = [orphans |-> Range(up) \cap Orphans, base |-> up[N]]
  BY DEF Branch
<1>1. N \in Nat
  BY Finite
<1> HIDE DEF N
<1>2. PICK f : Rises(o, N, f)
  BY <1>1, RiseExists
<1>3. f \in [0 .. N -> X] /\ f[0] = o /\ \A i \in 1 .. N : f[i] = Above(f[i - 1])
  BY <1>2 DEF Rises
<1>4. f = [d \in 0 .. N |-> IF d = 0 THEN o
                            ELSE IF f[d - 1] \in Orphans THEN tree.parent[f[d - 1]] ELSE f[d - 1]]
  <2>1. \A d \in 0 .. N : d # 0 => d \in 1 .. N
    BY <1>1
  <2>2. \A d \in 0 .. N : f[d] = IF d = 0 THEN o
                            ELSE IF f[d - 1] \in Orphans THEN tree.parent[f[d - 1]] ELSE f[d - 1]
    BY <1>3, <2>1 DEF Above
  <2>3. f = [d \in 0 .. N |-> f[d]]
    BY <1>3
  <2> QED BY <2>2, <2>3
<1>5. up = [d \in 0 .. N |-> IF d = 0 THEN o
                            ELSE IF up[d - 1] \in Orphans THEN tree.parent[up[d - 1]] ELSE up[d - 1]]
  BY <1>4, Zenon
<1> HIDE DEF up
<1>6. Rises(o, N, up)
  <2>1. \A d \in 0 .. N : up[d] = IF d = 0 THEN o ELSE Above(up[d - 1])
    BY <1>5, Zenon DEF Above
  <2>2. up[0] = o /\ \A d \in 1 .. N : up[d] = Above(up[d - 1])
    <3>1. 0 \in 0 .. N /\ \A d \in 1 .. N : d \in 0 .. N /\ d # 0
      BY <1>1
    <3> QED BY <2>1, <3>1
  <2>3. \A x \in X : Above(x) \in X
    BY DEF Above, TreeOK
  <2> DEFINE S == {d \in 0 .. N : up[d] \in X}
  <2>4. 0 \in S
    BY <1>1, <2>2
  <2>5. \A d \in 1 .. N : d - 1 \in S => d \in S
    BY <2>2, <2>3
  <2>6. \A d \in 0 .. N : up[d] \in X
    <3>1. \A d \in 0 .. N : d \in S
      <4> HIDE DEF S
      <4> QED BY <1>1, <2>4, <2>5, CountUp
    <3> QED BY <3>1
  <2>7. up = [d \in 0 .. N |-> up[d]]
    BY <1>5
  <2>8. up \in [0 .. N -> X]
    <3> HIDE DEF X
    <3> QED BY <2>6, <2>7
  <2> QED BY <2>2, <2>8 DEF Rises
<1>7. PICK k, U : Line(o, k, U) /\ k <= N
  BY LineExists DEF N
<1>8. /\ k \in Nat \ {0} /\ U \in [0 .. k -> X] /\ U[0] = o
      /\ U[k] \in tree.canonical /\ Climbs(k, U)
  BY <1>7 DEF Line
<1>9. \A i \in 0 .. N : up[i] = IF i <= k THEN U[i] ELSE U[k]
  BY <1>1, <1>6, <1>7, LineRise
<1>10. U[k] \notin Orphans /\ \A i \in 0 .. k - 1 : U[i] \in Orphans
  BY <1>8, BlockSlots DEF Climbs
<1>11. Range(up) \cap Orphans = {U[i] : i \in 0 .. k - 1}
  <2>1. Range(up) = {up[i] : i \in 0 .. N}
    BY <1>5 DEF Range
  <2>2. ASSUME NEW i \in 0 .. N, up[i] \in Orphans PROVE up[i] \in {U[j] : j \in 0 .. k - 1}
    <3>1. i <= k - 1
      <4>1. CASE i <= k
        <5>1. i # k
          BY <1>9, <1>10, <2>2, <4>1
        <5> QED BY <1>8, <4>1, <5>1
      <4>2. CASE ~ (i <= k)
        BY <1>9, <1>10, <2>2, <4>2
      <4> QED BY <4>1, <4>2
    <3>2. i \in 0 .. k - 1 /\ i <= k
      BY <1>8, <3>1
    <3> QED BY <1>9, <3>2
  <2>3. ASSUME NEW i \in 0 .. k - 1 PROVE U[i] \in Orphans /\ \E j \in 0 .. N : up[j] = U[i]
    <3>1. i \in 0 .. N /\ i <= k
      BY <1>1, <1>7, <1>8
    <3> QED BY <1>9, <1>10, <3>1
  <2> QED BY <2>1, <2>2, <2>3
<1>12. up[N] = U[k]
  <2>1. N \in 0 .. N /\ (N <= k => N = k)
    BY <1>1, <1>7, <1>8
  <2> QED BY <1>9, <2>1
<1>13. Cardinality({U[i] : i \in 0 .. k - 1}) = k
  <2> DEFINE B == {U[i] : i \in 0 .. k - 1}
             D == 0 .. k - 1
             g == [i \in D |-> U[i]]
  <2>1. \A i, j \in 0 .. k : U[i] = U[j] => i = j
    BY <1>8, ClimbApart
  <2>2. \A i, j \in D : U[i] = U[j] => i = j
    BY <1>8, <2>1
  <2>3. g \in Bijection(D, B)
    BY <2>2 DEF Bijection, Injection, Surjection, IsInjective
  <2>4. IsFiniteSet(D) /\ Cardinality(D) = IF 0 > k - 1 THEN 0 ELSE (k - 1) - 0 + 1
    BY <1>8, FS_Interval
  <2>5. ExistsBijection(D, B)
    BY <2>3 DEF ExistsBijection
  <2> HIDE DEF D, B
  <2>6. Cardinality(B) = Cardinality(D)
    BY <2>4, <2>5, FS_Bijection
  <2>7. Cardinality(D) = k
    BY <1>8, <2>4
  <2> QED BY <2>6, <2>7 DEF B
<1>14. Branch(o).orphans = {U[i] : i \in 0 .. k - 1} /\ Branch(o).base = U[k]
  BY <1>0, <1>11, <1>12
<1> QED BY <1>7, <1>13, <1>14 DEF LineOfBranch

(* BranchFacts: a branch is closed under parents, and lies between its base *)
(* and its tip.                                                             *)
LEMMA BranchFacts ==
  ASSUME TreeOK, NEW o \in Orphans
  PROVE  /\ o \in Branch(o).orphans /\ Branch(o).orphans \subseteq Orphans
         /\ Branch(o).base \in tree.canonical /\ Branch(o).base \in Nat
         /\ \A a \in Branch(o).orphans :
              /\ tree.parent[a] \in Orphans => tree.parent[a] \in Branch(o).orphans
              /\ tree.parent[a] \notin Orphans => tree.parent[a] = Branch(o).base
              /\ Branch(o).base < SlotOf(a) /\ SlotOf(a) <= SlotOf(o)
<1>1. PICK k, U : LineOfBranch(o, k, U)
  BY BranchLine
<1> DEFINE X == tree.canonical \cup Orphans
           B == Branch(o).orphans
           base == Branch(o).base
<1>2. /\ k \in Nat \ {0} /\ U \in [0 .. k -> X] /\ U[0] = o
      /\ U[k] \in tree.canonical /\ Climbs(k, U)
      /\ B = {U[i] : i \in 0 .. k - 1} /\ base = U[k]
  BY <1>1 DEF LineOfBranch, Line
<1> HIDE DEF B, base
<1>3. \A i \in 0 .. k - 1 : U[i] \in Orphans /\ U[i + 1] = tree.parent[U[i]]
  BY <1>2 DEF Climbs
<1>4. o \in B /\ B \subseteq Orphans
  <2>1. 0 \in 0 .. k - 1
    BY <1>2
  <2> QED BY <1>2, <1>3, <2>1
<1>5. base \in tree.canonical /\ base \notin Orphans /\ SlotOf(base) = base /\ base \in Nat
  BY <1>2, BlockSlots
<1>6. \A i, j \in 0 .. k : i < j => SlotOf(U[j]) < SlotOf(U[i])
  BY <1>2, ClimbSlots
<1>7. ASSUME NEW a \in B
      PROVE  /\ tree.parent[a] \in Orphans => tree.parent[a] \in B
             /\ tree.parent[a] \notin Orphans => tree.parent[a] = base
             /\ base < SlotOf(a) /\ SlotOf(a) <= SlotOf(o)
  <2>1. PICK i \in 0 .. k - 1 : a = U[i]
    BY <1>2
  <2>2. U[i + 1] = tree.parent[a] /\ i + 1 \in 0 .. k /\ i \in 0 .. k /\ i < k /\ k \in 0 .. k
    BY <1>2, <1>3, <2>1
  <2>3. i + 1 \in 0 .. k - 1 \/ i + 1 = k
    BY <1>2
  <2>6. base < SlotOf(a)
    BY <1>2, <1>5, <1>6, <2>1, <2>2
  <2>7. SlotOf(a) <= SlotOf(o)
    <3>1. SlotOf(a) \in Nat /\ SlotOf(o) \in Nat
      BY <1>4, OrphanSlots
    <3>2. CASE i = 0
      BY <1>2, <2>1, <3>1, <3>2
    <3>3. CASE i # 0
      <4>1. 0 < i /\ 0 \in 0 .. k
        BY <1>2, <3>3
      <4>2. SlotOf(U[i]) < SlotOf(U[0])
        BY <1>6, <2>2, <4>1
      <4> QED BY <1>2, <2>1, <3>1, <4>2
    <3> QED BY <3>2, <3>3
  <2>4. CASE i + 1 = k
    BY <1>2, <1>5, <2>2, <2>4, <2>6, <2>7
  <2>5. CASE i + 1 \in 0 .. k - 1
    BY <1>2, <1>3, <2>2, <2>5, <2>6, <2>7
  <2> QED BY <2>3, <2>4, <2>5
<1> QED BY <1>4, <1>5, <1>7 DEF B, base

(* SubBranch: the branch of an ancestor is a part of the branch. *)
LEMMA SubBranch ==
  ASSUME TreeOK, NEW o \in Orphans, NEW a \in Branch(o).orphans
  PROVE  Branch(a).orphans \subseteq Branch(o).orphans /\ Branch(a).base = Branch(o).base
<1> DEFINE B == Branch(o).orphans
           base == Branch(o).base
<1>0. /\ B \subseteq Orphans
      /\ \A x \in B : /\ tree.parent[x] \in Orphans => tree.parent[x] \in B
                      /\ tree.parent[x] \notin Orphans => tree.parent[x] = base
  BY BranchFacts
<1>1. a \in Orphans
  BY <1>0
<1>2. PICK k, U : LineOfBranch(a, k, U)
  BY <1>1, BranchLine
<1>3. /\ k \in Nat \ {0} /\ U \in [0 .. k -> tree.canonical \cup Orphans] /\ U[0] = a
      /\ U[k] \in tree.canonical /\ Climbs(k, U)
      /\ Branch(a).orphans = {U[i] : i \in 0 .. k - 1} /\ Branch(a).base = U[k]
  BY <1>2 DEF LineOfBranch, Line
<1>4. \A i \in 0 .. k - 1 : U[i] \in Orphans /\ U[i + 1] = tree.parent[U[i]]
  BY <1>3 DEF Climbs
<1>5. U[k] \notin Orphans
  BY <1>3, BlockSlots
<1> DEFINE S == {i \in 0 .. k - 1 : U[i] \in B}
<1>6. 0 \in S
  BY <1>3
<1> HIDE DEF B, base
<1>7. ASSUME NEW i \in 1 .. k - 1, i - 1 \in S PROVE i \in S
  <2>1. i \in 0 .. k - 1 /\ i - 1 \in 0 .. k - 1 /\ (i - 1) + 1 = i
    BY <1>3
  <2>2. U[i] \in Orphans /\ U[i] = tree.parent[U[i - 1]]
    BY <1>4, <2>1
  <2> QED BY <1>0, <1>7, <2>1, <2>2
<1>8. \A i \in 0 .. k - 1 : i \in S
  <2>1. k - 1 \in Nat
    BY <1>3
  <2> HIDE DEF S
  <2> QED BY <1>6, <1>7, <2>1, CountUp
<1>9. U[k] = base
  <2>1. k - 1 \in 0 .. k - 1 /\ (k - 1) + 1 = k
    BY <1>3
  <2>2. U[k - 1] \in B /\ U[k] = tree.parent[U[k - 1]]
    BY <1>4, <1>8, <2>1
  <2> QED BY <1>0, <1>5, <2>2
<1> QED BY <1>3, <1>8, <1>9 DEF B, base
-------------------------------------------------------------------------------
(* resolveOrphanChain.                                                      *)

(* The blocks a walk passes. *)
Passes(known, fetchable, evalSlot) ==
  {b \in (Orphans \ known) \cap fetchable : SlotOf(b) <= evalSlot}

WalksLine(k, U, known, Go, walk) ==
  \E n \in 0 .. k :
    /\ walk.chain = [d \in 1 .. n |-> U[d - 1]]
    /\ n <= MaxOrphanWalk /\ \A i \in 0 .. n - 1 : U[i] \in Go
    /\ n = MaxOrphanWalk \/ U[n] \notin Go
    /\ walk.asked = {U[i] : i \in {j \in 0 .. n : j < MaxOrphanWalk}} \cap (Orphans \ known)

(* ResolveWalk: a walk follows the line while blocks pass, up to the limit. *)
LEMMA ResolveWalk ==
  ASSUME TreeOK, NEW o \in Orphans, NEW known, NEW fetchable, NEW evalSlot \in Int,
         NEW k, NEW U, LineOfBranch(o, k, U)
  PROVE  WalksLine(k, U, known, Passes(known, fetchable, evalSlot),
                   resolveOrphanChain(o, known, fetchable, evalSlot))
<1> DEFINE L == MaxOrphanWalk
           X == tree.canonical \cup Orphans
           Go == Passes(known, fetchable, evalSlot)
           Stops(b) == b \notin Orphans \ known \/ b \notin fetchable \/ SlotOf(b) > evalSlot
           up == CHOOSE f : f = [d \in 1 .. L |->
                   IF d = 1 THEN o
                   ELSE IF f[d - 1] \in Orphans THEN tree.parent[f[d - 1]] ELSE f[d - 1]]
           ends == {d \in 1 .. L : Stops(up[d])}
           n == IF ends = {} THEN L ELSE Min(ends) - 1
           chain == [d \in 1 .. n |-> up[d]]
           asked == {up[d] : d \in 1 .. Min({n + 1, L})}
           walk == resolveOrphanChain(o, known, fetchable, evalSlot)
<1>0. walk.chain = chain /\ walk.asked = asked \cap (Orphans \ known)
  BY DEF resolveOrphanChain, WalkUp
<1>1. L \in Nat \ {0}
  BY SlotPlanAssumption
<1> HIDE DEF L
<1>2. /\ k \in Nat \ {0} /\ U \in [0 .. k -> X] /\ U[0] = o
      /\ U[k] \in tree.canonical /\ Line(o, k, U)
  BY DEF LineOfBranch, Line
<1>3. PICK f : Rises(o, L - 1, f)
  <2>1. L - 1 \in Nat
    BY <1>1
  <2> QED BY <2>1, RiseExists
<1>4. f \in [0 .. L - 1 -> X] /\ f[0] = o /\ \A i \in 1 .. L - 1 : f[i] = Above(f[i - 1])
  BY <1>3 DEF Rises
<1>5. up = [d \in 1 .. L |-> IF d = 1 THEN o
                             ELSE IF up[d - 1] \in Orphans THEN tree.parent[up[d - 1]] ELSE up[d - 1]]
  <2> DEFINE g == [d \in 1 .. L |-> f[d - 1]]
  <2>1. \A d \in 1 .. L : g[d] = f[d - 1] /\ g = [e \in 1 .. L |-> g[e]]
    OBVIOUS
  <2> HIDE DEF g
  <2>2. \A d \in 1 .. L : g[d] = IF d = 1 THEN o
                             ELSE IF g[d - 1] \in Orphans THEN tree.parent[g[d - 1]] ELSE g[d - 1]
    <3> SUFFICES ASSUME NEW d \in 1 .. L
                 PROVE  g[d] = IF d = 1 THEN o
                             ELSE IF g[d - 1] \in Orphans THEN tree.parent[g[d - 1]] ELSE g[d - 1]
      OBVIOUS
    <3>1. CASE d = 1
      <4>1. d - 1 = 0
        BY <3>1
      <4> QED BY <1>4, <2>1, <3>1, <4>1
    <3>2. CASE d # 1
      <4>1. d - 1 \in 1 .. L - 1 /\ d - 1 \in 1 .. L
        BY <1>1, <3>2
      <4>2. g[d] = Above(g[d - 1])
        BY <1>4, <2>1, <4>1
      <4> QED BY <3>2, <4>2 DEF Above
    <3> QED BY <3>1, <3>2
  <2>3. g = [d \in 1 .. L |-> IF d = 1 THEN o
                             ELSE IF g[d - 1] \in Orphans THEN tree.parent[g[d - 1]] ELSE g[d - 1]]
    <3>1. 1 \in 1 .. L
      BY <1>1
    <3> QED BY <2>1, <2>2, <3>1
  <2> QED BY <2>3, Zenon
<1> HIDE DEF up
<1>6. \A d \in 1 .. L : up[d] = f[d - 1]
  <2>1. \A d \in 1 .. L : up[d] = IF d = 1 THEN o ELSE Above(up[d - 1])
    BY <1>5, Zenon DEF Above
  <2> DEFINE S == {i \in 0 .. L - 1 : up[i + 1] = f[i]}
  <2>2. 0 \in S
    <3>1. 1 \in 1 .. L /\ 0 + 1 = 1 /\ 0 \in 0 .. L - 1
      BY <1>1
    <3> QED BY <1>4, <2>1, <3>1
  <2>3. ASSUME NEW i \in 1 .. L - 1, i - 1 \in S PROVE i \in S
    <3>1. i + 1 \in 1 .. L /\ i + 1 # 1 /\ (i + 1) - 1 = i /\ (i - 1) + 1 = i /\ i \in 0 .. L - 1
      BY <1>1
    <3>2. up[i + 1] = Above(up[i])
      BY <2>1, <3>1
    <3>3. up[i] = f[i - 1]
      BY <2>3, <3>1
    <3> QED BY <1>4, <3>1, <3>2, <3>3
  <2>4. \A i \in 0 .. L - 1 : i \in S
    <3>1. L - 1 \in Nat
      BY <1>1
    <3> HIDE DEF S
    <3> QED BY <2>2, <2>3, <3>1, CountUp
  <2>5. \A d \in 1 .. L : d - 1 \in 0 .. L - 1 /\ (d - 1) + 1 = d
    BY <1>1
  <2> QED BY <2>4, <2>5
<1>7. \A d \in 1 .. L : up[d] = IF d - 1 <= k THEN U[d - 1] ELSE U[k]
  <2>1. L - 1 \in Nat /\ \A d \in 1 .. L : d - 1 \in 0 .. L - 1
    BY <1>1
  <2>2. \A i \in 0 .. L - 1 : f[i] = IF i <= k THEN U[i] ELSE U[k]
    BY <1>2, <1>3, <2>1, LineRise
  <2> QED BY <1>6, <2>1, <2>2
<1>8. \A d \in 1 .. L : up[d] \in X /\ (Stops(up[d]) <=> up[d] \notin Go)
  <2> SUFFICES ASSUME NEW d \in 1 .. L PROVE up[d] \in X /\ (Stops(up[d]) <=> up[d] \notin Go)
    OBVIOUS
  <2>1. up[d] \in X
    BY <1>1, <1>4, <1>6
  <2>2. SlotOf(up[d]) \in Nat
    BY <2>1, BlockSlots
  <2> QED BY <2>1, <2>2 DEF Passes
<1>9. ends = {d \in 1 .. L : up[d] \notin Go}
  BY <1>8
<1>10. U[k] \notin Go
  BY <1>2, BlockSlots DEF Passes
<1> HIDE DEF Go, Stops
<1>11. n \in 0 .. L /\ (\A d \in 1 .. n : d \in 1 .. L /\ up[d] \in Go)
       /\ (n # L => up[n + 1] \notin Go /\ n + 1 \in 1 .. L)
  <2>1. CASE ends = {}
    <3>1. n = L
      BY <2>1
    <3> HIDE DEF n
    <3> QED BY <1>1, <1>9, <2>1, <3>1
  <2>2. CASE ends # {}
    <3> DEFINE m == Min(ends)
    <3>1. ends \subseteq Nat
      OBVIOUS
    <3>2. m \in ends /\ \A y \in ends : m <= y
      BY <2>2, <3>1, LeastNat
    <3>3. n = m - 1
      BY <2>2
    <3> HIDE DEF m, n, ends
    <3>4. m \in 1 .. L /\ up[m] \notin Go
      BY <1>9, <3>2
    <3>5. n \in 0 .. L /\ n + 1 = m
      BY <1>1, <3>3, <3>4
    <3>6. ASSUME NEW d \in 1 .. n PROVE d \in 1 .. L /\ up[d] \in Go
      <4>1. d \in 1 .. L /\ ~ (m <= d)
        BY <1>1, <3>4, <3>5
      <4> QED BY <1>9, <3>2, <4>1
    <3> QED BY <3>4, <3>5, <3>6
  <2> QED BY <2>1, <2>2
<1> HIDE DEF n, ends
<1>12. n <= k
  <2> SUFFICES ASSUME k < n PROVE FALSE
    BY <1>2, <1>11
  <2>1. k + 1 \in 1 .. n /\ (k + 1) - 1 = k /\ k <= k
    BY <1>2, <1>11
  <2>2. up[k + 1] = U[k] /\ up[k + 1] \in Go
    BY <1>7, <1>11, <2>1
  <2> QED BY <1>10, <2>2
<1>13. \A d \in 1 .. n : up[d] = U[d - 1]
  <2>1. \A d \in 1 .. n : d \in 1 .. L /\ d - 1 <= k
    BY <1>2, <1>11, <1>12
  <2> QED BY <1>7, <2>1
<1>14. chain = [d \in 1 .. n |-> U[d - 1]]
  BY <1>13
<1>15. \A i \in 0 .. n - 1 : U[i] \in Go
  <2>1. \A i \in 0 .. n - 1 : i + 1 \in 1 .. n /\ (i + 1) - 1 = i
    BY <1>11
  <2> QED BY <1>11, <1>13, <2>1
<1>16. n = L \/ U[n] \notin Go
  <2> SUFFICES ASSUME n # L PROVE U[n] \notin Go
    OBVIOUS
  <2>1. n + 1 \in 1 .. L /\ up[n + 1] \notin Go /\ (n + 1) - 1 = n
    BY <1>11
  <2> QED BY <1>7, <1>12, <2>1
<1>17. asked = {U[i] : i \in {j \in 0 .. n : j < L}}
  <2> DEFINE m == Min({n + 1, L})
  <2>1. m \in {n + 1, L} /\ m <= n + 1 /\ m <= L
    <3>1. {n + 1, L} \subseteq Nat /\ {n + 1, L} # {}
      BY <1>1, <1>11
    <3>2. Min({n + 1, L}) \in {n + 1, L} /\ \A y \in {n + 1, L} : Min({n + 1, L}) <= y
      BY <3>1, LeastNat
    <3> QED BY <3>2
  <2> HIDE DEF m
  <2>2. asked = {up[d] : d \in 1 .. m}
    BY DEF m
  <2>3. ASSUME NEW d \in 1 .. m PROVE up[d] = U[d - 1] /\ d - 1 \in {j \in 0 .. n : j < L}
    <3>1. d \in 1 .. L /\ d - 1 \in 0 .. n /\ d - 1 < L /\ d - 1 <= k
      BY <1>1, <1>2, <1>11, <1>12, <2>1
    <3> QED BY <1>7, <3>1
  <2>4. ASSUME NEW i \in 0 .. n, i < L PROVE i + 1 \in 1 .. m /\ (i + 1) - 1 = i
    BY <1>1, <1>11, <2>1, <2>4
  <2> QED BY <2>2, <2>3, <2>4
<1>18. n \in 0 .. k /\ n <= L
  BY <1>2, <1>11, <1>12
<1> HIDE DEF walk, chain, asked
<1> SUFFICES \E i \in 0 .. k :
               /\ walk.chain = [d \in 1 .. i |-> U[d - 1]]
               /\ i <= L /\ \A j \in 0 .. i - 1 : U[j] \in Go
               /\ i = L \/ U[i] \notin Go
               /\ walk.asked = {U[l] : l \in {j \in 0 .. i : j < L}} \cap (Orphans \ known)
  BY DEF L, Go, walk, WalksLine
<1> n \in 0 .. k
  BY <1>18
<1> WITNESS n \in 0 .. k
<1> QED BY <1>0, <1>14, <1>15, <1>16, <1>17, <1>18

(* ResolveFacts: what a walk returns, in terms of the branch.  A walk in    *)
(* which all blocks of a short enough branch pass returns all of it; and    *)
(* when it asked for a block whose own branch passes, all blocks pass.      *)
LEMMA ResolveFacts ==
  ASSUME TreeOK, NEW o \in Orphans, NEW known, NEW fetchable, NEW evalSlot \in Int
  PROVE  LET Go == Passes(known, fetchable, evalSlot)
             walk == resolveOrphanChain(o, known, fetchable, evalSlot)
             B == Branch(o).orphans
         IN  /\ walk.chain \in Seq(Orphans)
             /\ Range(walk.chain) \subseteq B \cap Go
             /\ Range(walk.chain) \subseteq walk.asked
             /\ walk.asked \subseteq B
             /\ walk.asked \cap Go \subseteq Range(walk.chain)
             /\ B \subseteq Go /\ Cardinality(B) <= MaxOrphanWalk => Range(walk.chain) = B
             /\ \A a \in walk.asked : Branch(a).orphans \subseteq Go => B \subseteq Go
<1> DEFINE Go == Passes(known, fetchable, evalSlot)
           walk == resolveOrphanChain(o, known, fetchable, evalSlot)
           B == Branch(o).orphans
           L == MaxOrphanWalk
           C == walk.chain
           A == walk.asked
<1> HIDE DEF walk, Go
<1> SUFFICES /\ C \in Seq(Orphans) /\ Range(C) \subseteq B \cap Go /\ Range(C) \subseteq A
             /\ A \subseteq B /\ A \cap Go \subseteq Range(C)
             /\ (B \subseteq Go /\ Cardinality(B) <= L => Range(C) = B)
             /\ \A a \in A : Branch(a).orphans \subseteq Go => B \subseteq Go
  BY DEF walk, Go
<1>1. PICK k, U : LineOfBranch(o, k, U)
  BY BranchLine
<1>2. /\ k \in Nat \ {0} /\ U \in [0 .. k -> tree.canonical \cup Orphans] /\ U[0] = o
      /\ U[k] \in tree.canonical /\ Climbs(k, U)
      /\ B = {U[i] : i \in 0 .. k - 1} /\ Cardinality(B) = k
  BY <1>1 DEF LineOfBranch, Line
<1>3. \A i \in 0 .. k - 1 : U[i] \in Orphans /\ U[i + 1] = tree.parent[U[i]]
  BY <1>2 DEF Climbs
<1>4. PICK n \in 0 .. k :
        /\ C = [d \in 1 .. n |-> U[d - 1]]
        /\ n <= L /\ \A i \in 0 .. n - 1 : U[i] \in Go
        /\ n = L \/ U[n] \notin Go
        /\ A = {U[i] : i \in {j \in 0 .. n : j < L}} \cap (Orphans \ known)
  <2>1. WalksLine(k, U, known, Go, walk)
    BY <1>1, ResolveWalk DEF walk, Go
  <2> QED BY <2>1 DEF WalksLine
<1>5. L \in Nat
  BY SlotPlanAssumption
<1> HIDE DEF B, C, A, L
<1>6. U[k] \notin Orphans
  BY <1>2, BlockSlots
<1>7. Range(C) = {U[i] : i \in 0 .. n - 1}
  <2>1. DOMAIN C = 1 .. n /\ \A d \in 1 .. n : C[d] = U[d - 1] /\ d - 1 \in 0 .. n - 1
    BY <1>2, <1>4
  <2>2. \A i \in 0 .. n - 1 : i + 1 \in 1 .. n /\ (i + 1) - 1 = i
    BY <1>2
  <2>3. \A i \in 0 .. n - 1 : i + 1 \in DOMAIN C /\ C[i + 1] = U[i]
    BY <2>1, <2>2
  <2>4. Range(C) = {C[d] : d \in DOMAIN C}
    BY DEF Range
  <2>5. Range(C) \subseteq {U[i] : i \in 0 .. n - 1}
    BY <2>1, <2>4
  <2>6. {U[i] : i \in 0 .. n - 1} \subseteq Range(C)
    BY <2>3, <2>4
  <2> QED BY <2>5, <2>6
<1>8. \A i \in 0 .. n - 1 : i \in 0 .. k - 1 /\ i \in 0 .. n /\ i < L
  BY <1>2, <1>4, <1>5
<1>9. C \in Seq(Orphans)
  <2>1. \A d \in 1 .. n : U[d - 1] \in Orphans
    <3>1. \A d \in 1 .. n : d - 1 \in 0 .. k - 1
      BY <1>2
    <3> QED BY <1>3, <3>1
  <2>2. n \in Nat
    BY <1>2
  <2> QED BY <1>4, <2>1, <2>2
<1>10. Range(C) \subseteq B \cap Go
  BY <1>2, <1>4, <1>7, <1>8
<1>11. Range(C) \subseteq A
  <2>1. Go \subseteq Orphans \ known
    BY DEF Go, Passes
  <2> QED BY <1>4, <1>7, <1>8, <2>1
<1>12. A \subseteq B
  <2> SUFFICES ASSUME NEW a \in A PROVE a \in B
    OBVIOUS
  <2>1. PICK i \in 0 .. n : a = U[i] /\ a \in Orphans
    BY <1>4
  <2>2. i # k
    BY <1>6, <2>1
  <2>3. i \in 0 .. k - 1
    BY <1>2, <2>2
  <2> QED BY <1>2, <2>1, <2>3
<1>13. A \cap Go \subseteq Range(C)
  <2> SUFFICES ASSUME NEW a \in A, a \in Go PROVE a \in Range(C)
    OBVIOUS
  <2>1. PICK i \in 0 .. n : a = U[i] /\ i < L
    BY <1>4
  <2>2. i # n
    BY <1>4, <1>5, <2>1
  <2>3. i \in 0 .. n - 1
    BY <1>2, <2>2
  <2> QED BY <1>7, <2>1, <2>3
<1>14. ASSUME B \subseteq Go, Cardinality(B) <= L PROVE Range(C) = B
  <2>1. n = k
    <3> SUFFICES ASSUME n # k PROVE FALSE
      OBVIOUS
    <3>1. n \in 0 .. k - 1 /\ n # L
      BY <1>2, <1>4, <1>5, <1>14
    <3> QED BY <1>2, <1>4, <1>14, <3>1
  <2> QED BY <1>2, <1>7, <2>1
<1>15. ASSUME NEW a \in A, Branch(a).orphans \subseteq Go PROVE B \subseteq Go
  <2>1. PICK j \in 0 .. n : a = U[j] /\ a \in Orphans
    BY <1>4
  <2>2. j \in 0 .. k - 1
    <3>1. j # k
      BY <1>6, <2>1
    <3> QED BY <1>2, <3>1
  <2> DEFINE D == Branch(a).orphans
             S == {i \in 0 .. k - 1 : U[i] \in Go /\ (j <= i => U[i] \in D)}
  <2>3. a \in D /\ \A x \in D : tree.parent[x] \in Orphans => tree.parent[x] \in D
    BY <2>1, BranchFacts
  <2> HIDE DEF D
  <2>4. ASSUME NEW i \in 0 .. k - 1, i < j PROVE U[i] \in Go
    <3>1. i \in 0 .. n - 1
      BY <1>2, <2>4
    <3> QED BY <1>4, <3>1
  <2>5. a \in Go /\ D \subseteq Go
    BY <1>15, <2>3 DEF D
  <2>6. 0 \in S
    <3>1. 0 \in 0 .. k - 1
      BY <1>2
    <3>2. CASE j = 0
      BY <2>1, <2>3, <2>5, <3>1, <3>2
    <3>3. CASE j # 0
      <4>1. 0 < j
        BY <3>3
      <4> QED BY <2>4, <3>1, <4>1
    <3> QED BY <3>2, <3>3
  <2>7. ASSUME NEW i \in 1 .. k - 1, i - 1 \in S PROVE i \in S
    <3>1. i \in 0 .. k - 1 /\ i - 1 \in 0 .. k - 1 /\ (i - 1) + 1 = i
      BY <1>2
    <3>2. CASE i < j
      BY <2>4, <3>1, <3>2
    <3>3. CASE i = j
      BY <2>1, <2>3, <2>5, <3>1, <3>3
    <3>4. CASE j < i
      <4>1. j <= i - 1
        BY <3>4
      <4>2. U[i - 1] \in D
        BY <2>7, <4>1
      <4>3. U[i] \in Orphans /\ U[i] = tree.parent[U[i - 1]]
        BY <1>3, <3>1
      <4> QED BY <2>3, <2>5, <3>1, <4>2, <4>3
    <3> QED BY <3>2, <3>3, <3>4
  <2>8. \A i \in 0 .. k - 1 : i \in S
    <3>1. k - 1 \in Nat
      BY <1>2
    <3> HIDE DEF S
    <3> QED BY <2>6, <2>7, <3>1, CountUp
  <2> QED BY <1>2, <2>8
<1> QED BY <1>9, <1>10, <1>11, <1>12, <1>13, <1>14, <1>15
-------------------------------------------------------------------------------
(* Loops over a sequence.                                                   *)

(* FoldLoop: the function behind FoldLeft visits the indices in order. *)
Unrolls(n, A, b, G, f) ==
  /\ f[{}] = b
  /\ \A s \in SUBSET (1 .. n) :
       s # {} /\ f[s \ {Max(s)}] \in A => f[s] = G[<<Max(s), f[s \ {Max(s)}]>>]

Reaches(n, A, b, G, r) == \E h : Loops(n, A, b, G, h) /\ h[n] = r

LEMMA FoldLoop ==
  ASSUME NEW n \in Nat, NEW A, NEW b \in A, NEW G \in [(1 .. n) \X A -> A],
         NEW f, Unrolls(n, A, b, G, f)
  PROVE  Reaches(n, A, b, G, f[1 .. n])
<1> DEFINE h == [i \in 0 .. n |-> f[1 .. i]]
<1>1. \A i \in 0 .. n : h[i] = f[1 .. i]
  OBVIOUS
<1>2. h = [i \in 0 .. n |-> h[i]]
  OBVIOUS
<1> HIDE DEF h
<1>3. h[0] = b
  <2>1. 1 .. 0 = {} /\ 0 \in 0 .. n
    OBVIOUS
  <2> QED BY <1>1, <2>1 DEF Unrolls
<1>4. ASSUME NEW i \in 1 .. n, h[i - 1] \in A PROVE h[i] = G[<<i, h[i - 1]>>] /\ h[i] \in A
  <2> DEFINE s == 1 .. i
  <2>1. s \in SUBSET (1 .. n) /\ s # {} /\ i \in s /\ (\A y \in s : y <= i) /\ s \ {i} = 1 .. i - 1
    OBVIOUS
  <2>2. i \in 0 .. n /\ i - 1 \in 0 .. n
    OBVIOUS
  <2> HIDE DEF s
  <2>3. Max(s) \in s /\ \A y \in s : y <= Max(s)
    BY <2>1, LargestOf
  <2>4. Max(s) = i
    <3>1. Max(s) <= i /\ i <= Max(s) /\ Max(s) \in 1 .. n
      BY <2>1, <2>3
    <3> QED BY <3>1
  <2>5. h[i] = f[s] /\ h[i - 1] = f[s \ {i}]
    BY <1>1, <2>1, <2>2 DEF s
  <2>6. f[s] = G[<<i, f[s \ {i}]>>]
    BY <1>4, <2>1, <2>4, <2>5 DEF Unrolls
  <2> QED BY <1>4, <2>5, <2>6
<1> DEFINE S == {i \in 0 .. n : h[i] \in A}
<1>5. 0 \in S
  BY <1>3
<1>6. ASSUME NEW i \in 1 .. n, i - 1 \in S PROVE i \in S
  <2>1. i \in 0 .. n /\ h[i - 1] \in A
    BY <1>6
  <2> QED BY <1>4, <2>1
<1>7. \A i \in 0 .. n : h[i] \in A
  <2>1. \A i \in 0 .. n : i \in S
    <3> HIDE DEF S
    <3> QED BY <1>5, <1>6, CountUp
  <2> QED BY <2>1
<1>8. \A i \in 1 .. n : h[i] = G[<<i, h[i - 1]>>]
  <2>1. \A i \in 1 .. n : i - 1 \in 0 .. n
    OBVIOUS
  <2> QED BY <1>4, <1>7, <2>1
<1>9. n \in 0 .. n
  OBVIOUS
<1>10. h \in [0 .. n -> A]
  BY <1>2, <1>7
<1> QED BY <1>1, <1>3, <1>8, <1>9, <1>10 DEF Loops, Reaches

Lists == [own : SUBSET Orphans, shared : SUBSET Orphans]

(* Remember: what one entry adds to the lists. *)
LEMMA Remember ==
  ASSUME NEW a \in Lists, NEW o \in Orphans
  PROVE  rememberArchiveOrphanInfo(a, o) \in Lists
<1>1. \A roots \in SUBSET Orphans : appendOrphanRoot(roots, o) \in SUBSET Orphans
  BY DEF appendOrphanRoot
<1>2. appendOrphanRoot(a.own, o) \in SUBSET Orphans /\ appendOrphanRoot(a.shared, o) \in SUBSET Orphans
  BY <1>1 DEF Lists
<1> QED BY <1>2 DEF Lists, rememberArchiveOrphanInfo

(* RememberLoop: the lists while the entries of q are remembered. *)
RemembersAll(start, q, h) ==
  /\ h \in [0 .. Len(q) -> Lists] /\ h[0] = start
  /\ \A i \in 1 .. Len(q) : h[i] = rememberArchiveOrphanInfo(h[i - 1], q[i])
  /\ FoldLeft(rememberArchiveOrphanInfo, start, q) = h[Len(q)]

LEMMA RememberLoop ==
  ASSUME NEW start \in Lists, NEW q \in Seq(Orphans)
  PROVE  \E h : RemembersAll(start, q, h)
<1> DEFINE n == Len(q)
           A == Lists
           Op(a, o) == rememberArchiveOrphanInfo(a, o)
           G == [x \in (1 .. n) \X A |-> Op(x[2], q[x[1]])]
           iter == CHOOSE f : f = [s \in SUBSET (1 .. n) |->
                     IF s = {} THEN start ELSE Op(f[s \ {Max(s)}], q[Max(s)])]
<1>0. FoldLeft(rememberArchiveOrphanInfo, start, q) = iter[1 .. n]
  <2>1. DOMAIN q = 1 .. n
    OBVIOUS
  <2> QED BY <2>1 DEF FoldLeft, MapThenFoldSet
<1>1. n \in Nat /\ \A i \in 1 .. n : q[i] \in Orphans
  OBVIOUS
<1>2. \A a \in A, o \in Orphans : Op(a, o) \in A
  BY Remember
<1> HIDE DEF n, A, Op
<1>3. G \in [(1 .. n) \X A -> A] /\ \A i \in 1 .. n, a \in A : G[<<i, a>>] = Op(a, q[i])
  BY <1>1, <1>2
<1> HIDE DEF G
<1>4. PICK f : Folds(n, A, start, G, f)
  <2>1. start \in A
    BY DEF A
  <2> QED BY <1>1, <1>3, <2>1, FoldIter
<1>5. /\ f \in [SUBSET (1 .. n) -> A] /\ f[{}] = start
      /\ \A s \in SUBSET (1 .. n) : s # {} => f[s] = G[<<Max(s), f[s \ {Max(s)}]>>]
  BY <1>4 DEF Folds
<1>6. \A s \in SUBSET (1 .. n) :
        f[s] = IF s = {} THEN start ELSE Op(f[s \ {Max(s)}], q[Max(s)])
  <2> SUFFICES ASSUME NEW s \in SUBSET (1 .. n), s # {}
               PROVE  f[s] = Op(f[s \ {Max(s)}], q[Max(s)])
    BY <1>5
  <2> DEFINE m == Max(s)
             t == s \ {m}
  <2>1. m \in 1 .. n
    BY <1>1, LargestOf
  <2>2. f[s] = G[<<m, f[t]>>] /\ t \in SUBSET (1 .. n)
    BY <1>5
  <2> HIDE DEF m, t
  <2>3. f[s] = Op(f[t], q[m])
    BY <1>3, <1>5, <2>1, <2>2
  <2> QED BY <2>3 DEF m, t
<1>7. f = [s \in SUBSET (1 .. n) |-> IF s = {} THEN start ELSE Op(f[s \ {Max(s)}], q[Max(s)])]
  <2>1. f = [s \in SUBSET (1 .. n) |-> f[s]]
    BY <1>5
  <2> QED BY <1>6, <2>1
<1>8. iter = [s \in SUBSET (1 .. n) |-> IF s = {} THEN start ELSE Op(iter[s \ {Max(s)}], q[Max(s)])]
  BY <1>7, Zenon
<1> HIDE DEF iter
<1>9. Unrolls(n, A, start, G, iter)
  <2>1. {} \in SUBSET (1 .. n)
    OBVIOUS
  <2>2. \A s \in SUBSET (1 .. n) :
          iter[s] = IF s = {} THEN start ELSE Op(iter[s \ {Max(s)}], q[Max(s)])
    BY <1>8, Zenon
  <2>3. iter[{}] = start
    BY <2>1, <2>2
  <2>4. ASSUME NEW s \in SUBSET (1 .. n), s # {}, iter[s \ {Max(s)}] \in A
        PROVE  iter[s] = G[<<Max(s), iter[s \ {Max(s)}]>>]
    <3> DEFINE m == Max(s)
               t == iter[s \ {m}]
    <3>1. m \in 1 .. n /\ t \in A /\ iter[s] = Op(t, q[m])
      BY <1>1, <2>2, <2>4, LargestOf
    <3> HIDE DEF m, t
    <3>2. iter[s] = G[<<m, t>>]
      BY <1>3, <3>1
    <3> QED BY <3>2 DEF m, t
  <2> QED BY <2>3, <2>4 DEF Unrolls
<1>10. PICK h : Loops(n, A, start, G, h) /\ h[n] = iter[1 .. n]
  <2>1. start \in A
    BY DEF A
  <2>2. Reaches(n, A, start, G, iter[1 .. n])
    BY <1>1, <1>3, <1>9, <2>1, FoldLoop
  <2> QED BY <2>2 DEF Reaches
<1>11. h \in [0 .. n -> A] /\ h[0] = start /\ \A i \in 1 .. n : h[i] = G[<<i, h[i - 1]>>]
  BY <1>10 DEF Loops
<1>12. \A i \in 1 .. n : h[i] = Op(h[i - 1], q[i])
  <2>1. \A i \in 1 .. n : i - 1 \in 0 .. n
    BY <1>1
  <2> QED BY <1>3, <1>11, <2>1
<1> QED BY <1>0, <1>10, <1>11, <1>12 DEF RemembersAll, n, A, Op

TreeBlocks == tree.canonical \cup Orphans

Engines == [known : SUBSET TreeBlocks, detached : SUBSET Orphans, fatal : BOOLEAN]

(* Import: what one block changes in an engine. *)
LEMMA Import ==
  ASSUME NEW e \in Engines, NEW b \in TreeBlocks
  PROVE  importPlannedBlock(e, b) \in Engines
<1>1. e.known \cup {b} \in SUBSET TreeBlocks
  BY DEF Engines
<1>2. b \in Orphans => e.detached \cup {b} \in SUBSET Orphans
  BY DEF Engines
<1> QED BY <1>1, <1>2 DEF Engines, importPlannedBlock

(* ImportLoop: the engine while the blocks of q are imported. *)
ImportsAll(start, q, h) ==
  /\ h \in [0 .. Len(q) -> Engines] /\ h[0] = start
  /\ \A i \in 1 .. Len(q) : h[i] = importPlannedBlock(h[i - 1], q[i])
  /\ FoldLeft(importPlannedBlock, start, q) = h[Len(q)]

LEMMA ImportLoop ==
  ASSUME TreeOK, NEW start \in Engines, NEW q \in Seq(TreeBlocks)
  PROVE  \E h : ImportsAll(start, q, h)
<1> DEFINE n == Len(q)
           A == Engines
           Op(a, o) == importPlannedBlock(a, o)
           G == [x \in (1 .. n) \X A |-> Op(x[2], q[x[1]])]
           iter == CHOOSE f : f = [s \in SUBSET (1 .. n) |->
                     IF s = {} THEN start ELSE Op(f[s \ {Max(s)}], q[Max(s)])]
<1>0. FoldLeft(importPlannedBlock, start, q) = iter[1 .. n]
  <2>1. DOMAIN q = 1 .. n
    OBVIOUS
  <2> QED BY <2>1 DEF FoldLeft, MapThenFoldSet
<1>1. n \in Nat /\ \A i \in 1 .. n : q[i] \in TreeBlocks
  OBVIOUS
<1>2. \A a \in A, o \in TreeBlocks : Op(a, o) \in A
  BY Import
<1> HIDE DEF n, A, Op
<1>3. G \in [(1 .. n) \X A -> A] /\ \A i \in 1 .. n, a \in A : G[<<i, a>>] = Op(a, q[i])
  BY <1>1, <1>2
<1> HIDE DEF G
<1>4. PICK f : Folds(n, A, start, G, f)
  <2>1. start \in A
    BY DEF A
  <2> QED BY <1>1, <1>3, <2>1, FoldIter
<1>5. /\ f \in [SUBSET (1 .. n) -> A] /\ f[{}] = start
      /\ \A s \in SUBSET (1 .. n) : s # {} => f[s] = G[<<Max(s), f[s \ {Max(s)}]>>]
  BY <1>4 DEF Folds
<1>6. \A s \in SUBSET (1 .. n) :
        f[s] = IF s = {} THEN start ELSE Op(f[s \ {Max(s)}], q[Max(s)])
  <2> SUFFICES ASSUME NEW s \in SUBSET (1 .. n), s # {}
               PROVE  f[s] = Op(f[s \ {Max(s)}], q[Max(s)])
    BY <1>5
  <2> DEFINE m == Max(s)
             t == s \ {m}
  <2>1. m \in 1 .. n
    BY <1>1, LargestOf
  <2>2. f[s] = G[<<m, f[t]>>] /\ t \in SUBSET (1 .. n)
    BY <1>5
  <2> HIDE DEF m, t
  <2>3. f[s] = Op(f[t], q[m])
    BY <1>3, <1>5, <2>1, <2>2
  <2> QED BY <2>3 DEF m, t
<1>7. f = [s \in SUBSET (1 .. n) |-> IF s = {} THEN start ELSE Op(f[s \ {Max(s)}], q[Max(s)])]
  <2>1. f = [s \in SUBSET (1 .. n) |-> f[s]]
    BY <1>5
  <2> QED BY <1>6, <2>1
<1>8. iter = [s \in SUBSET (1 .. n) |-> IF s = {} THEN start ELSE Op(iter[s \ {Max(s)}], q[Max(s)])]
  BY <1>7, Zenon
<1> HIDE DEF iter
<1>9. Unrolls(n, A, start, G, iter)
  <2>1. {} \in SUBSET (1 .. n)
    OBVIOUS
  <2>2. \A s \in SUBSET (1 .. n) :
          iter[s] = IF s = {} THEN start ELSE Op(iter[s \ {Max(s)}], q[Max(s)])
    BY <1>8, Zenon
  <2>3. iter[{}] = start
    BY <2>1, <2>2
  <2>4. ASSUME NEW s \in SUBSET (1 .. n), s # {}, iter[s \ {Max(s)}] \in A
        PROVE  iter[s] = G[<<Max(s), iter[s \ {Max(s)}]>>]
    <3> DEFINE m == Max(s)
               t == iter[s \ {m}]
    <3>1. m \in 1 .. n /\ t \in A /\ iter[s] = Op(t, q[m])
      BY <1>1, <2>2, <2>4, LargestOf
    <3> HIDE DEF m, t
    <3>2. iter[s] = G[<<m, t>>]
      BY <1>3, <3>1
    <3> QED BY <3>2 DEF m, t
  <2> QED BY <2>3, <2>4 DEF Unrolls
<1>10. PICK h : Loops(n, A, start, G, h) /\ h[n] = iter[1 .. n]
  <2>1. start \in A
    BY DEF A
  <2>2. Reaches(n, A, start, G, iter[1 .. n])
    BY <1>1, <1>3, <1>9, <2>1, FoldLoop
  <2> QED BY <2>2 DEF Reaches
<1>11. h \in [0 .. n -> A] /\ h[0] = start /\ \A i \in 1 .. n : h[i] = G[<<i, h[i - 1]>>]
  BY <1>10 DEF Loops
<1>12. \A i \in 1 .. n : h[i] = Op(h[i - 1], q[i])
  <2>1. \A i \in 1 .. n : i - 1 \in 0 .. n
    BY <1>1
  <2> QED BY <1>3, <1>11, <2>1
<1> QED BY <1>0, <1>10, <1>11, <1>12 DEF ImportsAll, n, A, Op

(* What the attestations of slot s can schedule. *)
Due(s) == {b \in Orphans \cap cache : SlotOf(b) <= s}

Plans(s, M) == [scheduled : SUBSET Due(s), ignored : SUBSET Orphans, missing : SUBSET M]

Schedule(acc, root, known, s, minImportSlot) ==
  LET walk == resolveOrphanChain(root, known, cache, s)
      chain == Range(walk.chain)
      old == {b \in chain : SlotOf(b) < minImportSlot}
  IN  IF root \in acc.scheduled \cup acc.ignored \cup acc.missing THEN acc
      ELSE [scheduled |-> IF chain # {} /\ SlotOf(root) = s
                          THEN acc.scheduled \cup (chain \ old) ELSE acc.scheduled,
            ignored |-> acc.ignored \cup (IF SlotOf(root) = s THEN old ELSE chain \cap {root}),
            missing |-> acc.missing \cup (walk.asked \ cache)]

(* ScheduleOne: what one voted root schedules. *)
LEMMA ScheduleOne ==
  ASSUME TreeOK, NEW s \in Int, NEW known, NEW m, NEW M, NEW acc \in Plans(s, M), NEW root \in Orphans,
         resolveOrphanChain(root, known, cache, s).asked \ cache \subseteq M
  PROVE  Schedule(acc, root, known, s, m) \in Plans(s, M)
<1> DEFINE walk == resolveOrphanChain(root, known, cache, s)
           chain == Range(walk.chain)
           old == {b \in chain : SlotOf(b) < m}
<1>1. chain \subseteq Branch(root).orphans \cap Passes(known, cache, s)
  BY ResolveFacts
<1>2. Branch(root).orphans \subseteq Orphans
  BY BranchFacts
<1>3. chain \subseteq Due(s) /\ walk.asked \ cache \subseteq M
  BY <1>1, <1>2 DEF Passes, Due
<1>4. acc.scheduled \subseteq Due(s) /\ acc.ignored \subseteq Orphans /\ acc.missing \subseteq M
  BY DEF Plans
<1>5. Due(s) \subseteq Orphans /\ old \subseteq chain
  BY DEF Due
<1> HIDE DEF walk, chain, old
<1>6. acc.scheduled \cup (chain \ old) \subseteq Due(s)
      /\ acc.ignored \cup (IF SlotOf(root) = s THEN old ELSE chain \cap {root}) \subseteq Orphans
      /\ acc.missing \cup (walk.asked \ cache) \subseteq M
  BY <1>3, <1>4, <1>5
<1>7. Schedule(acc, root, known, s, m) =
        IF root \in acc.scheduled \cup acc.ignored \cup acc.missing THEN acc
        ELSE [scheduled |-> IF chain # {} /\ SlotOf(root) = s
                            THEN acc.scheduled \cup (chain \ old) ELSE acc.scheduled,
              ignored |-> acc.ignored \cup (IF SlotOf(root) = s THEN old ELSE chain \cap {root}),
              missing |-> acc.missing \cup (walk.asked \ cache)]
  BY DEF Schedule, walk, chain, old
<1> QED BY <1>4, <1>6, <1>7 DEF Plans

(* ScheduleAll: what all voted roots schedule. *)
LEMMA ScheduleAll ==
  ASSUME TreeOK, NEW s \in Int, NEW known, NEW minImportSlot,
         NEW attestations, attestations \subseteq Orphans, NEW M,
         \A o \in attestations : resolveOrphanChain(o, known, cache, s).asked \ cache \subseteq M
  PROVE  orphanImportsForSlotAttestations(attestations, known, s, minImportSlot) \in Plans(s, M)
<1> DEFINE q == SortedRootKeys(attestations \ known)
           start == [scheduled |-> {}, ignored |-> {}, missing |-> {}]
           n == Len(q)
           A == Plans(s, M)
           Op(acc, root) == Schedule(acc, root, known, s, minImportSlot)
           G == [x \in (1 .. n) \X A |-> Op(x[2], q[x[1]])]
           iter == CHOOSE f : f = [t \in SUBSET (1 .. n) |->
                     IF t = {} THEN start ELSE Op(f[t \ {Max(t)}], q[Max(t)])]
<1>q. q \in Seq(attestations)
  <2>1. attestations \ known \subseteq Orphans
    OBVIOUS
  <2>2. q \in Seq(attestations \ known)
    BY <2>1, RootKeysHold
  <2> HIDE DEF q
  <2> QED BY <2>2
<1>s. start \in A
  BY DEF Plans
<1>0. orphanImportsForSlotAttestations(attestations, known, s, minImportSlot) = iter[1 .. n]
  <2>1. DOMAIN q = 1 .. n
    BY <1>q
  <2> QED BY <2>1 DEF orphanImportsForSlotAttestations, FoldLeft, MapThenFoldSet, Schedule
<1> HIDE DEF q, start
<1>1. n \in Nat /\ \A i \in 1 .. n : q[i] \in attestations
  BY <1>q
<1>2. \A a \in A, o \in attestations : Op(a, o) \in A
  BY ScheduleOne
<1> HIDE DEF n, A, Op
<1>3. G \in [(1 .. n) \X A -> A] /\ \A i \in 1 .. n, a \in A : G[<<i, a>>] = Op(a, q[i])
  BY <1>1, <1>2
<1> HIDE DEF G
<1>4. PICK f : Folds(n, A, start, G, f)
  <2>1. start \in A
    BY <1>s
  <2> QED BY <1>1, <1>3, <2>1, FoldIter
<1>5. /\ f \in [SUBSET (1 .. n) -> A] /\ f[{}] = start
      /\ \A t \in SUBSET (1 .. n) : t # {} => f[t] = G[<<Max(t), f[t \ {Max(t)}]>>]
  BY <1>4 DEF Folds
<1>6. \A t \in SUBSET (1 .. n) :
        f[t] = IF t = {} THEN start ELSE Op(f[t \ {Max(t)}], q[Max(t)])
  <2> SUFFICES ASSUME NEW t \in SUBSET (1 .. n), t # {}
               PROVE  f[t] = Op(f[t \ {Max(t)}], q[Max(t)])
    BY <1>5
  <2> DEFINE m == Max(t)
             u == t \ {m}
  <2>1. m \in 1 .. n
    BY <1>1, LargestOf
  <2>2. f[t] = G[<<m, f[u]>>] /\ u \in SUBSET (1 .. n)
    BY <1>5
  <2> HIDE DEF m, u
  <2>3. f[t] = Op(f[u], q[m])
    BY <1>3, <1>5, <2>1, <2>2
  <2> QED BY <2>3 DEF m, u
<1>7. f = [t \in SUBSET (1 .. n) |-> IF t = {} THEN start ELSE Op(f[t \ {Max(t)}], q[Max(t)])]
  <2>1. f = [t \in SUBSET (1 .. n) |-> f[t]]
    BY <1>5
  <2> QED BY <1>6, <2>1
<1>8. iter = [t \in SUBSET (1 .. n) |-> IF t = {} THEN start ELSE Op(iter[t \ {Max(t)}], q[Max(t)])]
  BY <1>7, Zenon
<1> HIDE DEF iter
<1>9. Unrolls(n, A, start, G, iter)
  <2>1. {} \in SUBSET (1 .. n)
    OBVIOUS
  <2>2. \A t \in SUBSET (1 .. n) :
          iter[t] = IF t = {} THEN start ELSE Op(iter[t \ {Max(t)}], q[Max(t)])
    BY <1>8, Zenon
  <2>3. iter[{}] = start
    BY <2>1, <2>2
  <2>4. ASSUME NEW t \in SUBSET (1 .. n), t # {}, iter[t \ {Max(t)}] \in A
        PROVE  iter[t] = G[<<Max(t), iter[t \ {Max(t)}]>>]
    <3> DEFINE m == Max(t)
               u == iter[t \ {m}]
    <3>1. m \in 1 .. n /\ u \in A /\ iter[t] = Op(u, q[m])
      BY <1>1, <2>2, <2>4, LargestOf
    <3> HIDE DEF m, u
    <3>2. iter[t] = G[<<m, u>>]
      BY <1>3, <3>1
    <3> QED BY <3>2 DEF m, u
  <2> QED BY <2>3, <2>4 DEF Unrolls
<1>10. PICK h : Loops(n, A, start, G, h) /\ h[n] = iter[1 .. n]
  <2>1. start \in A
    BY <1>s
  <2>2. Reaches(n, A, start, G, iter[1 .. n])
    BY <1>1, <1>3, <1>9, <2>1, FoldLoop
  <2> QED BY <2>2 DEF Reaches
<1>11. h \in [0 .. n -> A] /\ h[0] = start /\ \A i \in 1 .. n : h[i] = G[<<i, h[i - 1]>>]
  BY <1>10 DEF Loops
<1>12. h[n] \in A
  <2>1. n \in 0 .. n
    BY <1>1
  <2> QED BY <1>11, <2>1
<1> QED BY <1>0, <1>10, <1>12 DEF A
-------------------------------------------------------------------------------
(* The lists of the warm phase.  A slot whose archived orphans all fit on a *)
(* list never loses one.                                                    *)

ListsOK(a) ==
  /\ a \in Lists /\ a.own \subseteq tree.archive /\ a.shared \subseteq tree.archive
  /\ \A x \in a.own : Roomy(x) => x \in a.shared

(* AppendFacts: an orphan of a slot with room is always taken. *)
LEMMA AppendFacts ==
  ASSUME TreeOK, NEW roots, roots \subseteq tree.archive, NEW o \in tree.archive
  PROVE  /\ roots \subseteq appendOrphanRoot(roots, o)
         /\ appendOrphanRoot(roots, o) \subseteq roots \cup {o}
         /\ Roomy(o) => o \in appendOrphanRoot(roots, o)
<1>1. /\ roots \subseteq appendOrphanRoot(roots, o)
      /\ appendOrphanRoot(roots, o) \subseteq roots \cup {o}
  BY DEF appendOrphanRoot
<1>2. ASSUME Roomy(o), o \notin roots PROVE o \in appendOrphanRoot(roots, o)
  <2> DEFINE T == {r \in tree.archive : SlotOf(r) = SlotOf(o)}
             R == {r \in roots : SlotOf(r) = SlotOf(o)}
             V == T \ {o}
  <2>1. R \subseteq V /\ o \in T /\ T \subseteq Orphans
    BY <1>2 DEF TreeOK
  <2>2. IsFiniteSet(T) /\ Cardinality(T) \in Nat
    BY <2>1, Finite
  <2> HIDE DEF T, R
  <2>3. IsFiniteSet(V) /\ Cardinality(V) = Cardinality(T) - 1
    BY <2>1, <2>2, FS_RemoveElement
  <2> HIDE DEF V
  <2>4. Cardinality(R) <= Cardinality(V) /\ IsFiniteSet(R)
    BY <2>1, <2>3, FS_Subset
  <2>5. Cardinality(R) \in Nat
    BY <2>4, FS_CardinalityType
  <2>6. Cardinality(T) <= MaxArchiveOrphansPerSlot
    BY <1>2 DEF Roomy, T
  <2>7. Cardinality(R) < MaxArchiveOrphansPerSlot
    BY <2>2, <2>3, <2>4, <2>5, <2>6, SlotPlanAssumption
  <2> QED BY <2>7 DEF appendOrphanRoot, R
<1> QED BY <1>1, <1>2

(* RememberStep: one entry. *)
LEMMA RememberStep ==
  ASSUME TreeOK, NEW a, ListsOK(a), NEW o \in tree.archive,
         NEW b, b = rememberArchiveOrphanInfo(a, o)
  PROVE  /\ ListsOK(b)
         /\ a.own \subseteq b.own /\ b.own \subseteq a.own \cup {o}
         /\ a.shared \subseteq b.shared /\ b.shared \subseteq a.shared \cup {o}
         /\ Roomy(o) => o \in b.own
<1> DEFINE p == appendOrphanRoot(a.own, o)
           s == appendOrphanRoot(a.shared, o)
<1>0. /\ a \in Lists /\ a.own \subseteq tree.archive /\ a.shared \subseteq tree.archive
      /\ \A x \in a.own : Roomy(x) => x \in a.shared
  BY DEF ListsOK
<1>1. a.own \subseteq p /\ p \subseteq a.own \cup {o} /\ (Roomy(o) => o \in p)
  BY <1>0, AppendFacts
<1>2. a.shared \subseteq s /\ s \subseteq a.shared \cup {o} /\ (Roomy(o) => o \in s)
  BY <1>0, AppendFacts
<1>3. b \in Lists
  BY <1>0, Remember DEF TreeOK
<1>4. b = IF p = a.own THEN a ELSE [own |-> p, shared |-> s]
  BY DEF rememberArchiveOrphanInfo
<1> HIDE DEF p, s
<1>5. CASE p = a.own
  BY <1>0, <1>1, <1>4, <1>5 DEF ListsOK
<1>6. CASE p # a.own
  <2>1. b.own = p /\ b.shared = s
    BY <1>4, <1>6
  <2>2. \A x \in p : Roomy(x) => x \in s
    BY <1>0, <1>1, <1>2
  <2>3. p \subseteq tree.archive /\ s \subseteq tree.archive
    BY <1>0, <1>1, <1>2
  <2>4. ListsOK(b)
    BY <1>3, <2>1, <2>2, <2>3 DEF ListsOK
  <2> QED BY <1>1, <1>2, <2>1, <2>4
<1> QED BY <1>5, <1>6

(* RememberFacts: a sequence of entries. *)
LEMMA RememberFacts ==
  ASSUME TreeOK, NEW start, ListsOK(start), NEW q \in Seq(tree.archive),
         NEW r, r = FoldLeft(rememberArchiveOrphanInfo, start, q)
  PROVE  /\ ListsOK(r)
         /\ start.own \subseteq r.own /\ r.own \subseteq start.own \cup Range(q)
         /\ start.shared \subseteq r.shared /\ r.shared \subseteq start.shared \cup Range(q)
         /\ \A x \in Range(q) : Roomy(x) => x \in r.own
<1> DEFINE n == Len(q)
<1>1. q \in Seq(Orphans) /\ n \in Nat /\ DOMAIN q = 1 .. n /\ \A i \in 1 .. n : q[i] \in tree.archive
  BY DEF TreeOK
<1>2. Range(q) = {q[i] : i \in 1 .. n}
  BY <1>1 DEF Range
<1>3. PICK h : RemembersAll(start, q, h)
  <2>1. start \in Lists
    BY DEF ListsOK
  <2> QED BY <1>1, <2>1, RememberLoop
<1>4. /\ h[0] = start /\ r = h[n]
      /\ \A i \in 1 .. n : h[i] = rememberArchiveOrphanInfo(h[i - 1], q[i])
  BY <1>3 DEF RemembersAll
<1> HIDE DEF n
<1> DEFINE Inv(i) == /\ ListsOK(h[i])
                     /\ start.own \subseteq h[i].own /\ h[i].own \subseteq start.own \cup Range(q)
                     /\ start.shared \subseteq h[i].shared /\ h[i].shared \subseteq start.shared \cup Range(q)
                     /\ \A j \in 1 .. i : Roomy(q[j]) => q[j] \in h[i].own
           S == {i \in 0 .. n : Inv(i)}
<1>5. 0 \in S
  BY <1>1, <1>4
<1>6. ASSUME NEW i \in 1 .. n, i - 1 \in S PROVE i \in S
  <2> DEFINE a == h[i - 1]
             b == h[i]
             o == q[i]
  <2>1. Inv(i - 1)
    BY <1>6
  <2>2. ListsOK(a) /\ o \in tree.archive /\ b = rememberArchiveOrphanInfo(a, o) /\ o \in Range(q)
    BY <1>1, <1>2, <1>4, <2>1
  <2>3. /\ start.own \subseteq a.own /\ a.own \subseteq start.own \cup Range(q)
        /\ start.shared \subseteq a.shared /\ a.shared \subseteq start.shared \cup Range(q)
        /\ \A j \in 1 .. i - 1 : Roomy(q[j]) => q[j] \in a.own
    BY <2>1
  <2> HIDE DEF a, b, o
  <2>4. /\ ListsOK(b)
        /\ a.own \subseteq b.own /\ b.own \subseteq a.own \cup {o}
        /\ a.shared \subseteq b.shared /\ b.shared \subseteq a.shared \cup {o}
        /\ Roomy(o) => o \in b.own
    BY <2>2, RememberStep
  <2>5. \A j \in 1 .. i : Roomy(q[j]) => q[j] \in b.own
    <3> SUFFICES ASSUME NEW j \in 1 .. i, Roomy(q[j]) PROVE q[j] \in b.own
      OBVIOUS
    <3>1. j = i \/ j \in 1 .. i - 1
      BY <1>1
    <3>2. CASE j = i
      <4>1. q[j] = o
        BY <3>2 DEF o
      <4> QED BY <2>4, <4>1
    <3>3. CASE j \in 1 .. i - 1
      BY <2>3, <2>4, <3>3
    <3> QED BY <3>1, <3>2, <3>3
  <2>6. i \in 0 .. n
    BY <1>1
  <2>7. /\ start.own \subseteq b.own /\ b.own \subseteq start.own \cup Range(q)
        /\ start.shared \subseteq b.shared /\ b.shared \subseteq start.shared \cup Range(q)
    BY <2>2, <2>3, <2>4
  <2> QED BY <2>4, <2>5, <2>6, <2>7 DEF b
<1>7. Inv(n)
  <2>1. \A i \in 0 .. n : i \in S
    <3> HIDE DEF S
    <3> QED BY <1>1, <1>5, <1>6, CountUp
  <2>2. n \in 0 .. n
    BY <1>1
  <2> QED BY <2>1, <2>2
<1> QED BY <1>2, <1>4, <1>7
-------------------------------------------------------------------------------
(* The imports of a slot.                                                   *)

(* ImportStep: one block. *)
LEMMA ImportStep ==
  ASSUME NEW a \in Engines, ~ a.fatal, NEW b \in TreeBlocks,
         b \notin Orphans => Parent(b) \in a.known,
         NEW e, e = importPlannedBlock(a, b)
  PROVE  /\ e \in Engines /\ ~ e.fatal
         /\ a.known \subseteq e.known /\ e.known \subseteq a.known \cup {b}
         /\ a.detached \subseteq e.detached
         /\ Parent(b) \in a.known => b \in e.known /\ e.detached = a.detached
         /\ e.detached \subseteq a.detached \cup ({b} \cap Orphans)
<1>0. e \in Engines
  BY Import
<1>1. CASE b \in a.known
  <2>1. e = a
    BY <1>1 DEF importPlannedBlock
  <2> QED BY <1>0, <1>1, <2>1
<1>2. CASE b \notin a.known /\ Parent(b) \in a.known
  <2>1. e = [a EXCEPT !.known = @ \cup {b}]
    BY <1>2 DEF importPlannedBlock
  <2>2. e.known = a.known \cup {b} /\ e.detached = a.detached /\ e.fatal = a.fatal
    BY <2>1 DEF Engines
  <2> QED BY <1>0, <2>2
<1>3. CASE b \notin a.known /\ Parent(b) \notin a.known
  <2>1. b \in Orphans
    BY <1>3
  <2>2. e = [a EXCEPT !.detached = @ \cup {b}]
    BY <1>3, <2>1 DEF importPlannedBlock
  <2>3. e.known = a.known /\ e.detached = a.detached \cup {b} /\ e.fatal = a.fatal
    BY <2>2 DEF Engines
  <2> QED BY <1>0, <1>3, <2>1, <2>3
<1> QED BY <1>1, <1>2, <1>3

(* ImportFacts: a sequence of blocks whose canonical ones have parents. *)
LEMMA ImportFacts ==
  ASSUME TreeOK, NEW start \in Engines, ~ start.fatal, NEW q \in Seq(TreeBlocks),
         \A b \in Range(q) : b \notin Orphans => Parent(b) \in start.known,
         NEW r, r = FoldLeft(importPlannedBlock, start, q)
  PROVE  /\ r \in Engines /\ ~ r.fatal
         /\ start.known \subseteq r.known /\ r.known \subseteq start.known \cup Range(q)
         /\ \A b \in Range(q) : Parent(b) \in start.known => b \in r.known
         /\ \A o \in r.detached :
              o \notin start.detached => o \in Range(q) \cap Orphans /\ Parent(o) \notin start.known
<1> DEFINE n == Len(q)
<1>1. n \in Nat /\ DOMAIN q = 1 .. n /\ \A i \in 1 .. n : q[i] \in TreeBlocks
  OBVIOUS
<1>2. Range(q) = {q[i] : i \in 1 .. n}
  BY <1>1 DEF Range
<1>3. PICK h : ImportsAll(start, q, h)
  BY ImportLoop
<1>4. /\ h[0] = start /\ r = h[n]
      /\ \A i \in 1 .. n : h[i] = importPlannedBlock(h[i - 1], q[i])
  BY <1>3 DEF ImportsAll
<1> HIDE DEF n
<1> DEFINE Inv(i) == /\ h[i] \in Engines /\ ~ h[i].fatal
                     /\ start.known \subseteq h[i].known /\ h[i].known \subseteq start.known \cup Range(q)
                     /\ \A j \in 1 .. i : Parent(q[j]) \in start.known => q[j] \in h[i].known
                     /\ \A o \in h[i].detached :
                          o \notin start.detached => o \in Range(q) \cap Orphans /\ Parent(o) \notin start.known
           S == {i \in 0 .. n : Inv(i)}
<1>5. 0 \in S
  BY <1>1, <1>4
<1>6. ASSUME NEW i \in 1 .. n, i - 1 \in S PROVE i \in S
  <2> DEFINE a == h[i - 1]
             e == h[i]
             b == q[i]
  <2>1. Inv(i - 1)
    BY <1>6
  <2>2. a \in Engines /\ ~ a.fatal /\ b \in TreeBlocks /\ e = importPlannedBlock(a, b) /\ b \in Range(q)
    BY <1>1, <1>2, <1>4, <2>1
  <2>3. /\ start.known \subseteq a.known /\ a.known \subseteq start.known \cup Range(q)
        /\ \A j \in 1 .. i - 1 : Parent(q[j]) \in start.known => q[j] \in a.known
        /\ \A o \in a.detached :
              o \notin start.detached => o \in Range(q) \cap Orphans /\ Parent(o) \notin start.known
    BY <2>1
  <2> HIDE DEF a, e, b
  <2>4. b \notin Orphans => Parent(b) \in a.known
    BY <2>2, <2>3
  <2>5. /\ e \in Engines /\ ~ e.fatal
        /\ a.known \subseteq e.known /\ e.known \subseteq a.known \cup {b}
        /\ a.detached \subseteq e.detached
        /\ Parent(b) \in a.known => b \in e.known /\ e.detached = a.detached
        /\ e.detached \subseteq a.detached \cup ({b} \cap Orphans)
    BY <2>2, <2>4, ImportStep
  <2>6. \A j \in 1 .. i : Parent(q[j]) \in start.known => q[j] \in e.known
    <3> SUFFICES ASSUME NEW j \in 1 .. i, Parent(q[j]) \in start.known PROVE q[j] \in e.known
      OBVIOUS
    <3>1. j = i \/ j \in 1 .. i - 1
      BY <1>1
    <3>2. CASE j = i
      <4>1. q[j] = b
        BY <3>2 DEF b
      <4> QED BY <2>3, <2>5, <4>1
    <3>3. CASE j \in 1 .. i - 1
      BY <2>3, <2>5, <3>3
    <3> QED BY <3>1, <3>2, <3>3
  <2>7. i \in 0 .. n
    BY <1>1
  <2>8. \A o \in e.detached :
              o \notin start.detached => o \in Range(q) \cap Orphans /\ Parent(o) \notin start.known
    <3> SUFFICES ASSUME NEW o \in e.detached
                 PROVE  o \notin start.detached => o \in Range(q) \cap Orphans /\ Parent(o) \notin start.known
      OBVIOUS
    <3>1. CASE o \in a.detached
      BY <2>3, <3>1
    <3>2. CASE o \notin a.detached
      <4>1. o = b /\ o \in Orphans /\ e.detached # a.detached
        BY <2>5, <3>2
      <4>2. Parent(b) \notin start.known
        BY <2>3, <2>5, <4>1
      <4> QED BY <2>2, <4>1, <4>2
    <3> QED BY <3>1, <3>2
  <2>9. start.known \subseteq e.known /\ e.known \subseteq start.known \cup Range(q)
    BY <2>2, <2>3, <2>5
  <2> QED BY <2>5, <2>6, <2>7, <2>8, <2>9 DEF e
<1>7. Inv(n)
  <2>1. \A i \in 0 .. n : i \in S
    <3> HIDE DEF S
    <3> QED BY <1>1, <1>5, <1>6, CountUp
  <2>2. n \in 0 .. n
    BY <1>1
  <2> QED BY <2>1, <2>2
<1> QED BY <1>2, <1>4, <1>7

(* SeqWiden: a sequence over a set is one over a larger set. *)
LEMMA SeqWiden ==
  ASSUME NEW S, NEW T, S \subseteq T, NEW q \in Seq(S)
  PROVE  q \in Seq(T)
OBVIOUS

(* VotesAreOrphans: attestations name orphans. *)
LEMMA VotesAreOrphans ==
  /\ \A b : Attestations(b) \subseteq Orphans
  /\ \A s : AttestationsForSlot(s) \subseteq Orphans
  /\ \A sources, s : attestationsFromSources(sources, s) \subseteq Orphans
BY DEF Attestations, AttestationsForSlot, attestationsFromSources

(* BuildFacts: the imports of slot s are its canonical block, every orphan  *)
(* of the slot that is listed and cached, and cached orphans of slots up to *)
(* s.                                                                       *)
LEMMA BuildFacts ==
  ASSUME TreeOK, index \subseteq Orphans, NEW s \in Nat, NEW m,
         NEW plan, plan = BuildSlot(s, m)
  PROVE  /\ plan.imports \in Seq(TreeBlocks)
         /\ Range(plan.imports) \subseteq CanonicalAt({s}) \cup Due(s)
         /\ CanonicalAt({s}) \subseteq Range(plan.imports)
         /\ {o \in index \cap cache : SlotOf(o) = s} \subseteq Range(plan.imports)
         /\ plan.missing \subseteq Orphans
<1> DEFINE archived == archiveOrphanInfosBySlot(index, cache, s)
           attestations == IF tree.mode = "first-seen" THEN AttestationsForSlot(s)
                           ELSE attestationsFromSources(planSourcesForSlot(s), s + 1)
           attested == orphanImportsForSlotAttestations(attestations, archived, s, m + 1)
           c == canonicalImport(s)
           a == Sorted(archived)
           t == Sorted(attested.scheduled)
<1>0. plan.imports = c \o a \o t /\ plan.missing = attested.missing
  BY DEF BuildSlot
<1>1. archived = {o \in index \cap cache : SlotOf(o) = s} /\ archived \subseteq Orphans
  BY DEF archiveOrphanInfosBySlot
<1>2. archived \subseteq Due(s)
  BY <1>1, OrphanSlots DEF Due
<1>3. attestations \subseteq Orphans
  BY VotesAreOrphans
<1> HIDE DEF archived, attestations
<1>4. attested \in Plans(s, Orphans)
  <2>1. s \in Int /\ \A o \in attestations : o \in Orphans
    BY <1>3
  <2>2. \A o \in attestations : resolveOrphanChain(o, archived, cache, s).asked \subseteq Branch(o).orphans
    BY <2>1, ResolveFacts
  <2>3. \A o \in attestations : resolveOrphanChain(o, archived, cache, s).asked \ cache \subseteq Orphans
    BY <2>1, <2>2, BranchFacts
  <2> QED BY <1>3, <2>1, <2>3, ScheduleAll
<1>5. attested.scheduled \subseteq Due(s) /\ attested.missing \subseteq Orphans /\ Due(s) \subseteq Orphans
  BY <1>4 DEF Plans, Due
<1> HIDE DEF attested
<1>6. c \in Seq(CanonicalAt({s})) /\ Range(c) = CanonicalAt({s})
  BY CanonicalHolds
<1>7. a \in Seq(archived) /\ Range(a) = archived
  BY <1>1, SortedHolds
<1>8. t \in Seq(attested.scheduled) /\ Range(t) = attested.scheduled
  <2>1. attested.scheduled \subseteq Orphans
    BY <1>5
  <2> QED BY <2>1, SortedHolds
<1>9. CanonicalAt({s}) \subseteq TreeBlocks /\ archived \subseteq TreeBlocks /\ attested.scheduled \subseteq TreeBlocks
  BY <1>1, <1>5 DEF CanonicalAt, TreeBlocks
<1> HIDE DEF c, a, t
<1>10. c \in Seq(TreeBlocks) /\ a \in Seq(TreeBlocks) /\ t \in Seq(TreeBlocks)
  BY <1>6, <1>7, <1>8, <1>9, SeqWiden
<1>11. c \o a \in Seq(TreeBlocks) /\ Range(c \o a) = Range(c) \cup Range(a)
  BY <1>10, RangeConcatenation
<1> DEFINE d == c \o a
<1>12. d \o t \in Seq(TreeBlocks) /\ Range(d \o t) = Range(d) \cup Range(t)
  <2>1. d \in Seq(TreeBlocks)
    BY <1>11
  <2> HIDE DEF d
  <2> QED BY <1>10, <2>1, RangeConcatenation
<1>13. Range(plan.imports) = Range(c) \cup Range(a) \cup Range(t)
  BY <1>0, <1>11, <1>12
<1> QED BY <1>0, <1>1, <1>2, <1>5, <1>6, <1>7, <1>8, <1>12, <1>13
-------------------------------------------------------------------------------
(* The warm phase.                                                          *)

(* CapType: the look-ahead of a mode. *)
LEMMA CapType == Cap \in Nat
BY SlotPlanAssumption DEF Cap

(* RootsFacts: the roots that the attestations of a range vote for. *)
LEMMA RootsFacts ==
  ASSUME TreeOK, NEW from \in Int, NEW to \in Int, NEW listed
  PROVE  /\ unknownRoots(from, to, listed) \subseteq Orphans
         /\ unknownRoots(from, to, {}) \subseteq unknownRoots(from, to, listed)
         /\ \A v \in unknownRoots(from, to, {}) : SlotOf(v) <= to + Cap
<1>1. unknownRoots(from, to, listed) \subseteq Orphans
  BY DEF unknownRoots, Attestations, AttestationsForSlot
<1>2. unknownRoots(from, to, {}) \subseteq unknownRoots(from, to, listed)
  BY DEF unknownRoots
<1>3. ASSUME NEW v \in unknownRoots(from, to, {}) PROVE SlotOf(v) <= to + Cap
  <2>0. v \in Orphans /\ SlotOf(v) \in Nat /\ SlotOf(v) = tree.slot[v] /\ Cap \in Nat
    BY <1>1, <1>2, <1>3, OrphanSlots, CapType
  <2>1. CASE tree.mode = "first-seen"
    <3>1. PICK s \in from .. to - 1 : v \in AttestationsForSlot(s)
      BY <1>3, <2>1 DEF unknownRoots
    <3>2. tree.slot[v] = s
      BY <3>1 DEF AttestationsForSlot
    <3> QED BY <2>0, <3>1, <3>2
  <2>2. CASE tree.mode # "first-seen"
    <3>1. PICK b \in CanonicalAt(from .. to + Cap) : v \in Attestations(b)
      BY <1>3, <2>2 DEF unknownRoots
    <3>2. b \in tree.canonical /\ b \in from .. to + Cap /\ tree.carrier[v] = b
      BY <3>1 DEF CanonicalAt, Attestations
    <3>3. b \in Nat /\ SlotOf(b) = b
      BY <3>2, BlockSlots
    <3>4. b # NoBlock
      BY <3>3 DEF NoBlock
    <3>5. SlotOf(b) > tree.slot[v]
      BY <2>0, <3>2, <3>4 DEF TreeOK
    <3>6. b <= to + Cap
      BY <2>0, <3>2
    <3> QED BY <2>0, <3>3, <3>5, <3>6
  <2> QED BY <2>1, <2>2
<1> QED BY <1>1, <1>2, <1>3

(* The archive has the whole branch of o. *)
Complete(o) == Branch(o).orphans \subseteq tree.archive

(* The parts of a warm range: what the archive lists for it, the lists with *)
(* these remembered, the roots that are walked and the chains they give.    *)
WarmWalk(o, loadEnd) == resolveOrphanChain(o, {}, tree.archive, loadEnd)

NoLists == [own |-> {}, shared |-> index]

WarmsBy(from, to, r, listed, afterList, roots, chains) ==
  /\ listed = IF tree.mode = "greedy"
              THEN {o \in tree.archive : SlotOf(o) \in from .. to + Cap} ELSE {}
  /\ Sorted(listed) \in Seq(tree.archive) /\ Range(Sorted(listed)) = listed
  /\ ListsOK(NoLists) /\ ListsOK(afterList)
  /\ afterList = FoldLeft(rememberArchiveOrphanInfo, NoLists, Sorted(listed))
  /\ roots = unknownRoots(from, to, afterList.own) /\ roots \subseteq Orphans
  /\ chains \in Seq(tree.archive)
  /\ Range(chains) = UNION {Range(WarmWalk(o, to + Cap).chain) : o \in roots}
  /\ r.lists = FoldLeft(rememberArchiveOrphanInfo, afterList, chains)
  /\ r.cached = listed \cup UNION {WarmWalk(o, to + Cap).asked \cap tree.archive : o \in roots}

WarmedBetween(from, to) ==
  LET loadEnd == to + Cap
      listed == IF tree.mode = "greedy" THEN ListIndexBySlotRange(from, loadEnd) ELSE {}
      start == [own |-> {}, shared |-> index]
      afterList == FoldLeft(rememberArchiveOrphanInfo, start, Sorted(listed))
      roots == unknownRoots(from, to, afterList.own)
      walks == [o \in roots |-> resolveOrphanChain(o, {}, tree.archive, loadEnd)]
      chains == FlattenSeq([i \in 1 .. Cardinality(roots) |->
                              walks[SortedRootKeys(roots)[i]].chain])
  IN  [cached |-> listed \cup UNION {walks[o].asked \cap tree.archive : o \in roots},
       lists |-> FoldLeft(rememberArchiveOrphanInfo, afterList, chains)]

(* WarmParts: a warm range has these parts. *)
LEMMA WarmParts ==
  ASSUME TreeOK, index \subseteq tree.archive, NEW w \in Workers, NEW r, r = WarmRange(w),
         NEW from, from = WarmupSlot[w] + 1, NEW to, to = EndSlot[w]
  PROVE  \E listed, afterList, roots, chains : WarmsBy(from, to, r, listed, afterList, roots, chains)
<1> DEFINE loadEnd == to + Cap
           listed == IF tree.mode = "greedy" THEN ListIndexBySlotRange(from, loadEnd) ELSE {}
           start == NoLists
           afterList == FoldLeft(rememberArchiveOrphanInfo, start, Sorted(listed))
           roots == unknownRoots(from, to, afterList.own)
           Walk(o) == WarmWalk(o, loadEnd)
           walks == [o \in roots |-> Walk(o)]
           keys == SortedRootKeys(roots)
           ss == [i \in 1 .. Cardinality(roots) |-> walks[keys[i]].chain]
           chains == FlattenSeq(ss)
           lists == FoldLeft(rememberArchiveOrphanInfo, afterList, chains)
<1>0. r = [cached |-> listed \cup UNION {walks[o].asked \cap tree.archive : o \in roots},
           lists |-> lists]
  <2>1. r = WarmedBetween(WarmupSlot[w] + 1, EndSlot[w])
    BY DEF WarmRange, WarmedBetween
  <2>2. r = WarmedBetween(from, to)
    BY <2>1
  <2> QED BY <2>2 DEF WarmedBetween, WarmWalk, NoLists
<1>1. from \in Nat /\ to \in Nat /\ loadEnd \in Nat /\ loadEnd = to + Cap
  BY CapType, SlotPlanAssumption DEF Slots
<1> HIDE DEF loadEnd
<1>2. /\ listed \subseteq tree.archive /\ listed \subseteq Orphans
      /\ listed = IF tree.mode = "greedy"
                  THEN {o \in tree.archive : SlotOf(o) \in from .. loadEnd} ELSE {}
  <2>1. ListIndexBySlotRange(from, loadEnd) = {o \in tree.archive : SlotOf(o) \in from .. loadEnd}
    BY ListHolds
  <2>2. tree.archive \subseteq Orphans
    BY DEF TreeOK
  <2> QED BY <2>1, <2>2
<1> HIDE DEF listed
<1>3. ListsOK(start)
  <2>1. start.own = {} /\ start.shared = index /\ start \in Lists
    BY DEF Lists, NoLists, TreeOK
  <2> QED BY <2>1 DEF ListsOK
<1> HIDE DEF start
<1>4. Sorted(listed) \in Seq(tree.archive) /\ Range(Sorted(listed)) = listed
  BY <1>2, SortedHolds, SeqWiden
<1>5. ListsOK(afterList)
  BY <1>3, <1>4, RememberFacts
<1> HIDE DEF afterList
<1>6. roots \subseteq Orphans
  <2>1. from \in Int /\ to \in Int
    BY <1>1
  <2> QED BY <2>1, RootsFacts
<1> HIDE DEF roots
<1>7. ASSUME NEW o \in roots
      PROVE  walks[o] = Walk(o) /\ Walk(o).chain \in Seq(tree.archive)
  <2> DEFINE C == Walk(o).chain
             Go == Passes({}, tree.archive, loadEnd)
  <2>0. o \in Orphans /\ loadEnd \in Int
    BY <1>1, <1>6
  <2>1. C \in Seq(Orphans) /\ Range(C) \subseteq Go
    BY <2>0, ResolveFacts DEF WarmWalk
  <2>2. walks[o] = Walk(o)
    OBVIOUS
  <2>3. Range(C) \subseteq tree.archive
    BY <2>1 DEF Passes
  <2> HIDE DEF Walk, C
  <2>4. \A i \in 1 .. Len(C) : C[i] \in tree.archive
    BY <2>1, <2>3 DEF Range
  <2>5. C \in Seq(tree.archive)
    BY <2>1, <2>4
  <2> QED BY <2>2, <2>5 DEF C
<1> HIDE DEF Walk
<1>8. chains \in Seq(tree.archive) /\ Range(chains) = UNION {Range(Walk(o).chain) : o \in roots}
  <2> DEFINE N == Cardinality(roots)
  <2>1. N \in Nat /\ keys \in Seq(roots) /\ Range(keys) = roots /\ Len(keys) = N
    BY <1>6, Finite, RootKeysHold
  <2> HIDE DEF keys, N
  <2>2. (\A i \in 1 .. N : keys[i] \in roots) /\ \A o \in roots : \E i \in 1 .. N : keys[i] = o
    BY <2>1 DEF Range
  <2>3. \A i \in 1 .. N : walks[keys[i]].chain = Walk(keys[i]).chain /\ Walk(keys[i]).chain \in Seq(tree.archive)
    BY <1>7, <2>2
  <2> HIDE DEF walks
  <2>4. ss \in Seq(Seq(tree.archive)) /\ Len(ss) = N /\ \A i \in 1 .. N : ss[i] = Walk(keys[i]).chain
    <3> DEFINE Q == Seq(tree.archive)
    <3>1. \A i \in 1 .. N : walks[keys[i]].chain \in Q
      BY <2>3
    <3> HIDE DEF Q
    <3>2. ss \in [1 .. N -> Q] /\ \A i \in 1 .. N : ss[i] = walks[keys[i]].chain
      BY <3>1 DEF N
    <3> HIDE DEF ss
    <3>3. ss \in Seq(Q) /\ Len(ss) = N
      BY <2>1, <3>2
    <3> QED BY <2>3, <3>2, <3>3 DEF Q
  <2> HIDE DEF ss
  <2>5. chains \in Seq(tree.archive) /\ Range(chains) = UNION {Range(ss[i]) : i \in 1 .. Len(ss)}
    BY <2>4, FlattenHolds
  <2>6. UNION {Range(ss[i]) : i \in 1 .. Len(ss)} = UNION {Range(Walk(o).chain) : o \in roots}
    <3> DEFINE P == [o \in roots |-> Range(Walk(o).chain)]
    <3>1. \A o \in roots : P[o] = Range(Walk(o).chain)
      OBVIOUS
    <3> HIDE DEF P
    <3>2. \A i \in 1 .. N : Range(ss[i]) = P[keys[i]]
      BY <2>2, <2>4, <3>1
    <3>3. UNION {Range(ss[i]) : i \in 1 .. N} = UNION {P[o] : o \in roots}
      BY <2>2, <3>2
    <3>4. {P[o] : o \in roots} = {Range(Walk(o).chain) : o \in roots}
      BY <3>1
    <3>5. Len(ss) = N
      BY <2>4
    <3> QED BY <3>3, <3>4, <3>5, Zenon
  <2> QED BY <2>5, <2>6
<1> HIDE DEF chains, walks
<1>9. r.lists = lists /\ r.cached = listed \cup UNION {Walk(o).asked \cap tree.archive : o \in roots}
  BY <1>0, <1>7
<1>10. WarmsBy(from, to, r, listed, afterList, roots, chains)
  <2>1. listed = IF tree.mode = "greedy"
                 THEN {o \in tree.archive : SlotOf(o) \in from .. to + Cap} ELSE {}
    BY <1>2 DEF loadEnd
  <2>2. /\ Sorted(listed) \in Seq(tree.archive) /\ Range(Sorted(listed)) = listed
        /\ ListsOK(NoLists) /\ ListsOK(afterList)
        /\ afterList = FoldLeft(rememberArchiveOrphanInfo, NoLists, Sorted(listed))
    BY <1>3, <1>4, <1>5 DEF start, afterList
  <2>3. roots = unknownRoots(from, to, afterList.own) /\ roots \subseteq Orphans
    BY <1>6 DEF roots
  <2>4. /\ chains \in Seq(tree.archive)
        /\ Range(chains) = UNION {Range(WarmWalk(o, to + Cap).chain) : o \in roots}
    BY <1>8 DEF Walk, loadEnd
  <2>5. /\ r.lists = FoldLeft(rememberArchiveOrphanInfo, afterList, chains)
        /\ r.cached = listed \cup UNION {WarmWalk(o, to + Cap).asked \cap tree.archive : o \in roots}
    BY <1>9 DEF Walk, loadEnd
  <2> HIDE DEF lists
  <2> QED BY <2>1, <2>2, <2>3, <2>4, <2>5 DEF WarmsBy
<1> QED BY <1>10

(* WarmFacts: what warming the range of a worker caches and lists. *)
LEMMA WarmFacts ==
  ASSUME TreeOK, index \subseteq tree.archive, NEW w \in Workers, NEW r, r = WarmRange(w),
         NEW from, from = WarmupSlot[w] + 1, NEW to, to = EndSlot[w]
  PROVE  /\ r.cached \subseteq tree.archive
         /\ index \subseteq r.lists.shared /\ r.lists.shared \subseteq index \cup r.cached
         /\ tree.mode = "greedy" =>
              \A o \in tree.archive : SlotOf(o) \in from .. to + Cap =>
                 o \in r.cached /\ (Roomy(o) => o \in r.lists.shared)
         /\ \A v \in unknownRoots(from, to, {}) :
              Complete(v) /\ WithinLimits(v) => Branch(v).orphans \subseteq r.cached \cap r.lists.shared
         /\ tree.mode # "greedy" =>
              \A o \in r.cached :
                 Complete(o) /\ BranchesWithinLimits(o)
                    => Branch(o).orphans \subseteq r.cached \cap r.lists.shared
<1> DEFINE loadEnd == to + Cap
           Walk(o) == WarmWalk(o, loadEnd)
           lists == r.lists
           Go == Passes({}, tree.archive, loadEnd)
<1>0. PICK listed, afterList, roots, chains : WarmsBy(from, to, r, listed, afterList, roots, chains)
  BY WarmParts
<1>1. from \in Nat /\ to \in Nat /\ loadEnd \in Nat /\ loadEnd = to + Cap
  BY CapType, SlotPlanAssumption DEF Slots
<1>2. /\ listed \subseteq tree.archive /\ listed \subseteq Orphans
      /\ tree.mode = "greedy" => \A o \in tree.archive : SlotOf(o) \in from .. loadEnd => o \in listed
      /\ tree.mode # "greedy" => listed = {}
  BY <1>0 DEF WarmsBy, TreeOK
<1>3. /\ roots = unknownRoots(from, to, afterList.own) /\ roots \subseteq Orphans
      /\ chains \in Seq(tree.archive) /\ Range(chains) = UNION {Range(Walk(o).chain) : o \in roots}
      /\ lists = FoldLeft(rememberArchiveOrphanInfo, afterList, chains)
      /\ r.cached = listed \cup UNION {Walk(o).asked \cap tree.archive : o \in roots}
  BY <1>0 DEF WarmsBy
<1>4. /\ Sorted(listed) \in Seq(tree.archive) /\ Range(Sorted(listed)) = listed /\ ListsOK(NoLists)
      /\ afterList = FoldLeft(rememberArchiveOrphanInfo, NoLists, Sorted(listed))
  BY <1>0 DEF WarmsBy
<1> HIDE DEF loadEnd, Walk
<1>5. /\ ListsOK(afterList)
      /\ afterList.own \subseteq listed
      /\ index \subseteq afterList.shared /\ afterList.shared \subseteq index \cup listed
      /\ \A x \in listed : Roomy(x) => x \in afterList.own
  <2>1. NoLists.own = {} /\ NoLists.shared = index
    BY DEF NoLists
  <2>2. /\ ListsOK(afterList)
        /\ NoLists.own \subseteq afterList.own /\ afterList.own \subseteq NoLists.own \cup Range(Sorted(listed))
        /\ NoLists.shared \subseteq afterList.shared
        /\ afterList.shared \subseteq NoLists.shared \cup Range(Sorted(listed))
        /\ \A x \in Range(Sorted(listed)) : Roomy(x) => x \in afterList.own
    BY <1>4, RememberFacts
  <2> QED BY <1>4, <2>1, <2>2
<1>6. /\ unknownRoots(from, to, {}) \subseteq roots
      /\ \A v \in unknownRoots(from, to, {}) : SlotOf(v) <= loadEnd
      /\ tree.mode # "greedy" => roots = unknownRoots(from, to, {})
  <2>1. from \in Int /\ to \in Int
    BY <1>1
  <2>2. tree.mode # "greedy" => afterList.own = {}
    BY <1>2, <1>5
  <2> QED BY <1>1, <1>3, <2>1, <2>2, RootsFacts
<1>7. ASSUME NEW o \in roots
      PROVE  /\ Range(Walk(o).chain) \subseteq Branch(o).orphans \cap Go
             /\ Range(Walk(o).chain) \subseteq Walk(o).asked
             /\ Walk(o).asked \subseteq Branch(o).orphans
             /\ Branch(o).orphans \subseteq Go /\ Cardinality(Branch(o).orphans) <= MaxOrphanWalk
                  => Range(Walk(o).chain) = Branch(o).orphans
             /\ \A a \in Walk(o).asked : Branch(a).orphans \subseteq Go => Branch(o).orphans \subseteq Go
  <2>1. o \in Orphans /\ loadEnd \in Int
    BY <1>1, <1>3
  <2> QED BY <2>1, ResolveFacts DEF Walk, WarmWalk
<1>9. /\ ListsOK(lists)
      /\ afterList.own \subseteq lists.own
      /\ afterList.shared \subseteq lists.shared /\ lists.shared \subseteq afterList.shared \cup Range(chains)
      /\ \A x \in Range(chains) : Roomy(x) => x \in lists.own
  BY <1>3, <1>5, RememberFacts
<1> HIDE DEF lists
<1>10. \A x \in lists.own : Roomy(x) => x \in lists.shared
  BY <1>9 DEF ListsOK
<1>12. Range(chains) \subseteq r.cached
  <2> SUFFICES ASSUME NEW o \in roots, NEW x \in Range(Walk(o).chain) PROVE x \in r.cached
    BY <1>3
  <2>1. Range(Walk(o).chain) \subseteq Walk(o).asked /\ Range(Walk(o).chain) \subseteq Go /\ Go \subseteq tree.archive
    BY <1>7 DEF Passes
  <2> HIDE DEF Go
  <2>2. x \in Walk(o).asked \cap tree.archive
    BY <2>1
  <2> QED BY <1>3, <2>2
<1>13. r.cached \subseteq tree.archive
  BY <1>2, <1>3
<1>14. index \subseteq lists.shared /\ lists.shared \subseteq index \cup r.cached
  BY <1>5, <1>9, <1>3, <1>12
<1>15. ASSUME tree.mode = "greedy", NEW o \in tree.archive, SlotOf(o) \in from .. to + Cap
       PROVE  o \in r.cached /\ (Roomy(o) => o \in lists.shared)
  <2>1. o \in listed
    BY <1>1, <1>2, <1>15
  <2> QED BY <1>5, <1>9, <1>10, <1>3, <2>1
<1>16. ASSUME NEW v \in roots, SlotOf(v) <= loadEnd, Branch(v).orphans \subseteq Go, WithinLimits(v)
       PROVE  Branch(v).orphans \subseteq r.cached \cap lists.shared
  <2>1. Cardinality(Branch(v).orphans) <= MaxOrphanWalk /\ \A a \in Branch(v).orphans : Roomy(a)
    BY <1>16 DEF WithinLimits, Roomy
  <2>2. Range(Walk(v).chain) = Branch(v).orphans
    BY <1>7, <1>16, <2>1
  <2>3. Branch(v).orphans \subseteq Range(chains)
    BY <1>3, <2>2
  <2> QED BY <1>9, <1>10, <1>12, <2>1, <2>3
<1>17. ASSUME NEW v \in Orphans, SlotOf(v) <= loadEnd, Complete(v) PROVE Branch(v).orphans \subseteq Go
  <2> SUFFICES ASSUME NEW a \in Branch(v).orphans PROVE a \in Go
    OBVIOUS
  <2>1. a \in Orphans /\ SlotOf(a) <= SlotOf(v)
    BY BranchFacts
  <2>2. SlotOf(a) \in Nat /\ SlotOf(v) \in Nat
    BY <2>1, OrphanSlots
  <2>3. SlotOf(a) <= loadEnd
    BY <1>1, <1>17, <2>1, <2>2
  <2> QED BY <1>17, <2>1, <2>3 DEF Complete, Passes
<1>18. ASSUME NEW v \in unknownRoots(from, to, {}), Complete(v), WithinLimits(v)
       PROVE  Branch(v).orphans \subseteq r.cached \cap lists.shared
  BY <1>3, <1>6, <1>16, <1>17, <1>18
<1>19. ASSUME tree.mode # "greedy", NEW o \in r.cached, Complete(o), BranchesWithinLimits(o)
       PROVE  Branch(o).orphans \subseteq r.cached \cap lists.shared
  <2>1. PICK v \in roots : o \in Walk(v).asked \cap tree.archive
    BY <1>2, <1>3, <1>19
  <2>2. v \in Orphans /\ SlotOf(v) <= loadEnd
    BY <1>3, <1>6, <1>19
  <2>3. o \in Branch(v).orphans /\ o \in Orphans
    BY <1>7, <2>1 DEF TreeOK
  <2>4. WithinLimits(v)
    BY <1>19, <2>2, <2>3 DEF BranchesWithinLimits
  <2>5. SlotOf(o) <= loadEnd
    <3>1. SlotOf(o) <= SlotOf(v) /\ SlotOf(o) \in Nat /\ SlotOf(v) \in Nat
      BY <2>2, <2>3, BranchFacts, OrphanSlots
    <3> QED BY <1>1, <2>2, <3>1
  <2>6. Branch(o).orphans \subseteq Go
    BY <1>17, <1>19, <2>3, <2>5
  <2>7. Branch(v).orphans \subseteq Go
    BY <1>7, <2>1, <2>6
  <2>8. Branch(v).orphans \subseteq r.cached \cap lists.shared
    BY <1>16, <2>2, <2>4, <2>7
  <2> QED BY <2>2, <2>3, <2>8, SubBranch
<1> QED BY <1>3, <1>13, <1>14, <1>15, <1>18, <1>19 DEF lists
-------------------------------------------------------------------------------
(* Nothing that depends only on the tree changes.                           *)

(* Fixed: what depends only on the tree. *)
LEMMA Fixed ==
  ASSUME tree' = tree
  PROVE  /\ \A o : Branch(o)' = Branch(o)
         /\ \A o : SlotOf(o)' = SlotOf(o)
         /\ \A s : CanonicalAt(s)' = CanonicalAt(s)
         /\ Cap' = Cap
         /\ \A from, to : unknownRoots(from, to, {})' = unknownRoots(from, to, {})
         /\ \A o : Complete(o)' <=> Complete(o)
         /\ \A o : Roomy(o)' <=> Roomy(o)
         /\ \A o : WithinLimits(o)' <=> WithinLimits(o)
         /\ \A o : BranchesWithinLimits(o)' <=> BranchesWithinLimits(o)
         /\ \A w, o : Attachable(w, o)' <=> Attachable(w, o)
         /\ TreeOK' <=> TreeOK
         /\ TreeBlocks' = TreeBlocks
<1>1. \A o : Branch(o)' = Branch(o)
  BY DEF Branch
<1>2. \A o : SlotOf(o)' = SlotOf(o)
  BY DEF SlotOf
<1>3. \A s : CanonicalAt(s)' = CanonicalAt(s)
  BY DEF CanonicalAt
<1>4. Cap' = Cap
  BY DEF Cap
<1>5. \A from, to : unknownRoots(from, to, {})' = unknownRoots(from, to, {})
  BY DEF unknownRoots, Attestations, AttestationsForSlot, CanonicalAt, Cap
<1>6. \A o : Complete(o)' <=> Complete(o)
  BY <1>1 DEF Complete
<1>7. \A o : Roomy(o)' <=> Roomy(o)
  BY DEF Roomy, SlotOf
<1>8. \A o : WithinLimits(o)' <=> WithinLimits(o)
  BY <1>1, <1>7 DEF WithinLimits
<1>9. \A o : BranchesWithinLimits(o)' <=> BranchesWithinLimits(o)
  BY <1>1, <1>8 DEF BranchesWithinLimits
<1>10. \A w, o : Attachable(w, o)' <=> Attachable(w, o)
  BY <1>1 DEF Attachable
<1>11. TreeOK' <=> TreeOK
  BY DEF TreeOK, SlotOf
<1>12. TreeBlocks' = TreeBlocks
  BY DEF TreeBlocks
<1> QED BY <1>1, <1>2, <1>3, <1>4, <1>5, <1>6, <1>7, <1>8, <1>9, <1>10, <1>11, <1>12
-------------------------------------------------------------------------------
(* The inductive invariant.                                                 *)

PlanTypes ==
  /\ TreeOK
  /\ tree.mode \in Modes /\ tree.carrier \in [Orphans -> Blocks \cup {NoBlock}]
  /\ cold \subseteq Workers /\ cache \subseteq tree.archive /\ index \subseteq cache
  /\ next \in [Workers -> Nat]
  /\ \A w \in Workers : next[w] \in WarmupSlot[w] + 1 .. EndSlot[w]
  /\ forkChoice \in [Workers -> SUBSET TreeBlocks]
  /\ missing \in [Workers -> SUBSET Orphans]
  /\ detached \in [Workers -> SUBSET Orphans]
  /\ status \in {"warm", "serve", "failed"}

(* The phases: a run that failed did so before all ranges were warm. *)
Phases ==
  /\ status = "serve" => cold = {}
  /\ status = "failed" => cold # {}
  /\ status = "warm" => /\ cold # {} \/ Workers = {}
                        /\ \A w \in Workers : next[w] = WarmupSlot[w] + 1

(* The list holds the whole branch of whatever the cache holds, *)
CacheListed ==
  tree.mode # "greedy" /\ status # "failed" =>
    \A o \in cache : Complete(o) /\ BranchesWithinLimits(o) => Branch(o).orphans \subseteq index

(* of whatever a warm range votes for, *)
VotesListed ==
  \A w \in Workers \ cold :
    \A v \in unknownRoots(WarmupSlot[w] + 1, EndSlot[w], {}) :
      Complete(v) /\ WithinLimits(v) => Branch(v).orphans \subseteq index

(* and, in greedy mode, every archived orphan of a warm range. *)
RangesListed ==
  tree.mode = "greedy" =>
    \A w \in Workers \ cold : \A o \in tree.archive :
      SlotOf(o) \in WarmupSlot[w] + 1 .. EndSlot[w] + Cap /\ Roomy(o) => o \in index

(* An engine holds the canonical chain from its checkpoint on, *)
ChainHeld ==
  \A w \in Workers : CanonicalAt(WarmupSlot[w] .. next[w] - 1) \subseteq forkChoice[w]

(* and every orphan that it can attach and whose branch is listed. *)
ListedHeld ==
  status = "serve" =>
    \A w \in Workers, o \in Orphans :
      Attachable(w, o) /\ Branch(o).orphans \subseteq index /\ SlotOf(o) < next[w]
        => o \in forkChoice[w]

PlanInv ==
  /\ PlanTypes /\ Phases
  /\ CacheListed /\ VotesListed /\ RangesListed
  /\ ChainHeld /\ ListedHeld /\ OnlyDetachedSkipped

(* PlanInit: the invariant holds at first. *)
LEMMA PlanInit == Init => PlanInv
<1> SUFFICES ASSUME Init PROVE PlanInv
  OBVIOUS
<1> DEFINE At(slot, b) == IF b \in Orphans THEN slot[b] ELSE b
           Tree(canonical, slot, parent, carrier, archive, mode) ==
             /\ \A o \in Orphans : carrier[o] # NoBlock => At(slot, carrier[o]) > slot[o]
             /\ tree = [mode |-> mode, canonical |-> canonical, slot |-> slot,
                        parent |-> parent, carrier |-> carrier, archive |-> archive]
<1>a. PICK canonical \in SUBSET Slots, slot \in [Orphans -> 1 .. MaxSlot - 1] :
        /\ \A w \in Workers : WarmupSlot[w] \in canonical
        /\ \E parent \in [Orphans -> canonical \cup Orphans] :
             /\ \A o \in Orphans : At(slot, parent[o]) < slot[o]
             /\ \E carrier \in [Orphans -> canonical \cup Orphans \cup {NoBlock}],
                   archive \in SUBSET Orphans, mode \in Modes :
                  Tree(canonical, slot, parent, carrier, archive, mode)
  BY Zenon DEF Init
<1>b. PICK parent \in [Orphans -> canonical \cup Orphans] :
        /\ \A o \in Orphans : At(slot, parent[o]) < slot[o]
        /\ \E carrier \in [Orphans -> canonical \cup Orphans \cup {NoBlock}],
              archive \in SUBSET Orphans, mode \in Modes :
             Tree(canonical, slot, parent, carrier, archive, mode)
  BY <1>a, Zenon
<1>1. PICK carrier \in [Orphans -> canonical \cup Orphans \cup {NoBlock}],
           archive \in SUBSET Orphans, mode \in Modes :
        Tree(canonical, slot, parent, carrier, archive, mode)
  BY <1>b, Zenon
<1>2. /\ cold = Workers /\ cache = {} /\ index = {} /\ status = "warm"
      /\ next = [w \in Workers |-> WarmupSlot[w] + 1]
      /\ forkChoice = [w \in Workers |-> {WarmupSlot[w]}]
      /\ missing = [w \in Workers |-> {}]
      /\ detached = [w \in Workers |-> {}]
  BY DEF Init
<1>3. /\ tree.mode = mode /\ tree.canonical = canonical /\ tree.slot = slot
      /\ tree.parent = parent /\ tree.carrier = carrier /\ tree.archive = archive
  BY <1>1
<1>4. TreeOK
  <2>1. \A b : SlotOf(b) = IF b \in Orphans THEN slot[b] ELSE b
    BY <1>3 DEF SlotOf
  <2>2. slot \in [Orphans -> Slots]
    BY SlotPlanAssumption DEF Slots
  <2> QED BY <1>1, <1>a, <1>b, <1>3, <2>1, <2>2 DEF TreeOK
<1>5. PlanTypes
  <2>1. tree.carrier \in [Orphans -> Blocks \cup {NoBlock}]
    BY <1>3 DEF Blocks
  <2>2. \A w \in Workers : /\ WarmupSlot[w] \in TreeBlocks /\ WarmupSlot[w] + 1 \in Nat
                           /\ WarmupSlot[w] + 1 \in WarmupSlot[w] + 1 .. EndSlot[w]
    BY <1>a, <1>3, SlotPlanAssumption DEF TreeBlocks, Slots
  <2>3. next \in [Workers -> Nat] /\ \A w \in Workers : next[w] \in WarmupSlot[w] + 1 .. EndSlot[w]
    BY <1>2, <2>2
  <2>4. forkChoice \in [Workers -> SUBSET TreeBlocks]
    BY <1>2, <2>2
  <2>5. missing \in [Workers -> SUBSET Orphans] /\ detached \in [Workers -> SUBSET Orphans]
    BY <1>2
  <2> QED BY <1>2, <1>3, <1>4, <2>1, <2>3, <2>4, <2>5 DEF PlanTypes
<1>6. Phases
  BY <1>2 DEF Phases
<1>7. CacheListed /\ VotesListed /\ RangesListed /\ ListedHeld
  BY <1>2 DEF CacheListed, VotesListed, RangesListed, ListedHeld
<1>8. ChainHeld
  <2> SUFFICES ASSUME NEW w \in Workers, NEW b \in CanonicalAt(WarmupSlot[w] .. next[w] - 1)
               PROVE  b \in forkChoice[w]
    BY DEF ChainHeld
  <2>1. b \in WarmupSlot[w] .. (WarmupSlot[w] + 1) - 1 /\ WarmupSlot[w] \in Nat
    BY <1>2, SlotPlanAssumption DEF CanonicalAt, Slots
  <2>2. b = WarmupSlot[w]
    BY <2>1
  <2> QED BY <1>2, <2>2
<1>9. OnlyDetachedSkipped
  BY <1>2 DEF OnlyDetachedSkipped
<1> QED BY <1>5, <1>6, <1>7, <1>8, <1>9 DEF PlanInv

(* WarmKeeps: warming a range. *)
LEMMA WarmKeeps ==
  ASSUME PlanInv, NEW w \in Workers, Warm(w)
  PROVE  PlanInv'
<1> DEFINE r == WarmRange(w)
<1>0. PlanTypes /\ Phases /\ CacheListed /\ VotesListed /\ RangesListed /\ ChainHeld /\ OnlyDetachedSkipped
  BY DEF PlanInv
<1>1. /\ status = "warm" /\ cold # {} /\ w = Min(cold)
      /\ cold' = cold \ {w} /\ cache' = cache \cup r.cached /\ index' = r.lists.shared
      /\ status' = (IF cold' = {} THEN "serve" ELSE "warm")
      /\ tree' = tree /\ next' = next /\ forkChoice' = forkChoice /\ missing' = missing
      /\ detached' = detached
  BY <1>0 DEF Warm, Phases
<1>2. TreeOK /\ index \subseteq tree.archive /\ cache \subseteq tree.archive /\ index \subseteq cache
  BY <1>0 DEF PlanTypes
<1>3. /\ r.cached \subseteq tree.archive
      /\ index \subseteq r.lists.shared /\ r.lists.shared \subseteq index \cup r.cached
      /\ tree.mode = "greedy" =>
           \A o \in tree.archive : SlotOf(o) \in WarmupSlot[w] + 1 .. EndSlot[w] + Cap =>
              o \in r.cached /\ (Roomy(o) => o \in r.lists.shared)
      /\ \A v \in unknownRoots(WarmupSlot[w] + 1, EndSlot[w], {}) :
           Complete(v) /\ WithinLimits(v) => Branch(v).orphans \subseteq r.cached \cap r.lists.shared
      /\ tree.mode # "greedy" =>
           \A o \in r.cached :
              Complete(o) /\ BranchesWithinLimits(o)
                 => Branch(o).orphans \subseteq r.cached \cap r.lists.shared
  BY <1>2, WarmFacts
<1> HIDE DEF r
<1>4. index \subseteq index' /\ cache \subseteq cache' /\ r.cached \subseteq cache' /\ index' = r.lists.shared
      /\ \A u \in Workers \ cold' : u \in Workers \ cold \/ u = w
  BY <1>1, <1>3
<1>5. PlanTypes'
  <2>1. TreeOK' /\ TreeBlocks' = TreeBlocks
    BY <1>1, <1>2, Fixed
  <2>2. cold' \subseteq Workers /\ cache' \subseteq tree.archive /\ index' \subseteq cache' /\ status' \in {"warm", "serve", "failed"}
    BY <1>0, <1>1, <1>2, <1>3 DEF PlanTypes
  <2> QED BY <1>0, <1>1, <2>1, <2>2 DEF PlanTypes
<1>6. Phases'
  BY <1>0, <1>1 DEF Phases
<1>7. CacheListed'
  <2> SUFFICES ASSUME tree.mode # "greedy", NEW o \in cache', Complete(o), BranchesWithinLimits(o)
               PROVE  Branch(o).orphans \subseteq index'
    BY <1>1, Fixed DEF CacheListed
  <2>1. CASE o \in cache
    <3>1. Branch(o).orphans \subseteq index
      BY <1>0, <1>1, <2>1 DEF CacheListed
    <3> QED BY <1>4, <3>1
  <2>2. CASE o \in r.cached
    BY <1>3, <1>4, <2>2
  <2> QED BY <1>1, <2>1, <2>2
<1>8. VotesListed'
  <2> SUFFICES ASSUME NEW u \in Workers \ cold', NEW v \in unknownRoots(WarmupSlot[u] + 1, EndSlot[u], {}),
                      Complete(v), WithinLimits(v)
               PROVE  Branch(v).orphans \subseteq index'
    BY <1>1, Fixed DEF VotesListed
  <2>1. CASE u = w
    BY <1>3, <1>4, <2>1
  <2>2. CASE u \in Workers \ cold
    <3>1. Branch(v).orphans \subseteq index
      BY <1>0, <2>2 DEF VotesListed
    <3> QED BY <1>4, <3>1
  <2> QED BY <1>4, <2>1, <2>2
<1>9. RangesListed'
  <2> SUFFICES ASSUME tree.mode = "greedy", NEW u \in Workers \ cold', NEW o \in tree.archive,
                      SlotOf(o) \in WarmupSlot[u] + 1 .. EndSlot[u] + Cap, Roomy(o)
               PROVE  o \in index'
    BY <1>1, Fixed DEF RangesListed
  <2>1. CASE u = w
    BY <1>3, <1>4, <2>1
  <2>2. CASE u \in Workers \ cold
    <3>1. o \in index
      BY <1>0, <2>2 DEF RangesListed
    <3> QED BY <1>4, <3>1
  <2> QED BY <1>4, <2>1, <2>2
<1>10. ChainHeld'
  <2>1. \A s : CanonicalAt(s)' = CanonicalAt(s)
    BY <1>1, Fixed
  <2> QED BY <1>0, <1>1, <2>1 DEF ChainHeld
<1>11. ListedHeld'
  <2> SUFFICES ASSUME NEW u \in Workers, NEW o \in Orphans, Attachable(u, o), SlotOf(o) < next[u]
               PROVE  FALSE
    BY <1>1, Fixed DEF ListedHeld
  <2>1. Branch(o).base >= WarmupSlot[u]
    BY DEF Attachable
  <2>2. Branch(o).base < SlotOf(o) /\ Branch(o).base \in Nat /\ SlotOf(o) \in Nat
    BY <1>2, BranchFacts, OrphanSlots
  <2>3. next[u] = WarmupSlot[u] + 1 /\ WarmupSlot[u] \in Nat
    BY <1>0, <1>1, SlotPlanAssumption DEF Phases, Slots
  <2> QED BY <2>1, <2>2, <2>3
<1>12. OnlyDetachedSkipped'
  <2>1. /\ \A u, o : Attachable(u, o)' <=> Attachable(u, o)
        /\ \A o : BranchesWithinLimits(o)' <=> BranchesWithinLimits(o)
    BY <1>1, Fixed
  <2> QED BY <1>0, <1>1, <2>1 DEF OnlyDetachedSkipped
<1> QED BY <1>5, <1>6, <1>7, <1>8, <1>9, <1>10, <1>11, <1>12 DEF PlanInv

(* WarmErrKeeps: a failure while warming. *)
LEMMA WarmErrKeeps ==
  ASSUME PlanInv, NEW w \in Workers, WarmErr(w)
  PROVE  PlanInv'
<1>0. PlanTypes /\ Phases /\ VotesListed /\ RangesListed /\ ChainHeld /\ OnlyDetachedSkipped
  BY DEF PlanInv
<1>1. /\ status = "warm" /\ cold # {} /\ status' = "failed" /\ cold' = cold
      /\ tree' = tree /\ index' = index /\ next' = next /\ forkChoice' = forkChoice
      /\ missing' = missing /\ detached' = detached
  BY <1>0 DEF WarmErr, Phases
<1>2. TreeOK /\ index \subseteq tree.archive /\ cache \subseteq tree.archive /\ index \subseteq cache
  BY <1>0 DEF PlanTypes
<1>3. cache \subseteq cache' /\ cache' \subseteq tree.archive
  <2> DEFINE r == WarmRange(w)
  <2>1. r.cached \subseteq tree.archive
    BY <1>2, WarmFacts
  <2>2. PICK some \in SUBSET r.cached : cache' = cache \cup some
    BY DEF WarmErr
  <2> HIDE DEF r
  <2> QED BY <1>2, <2>1, <2>2
<1>4. PlanTypes'
  <2>1. TreeOK' /\ TreeBlocks' = TreeBlocks
    BY <1>1, <1>2, Fixed
  <2>2. index' \subseteq cache'
    BY <1>1, <1>2, <1>3
  <2> QED BY <1>0, <1>1, <1>3, <2>1, <2>2 DEF PlanTypes
<1>5. Phases' /\ CacheListed' /\ ListedHeld'
  BY <1>1 DEF Phases, CacheListed, ListedHeld
<1>6. VotesListed'
  BY <1>0, <1>1, Fixed DEF VotesListed
<1>7. RangesListed'
  BY <1>0, <1>1, Fixed DEF RangesListed
<1>8. ChainHeld'
  <2>1. \A s : CanonicalAt(s)' = CanonicalAt(s)
    BY <1>1, Fixed
  <2> QED BY <1>0, <1>1, <2>1 DEF ChainHeld
<1>9. OnlyDetachedSkipped'
  <2>1. /\ \A u, o : Attachable(u, o)' <=> Attachable(u, o)
        /\ \A o : BranchesWithinLimits(o)' <=> BranchesWithinLimits(o)
    BY <1>1, Fixed
  <2> QED BY <1>0, <1>1, <2>1 DEF OnlyDetachedSkipped
<1> QED BY <1>4, <1>5, <1>6, <1>7, <1>8, <1>9 DEF PlanInv

(* BaseHeld: an engine holds the canonical blocks between its checkpoint    *)
(* and the next slot.                                                       *)
LEMMA BaseHeld ==
  ASSUME PlanInv, NEW w \in Workers, NEW b \in tree.canonical, b >= WarmupSlot[w], b < next[w]
  PROVE  b \in forkChoice[w]
<1>1. TreeOK /\ next[w] \in Nat /\ WarmupSlot[w] \in Nat
  BY SlotPlanAssumption DEF PlanInv, PlanTypes, Slots
<1>2. b \in Nat
  BY <1>1, BlockSlots
<1>3. b \in WarmupSlot[w] .. next[w] - 1
  BY <1>1, <1>2
<1> QED BY <1>3 DEF PlanInv, ChainHeld, CanonicalAt

(* CanonicalParentHeld: the parent of the next canonical block is held. *)
LEMMA CanonicalParentHeld ==
  ASSUME PlanInv, NEW w \in Workers, next[w] \in tree.canonical
  PROVE  Parent(next[w]) \in forkChoice[w]
<1> DEFINE s == next[w]
           C == CanonicalAt(0 .. s - 1)
           p == Max(C)
<1>1. TreeOK /\ s \in Nat /\ WarmupSlot[w] \in Nat /\ s \in WarmupSlot[w] + 1 .. EndSlot[w]
      /\ EndSlot[w] \in Nat
  BY SlotPlanAssumption DEF PlanInv, PlanTypes, Slots
<1>2. s \notin Orphans
  BY <1>1, BlockSlots
<1> HIDE DEF s
<1>3. Parent(s) = p
  BY <1>2 DEF Parent
<1>4. C \in SUBSET (0 .. s) /\ WarmupSlot[w] \in C
  <2>1. WarmupSlot[w] \in tree.canonical
    BY <1>1 DEF TreeOK
  <2>2. WarmupSlot[w] \in 0 .. s - 1 /\ 0 .. s - 1 \subseteq 0 .. s
    BY <1>1
  <2> QED BY <2>1, <2>2 DEF CanonicalAt
<1>5. p \in C /\ \A y \in C : y <= p
  <2> HIDE DEF C
  <2> QED BY <1>1, <1>4, LargestNat
<1> HIDE DEF p
<1>6. p \in tree.canonical /\ p \in 0 .. s - 1 /\ WarmupSlot[w] <= p
  BY <1>4, <1>5 DEF CanonicalAt
<1>7. p >= WarmupSlot[w] /\ p < next[w]
  BY <1>1, <1>6 DEF s
<1> QED BY <1>3, <1>6, <1>7, BaseHeld DEF s

(* OrphanParentHeld: so is the parent of an orphan that can be attached and *)
(* whose branch is listed.                                                  *)
LEMMA OrphanParentHeld ==
  ASSUME PlanInv, status = "serve", NEW w \in Workers, NEW o \in Orphans, Attachable(w, o),
         Branch(o).orphans \subseteq index, SlotOf(o) <= next[w]
  PROVE  Parent(o) \in forkChoice[w]
<1> DEFINE p == tree.parent[o]
<1>1. TreeOK /\ next[w] \in Nat /\ WarmupSlot[w] \in Nat
  BY SlotPlanAssumption DEF PlanInv, PlanTypes, Slots
<1>2. Parent(o) = p
  BY DEF Parent
<1>3. /\ o \in Branch(o).orphans
      /\ Branch(o).base \in tree.canonical /\ Branch(o).base \in Nat
      /\ p \in Orphans => p \in Branch(o).orphans
      /\ p \notin Orphans => p = Branch(o).base
      /\ Branch(o).base < SlotOf(o)
  BY <1>1, BranchFacts
<1>4. SlotOf(o) \in Nat /\ SlotOf(o) = tree.slot[o]
  BY <1>1, OrphanSlots
<1>5. Branch(o).base >= WarmupSlot[w] /\ Branch(o).orphans \subseteq tree.archive
  BY DEF Attachable
<1>6. CASE p \in Orphans
  <2>1. Branch(p).orphans \subseteq Branch(o).orphans /\ Branch(p).base = Branch(o).base
    BY <1>1, <1>3, <1>6, SubBranch
  <2>2. Attachable(w, p)
    BY <1>5, <2>1 DEF Attachable
  <2>3. SlotOf(p) < SlotOf(o) /\ SlotOf(p) \in Nat
    BY <1>1, <1>4, <1>6, OrphanSlots DEF TreeOK
  <2>4. SlotOf(p) < next[w] /\ Branch(p).orphans \subseteq index
    BY <1>1, <1>4, <2>1, <2>3
  <2>5. p \in forkChoice[w]
    BY <1>6, <2>2, <2>4 DEF PlanInv, ListedHeld
  <2> QED BY <1>2, <2>5
<1>7. CASE p \notin Orphans
  <2>1. Branch(o).base < next[w]
    BY <1>1, <1>3, <1>4
  <2>2. Branch(o).base \in forkChoice[w]
    BY <1>3, <1>5, <2>1, BaseHeld
  <2> QED BY <1>2, <1>3, <1>7, <2>2
<1> QED BY <1>6, <1>7

(* InRangeListed: an orphan of a branch that a worker can attach lies in    *)
(* its range, so greedy mode lists it.                                      *)
LEMMA InRangeListed ==
  ASSUME PlanInv, status = "serve", tree.mode = "greedy", NEW w \in Workers, NEW o \in Orphans,
         Attachable(w, o), \A a \in Branch(o).orphans : Roomy(a), SlotOf(o) < EndSlot[w]
  PROVE  Branch(o).orphans \subseteq index
<1>1. TreeOK /\ WarmupSlot[w] \in Nat /\ EndSlot[w] \in Nat /\ Cap \in Nat /\ cold = {}
  BY SlotPlanAssumption, CapType DEF PlanInv, PlanTypes, Phases, Slots
<1> SUFFICES ASSUME NEW a \in Branch(o).orphans PROVE a \in index
  OBVIOUS
<1>2. Branch(o).base < SlotOf(a) /\ SlotOf(a) <= SlotOf(o) /\ Branch(o).base \in Nat /\ a \in Orphans
  BY <1>1, BranchFacts
<1>3. SlotOf(a) \in Nat /\ SlotOf(o) \in Nat
  BY <1>1, <1>2, OrphanSlots
<1>4. Branch(o).base >= WarmupSlot[w] /\ a \in tree.archive
  BY DEF Attachable
<1>5. SlotOf(a) \in WarmupSlot[w] + 1 .. EndSlot[w] + Cap
  BY <1>1, <1>2, <1>3, <1>4
<1> QED BY <1>1, <1>4, <1>5 DEF PlanInv, RangesListed

(* RunSlotKeeps: a turn of an engine's slot loop. *)
LEMMA RunSlotKeeps ==
  ASSUME PlanInv, NEW w \in Workers, RunSlot(w)
  PROVE  PlanInv'
<1> DEFINE s == next[w]
           plan == BuildSlot(s, WarmupSlot[w])
           start == [known |-> forkChoice[w], detached |-> detached[w], fatal |-> FALSE]
           engine == FoldLeft(importPlannedBlock, start, plan.imports)
<1>0. PlanTypes /\ Phases /\ CacheListed /\ VotesListed /\ RangesListed /\ ChainHeld /\ ListedHeld /\ OnlyDetachedSkipped
  BY DEF PlanInv
<1>1. /\ status = "serve" /\ s < EndSlot[w]
      /\ forkChoice' = [forkChoice EXCEPT ![w] = engine.known]
      /\ detached' = [detached EXCEPT ![w] = engine.detached]
      /\ missing' = [missing EXCEPT ![w] = plan.missing]
      /\ status' = (IF engine.fatal THEN "failed" ELSE "serve")
      /\ next' = [next EXCEPT ![w] = IF engine.fatal THEN @ ELSE @ + 1]
      /\ tree' = tree /\ cold' = cold /\ cache' = cache /\ index' = index
  BY DEF RunSlot
<1>2. /\ TreeOK /\ index \subseteq Orphans /\ index \subseteq cache /\ cache \subseteq tree.archive
      /\ s \in Nat /\ s \in WarmupSlot[w] + 1 .. EndSlot[w] /\ cold = {}
      /\ WarmupSlot[w] \in Nat /\ EndSlot[w] \in Nat
  <2>1. TreeOK /\ index \subseteq cache /\ cache \subseteq tree.archive
    BY <1>0 DEF PlanTypes
  <2>2. tree.archive \subseteq Orphans
    BY <2>1 DEF TreeOK
  <2>3. s \in Nat /\ s \in WarmupSlot[w] + 1 .. EndSlot[w]
    BY <1>0 DEF PlanTypes
  <2>4. cold = {}
    BY <1>0, <1>1 DEF Phases
  <2>5. WarmupSlot[w] \in Nat /\ EndSlot[w] \in Nat
    BY SlotPlanAssumption DEF Slots
  <2> QED BY <2>1, <2>2, <2>3, <2>4, <2>5
<1> HIDE DEF s
<1>3. /\ plan.imports \in Seq(TreeBlocks)
      /\ Range(plan.imports) \subseteq CanonicalAt({s}) \cup Due(s)
      /\ CanonicalAt({s}) \subseteq Range(plan.imports)
      /\ {o \in index \cap cache : SlotOf(o) = s} \subseteq Range(plan.imports)
      /\ plan.missing \subseteq Orphans
  BY <1>2, BuildFacts
<1> HIDE DEF plan
<1>4. start \in Engines /\ ~ start.fatal /\ start.known = forkChoice[w] /\ start.detached = detached[w]
  BY <1>0 DEF PlanTypes, Engines
<1> HIDE DEF start
<1>5. \A b \in Range(plan.imports) : b \notin Orphans => Parent(b) \in start.known
  <2> SUFFICES ASSUME NEW b \in Range(plan.imports), b \notin Orphans PROVE Parent(b) \in start.known
    OBVIOUS
  <2>1. b \in CanonicalAt({s})
    BY <1>3 DEF Due
  <2>2. b = s /\ s \in tree.canonical
    BY <2>1 DEF CanonicalAt
  <2>3. Parent(s) \in forkChoice[w]
    BY <2>2, CanonicalParentHeld DEF s
  <2> QED BY <1>4, <2>2, <2>3
<1>6. /\ engine \in Engines /\ ~ engine.fatal
      /\ start.known \subseteq engine.known
      /\ \A b \in Range(plan.imports) : Parent(b) \in start.known => b \in engine.known
      /\ \A o \in engine.detached :
           o \notin start.detached => o \in Range(plan.imports) \cap Orphans /\ Parent(o) \notin start.known
  BY <1>2, <1>3, <1>4, <1>5, ImportFacts
<1> HIDE DEF engine
<1>7. /\ engine.known \subseteq TreeBlocks /\ engine.detached \subseteq Orphans
  BY <1>6 DEF Engines
<1>8. /\ status' = "serve"
      /\ \A u \in Workers : next'[u] = IF u = w THEN s + 1 ELSE next[u]
      /\ \A u \in Workers : forkChoice'[u] = IF u = w THEN engine.known ELSE forkChoice[u]
      /\ \A u \in Workers : detached'[u] = IF u = w THEN engine.detached ELSE detached[u]
  BY <1>0, <1>1, <1>6 DEF PlanTypes, s
<1>9. PlanTypes'
  <2>1. TreeOK' /\ TreeBlocks' = TreeBlocks
    BY <1>1, <1>2, Fixed
  <2>2. next' \in [Workers -> Nat] /\ \A u \in Workers : next'[u] \in WarmupSlot[u] + 1 .. EndSlot[u]
    <3>1. s + 1 \in Nat /\ s + 1 \in WarmupSlot[w] + 1 .. EndSlot[w]
      BY <1>1, <1>2
    <3>2. next' = [next EXCEPT ![w] = s + 1]
      BY <1>1, <1>6 DEF s
    <3> QED BY <1>0, <1>8, <3>1, <3>2 DEF PlanTypes
  <2>3. forkChoice' \in [Workers -> SUBSET TreeBlocks] /\ detached' \in [Workers -> SUBSET Orphans]
        /\ missing' \in [Workers -> SUBSET Orphans]
    BY <1>0, <1>1, <1>3, <1>7 DEF PlanTypes
  <2> QED BY <1>0, <1>1, <1>8, <2>1, <2>2, <2>3 DEF PlanTypes
<1>10. Phases'
  BY <1>1, <1>2, <1>8 DEF Phases
<1>11. CacheListed'
  BY <1>0, <1>1, <1>8, Fixed DEF CacheListed
<1>12. VotesListed'
  BY <1>0, <1>1, Fixed DEF VotesListed
<1>13. RangesListed'
  BY <1>0, <1>1, Fixed DEF RangesListed
<1>14. ChainHeld'
  <2> SUFFICES ASSUME NEW u \in Workers, NEW b \in CanonicalAt(WarmupSlot[u] .. next'[u] - 1)
               PROVE  b \in forkChoice'[u]
    <3>1. \A t : CanonicalAt(t)' = CanonicalAt(t)
      BY <1>1, Fixed
    <3> QED BY <3>1 DEF ChainHeld
  <2>1. CASE u # w
    BY <1>0, <1>8, <2>1 DEF ChainHeld
  <2>2. CASE u = w
    <3>1. b \in tree.canonical /\ b \in WarmupSlot[w] .. (s + 1) - 1
      BY <1>8, <2>2 DEF CanonicalAt
    <3>2. CASE b = s
      <4>1. b \in CanonicalAt({s})
        BY <3>1, <3>2 DEF CanonicalAt
      <4>2. b \notin Orphans
        BY <1>2, <3>1, BlockSlots
      <4>3. b \in engine.known
        BY <1>3, <1>5, <1>6, <4>1, <4>2
      <4> QED BY <1>8, <2>2, <4>3
    <3>3. CASE b # s
      <4>1. b >= WarmupSlot[w] /\ b < s
        BY <1>2, <3>1, <3>3
      <4>2. b \in forkChoice[w]
        BY <3>1, <4>1, BaseHeld DEF s
      <4> QED BY <1>4, <1>6, <1>8, <2>2, <4>2
    <3> QED BY <3>2, <3>3
  <2> QED BY <2>1, <2>2
<1>15. ListedHeld'
  <2> SUFFICES ASSUME NEW u \in Workers, NEW o \in Orphans, Attachable(u, o),
                      Branch(o).orphans \subseteq index, SlotOf(o) < next'[u]
               PROVE  o \in forkChoice'[u]
    BY <1>1, Fixed DEF ListedHeld
  <2>1. CASE u # w
    BY <1>0, <1>1, <1>8, <2>1 DEF ListedHeld
  <2>2. CASE u = w
    <3>1. SlotOf(o) < s + 1 /\ SlotOf(o) \in Nat
      BY <1>2, <1>8, <2>2, OrphanSlots
    <3>2. CASE SlotOf(o) < s
      <4>1. o \in forkChoice[w]
        BY <1>0, <1>1, <2>2, <3>2 DEF ListedHeld, s
      <4> QED BY <1>4, <1>6, <1>8, <2>2, <4>1
    <3>3. CASE SlotOf(o) = s
      <4>1. Parent(o) \in start.known
        BY <1>1, <1>2, <1>4, <2>2, <3>3, OrphanParentHeld DEF s
      <4>2. o \in index
        BY <1>2, BranchFacts
      <4>3. o \in Range(plan.imports)
        BY <1>2, <1>3, <3>3, <4>2
      <4> QED BY <1>6, <1>8, <2>2, <4>1, <4>3
    <3> QED BY <1>2, <3>1, <3>2, <3>3
  <2> QED BY <2>1, <2>2
<1>16. OnlyDetachedSkipped'
  <2> SUFFICES ASSUME NEW u \in Workers, NEW o \in detached'[u], Attachable(u, o), BranchesWithinLimits(o)
               PROVE  FALSE
    <3>1. /\ \A v, x : Attachable(v, x)' <=> Attachable(v, x)
          /\ \A x : BranchesWithinLimits(x)' <=> BranchesWithinLimits(x)
      BY <1>1, Fixed
    <3> QED BY <3>1 DEF OnlyDetachedSkipped
  <2>1. o \notin detached[u]
    BY <1>0 DEF OnlyDetachedSkipped
  <2>2. u = w /\ o \in engine.detached
    BY <1>8, <2>1
  <2>3. o \in Range(plan.imports) /\ o \in Orphans /\ Parent(o) \notin start.known
    BY <1>4, <1>6, <2>1, <2>2
  <2>4. o \in cache /\ SlotOf(o) <= s
    <3>1. o \notin CanonicalAt({s})
      BY <1>2, <2>3, BlockSlots DEF CanonicalAt
    <3> QED BY <1>3, <2>3, <3>1 DEF Due
  <2>5. WithinLimits(o) /\ Complete(o)
    <3>1. o \in Branch(o).orphans
      BY <1>2, <2>3, BranchFacts
    <3> QED BY <2>3, <3>1 DEF BranchesWithinLimits, Attachable, Complete
  <2>6. Branch(o).orphans \subseteq index
    <3>1. CASE tree.mode = "greedy"
      <4>1. \A a \in Branch(o).orphans : Roomy(a)
        BY <2>5 DEF WithinLimits, Roomy
      <4>2. SlotOf(o) < EndSlot[w]
        <5>1. SlotOf(o) \in Nat
          BY <1>2, <2>3, OrphanSlots
        <5> QED BY <1>1, <1>2, <2>4, <5>1
      <4> QED BY <1>1, <2>2, <2>3, <3>1, <4>1, <4>2, InRangeListed
    <3>2. CASE tree.mode # "greedy"
      BY <1>0, <1>1, <2>4, <2>5, <3>2 DEF CacheListed
    <3> QED BY <3>1, <3>2
  <2>7. Parent(o) \in forkChoice[w]
    BY <1>1, <2>2, <2>3, <2>4, <2>6, OrphanParentHeld DEF s
  <2> QED BY <1>4, <2>3, <2>7
<1> QED BY <1>9, <1>10, <1>11, <1>12, <1>13, <1>14, <1>15, <1>16 DEF PlanInv

(* StutterKeeps: nothing changes. *)
LEMMA StutterKeeps ==
  ASSUME PlanInv, UNCHANGED vars
  PROVE  PlanInv'
<1>0. PlanTypes /\ Phases /\ CacheListed /\ VotesListed /\ RangesListed /\ ChainHeld /\ ListedHeld /\ OnlyDetachedSkipped
  BY DEF PlanInv
<1>1. /\ tree' = tree /\ cold' = cold /\ cache' = cache /\ index' = index /\ next' = next
      /\ forkChoice' = forkChoice /\ missing' = missing /\ detached' = detached /\ status' = status
  BY DEF vars
<1>2. PlanTypes'
  <2>1. TreeOK' /\ TreeBlocks' = TreeBlocks
    BY <1>0, <1>1, Fixed DEF PlanTypes
  <2> QED BY <1>0, <1>1, <2>1 DEF PlanTypes
<1>3. Phases'
  BY <1>0, <1>1 DEF Phases
<1>4. CacheListed' /\ VotesListed' /\ RangesListed'
  BY <1>0, <1>1, Fixed DEF CacheListed, VotesListed, RangesListed
<1>5. ChainHeld'
  <2>1. \A s : CanonicalAt(s)' = CanonicalAt(s)
    BY <1>1, Fixed
  <2> QED BY <1>0, <1>1, <2>1 DEF ChainHeld
<1>6. ListedHeld' /\ OnlyDetachedSkipped'
  BY <1>0, <1>1, Fixed DEF ListedHeld, OnlyDetachedSkipped
<1> QED BY <1>2, <1>3, <1>4, <1>5, <1>6 DEF PlanInv
-------------------------------------------------------------------------------
(* The theorems.                                                            *)

(* PlanInductive: PlanInv holds in every state that the warm phase and the  *)
(* engines reach.                                                           *)
THEOREM PlanInductive == Spec => []PlanInv
<1>1. PlanInv /\ [Next]_vars => PlanInv'
  BY WarmKeeps, WarmErrKeeps, RunSlotKeeps, StutterKeeps DEF Next
<1> QED BY PlanInit, <1>1, PTL DEF Spec

(* CanonicalAlwaysAttaches: no engine ever ends because a canonical block   *)
(* came without its parent, for any number of workers that share one set of *)
(* checkpoint roots; only the warm phase can end a run.                     *)
THEOREM CanonicalAlwaysAttaches == Spec => []CanonicalAttaches
<1>1. PlanInv => CanonicalAttaches
  BY DEF PlanInv, Phases, CanonicalAttaches
<1> QED BY PlanInductive, <1>1, PTL

(* OnlyDetachedEverSkipped: whatever the tree, the mode and the limits, an  *)
(* engine is given an orphan it cannot attach only when the branch is not   *)
(* to be had or is part of one beyond the limits of a walk or a list.       *)
THEOREM OnlyDetachedEverSkipped == Spec => []OnlyDetachedSkipped
<1>1. PlanInv => OnlyDetachedSkipped
  BY DEF PlanInv
<1> QED BY PlanInductive, <1>1, PTL

(* VotedRoots: outside greedy mode the voted orphans are the roots of the   *)
(* warm phase.                                                              *)
LEMMA VotedRoots ==
  ASSUME TreeOK, tree.mode # "greedy", NEW v \in Voted
  PROVE  \E w \in Workers : v \in unknownRoots(WarmupSlot[w] + 1, EndSlot[w], {})
<1> DEFINE Window(w) == WarmupSlot[w] + 1 .. EndSlot[w] + Cap
<1>1. v \in Orphans
  BY DEF Voted
<1>2. PICK w \in Workers :
        \/ tree.mode # "first-seen" /\ tree.carrier[v] \in CanonicalAt(Window(w))
        \/ tree.mode = "first-seen" /\ tree.carrier[v] # NoBlock
                                    /\ SlotOf(v) \in WarmupSlot[w] + 1 .. EndSlot[w] - 1
  BY DEF Voted
<1>3. CASE tree.mode # "first-seen"
  <2>1. tree.carrier[v] \in CanonicalAt(Window(w))
    BY <1>2, <1>3
  <2>2. v \in Attestations(tree.carrier[v])
    BY <1>1 DEF Attestations
  <2>3. v \in unknownRoots(WarmupSlot[w] + 1, EndSlot[w], {})
    BY <1>3, <2>1, <2>2 DEF unknownRoots
  <2> QED BY <2>3
<1>4. CASE tree.mode = "first-seen"
  <2>1. tree.carrier[v] # NoBlock /\ SlotOf(v) \in WarmupSlot[w] + 1 .. EndSlot[w] - 1
    BY <1>2, <1>4
  <2>2. SlotOf(v) = tree.slot[v]
    BY <1>1, OrphanSlots
  <2>3. v \in AttestationsForSlot(SlotOf(v))
    BY <1>1, <2>1, <2>2 DEF AttestationsForSlot
  <2>4. v \in unknownRoots(WarmupSlot[w] + 1, EndSlot[w], {})
    BY <1>4, <2>1, <2>3 DEF unknownRoots
  <2> QED BY <2>4
<1> QED BY <1>3, <1>4

(* ForksAlwaysImported: an engine that has passed a slot holds every orphan *)
(* of the slot that a vote or the archive listing names and that it can     *)
(* attach, for every block tree, mode and page size.                        *)
THEOREM ForksAlwaysImported == Spec => []ForksImported
<1>1. ASSUME PlanInv PROVE ForksImported
  <2> SUFFICES ASSUME status = "serve", NEW w \in Workers, NEW v \in Voted,
                      Attachable(w, v), WithinLimits(v),
                      NEW o \in Branch(v).orphans, SlotOf(o) < next[w]
               PROVE  o \in forkChoice[w]
    BY DEF ForksImported
  <2>1. /\ TreeOK /\ cold = {} /\ v \in Orphans
        /\ next[w] \in WarmupSlot[w] + 1 .. EndSlot[w] /\ next[w] \in Nat
        /\ WarmupSlot[w] \in Nat /\ EndSlot[w] \in Nat
    BY <1>1, SlotPlanAssumption DEF PlanInv, PlanTypes, Phases, Voted, Slots
  <2>2. o \in Orphans
    BY <2>1, BranchFacts
  <2>3. Branch(o).orphans \subseteq Branch(v).orphans /\ Branch(o).base = Branch(v).base
    BY <2>1, SubBranch
  <2>4. Attachable(w, o)
    BY <2>3 DEF Attachable
  <2>5. Branch(o).orphans \subseteq index
    <3>1. CASE tree.mode = "greedy"
      <4>1. \A a \in Branch(o).orphans : Roomy(a)
        BY <2>3 DEF WithinLimits, Roomy
      <4>2. SlotOf(o) < EndSlot[w]
        <5>1. SlotOf(o) \in Nat
          BY <2>1, <2>2, OrphanSlots
        <5> QED BY <2>1, <5>1
      <4> QED BY <1>1, <2>2, <2>4, <3>1, <4>1, <4>2, InRangeListed
    <3>2. CASE tree.mode # "greedy"
      <4>1. PICK u \in Workers : v \in unknownRoots(WarmupSlot[u] + 1, EndSlot[u], {})
        BY <2>1, <3>2, VotedRoots
      <4>2. Complete(v)
        BY DEF Attachable, Complete
      <4>3. Branch(v).orphans \subseteq index
        BY <1>1, <2>1, <4>1, <4>2 DEF PlanInv, VotesListed
      <4> QED BY <2>3, <4>3
    <3> QED BY <3>1, <3>2
  <2> QED BY <1>1, <2>2, <2>4, <2>5 DEF PlanInv, ListedHeld
<1> QED BY PlanInductive, <1>1, PTL

(* PlanTypeCorrect: every variable keeps its type; in particular the list   *)
(* names cached orphans only.                                               *)
THEOREM PlanTypeCorrect == Spec => []TypeOK
<1>1. ASSUME PlanInv PROVE TypeOK
  <2>1. PlanTypes /\ TreeOK
    BY <1>1 DEF PlanInv, PlanTypes
  <2>2. TreeBlocks \subseteq Blocks /\ tree.parent \in [Orphans -> Blocks]
    BY <2>1 DEF TreeOK, TreeBlocks, Blocks
  <2>3. forkChoice \in [Workers -> SUBSET Blocks]
    BY <2>1, <2>2 DEF PlanTypes
  <2>4. tree.canonical \subseteq Slots /\ tree.slot \in [Orphans -> Slots] /\ tree.archive \subseteq Orphans
    BY <2>1 DEF TreeOK
  <2> QED BY <2>1, <2>2, <2>3, <2>4 DEF TypeOK, PlanTypes
<1> QED BY PlanInductive, <1>1, PTL
-------------------------------------------------------------------------------
(* What the warm phase caches covers what the serving backend asks for.     *)

(* WalkLess: a walk that passes fewer blocks asks for fewer. *)
LEMMA WalkLess ==
  ASSUME TreeOK, NEW o \in Orphans, NEW k1, NEW f1, NEW s1 \in Int, NEW k2, NEW f2, NEW s2 \in Int,
         k1 \subseteq k2,
         Branch(o).orphans \cap Passes(k2, f2, s2) \subseteq Passes(k1, f1, s1)
  PROVE  resolveOrphanChain(o, k2, f2, s2).asked \subseteq resolveOrphanChain(o, k1, f1, s1).asked
<1>1. PICK k, U : LineOfBranch(o, k, U)
  BY BranchLine
<1>2. k \in Nat /\ Branch(o).orphans = {U[i] : i \in 0 .. k - 1}
  BY <1>1 DEF LineOfBranch, Line
<1> DEFINE Go1 == Passes(k1, f1, s1)
           Go2 == Passes(k2, f2, s2)
           w1 == resolveOrphanChain(o, k1, f1, s1)
           w2 == resolveOrphanChain(o, k2, f2, s2)
           a1 == w1.asked
           a2 == w2.asked
<1>w. WalksLine(k, U, k1, Go1, w1) /\ WalksLine(k, U, k2, Go2, w2)
  BY <1>1, ResolveWalk
<1> HIDE DEF Go1, Go2, w1, w2
<1>3. PICK n \in 0 .. k : /\ n <= MaxOrphanWalk
                          /\ n = MaxOrphanWalk \/ U[n] \notin Go1
                          /\ a1 = {U[i] : i \in {j \in 0 .. n : j < MaxOrphanWalk}} \cap (Orphans \ k1)
  BY <1>w DEF WalksLine
<1>4. PICK m \in 0 .. k : /\ m <= MaxOrphanWalk /\ \A i \in 0 .. m - 1 : U[i] \in Go2
                          /\ a2 = {U[i] : i \in {j \in 0 .. m : j < MaxOrphanWalk}} \cap (Orphans \ k2)
  BY <1>w DEF WalksLine
<1> HIDE DEF a1, a2
<1>5. m <= n
  <2> SUFFICES ASSUME n < m PROVE FALSE
    BY <1>2
  <2>0. MaxOrphanWalk \in Nat
    BY SlotPlanAssumption
  <2>1. n \in 0 .. m - 1 /\ n \in 0 .. k - 1 /\ n # MaxOrphanWalk
    BY <1>2, <1>4, <2>0
  <2>2. U[n] \in Go2 /\ U[n] \in Branch(o).orphans
    BY <1>2, <1>4, <2>1
  <2> QED BY <1>3, <2>1, <2>2 DEF Go1, Go2
<1>6. {j \in 0 .. m : j < MaxOrphanWalk} \subseteq {j \in 0 .. n : j < MaxOrphanWalk}
  BY <1>2, <1>5
<1>7. a2 \subseteq a1
  BY <1>3, <1>4, <1>6
<1> QED BY <1>7 DEF a1, a2, w1, w2

(* The archived roots that a walk from v over the whole archive asks for. *)
Asks(v) == resolveOrphanChain(v, {}, tree.archive, SlotOf(v)).asked \cap tree.archive

(* WarmAsks: a warm walk asks for them, *)
LEMMA WarmAsks ==
  ASSUME TreeOK, NEW v \in Orphans, NEW loadEnd \in Int, SlotOf(v) <= loadEnd
  PROVE  Asks(v) \subseteq WarmWalk(v, loadEnd).asked \cap tree.archive
<1>1. SlotOf(v) \in Int
  BY OrphanSlots
<1>2. Passes({}, tree.archive, SlotOf(v)) \subseteq Passes({}, tree.archive, loadEnd)
  <2> SUFFICES ASSUME NEW b \in Orphans, SlotOf(b) <= SlotOf(v) PROVE SlotOf(b) <= loadEnd
    BY DEF Passes
  <2>1. SlotOf(b) \in Int
    BY OrphanSlots
  <2> QED BY <1>1, <2>1
<1>3. resolveOrphanChain(v, {}, tree.archive, SlotOf(v)).asked \subseteq WarmWalk(v, loadEnd).asked
  BY <1>1, <1>2, WalkLess DEF WarmWalk
<1> QED BY <1>3 DEF Asks

(* and a walk over the cache asks for nothing else that the archive has. *)
LEMMA BuildAsks ==
  ASSUME TreeOK, cache \subseteq tree.archive, NEW v \in Orphans, Asks(v) \subseteq cache,
         NEW known, NEW s \in Int
  PROVE  resolveOrphanChain(v, known, cache, s).asked \ cache \subseteq Orphans \ tree.archive
<1>1. SlotOf(v) \in Int
  BY OrphanSlots
<1>2. ASSUME NEW b \in Branch(v).orphans, b \in Passes(known, cache, s)
      PROVE  b \in Passes({}, tree.archive, SlotOf(v))
  BY <1>2, BranchFacts DEF Passes
<1>3. resolveOrphanChain(v, known, cache, s).asked
        \subseteq resolveOrphanChain(v, {}, tree.archive, SlotOf(v)).asked
  BY <1>1, <1>2, WalkLess
<1>4. resolveOrphanChain(v, known, cache, s).asked \subseteq Orphans
  <2>1. resolveOrphanChain(v, known, cache, s).asked \subseteq Branch(v).orphans
    BY ResolveFacts
  <2> QED BY <2>1, BranchFacts
<1> QED BY <1>3, <1>4 DEF Asks

(* BuildMissing: when everything asked for from the roots of a slot's       *)
(* attestations is cached, BuildSlot misses nothing that the archive has.   *)
LEMMA BuildMissing ==
  ASSUME TreeOK, cache \subseteq tree.archive, NEW s \in Nat, NEW m,
         NEW attestations, attestations \subseteq Orphans,
         attestations = (IF tree.mode = "first-seen" THEN AttestationsForSlot(s)
                         ELSE attestationsFromSources(planSourcesForSlot(s), s + 1)),
         \A v \in attestations : Asks(v) \subseteq cache
  PROVE  BuildSlot(s, m).missing \cap tree.archive = {}
<1> DEFINE archived == archiveOrphanInfosBySlot(index, cache, s)
           attested == orphanImportsForSlotAttestations(attestations, archived, s, m + 1)
<1>1. BuildSlot(s, m).missing = attested.missing
  BY DEF BuildSlot
<1>2. \A v \in attestations : resolveOrphanChain(v, archived, cache, s).asked \ cache \subseteq Orphans \ tree.archive
  BY BuildAsks
<1>3. attested \in Plans(s, Orphans \ tree.archive)
  BY <1>2, ScheduleAll
<1> HIDE DEF attested
<1> QED BY <1>1, <1>3 DEF Plans

(* A list with no room left for orphans of the slot of b. *)
Full(roots, b) == Cardinality({r \in roots : SlotOf(r) = SlotOf(b)}) >= MaxArchiveOrphansPerSlot

(* FullGrows: a full list stays full. *)
LEMMA FullGrows ==
  ASSUME NEW S, NEW T, S \subseteq T, T \subseteq Orphans, NEW b, NEW c, SlotOf(b) = SlotOf(c), Full(S, b)
  PROVE  Full(T, c)
<1> DEFINE A == {r \in S : SlotOf(r) = SlotOf(b)}
           B == {r \in T : SlotOf(r) = SlotOf(c)}
<1>1. A \subseteq B /\ B \subseteq Orphans /\ A \subseteq Orphans
  BY SMT
<1> HIDE DEF A, B
<1>2. Cardinality(A) <= Cardinality(B) /\ Cardinality(A) \in Nat /\ Cardinality(B) \in Nat
  BY <1>1, Finite, FS_Subset
<1>3. MaxArchiveOrphansPerSlot \in Nat
  BY SlotPlanAssumption
<1> QED BY <1>2, <1>3 DEF Full, A, B

(* What is on a range's own list is on the shared list, unless that is full. *)
Mirrored(a) == \A x \in a.own : x \in a.shared \/ Full(a.shared, x)

(* AppendFull: an orphan is left out exactly when there is no room. *)
LEMMA AppendFull ==
  ASSUME TreeOK, NEW roots, roots \subseteq Orphans, NEW o \in Orphans
  PROVE  appendOrphanRoot(roots, o) = IF Full(roots, o) THEN roots ELSE roots \cup {o}
<1>1. Cardinality({r \in roots : SlotOf(r) = SlotOf(o)}) \in Nat
  BY Finite
<1> QED BY <1>1, SlotPlanAssumption DEF appendOrphanRoot, Full

(* RememberMore: one entry, once more, with what full lists leave out. *)
LEMMA RememberMore ==
  ASSUME TreeOK, NEW a, ListsOK(a), Mirrored(a), NEW o \in tree.archive,
         NEW b, b = rememberArchiveOrphanInfo(a, o)
  PROVE  /\ Mirrored(b)
         /\ o \in b.own \/ Full(b.own, o)
         /\ \A x \in b.shared : x \in a.shared
                                \/ (x = o /\ o \in b.own /\ ~ Full(a.own, o) /\ ~ Full(a.shared, o))
<1>1. a.own \subseteq Orphans /\ a.shared \subseteq Orphans /\ o \in Orphans
  BY DEF ListsOK, Lists, TreeOK
<1>2. /\ appendOrphanRoot(a.own, o) = IF Full(a.own, o) THEN a.own ELSE a.own \cup {o}
      /\ appendOrphanRoot(a.shared, o) = IF Full(a.shared, o) THEN a.shared ELSE a.shared \cup {o}
  BY <1>1, AppendFull
<1>3. CASE Full(a.own, o) \/ o \in a.own
  <2>1. b = a
    BY <1>2, <1>3 DEF rememberArchiveOrphanInfo
  <2> QED BY <1>3, <2>1
<1>4. CASE ~ Full(a.own, o) /\ o \notin a.own
  <2>1. b.own = a.own \cup {o} /\ b.shared = IF Full(a.shared, o) THEN a.shared ELSE a.shared \cup {o}
    BY <1>2, <1>4 DEF rememberArchiveOrphanInfo
  <2>2. a.shared \subseteq b.shared /\ b.shared \subseteq Orphans
    BY <1>1, <2>1
  <2>3. ASSUME NEW x \in b.own PROVE x \in b.shared \/ Full(b.shared, x)
    <3>1. CASE x \in a.own
      BY <2>2, <3>1, FullGrows DEF Mirrored
    <3>2. CASE x = o
      BY <2>1, <2>2, <3>2, FullGrows
    <3> QED BY <2>1, <2>3, <3>1, <3>2
  <2> QED BY <1>4, <2>1, <2>3 DEF Mirrored
<1> QED BY <1>3, <1>4

(* RememberFull: the same for a sequence of entries. *)
LEMMA RememberFull ==
  ASSUME TreeOK, NEW start, ListsOK(start), Mirrored(start), NEW q \in Seq(tree.archive),
         NEW r, r = FoldLeft(rememberArchiveOrphanInfo, start, q)
  PROVE  /\ Mirrored(r)
         /\ \A x \in Range(q) : x \in r.own \/ Full(r.own, x)
         /\ \A x \in r.shared :
              \/ x \in start.shared
              \/ /\ x \in Range(q) /\ x \in r.own
                 /\ ~ Full(start.own, x) /\ ~ Full(start.shared, x)
<1> DEFINE n == Len(q)
<1>1. q \in Seq(Orphans) /\ n \in Nat /\ DOMAIN q = 1 .. n /\ \A i \in 1 .. n : q[i] \in tree.archive
  BY DEF TreeOK
<1>2. Range(q) = {q[i] : i \in 1 .. n}
  BY <1>1 DEF Range
<1>3. PICK h : RemembersAll(start, q, h)
  <2>1. start \in Lists
    BY DEF ListsOK
  <2> QED BY <1>1, <2>1, RememberLoop
<1>4. /\ h[0] = start /\ r = h[n]
      /\ \A i \in 1 .. n : h[i] = rememberArchiveOrphanInfo(h[i - 1], q[i])
  BY <1>3 DEF RemembersAll
<1> HIDE DEF n
<1> DEFINE New(a, x) == /\ x \in Range(q) /\ x \in a.own
                        /\ ~ Full(start.own, x) /\ ~ Full(start.shared, x)
           Inv(i) == /\ ListsOK(h[i]) /\ Mirrored(h[i])
                     /\ start.own \subseteq h[i].own /\ start.shared \subseteq h[i].shared
                     /\ \A j \in 1 .. i : q[j] \in h[i].own \/ Full(h[i].own, q[j])
                     /\ \A x \in h[i].shared : x \in start.shared \/ New(h[i], x)
           S == {i \in 0 .. n : Inv(i)}
<1>5. 0 \in S
  BY <1>1, <1>4
<1>6. ASSUME NEW i \in 1 .. n, i - 1 \in S PROVE i \in S
  <2> DEFINE a == h[i - 1]
             b == h[i]
             o == q[i]
  <2>1. Inv(i - 1)
    BY <1>6
  <2>2. ListsOK(a) /\ Mirrored(a) /\ o \in tree.archive /\ b = rememberArchiveOrphanInfo(a, o) /\ o \in Range(q)
    BY <1>1, <1>2, <1>4, <2>1
  <2>3. /\ start.own \subseteq a.own /\ start.shared \subseteq a.shared
        /\ \A j \in 1 .. i - 1 : q[j] \in a.own \/ Full(a.own, q[j])
        /\ \A x \in a.shared : x \in start.shared \/ New(a, x)
    BY <2>1
  <2> HIDE DEF a, b, o
  <2>4. ListsOK(b) /\ a.own \subseteq b.own /\ a.shared \subseteq b.shared
    BY <2>2, RememberStep
  <2>5. /\ Mirrored(b)
        /\ o \in b.own \/ Full(b.own, o)
        /\ \A x \in b.shared : x \in a.shared
                               \/ (x = o /\ o \in b.own /\ ~ Full(a.own, o) /\ ~ Full(a.shared, o))
    BY <2>2, RememberMore
  <2>6. b.own \subseteq Orphans /\ a.own \subseteq Orphans /\ a.shared \subseteq Orphans
    BY <2>2, <2>4 DEF ListsOK, Lists
  <2>7. \A j \in 1 .. i : q[j] \in b.own \/ Full(b.own, q[j])
    <3> SUFFICES ASSUME NEW j \in 1 .. i PROVE q[j] \in b.own \/ Full(b.own, q[j])
      OBVIOUS
    <3>1. CASE j = i
      BY <2>5, <3>1 DEF o
    <3>2. CASE j \in 1 .. i - 1
      BY <2>3, <2>4, <2>6, <3>2, FullGrows
    <3> QED BY <1>1, <3>1, <3>2
  <2>8. \A x \in b.shared : x \in start.shared \/ New(b, x)
    <3> SUFFICES ASSUME NEW x \in b.shared, x \notin start.shared PROVE New(b, x)
      OBVIOUS
    <3>1. CASE x \in a.shared
      BY <2>3, <2>4, <3>1
    <3>2. CASE x = o /\ o \in b.own /\ ~ Full(a.own, o) /\ ~ Full(a.shared, o)
      <4>1. ~ Full(start.own, x) /\ ~ Full(start.shared, x)
        BY <2>3, <2>6, <3>2, FullGrows
      <4> QED BY <2>2, <3>2, <4>1
    <3> QED BY <2>5, <3>1, <3>2
  <2>9. Inv(i)
    BY <2>3, <2>4, <2>5, <2>7, <2>8 DEF a, b
  <2> QED BY <1>1, <2>9
<1>7. n \in S
  <2>1. \A i \in 1 .. n : i - 1 \in S => i \in S
    BY <1>6
  <2> HIDE DEF S
  <2>2. \A i \in 0 .. n : i \in S
    BY <1>1, <1>5, <2>1, CountUp
  <2> QED BY <1>1, <2>2
<1>8. Inv(n)
  BY <1>7
<1> QED BY <1>2, <1>4, <1>8

(* FullMirrored: when a range's own list is full, so is the shared one. *)
LEMMA FullMirrored ==
  ASSUME NEW a, a.own \subseteq Orphans, a.shared \subseteq Orphans, Mirrored(a), NEW b, Full(a.own, b)
  PROVE  Full(a.shared, b)
<1> DEFINE S == {r \in a.own : SlotOf(r) = SlotOf(b)}
<1>1. CASE \E x \in S : Full(a.shared, x)
  BY <1>1, FullGrows
<1>2. CASE \A x \in S : ~ Full(a.shared, x)
  <2>1. S \subseteq a.shared
    BY <1>2 DEF Mirrored
  <2>2. {r \in S : SlotOf(r) = SlotOf(b)} = {r \in a.own : SlotOf(r) = SlotOf(b)}
    OBVIOUS
  <2>3. Full(S, b)
    BY <2>2 DEF Full
  <2> HIDE DEF S
  <2> QED BY <2>1, <2>3, FullGrows
<1> QED BY <1>1, <1>2

(* ReadBy: the votes of the orphans on a range's own list are walked; an    *)
(* orphan of the range is on it unless the shared list has no room; and the *)
(* range lists only these, or orphans from before it for which there was    *)
(* room.                                                                    *)
ReadBy(from, to, r, own) ==
  /\ \A b \in own : \A v \in Attestations(b) : Asks(v) \subseteq r.cached
  /\ \A b \in tree.archive : SlotOf(b) \in from .. to + Cap => b \in own \/ Full(r.lists.shared, b)
  /\ \A b \in r.lists.shared : \/ b \in index \cup own
                               \/ SlotOf(b) < from /\ ~ Full(index, b) /\ b \in tree.archive

(* WarmReads: what warming a range reads. *)
LEMMA WarmReads ==
  ASSUME TreeOK, index \subseteq tree.archive, NEW w \in Workers, NEW r, r = WarmRange(w),
         NEW from, from = WarmupSlot[w] + 1, NEW to, to = EndSlot[w]
  PROVE  /\ \A v \in unknownRoots(from, to, {}) : Asks(v) \subseteq r.cached
         /\ tree.mode = "greedy" => \E own : ReadBy(from, to, r, own)
<1> DEFINE loadEnd == to + Cap
           lists == r.lists
<1>0. PICK listed, first, roots, chains : WarmsBy(from, to, r, listed, first, roots, chains)
  BY WarmParts
<1>1. from \in Int /\ to \in Int /\ loadEnd \in Int
  BY CapType, SlotPlanAssumption DEF Slots
<1>2. listed = IF tree.mode = "greedy"
               THEN {o \in tree.archive : SlotOf(o) \in from .. loadEnd} ELSE {}
  BY <1>0 DEF WarmsBy
<1>3. /\ roots = unknownRoots(from, to, first.own) /\ roots \subseteq Orphans
      /\ chains \in Seq(tree.archive) /\ Range(chains) = UNION {Range(WarmWalk(o, loadEnd).chain) : o \in roots}
      /\ lists = FoldLeft(rememberArchiveOrphanInfo, first, chains)
      /\ r.cached = listed \cup UNION {WarmWalk(o, loadEnd).asked \cap tree.archive : o \in roots}
  BY <1>0 DEF WarmsBy
<1>4. /\ Sorted(listed) \in Seq(tree.archive) /\ Range(Sorted(listed)) = listed
      /\ ListsOK(NoLists) /\ ListsOK(first)
      /\ first = FoldLeft(rememberArchiveOrphanInfo, NoLists, Sorted(listed))
  BY <1>0 DEF WarmsBy
<1> HIDE DEF loadEnd, lists
<1>5. NoLists.own = {} /\ NoLists.shared = index /\ Mirrored(NoLists)
  BY DEF NoLists, Mirrored
<1>6. /\ first.own \subseteq listed /\ index \subseteq first.shared
  BY <1>4, <1>5, RememberFacts
<1>7. /\ Mirrored(first)
      /\ \A x \in listed : x \in first.own \/ Full(first.own, x)
      /\ \A x \in first.shared : x \in index \cup first.own
  BY <1>4, <1>5, RememberFull
<1>8. first.shared \subseteq lists.shared /\ ListsOK(lists)
  BY <1>3, <1>4, RememberFacts
<1>9. \A x \in lists.shared :
        \/ x \in first.shared
        \/ x \in Range(chains) /\ ~ Full(first.own, x) /\ ~ Full(first.shared, x)
  BY <1>3, <1>4, <1>7, RememberFull
<1>10. /\ first.own \subseteq Orphans /\ first.shared \subseteq Orphans /\ lists.shared \subseteq Orphans
       /\ lists.shared \subseteq tree.archive
  BY <1>4, <1>8 DEF ListsOK, Lists
<1>11. ASSUME NEW v \in roots, SlotOf(v) <= loadEnd PROVE Asks(v) \subseteq r.cached
  <2>1. v \in Orphans
    BY <1>3
  <2>2. Asks(v) \subseteq WarmWalk(v, loadEnd).asked \cap tree.archive
    BY <1>1, <1>11, <2>1, WarmAsks
  <2> QED BY <1>3, <2>2
<1>12. ASSUME NEW v \in unknownRoots(from, to, {}) PROVE Asks(v) \subseteq r.cached
  <2>1. v \in unknownRoots(from, to, first.own) /\ SlotOf(v) <= loadEnd
    BY <1>1, <1>12, RootsFacts DEF loadEnd
  <2> QED BY <1>3, <1>11, <2>1
<1>13. ASSUME tree.mode = "greedy" PROVE ReadBy(from, to, r, first.own)
  <2>1. ASSUME NEW b \in first.own, NEW v \in Attestations(b) PROVE Asks(v) \subseteq r.cached
    <3>1. b \in listed /\ b \in tree.archive /\ SlotOf(b) <= loadEnd /\ SlotOf(b) \in Int
      BY <1>2, <1>6, <1>13, <2>1
    <3>2. v \in roots
      BY <1>3, <1>13, <2>1 DEF unknownRoots
    <3>3. v \in Orphans /\ tree.carrier[v] = b /\ b \in Orphans
      BY <1>10, <2>1 DEF Attestations
    <3>4. b # NoBlock
      BY <3>3, SlotPlanAssumption DEF NoBlock
    <3>5. SlotOf(v) = tree.slot[v] /\ SlotOf(v) \in Int
      BY <3>3, OrphanSlots
    <3>6. SlotOf(v) < SlotOf(b)
      BY <3>3, <3>4, <3>5 DEF TreeOK
    <3>7. SlotOf(v) <= loadEnd
      BY <1>1, <3>1, <3>5, <3>6
    <3> QED BY <1>11, <3>2, <3>7
  <2>2. ASSUME NEW b \in tree.archive, SlotOf(b) \in from .. to + Cap
        PROVE  b \in first.own \/ Full(lists.shared, b)
    <3>1. b \in listed
      BY <1>2, <1>13, <2>2 DEF loadEnd
    <3>2. b \in first.own \/ Full(first.own, b)
      BY <1>7, <3>1
    <3>3. Full(first.own, b) => Full(first.shared, b)
      BY <1>7, <1>10, FullMirrored
    <3> QED BY <1>8, <1>10, <3>2, <3>3, FullGrows
  <2>3. ASSUME NEW b \in lists.shared, b \notin index \cup first.own
        PROVE  SlotOf(b) < from /\ ~ Full(index, b) /\ b \in tree.archive
    <3>1. b \in Range(chains) /\ ~ Full(first.own, b) /\ ~ Full(first.shared, b)
      BY <1>7, <1>9, <2>3
    <3>2. b \in tree.archive /\ ~ Full(index, b)
      BY <1>6, <1>10, <2>3, <3>1, FullGrows
    <3>3. PICK o \in roots : b \in Range(WarmWalk(o, loadEnd).chain)
      BY <1>3, <3>1
    <3>4. SlotOf(b) <= loadEnd
      <4>1. o \in Orphans
        BY <1>3
      <4>2. Range(WarmWalk(o, loadEnd).chain) \subseteq Passes({}, tree.archive, loadEnd)
        BY <1>1, <4>1, ResolveFacts DEF WarmWalk
      <4> QED BY <3>3, <4>2 DEF Passes
    <3>5. b \notin listed
      BY <1>7, <2>3, <3>1
    <3>6. SlotOf(b) \in Int
      BY <1>10, OrphanSlots
    <3>7. SlotOf(b) \notin from .. loadEnd
      BY <1>2, <1>13, <3>2, <3>5
    <3> QED BY <1>1, <3>2, <3>4, <3>6, <3>7
  <2> QED BY <2>1, <2>2, <2>3 DEF ReadBy, lists
<1> QED BY <1>12, <1>13

(* WarmLists: a range lists what it caches, where the lists have room. *)
LEMMA WarmLists ==
  ASSUME TreeOK, index \subseteq tree.archive, NEW w \in Workers, NEW r, r = WarmRange(w),
         NEW o \in r.cached, Roomy(o)
  PROVE  o \in r.lists.shared
<1> DEFINE from == WarmupSlot[w] + 1
           to == EndSlot[w]
           loadEnd == to + Cap
           lists == r.lists
<1>0. PICK listed, first, roots, chains : WarmsBy(from, to, r, listed, first, roots, chains)
  BY WarmParts
<1>1. from \in Int /\ to \in Int /\ loadEnd \in Int
  BY CapType, SlotPlanAssumption DEF Slots
<1>2. listed = IF tree.mode = "greedy"
               THEN {x \in tree.archive : SlotOf(x) \in from .. loadEnd} ELSE {}
  BY <1>0 DEF WarmsBy
<1>3. /\ roots = unknownRoots(from, to, first.own) /\ roots \subseteq Orphans
      /\ chains \in Seq(tree.archive) /\ Range(chains) = UNION {Range(WarmWalk(v, loadEnd).chain) : v \in roots}
      /\ lists = FoldLeft(rememberArchiveOrphanInfo, first, chains)
      /\ r.cached = listed \cup UNION {WarmWalk(v, loadEnd).asked \cap tree.archive : v \in roots}
  BY <1>0 DEF WarmsBy
<1>4. /\ Sorted(listed) \in Seq(tree.archive) /\ Range(Sorted(listed)) = listed
      /\ ListsOK(NoLists) /\ ListsOK(first)
      /\ first = FoldLeft(rememberArchiveOrphanInfo, NoLists, Sorted(listed))
  BY <1>0 DEF WarmsBy
<1> HIDE DEF loadEnd, lists
<1>5. /\ \A x \in listed : Roomy(x) => x \in first.own
      /\ first.own \subseteq listed
  <2>1. NoLists.own = {}
    BY DEF NoLists
  <2> QED BY <1>4, <2>1, RememberFacts
<1>6. /\ ListsOK(lists) /\ first.own \subseteq lists.own
      /\ \A x \in Range(chains) : Roomy(x) => x \in lists.own
  BY <1>3, <1>4, RememberFacts
<1>7. o \in lists.own => o \in lists.shared
  BY <1>6 DEF ListsOK
<1>8. CASE o \in listed
  BY <1>5, <1>6, <1>7, <1>8 DEF lists
<1>9. CASE o \notin listed
  <2>1. PICK v \in roots : o \in WarmWalk(v, loadEnd).asked \cap tree.archive
    BY <1>3, <1>9
  <2>2. v \in Orphans /\ v \in unknownRoots(from, to, first.own)
    BY <1>3
  <2>3. SlotOf(v) \in Int /\ SlotOf(v) = tree.slot[v]
    BY <2>2, OrphanSlots
  <2>4. SlotOf(v) <= loadEnd
    <3>1. CASE v \in unknownRoots(from, to, {})
      BY <1>1, <3>1, RootsFacts DEF loadEnd
    <3>2. CASE v \notin unknownRoots(from, to, {})
      <4>1. PICK b \in first.own : v \in Attestations(b)
        BY <2>2, <3>2 DEF unknownRoots
      <4>2. b \in listed
        BY <1>5
      <4>3. SlotOf(b) <= loadEnd /\ b \in tree.archive
        BY <1>2, <4>2
      <4>4. b \in Orphans /\ tree.carrier[v] = b
        BY <4>1, <4>3 DEF TreeOK, Attestations
      <4>5. b # NoBlock /\ SlotOf(b) \in Int
        BY <4>4, OrphanSlots, SlotPlanAssumption DEF NoBlock
      <4>6. SlotOf(v) < SlotOf(b)
        BY <2>2, <2>3, <4>4, <4>5 DEF TreeOK
      <4> QED BY <1>1, <2>3, <4>3, <4>5, <4>6
    <3> QED BY <3>1, <3>2
  <2>5. /\ WarmWalk(v, loadEnd).asked \subseteq Branch(v).orphans
        /\ WarmWalk(v, loadEnd).asked \cap Passes({}, tree.archive, loadEnd) \subseteq Range(WarmWalk(v, loadEnd).chain)
    BY <1>1, <2>2, ResolveFacts DEF WarmWalk
  <2>6. SlotOf(o) <= loadEnd /\ o \in Orphans
    <3>1. o \in Branch(v).orphans
      BY <2>1, <2>5
    <3>2. o \in Orphans /\ SlotOf(o) <= SlotOf(v)
      BY <2>2, <3>1, BranchFacts
    <3>3. SlotOf(o) \in Int
      BY <3>2, OrphanSlots
    <3> QED BY <1>1, <2>3, <2>4, <3>2, <3>3
  <2>7. o \in Passes({}, tree.archive, loadEnd)
    BY <2>1, <2>6 DEF Passes
  <2>8. o \in Range(chains)
    BY <1>3, <2>1, <2>5, <2>7
  <2> QED BY <1>6, <1>7, <2>8 DEF lists
<1> QED BY <1>8, <1>9

(* The invariant of the cache.  Ranges are warmed in worker order. *)
InOrder == \A u \in Workers \ cold, w \in cold : u < w

(* What the roots of a warm range lead to is cached. *)
RootsCached ==
  \A w \in Workers \ cold :
    \A v \in unknownRoots(WarmupSlot[w] + 1, EndSlot[w], {}) : Asks(v) \subseteq cache

(* So is what the votes of b lead to, *)
Read(b) == \A v \in Attestations(b) : Asks(v) \subseteq cache

InRange(w, b) == SlotOf(b) \in WarmupSlot[w] + 1 .. EndSlot[w] + Cap

(* for each archived orphan of a warm range, unless the list has no room, *)
RangesRead ==
  tree.mode = "greedy" =>
    \A w \in Workers \ cold : \A b \in tree.archive : InRange(w, b) => Read(b) \/ Full(index, b)

(* and for each listed orphan of any range: a range that is yet to be       *)
(* warmed begins no earlier than the one that listed the orphan.            *)
ListRead ==
  tree.mode = "greedy" => \A w \in Workers, b \in index : InRange(w, b) => Read(b)

(* What is cached is listed, where the lists have room. *)
RoomyListed == status # "failed" => \A o \in cache : Roomy(o) => o \in index

CoverInv == InOrder /\ RootsCached /\ RangesRead /\ ListRead /\ RoomyListed /\ WarmCoversByRange

(* FixedReads: what depends only on the tree, and what only grows. *)
LEMMA FixedReads ==
  ASSUME tree' = tree, cache \subseteq cache'
  PROVE  /\ \A v : Asks(v)' = Asks(v)
         /\ \A b : Attestations(b)' = Attestations(b)
         /\ \A w, b : InRange(w, b)' <=> InRange(w, b)
         /\ \A b : Read(b) => Read(b)'
<1>1. \A o : SlotOf(o)' = SlotOf(o)
  BY Fixed
<1>2. \A v : Asks(v)' = Asks(v)
  BY DEF Asks, resolveOrphanChain, WalkUp, SlotOf
<1>3. \A b : Attestations(b)' = Attestations(b)
  BY DEF Attestations
<1>4. \A w, b : InRange(w, b)' <=> InRange(w, b)
  BY <1>1, Fixed DEF InRange
<1>5. \A b : Read(b) => Read(b)'
  BY <1>2, <1>3 DEF Read
<1> QED BY <1>2, <1>3, <1>4, <1>5

(* FullStays: a list that grows stays full. *)
LEMMA FullStays ==
  ASSUME tree' = tree, index \subseteq index', index' \subseteq Orphans, NEW b, Full(index, b)
  PROVE  Full(index, b)'
<1>1. Full(index', b)
  BY FullGrows
<1>2. \A o : SlotOf(o)' = SlotOf(o)
  BY Fixed
<1> QED BY <1>1, <1>2 DEF Full

(* CoverInit: the invariant holds at first. *)
LEMMA CoverInit == Init => CoverInv
<1> SUFFICES ASSUME Init PROVE CoverInv
  OBVIOUS
<1>1. cold = Workers /\ index = {} /\ cache = {} /\ missing = [w \in Workers |-> {}]
  BY DEF Init
<1>2. InOrder /\ RootsCached /\ RangesRead
  BY <1>1 DEF InOrder, RootsCached, RangesRead
<1>3. ListRead /\ RoomyListed
  BY <1>1 DEF ListRead, RoomyListed
<1>4. WarmCoversByRange
  BY <1>1 DEF WarmCoversByRange, WarmCovers
<1> QED BY <1>2, <1>3, <1>4 DEF CoverInv

(* CoverStays: a step that keeps tree, ranges and list keeps the invariant, *)
(* as far as the warm phase is concerned.                                   *)
LEMMA CoverStays ==
  ASSUME PlanInv, CoverInv, tree' = tree, cold' = cold, index' = index, cache \subseteq cache'
  PROVE  InOrder' /\ RootsCached' /\ RangesRead' /\ ListRead'
<1>0. /\ \A v : Asks(v)' = Asks(v)
      /\ \A w, b : InRange(w, b)' <=> InRange(w, b)
      /\ \A b : Read(b) => Read(b)'
  BY FixedReads
<1>1. \A from, to : unknownRoots(from, to, {})' = unknownRoots(from, to, {})
  BY Fixed
<1>2. index \subseteq Orphans
  BY DEF PlanInv, PlanTypes, TreeOK
<1>3. \A b : Full(index, b) => Full(index, b)'
  BY <1>2, FullStays
<1>4. InOrder'
  BY DEF CoverInv, InOrder
<1>5. RootsCached'
  BY <1>0, <1>1 DEF CoverInv, RootsCached
<1>6. RangesRead'
  BY <1>0, <1>3 DEF CoverInv, RangesRead
<1>7. ListRead'
  BY <1>0 DEF CoverInv, ListRead
<1> QED BY <1>4, <1>5, <1>6, <1>7

(* CoverUnasked: only an engine's turn changes what is missing. *)
LEMMA CoverUnasked ==
  ASSUME WarmCoversByRange, tree' = tree, missing' = missing
  PROVE  WarmCoversByRange'
BY DEF WarmCoversByRange, WarmCovers

(* CoverWarm: warming a range keeps it. *)
LEMMA CoverWarm ==
  ASSUME PlanInv, CoverInv, NEW w \in Workers, Warm(w)
  PROVE  CoverInv'
<1> DEFINE r == WarmRange(w)
           from == WarmupSlot[w] + 1
           to == EndSlot[w]
<1>1. /\ w = Min(cold) /\ cold' = cold \ {w} /\ cache' = cache \cup r.cached /\ index' = r.lists.shared
      /\ status = "warm" /\ tree' = tree /\ missing' = missing
  BY DEF Warm
<1>2. /\ TreeOK /\ index \subseteq tree.archive /\ cold \subseteq Workers /\ tree.archive \subseteq Orphans
      /\ index \subseteq Orphans
  BY DEF PlanInv, PlanTypes, TreeOK
<1>3. /\ \A v \in unknownRoots(from, to, {}) : Asks(v) \subseteq r.cached
      /\ tree.mode = "greedy" => \E own : ReadBy(from, to, r, own)
  BY <1>2, WarmReads
<1>4. index \subseteq index' /\ index' \subseteq Orphans
  <2>1. /\ r.cached \subseteq tree.archive
        /\ index \subseteq r.lists.shared /\ r.lists.shared \subseteq index \cup r.cached
    BY <1>2, WarmFacts
  <2> QED BY <1>1, <1>2, <2>1
<1> HIDE DEF r
<1>5. /\ w \in cold /\ (\A x \in cold : w <= x) /\ Workers \subseteq Nat
  <2>1. cold # {}
    BY <1>1 DEF PlanInv, Phases
  <2>2. Workers \subseteq Nat
    BY SlotPlanAssumption
  <2> QED BY <1>1, <1>2, <2>1, <2>2, LeastNat
<1>6. /\ \A v : Asks(v)' = Asks(v)
      /\ \A b : Attestations(b)' = Attestations(b)
      /\ \A u, b : InRange(u, b)' <=> InRange(u, b)
      /\ \A b : Read(b) => Read(b)'
  BY <1>1, FixedReads
<1>7. \A f, t : unknownRoots(f, t, {})' = unknownRoots(f, t, {})
  BY <1>1, Fixed
<1>8. \A b : Full(index, b) => Full(index, b)'
  BY <1>1, <1>4, FullStays
<1>9. InOrder'
  <2> SUFFICES ASSUME NEW u \in Workers \ cold', NEW x \in cold' PROVE u < x
    BY DEF InOrder
  <2>1. x \in cold /\ x # w /\ w <= x /\ x \in Nat /\ w \in Nat
    BY <1>1, <1>2, <1>5
  <2>2. CASE u = w
    BY <2>1, <2>2
  <2>3. CASE u \in Workers \ cold
    BY <2>1, <2>3 DEF CoverInv, InOrder
  <2> QED BY <1>1, <2>2, <2>3
<1>10. RootsCached'
  <2> SUFFICES ASSUME NEW u \in Workers \ cold', NEW v \in unknownRoots(WarmupSlot[u] + 1, EndSlot[u], {})
               PROVE  Asks(v) \subseteq cache'
    BY <1>6, <1>7 DEF RootsCached
  <2>1. CASE u = w
    BY <1>1, <1>3, <2>1
  <2>2. CASE u \in Workers \ cold
    BY <1>1, <2>2 DEF CoverInv, RootsCached
  <2> QED BY <1>1, <2>1, <2>2
<1>11. ASSUME tree.mode = "greedy" PROVE RangesRead' /\ ListRead'
  <2>1. PICK own : ReadBy(from, to, r, own)
    BY <1>3, <1>11
  <2>2. \A b \in own : Read(b)'
    BY <1>1, <1>6, <2>1 DEF ReadBy, Read
  <2>3. \A b : Full(r.lists.shared, b) => Full(index, b)'
    <3>1. \A o : SlotOf(o)' = SlotOf(o)
      BY <1>1, Fixed
    <3> QED BY <1>1, <3>1 DEF Full
  <2>4. ASSUME NEW u \in Workers \ cold', NEW b \in tree.archive, InRange(u, b)
        PROVE  Read(b)' \/ Full(index, b)'
    <3>1. CASE u = w
      BY <2>1, <2>2, <2>3, <2>4, <3>1 DEF ReadBy, InRange
    <3>2. CASE u \in Workers \ cold
      BY <1>6, <1>8, <1>11, <2>4, <3>2 DEF CoverInv, RangesRead
    <3> QED BY <1>1, <3>1, <3>2
  <2>5. ASSUME NEW u \in Workers, NEW b \in index', InRange(u, b) PROVE Read(b)'
    <3>1. CASE b \in index
      BY <1>6, <1>11, <2>5, <3>1 DEF CoverInv, ListRead
    <3>2. CASE b \in own
      BY <2>2, <3>2
    <3>3. CASE SlotOf(b) < from /\ ~ Full(index, b) /\ b \in tree.archive
      <4>1. CASE u \in Workers \ cold
        BY <1>6, <1>11, <2>5, <3>3, <4>1 DEF CoverInv, RangesRead
      <4>2. CASE u \in cold
        <5>1. WarmupSlot[w] <= WarmupSlot[u]
          <6>1. w <= u /\ w \in Nat /\ u \in Nat /\ WarmupSlot[w] \in Nat
            BY <1>5, <4>2, SlotPlanAssumption DEF Slots
          <6>2. CASE w < u
            BY <6>2, RangesInOrder
          <6>3. CASE w = u
            BY <6>1, <6>3
          <6> QED BY <6>1, <6>2, <6>3
        <5>2. SlotOf(b) \in Nat /\ WarmupSlot[w] \in Nat /\ WarmupSlot[u] \in Nat
          <6>1. b \in Orphans
            BY <1>2, <3>3
          <6>2. SlotOf(b) \in Nat
            BY <1>2, <6>1, OrphanSlots
          <6>3. WarmupSlot[w] \in Nat /\ WarmupSlot[u] \in Nat
            BY SlotPlanAssumption DEF Slots
          <6> QED BY <6>2, <6>3
        <5>3. SlotOf(b) >= WarmupSlot[u] + 1
          BY <2>5, <5>2 DEF InRange
        <5> QED BY <3>3, <5>1, <5>2, <5>3
      <4> QED BY <4>1, <4>2
    <3> QED BY <1>1, <2>1, <3>1, <3>2, <3>3 DEF ReadBy
  <2>6. RangesRead'
    BY <1>1, <1>6, <2>4 DEF RangesRead
  <2>7. ListRead'
    BY <1>6, <2>5 DEF ListRead
  <2> QED BY <2>6, <2>7
<1>12. tree.mode # "greedy" => RangesRead' /\ ListRead'
  BY <1>1 DEF RangesRead, ListRead
<1>13. WarmCoversByRange'
  BY <1>1, CoverUnasked DEF CoverInv
<1>14. RoomyListed'
  <2> SUFFICES ASSUME NEW o \in cache', Roomy(o) PROVE o \in index'
    BY <1>1, Fixed DEF RoomyListed
  <2>1. CASE o \in cache
    BY <1>1, <1>4, <2>1 DEF CoverInv, RoomyListed
  <2>2. CASE o \in r.cached
    BY <1>1, <1>2, <2>2, WarmLists DEF r
  <2> QED BY <1>1, <2>1, <2>2
<1> QED BY <1>9, <1>10, <1>11, <1>12, <1>13, <1>14 DEF CoverInv

(* CoverRun: an engine's turn keeps it. *)
LEMMA CoverRun ==
  ASSUME PlanInv, CoverInv, NEW w \in Workers, RunSlot(w)
  PROVE  CoverInv'
<1> DEFINE s == next[w]
           from == WarmupSlot[w] + 1
           to == EndSlot[w]
           plan == BuildSlot(s, WarmupSlot[w])
           attestations == IF tree.mode = "first-seen" THEN AttestationsForSlot(s)
                           ELSE attestationsFromSources(planSourcesForSlot(s), s + 1)
<1>1. /\ status = "serve" /\ s < to
      /\ missing' = [missing EXCEPT ![w] = plan.missing]
      /\ tree' = tree /\ cold' = cold /\ cache' = cache /\ index' = index
  BY DEF RunSlot
<1>2. /\ TreeOK /\ index \subseteq cache /\ cache \subseteq tree.archive /\ tree.archive \subseteq Orphans
      /\ missing \in [Workers -> SUBSET Orphans]
  BY DEF PlanInv, PlanTypes, TreeOK
<1>3. /\ s \in Nat /\ from \in Nat /\ to \in Nat /\ s >= from /\ cold = {} /\ Cap \in Nat
  <2>1. s \in Nat /\ s \in WarmupSlot[w] + 1 .. EndSlot[w]
    BY DEF PlanInv, PlanTypes
  <2>2. cold = {}
    BY <1>1 DEF PlanInv, Phases
  <2>3. WarmupSlot[w] \in Nat /\ EndSlot[w] \in Nat
    BY SlotPlanAssumption DEF Slots
  <2> QED BY <2>1, <2>2, <2>3, CapType
<1> HIDE DEF s, plan
<1>4. \A v \in unknownRoots(from, to, {}) : Asks(v) \subseteq cache
  BY <1>3 DEF CoverInv, RootsCached
<1>5. attestations \subseteq Orphans
  BY VotesAreOrphans
<1>6. ASSUME tree.mode = "first-seen", NEW v \in attestations PROVE Asks(v) \subseteq cache
  <2>1. v \in AttestationsForSlot(s) /\ s \in from .. to - 1
    BY <1>1, <1>3, <1>6
  <2> HIDE DEF attestations
  <2>2. v \in unknownRoots(from, to, {})
    BY <1>6, <2>1 DEF unknownRoots
  <2> QED BY <1>4, <2>2
<1>7. ASSUME tree.mode = "greedy", NEW v \in attestations PROVE Asks(v) \subseteq cache
  <2>1. v \in attestationsFromSources(CanonicalAt(s + 1 .. s + Cap), s + 1)
    BY <1>7 DEF planSourcesForSlot
  <2> HIDE DEF attestations
  <2>2. PICK t \in CanonicalAt(s + 1 .. s + Cap) : \E b \in sourceBlockInfosBySlot(t) : v \in Attestations(b)
    BY <2>1 DEF attestationsFromSources
  <2>3. PICK b \in sourceBlockInfosBySlot(t) : v \in Attestations(b)
    BY <2>2
  <2>4. t \in Int /\ t \in from .. to + Cap
    BY <1>1, <1>3, <2>2 DEF CanonicalAt
  <2>5. CASE b \in CanonicalAt({t})
    <3>1. b \in CanonicalAt(from .. to + Cap)
      BY <2>4, <2>5 DEF CanonicalAt
    <3>2. v \in unknownRoots(from, to, {})
      BY <1>7, <2>3, <3>1 DEF unknownRoots
    <3> QED BY <1>4, <3>2
  <2>6. CASE b \in index /\ SlotOf(b) = t
    <3>1. InRange(w, b)
      BY <2>4, <2>6 DEF InRange
    <3>2. Read(b)
      BY <1>7, <2>6, <3>1 DEF CoverInv, ListRead
    <3> QED BY <2>3, <3>2 DEF Read
  <2> QED BY <2>5, <2>6 DEF sourceBlockInfosBySlot, archiveOrphanInfosBySlot
<1>8. ASSUME tree.mode \in {"greedy", "first-seen"} PROVE plan.missing \cap tree.archive = {}
  <2>1. \A v \in attestations : Asks(v) \subseteq cache
    BY <1>6, <1>7, <1>8
  <2>2. attestations = IF tree.mode = "first-seen" THEN AttestationsForSlot(s)
                       ELSE attestationsFromSources(planSourcesForSlot(s), s + 1)
    OBVIOUS
  <2> HIDE DEF attestations
  <2> QED BY <1>2, <1>3, <1>5, <2>1, <2>2, BuildMissing DEF plan
<1>9. WarmCoversByRange'
  <2> SUFFICES ASSUME tree.mode \in {"greedy", "first-seen"}, NEW u \in Workers
               PROVE  missing'[u] \cap tree.archive = {}
    BY <1>1 DEF WarmCoversByRange, WarmCovers
  <2>1. missing[u] \cap tree.archive = {}
    BY DEF CoverInv, WarmCoversByRange, WarmCovers
  <2> QED BY <1>1, <1>2, <1>8, <2>1
<1>10. RoomyListed'
  BY <1>1, Fixed DEF CoverInv, RoomyListed
<1> QED BY <1>1, <1>9, <1>10, CoverStays DEF CoverInv

(* CoverInductive: the invariant of the cache, on top of that of the plan. *)
THEOREM CoverInductive == Spec => []CoverInv
<1>1. ASSUME PlanInv, CoverInv, NEW w \in Workers, WarmErr(w) PROVE CoverInv'
  <2>1. tree' = tree /\ cold' = cold /\ index' = index /\ missing' = missing /\ cache \subseteq cache'
    BY <1>1 DEF WarmErr
  <2>2. WarmCoversByRange'
    BY <1>1, <2>1, CoverUnasked DEF CoverInv
  <2>3. RoomyListed'
    BY <1>1 DEF WarmErr, RoomyListed
  <2> QED BY <1>1, <2>1, <2>2, <2>3, CoverStays DEF CoverInv
<1>2. ASSUME PlanInv, CoverInv, UNCHANGED vars PROVE CoverInv'
  <2>1. tree' = tree /\ cold' = cold /\ index' = index /\ missing' = missing /\ cache \subseteq cache'
    BY <1>2 DEF vars
  <2>2. WarmCoversByRange'
    BY <1>2, <2>1, CoverUnasked DEF CoverInv
  <2>3. RoomyListed'
    BY <1>2, Fixed DEF CoverInv, RoomyListed, vars
  <2> QED BY <1>2, <2>1, <2>2, <2>3, CoverStays DEF CoverInv
<1>3. PlanInv /\ CoverInv /\ [Next]_vars => CoverInv'
  BY <1>1, <1>2, CoverWarm, CoverRun DEF Next
<1> QED BY PlanInductive, CoverInit, <1>3, PTL DEF Spec

(* WarmAlwaysCoversByRange: in greedy and first-seen mode, the serving      *)
(* backend never asks the cache for an orphan that the archive has and the  *)
(* warm phase did not fetch, whatever the tree and the limits, as the       *)
(* comment of WarmBlockArchiveCache promises.                               *)
THEOREM WarmAlwaysCoversByRange == Spec => []WarmCoversByRange
<1>1. CoverInv => WarmCoversByRange
  BY DEF CoverInv
<1> QED BY CoverInductive, <1>1, PTL
-------------------------------------------------------------------------------
(* The plan of a range: what its folds keep.                                *)

AppendChain(roots, chain) == FoldLeft(appendOrphanRoot, roots, chain)

(* FoldAppend: appending a chain to a list. *)
LEMMA FoldAppend ==
  ASSUME NEW A, NEW start \in A, NEW X, NEW q \in Seq(X),
         \A a \in A, x \in X : appendOrphanRoot(a, x) \in A
  PROVE  AppendChain(start, q) \in A
<1> DEFINE n == Len(q)
           Op(a, x) == appendOrphanRoot(a, x)
           G == [x \in (1 .. n) \X A |-> Op(x[2], q[x[1]])]
           iter == CHOOSE f : f = [s \in SUBSET (1 .. n) |->
                     IF s = {} THEN start ELSE Op(f[s \ {Max(s)}], q[Max(s)])]
<1>0. AppendChain(start, q) = iter[1 .. n]
  <2>1. DOMAIN q = 1 .. n
    OBVIOUS
  <2> QED BY <2>1 DEF AppendChain, FoldLeft, MapThenFoldSet
<1>1. n \in Nat /\ \A i \in 1 .. n : q[i] \in X
  OBVIOUS
<1>2. \A a \in A, x \in X : Op(a, x) \in A
  OBVIOUS
<1> HIDE DEF n, Op
<1>3. G \in [(1 .. n) \X A -> A] /\ \A i \in 1 .. n, a \in A : G[<<i, a>>] = Op(a, q[i])
  BY <1>1, <1>2
<1> HIDE DEF G
<1>4. PICK f : Folds(n, A, start, G, f)
  BY <1>1, <1>3, FoldIter
<1>5. /\ f \in [SUBSET (1 .. n) -> A] /\ f[{}] = start
      /\ \A s \in SUBSET (1 .. n) : s # {} => f[s] = G[<<Max(s), f[s \ {Max(s)}]>>]
  BY <1>4 DEF Folds
<1>6. \A s \in SUBSET (1 .. n) :
        f[s] = IF s = {} THEN start ELSE Op(f[s \ {Max(s)}], q[Max(s)])
  <2> SUFFICES ASSUME NEW s \in SUBSET (1 .. n), s # {}
               PROVE  f[s] = Op(f[s \ {Max(s)}], q[Max(s)])
    BY <1>5
  <2> DEFINE m == Max(s)
             t == s \ {m}
  <2>1. m \in 1 .. n
    BY <1>1, LargestOf
  <2>2. f[s] = G[<<m, f[t]>>] /\ t \in SUBSET (1 .. n)
    BY <1>5
  <2> HIDE DEF m, t
  <2>3. f[s] = Op(f[t], q[m])
    BY <1>3, <1>5, <2>1, <2>2
  <2> QED BY <2>3 DEF m, t
<1>7. f = [s \in SUBSET (1 .. n) |-> IF s = {} THEN start ELSE Op(f[s \ {Max(s)}], q[Max(s)])]
  <2>1. f = [s \in SUBSET (1 .. n) |-> f[s]]
    BY <1>5
  <2> QED BY <1>6, <2>1
<1>8. iter = [s \in SUBSET (1 .. n) |-> IF s = {} THEN start ELSE Op(iter[s \ {Max(s)}], q[Max(s)])]
  BY <1>7, Zenon
<1> HIDE DEF iter
<1>9. Unrolls(n, A, start, G, iter)
  <2>1. {} \in SUBSET (1 .. n)
    OBVIOUS
  <2>2. \A s \in SUBSET (1 .. n) :
          iter[s] = IF s = {} THEN start ELSE Op(iter[s \ {Max(s)}], q[Max(s)])
    BY <1>8, Zenon
  <2>3. iter[{}] = start
    BY <2>1, <2>2
  <2>4. ASSUME NEW s \in SUBSET (1 .. n), s # {}, iter[s \ {Max(s)}] \in A
        PROVE  iter[s] = G[<<Max(s), iter[s \ {Max(s)}]>>]
    <3> DEFINE m == Max(s)
               t == iter[s \ {m}]
    <3>1. m \in 1 .. n /\ t \in A /\ iter[s] = Op(t, q[m])
      BY <1>1, <2>2, <2>4, LargestOf
    <3> HIDE DEF m, t
    <3>2. iter[s] = G[<<m, t>>]
      BY <1>3, <3>1
    <3> QED BY <3>2 DEF m, t
  <2> QED BY <2>3, <2>4 DEF Unrolls
<1>10. Reaches(n, A, start, G, iter[1 .. n])
  BY <1>1, <1>3, <1>9, FoldLoop
<1>11. PICK h : Loops(n, A, start, G, h) /\ h[n] = iter[1 .. n]
  BY <1>10 DEF Reaches
<1>12. h[n] \in A
  BY <1>1, <1>11 DEF Loops
<1> QED BY <1>0, <1>11, <1>12

(* The steps of a plan that the model gives as local definitions. *)
ScheduleOf(a, b, simSlot, minImportSlot, planEnd) == scheduleOrphan(a, simSlot, minImportSlot, planEnd, b)

ScheduleChain(start, chain, simSlot, minImportSlot, planEnd) ==
  FoldLeft(LAMBDA a, b : ScheduleOf(a, b, simSlot, minImportSlot, planEnd), start, chain)

(* FoldSchedule: scheduling the blocks of a chain. *)
LEMMA FoldSchedule ==
  ASSUME NEW A, NEW start \in A, NEW X, NEW q \in Seq(X), NEW s1, NEW s2, NEW s3,
         \A a \in A, x \in X : ScheduleOf(a, x, s1, s2, s3) \in A
  PROVE  ScheduleChain(start, q, s1, s2, s3) \in A
<1> DEFINE n == Len(q)
           Op(a, x) == ScheduleOf(a, x, s1, s2, s3)
           G == [x \in (1 .. n) \X A |-> Op(x[2], q[x[1]])]
           iter == CHOOSE f : f = [s \in SUBSET (1 .. n) |->
                     IF s = {} THEN start ELSE Op(f[s \ {Max(s)}], q[Max(s)])]
<1>0. ScheduleChain(start, q, s1, s2, s3) = iter[1 .. n]
  <2>1. DOMAIN q = 1 .. n
    OBVIOUS
  <2> QED BY <2>1 DEF ScheduleChain, FoldLeft, MapThenFoldSet
<1>1. n \in Nat /\ \A i \in 1 .. n : q[i] \in X
  OBVIOUS
<1>2. \A a \in A, x \in X : Op(a, x) \in A
  OBVIOUS
<1> HIDE DEF n, Op
<1>3. G \in [(1 .. n) \X A -> A] /\ \A i \in 1 .. n, a \in A : G[<<i, a>>] = Op(a, q[i])
  BY <1>1, <1>2
<1> HIDE DEF G
<1>4. PICK f : Folds(n, A, start, G, f)
  BY <1>1, <1>3, FoldIter
<1>5. /\ f \in [SUBSET (1 .. n) -> A] /\ f[{}] = start
      /\ \A s \in SUBSET (1 .. n) : s # {} => f[s] = G[<<Max(s), f[s \ {Max(s)}]>>]
  BY <1>4 DEF Folds
<1>6. \A s \in SUBSET (1 .. n) :
        f[s] = IF s = {} THEN start ELSE Op(f[s \ {Max(s)}], q[Max(s)])
  <2> SUFFICES ASSUME NEW s \in SUBSET (1 .. n), s # {}
               PROVE  f[s] = Op(f[s \ {Max(s)}], q[Max(s)])
    BY <1>5
  <2> DEFINE m == Max(s)
             t == s \ {m}
  <2>1. m \in 1 .. n
    BY <1>1, LargestOf
  <2>2. f[s] = G[<<m, f[t]>>] /\ t \in SUBSET (1 .. n)
    BY <1>5
  <2> HIDE DEF m, t
  <2>3. f[s] = Op(f[t], q[m])
    BY <1>3, <1>5, <2>1, <2>2
  <2> QED BY <2>3 DEF m, t
<1>7. f = [s \in SUBSET (1 .. n) |-> IF s = {} THEN start ELSE Op(f[s \ {Max(s)}], q[Max(s)])]
  <2>1. f = [s \in SUBSET (1 .. n) |-> f[s]]
    BY <1>5
  <2> QED BY <1>6, <2>1
<1>8. iter = [s \in SUBSET (1 .. n) |-> IF s = {} THEN start ELSE Op(iter[s \ {Max(s)}], q[Max(s)])]
  BY <1>7, Zenon
<1> HIDE DEF iter
<1>9. Unrolls(n, A, start, G, iter)
  <2>1. {} \in SUBSET (1 .. n)
    OBVIOUS
  <2>2. \A s \in SUBSET (1 .. n) :
          iter[s] = IF s = {} THEN start ELSE Op(iter[s \ {Max(s)}], q[Max(s)])
    BY <1>8, Zenon
  <2>3. iter[{}] = start
    BY <2>1, <2>2
  <2>4. ASSUME NEW s \in SUBSET (1 .. n), s # {}, iter[s \ {Max(s)}] \in A
        PROVE  iter[s] = G[<<Max(s), iter[s \ {Max(s)}]>>]
    <3> DEFINE m == Max(s)
               t == iter[s \ {m}]
    <3>1. m \in 1 .. n /\ t \in A /\ iter[s] = Op(t, q[m])
      BY <1>1, <2>2, <2>4, LargestOf
    <3> HIDE DEF m, t
    <3>2. iter[s] = G[<<m, t>>]
      BY <1>3, <3>1
    <3> QED BY <3>2 DEF m, t
  <2> QED BY <2>3, <2>4 DEF Unrolls
<1>10. Reaches(n, A, start, G, iter[1 .. n])
  BY <1>1, <1>3, <1>9, FoldLoop
<1>11. PICK h : Loops(n, A, start, G, h) /\ h[n] = iter[1 .. n]
  BY <1>10 DEF Reaches
<1>12. h[n] \in A
  BY <1>1, <1>11 DEF Loops
<1> QED BY <1>0, <1>11, <1>12

ResolveRoot(acc, root, simSlot, minImportSlot, planEnd) ==
  LET walk == resolveOrphanChain(root, acc.imported, cache, simSlot + 1)
      seen == [acc EXCEPT !.missing = @ \cup (walk.asked \ cache),
                          !.listed = AppendChain(@, walk.chain)]
  IN  IF Settled(acc, root) THEN acc
      ELSE ScheduleChain(seen, Reverse(walk.chain), simSlot, minImportSlot, planEnd)

ResolveRoots(start, roots, simSlot, minImportSlot, planEnd) ==
  FoldLeft(LAMBDA a, b : ResolveRoot(a, b, simSlot, minImportSlot, planEnd), start, roots)

(* FoldResolve: resolving the roots that are voted for. *)
LEMMA FoldResolve ==
  ASSUME NEW A, NEW start \in A, NEW X, NEW q \in Seq(X), NEW s1, NEW s2, NEW s3,
         \A a \in A, x \in X : ResolveRoot(a, x, s1, s2, s3) \in A
  PROVE  ResolveRoots(start, q, s1, s2, s3) \in A
<1> DEFINE n == Len(q)
           Op(a, x) == ResolveRoot(a, x, s1, s2, s3)
           G == [x \in (1 .. n) \X A |-> Op(x[2], q[x[1]])]
           iter == CHOOSE f : f = [s \in SUBSET (1 .. n) |->
                     IF s = {} THEN start ELSE Op(f[s \ {Max(s)}], q[Max(s)])]
<1>0. ResolveRoots(start, q, s1, s2, s3) = iter[1 .. n]
  <2>1. DOMAIN q = 1 .. n
    OBVIOUS
  <2> QED BY <2>1 DEF ResolveRoots, FoldLeft, MapThenFoldSet
<1>1. n \in Nat /\ \A i \in 1 .. n : q[i] \in X
  OBVIOUS
<1>2. \A a \in A, x \in X : Op(a, x) \in A
  OBVIOUS
<1> HIDE DEF n, Op
<1>3. G \in [(1 .. n) \X A -> A] /\ \A i \in 1 .. n, a \in A : G[<<i, a>>] = Op(a, q[i])
  BY <1>1, <1>2
<1> HIDE DEF G
<1>4. PICK f : Folds(n, A, start, G, f)
  BY <1>1, <1>3, FoldIter
<1>5. /\ f \in [SUBSET (1 .. n) -> A] /\ f[{}] = start
      /\ \A s \in SUBSET (1 .. n) : s # {} => f[s] = G[<<Max(s), f[s \ {Max(s)}]>>]
  BY <1>4 DEF Folds
<1>6. \A s \in SUBSET (1 .. n) :
        f[s] = IF s = {} THEN start ELSE Op(f[s \ {Max(s)}], q[Max(s)])
  <2> SUFFICES ASSUME NEW s \in SUBSET (1 .. n), s # {}
               PROVE  f[s] = Op(f[s \ {Max(s)}], q[Max(s)])
    BY <1>5
  <2> DEFINE m == Max(s)
             t == s \ {m}
  <2>1. m \in 1 .. n
    BY <1>1, LargestOf
  <2>2. f[s] = G[<<m, f[t]>>] /\ t \in SUBSET (1 .. n)
    BY <1>5
  <2> HIDE DEF m, t
  <2>3. f[s] = Op(f[t], q[m])
    BY <1>3, <1>5, <2>1, <2>2
  <2> QED BY <2>3 DEF m, t
<1>7. f = [s \in SUBSET (1 .. n) |-> IF s = {} THEN start ELSE Op(f[s \ {Max(s)}], q[Max(s)])]
  <2>1. f = [s \in SUBSET (1 .. n) |-> f[s]]
    BY <1>5
  <2> QED BY <1>6, <2>1
<1>8. iter = [s \in SUBSET (1 .. n) |-> IF s = {} THEN start ELSE Op(iter[s \ {Max(s)}], q[Max(s)])]
  BY <1>7, Zenon
<1> HIDE DEF iter
<1>9. Unrolls(n, A, start, G, iter)
  <2>1. {} \in SUBSET (1 .. n)
    OBVIOUS
  <2>2. \A s \in SUBSET (1 .. n) :
          iter[s] = IF s = {} THEN start ELSE Op(iter[s \ {Max(s)}], q[Max(s)])
    BY <1>8, Zenon
  <2>3. iter[{}] = start
    BY <2>1, <2>2
  <2>4. ASSUME NEW s \in SUBSET (1 .. n), s # {}, iter[s \ {Max(s)}] \in A
        PROVE  iter[s] = G[<<Max(s), iter[s \ {Max(s)}]>>]
    <3> DEFINE m == Max(s)
               t == iter[s \ {m}]
    <3>1. m \in 1 .. n /\ t \in A /\ iter[s] = Op(t, q[m])
      BY <1>1, <2>2, <2>4, LargestOf
    <3> HIDE DEF m, t
    <3>2. iter[s] = G[<<m, t>>]
      BY <1>3, <3>1
    <3> QED BY <3>2 DEF m, t
  <2> QED BY <2>3, <2>4 DEF Unrolls
<1>10. Reaches(n, A, start, G, iter[1 .. n])
  BY <1>1, <1>3, <1>9, FoldLoop
<1>11. PICK h : Loops(n, A, start, G, h) /\ h[n] = iter[1 .. n]
  BY <1>10 DEF Reaches
<1>12. h[n] \in A
  BY <1>1, <1>11 DEF Loops
<1> QED BY <1>0, <1>11, <1>12

-------------------------------------------------------------------------------
(* Sequences of imports.                                                    *)

(* No block twice. *)
Apart(q) == \A i, j \in DOMAIN q : q[i] = q[j] => i = j

(* SortedApart: a sorted set is such a sequence. *)
LEMMA SortedApart ==
  ASSUME TreeOK, NEW S, S \subseteq Orphans
  PROVE  Apart(Sorted(S))
<1>1. Sorted(S) \in SetToSeqs(S)
  BY SortedHolds
<1> DEFINE q == Sorted(S)
<1> HIDE DEF q
<1>2. q \in [1 .. Cardinality(S) -> S] /\ \A i, j \in 1 .. Cardinality(S) : i # j => q[i] # q[j]
  BY <1>1 DEF SetToSeqs, q
<1>3. Apart(q)
  BY <1>2 DEF Apart
<1> QED BY <1>3 DEF q

(* ConcatAt: what stands where in a concatenation. *)
LEMMA ConcatAt ==
  ASSUME NEW X, NEW p \in Seq(X), NEW q \in Seq(X)
  PROVE  /\ p \o q \in Seq(X) /\ DOMAIN (p \o q) = 1 .. Len(p) + Len(q)
         /\ \A i \in 1 .. Len(p) : (p \o q)[i] = p[i] /\ p[i] \in Range(p)
         /\ \A i \in 1 .. Len(q) : (p \o q)[Len(p) + i] = q[i] /\ q[i] \in Range(q)
         /\ \A j \in DOMAIN (p \o q) :
              j \in 1 .. Len(p) \/ (j - Len(p) \in 1 .. Len(q) /\ (p \o q)[j] = q[j - Len(p)])
         /\ Len(p) \in Nat /\ Len(q) \in Nat /\ DOMAIN p = 1 .. Len(p) /\ DOMAIN q = 1 .. Len(q)
         /\ Range(p \o q) = Range(p) \cup Range(q)
<1>1. Range(p \o q) = Range(p) \cup Range(q)
  BY RangeConcatenation
<1>2. \A i \in 1 .. Len(p) : p[i] \in Range(p)
  BY DEF Range
<1>3. \A i \in 1 .. Len(q) : q[i] \in Range(q)
  BY DEF Range
<1> QED BY <1>1, <1>2, <1>3

(* ApartConcat: two such sequences with no block in common. *)
LEMMA ApartConcat ==
  ASSUME NEW X, NEW p \in Seq(X), NEW q \in Seq(X), Apart(p), Apart(q), Range(p) \cap Range(q) = {}
  PROVE  Apart(p \o q)
<1> DEFINE r == p \o q
<1>1. /\ DOMAIN r = 1 .. Len(p) + Len(q)
      /\ \A i \in 1 .. Len(p) : r[i] = p[i] /\ p[i] \in Range(p)
      /\ \A i \in 1 .. Len(q) : q[i] \in Range(q)
      /\ \A j \in DOMAIN r : j \in 1 .. Len(p) \/ (j - Len(p) \in 1 .. Len(q) /\ r[j] = q[j - Len(p)])
      /\ Len(p) \in Nat /\ Len(q) \in Nat /\ DOMAIN p = 1 .. Len(p) /\ DOMAIN q = 1 .. Len(q)
  BY ConcatAt
<1> HIDE DEF r
<1> SUFFICES ASSUME NEW i \in DOMAIN r, NEW j \in DOMAIN r, r[i] = r[j] PROVE i = j
  BY DEF Apart, r
<1>2. CASE i \in 1 .. Len(p) /\ j \in 1 .. Len(p)
  BY <1>1, <1>2 DEF Apart
<1>3. CASE i \notin 1 .. Len(p) /\ j \notin 1 .. Len(p)
  <2>1. i - Len(p) \in DOMAIN q /\ j - Len(p) \in DOMAIN q /\ q[i - Len(p)] = q[j - Len(p)]
    BY <1>1, <1>3
  <2>2. i - Len(p) = j - Len(p)
    BY <2>1 DEF Apart
  <2> QED BY <1>1, <2>2
<1>4. CASE i \in 1 .. Len(p) /\ j \notin 1 .. Len(p)
  <2>1. r[i] \in Range(p) /\ r[j] \in Range(q)
    BY <1>1, <1>4
  <2> QED BY <2>1
<1>5. CASE i \notin 1 .. Len(p) /\ j \in 1 .. Len(p)
  <2>1. r[j] \in Range(p) /\ r[i] \in Range(q)
    BY <1>1, <1>5
  <2> QED BY <2>1
<1> QED BY <1>2, <1>3, <1>4, <1>5

(* x has to come before y: it is listed or canonical and of an earlier      *)
(* slot, or it is the canonical block of the slot.                          *)
Before(from, x, y) ==
  /\ x \in index \cup tree.canonical /\ from <= SlotOf(x)
  /\ \/ SlotOf(x) < SlotOf(y)
     \/ x \in tree.canonical /\ SlotOf(x) = SlotOf(y) /\ x # y

Led(from, q) == \A j \in DOMAIN q : \A x : Before(from, x, q[j]) => \E i \in 1 .. j - 1 : q[i] = x

(* LedConcat: what has to come before the new blocks is there. *)
LEMMA LedConcat ==
  ASSUME NEW X, NEW p \in Seq(X), NEW q \in Seq(X), NEW from, Led(from, p),
         \A j \in DOMAIN q : \A x : Before(from, x, q[j]) =>
            x \in Range(p) \/ \E i \in 1 .. j - 1 : q[i] = x
  PROVE  Led(from, p \o q)
<1> DEFINE r == p \o q
<1>1. /\ DOMAIN r = 1 .. Len(p) + Len(q)
      /\ \A i \in 1 .. Len(p) : r[i] = p[i]
      /\ \A i \in 1 .. Len(q) : r[Len(p) + i] = q[i]
      /\ \A j \in DOMAIN r : j \in 1 .. Len(p) \/ (j - Len(p) \in 1 .. Len(q) /\ r[j] = q[j - Len(p)])
      /\ Len(p) \in Nat /\ Len(q) \in Nat /\ DOMAIN p = 1 .. Len(p) /\ DOMAIN q = 1 .. Len(q)
  BY ConcatAt
<1> HIDE DEF r
<1> SUFFICES ASSUME NEW j \in DOMAIN r, NEW x, Before(from, x, r[j]) PROVE \E i \in 1 .. j - 1 : r[i] = x
  BY DEF Led, r
<1>2. CASE j \in 1 .. Len(p)
  <2>1. PICK i \in 1 .. j - 1 : p[i] = x
    BY <1>1, <1>2 DEF Led
  <2>2. i \in 1 .. Len(p)
    BY <1>1, <1>2
  <2> QED BY <1>1, <2>1, <2>2
<1>3. CASE j \notin 1 .. Len(p)
  <2> DEFINE k == j - Len(p)
  <2>1. k \in 1 .. Len(q) /\ r[j] = q[k] /\ k \in DOMAIN q /\ j \in Int
    BY <1>1, <1>3
  <2>2. x \in Range(p) \/ \E i \in 1 .. k - 1 : q[i] = x
    BY <2>1
  <2>3. CASE x \in Range(p)
    <3>1. PICK i \in 1 .. Len(p) : p[i] = x
      BY <1>1, <2>3 DEF Range
    <3>2. i \in 1 .. j - 1
      BY <1>1, <2>1
    <3> QED BY <1>1, <3>1, <3>2
  <2>4. ASSUME NEW i \in 1 .. k - 1, q[i] = x PROVE \E m \in 1 .. j - 1 : r[m] = x
    <3>1. i \in 1 .. Len(q) /\ Len(p) + i \in 1 .. j - 1
      BY <1>1, <2>1
    <3> QED BY <1>1, <2>4, <3>1
  <2> QED BY <2>2, <2>3, <2>4
<1> QED BY <1>2, <1>3

-------------------------------------------------------------------------------
(* What an engine holds after a sequence of imports.                        *)

(* ImportReach: the blocks of K are imported, if each is led by its parent. *)
LEMMA ImportReach ==
  ASSUME TreeOK, NEW start \in Engines, ~ start.fatal, NEW q \in Seq(TreeBlocks), NEW K,
         \A j \in DOMAIN q : q[j] \notin Orphans => q[j] \in K,
         \A j \in DOMAIN q : q[j] \in K =>
            Parent(q[j]) \in start.known \/ \E i \in 1 .. j - 1 : q[i] = Parent(q[j]) /\ q[i] \in K,
         NEW r, r = FoldLeft(importPlannedBlock, start, q)
  PROVE  start.known \subseteq r.known /\ \A j \in DOMAIN q : q[j] \in K => q[j] \in r.known
<1> DEFINE n == Len(q)
<1>1. n \in Nat /\ DOMAIN q = 1 .. n /\ \A i \in 1 .. n : q[i] \in TreeBlocks
  OBVIOUS
<1>2. PICK h : ImportsAll(start, q, h)
  BY ImportLoop
<1>3. /\ h[0] = start /\ r = h[n] /\ h \in [0 .. n -> Engines]
      /\ \A i \in 1 .. n : h[i] = importPlannedBlock(h[i - 1], q[i])
  BY <1>2 DEF ImportsAll
<1> HIDE DEF n
<1> DEFINE Inv(i) == /\ ~ h[i].fatal /\ start.known \subseteq h[i].known
                     /\ \A j \in 1 .. i : q[j] \in K => q[j] \in h[i].known
           S == {i \in 0 .. n : Inv(i)}
<1>4. 0 \in S
  BY <1>1, <1>3
<1>5. ASSUME NEW i \in 1 .. n, i - 1 \in S PROVE i \in S
  <2> DEFINE a == h[i - 1]
             b == q[i]
             e == h[i]
  <2>1. Inv(i - 1) /\ i - 1 \in 0 .. n /\ i \in 0 .. n
    BY <1>1, <1>5
  <2>2. /\ a \in Engines /\ ~ a.fatal /\ start.known \subseteq a.known /\ b \in TreeBlocks
        /\ e = importPlannedBlock(a, b)
        /\ \A j \in 1 .. i - 1 : q[j] \in K => q[j] \in a.known
    BY <1>1, <1>3, <2>1
  <2>3. b \in K => Parent(b) \in a.known
    <3> SUFFICES ASSUME b \in K PROVE Parent(b) \in a.known
      OBVIOUS
    <3>1. Parent(b) \in start.known \/ \E j \in 1 .. i - 1 : q[j] = Parent(b) /\ q[j] \in K
      BY <1>1
    <3> QED BY <2>2, <3>1
  <2>4. b \notin Orphans => Parent(b) \in a.known
    BY <1>1, <2>3
  <2> HIDE DEF a, b, e
  <2>5. ~ e.fatal /\ a.known \subseteq e.known /\ (Parent(b) \in a.known => b \in e.known)
    BY <2>2, <2>4, ImportStep
  <2>6. \A j \in 1 .. i : q[j] \in K => q[j] \in e.known
    <3>1. \A j \in 1 .. i : j \in 1 .. i - 1 \/ j = i
      BY <1>1
    <3> QED BY <2>2, <2>3, <2>5, <3>1 DEF b
  <2>7. Inv(i)
    BY <2>2, <2>5, <2>6 DEF e
  <2> QED BY <2>1, <2>7
<1>6. n \in S
  <2>1. \A i \in 1 .. n : i - 1 \in S => i \in S
    BY <1>5
  <2> HIDE DEF S
  <2>2. \A i \in 0 .. n : i \in S
    BY <1>1, <1>4, <2>1, CountUp
  <2> QED BY <1>1, <2>2
<1>7. Inv(n)
  BY <1>6
<1> QED BY <1>1, <1>3, <1>7

(* ImportClosed: what an engine holds has been given to it, and its parent  *)
(* is held.                                                                 *)
LEMMA ImportClosed ==
  ASSUME TreeOK, NEW start \in Engines, NEW q \in Seq(TreeBlocks),
         NEW r, r = FoldLeft(importPlannedBlock, start, q)
  PROVE  /\ r.known \subseteq start.known \cup Range(q)
         /\ \A b \in r.known : b \in start.known \/ Parent(b) \in r.known
<1> DEFINE n == Len(q)
<1>1. n \in Nat /\ DOMAIN q = 1 .. n /\ \A i \in 1 .. n : q[i] \in TreeBlocks
  OBVIOUS
<1>2. PICK h : ImportsAll(start, q, h)
  BY ImportLoop
<1>3. /\ h[0] = start /\ r = h[n] /\ h \in [0 .. n -> Engines]
      /\ \A i \in 1 .. n : h[i] = importPlannedBlock(h[i - 1], q[i])
  BY <1>2 DEF ImportsAll
<1>4. \A i \in 1 .. n : q[i] \in Range(q)
  BY <1>1 DEF Range
<1> HIDE DEF n
<1> DEFINE Inv(i) == /\ h[i].known \subseteq start.known \cup Range(q)
                     /\ \A b \in h[i].known : b \in start.known \/ Parent(b) \in h[i].known
           S == {i \in 0 .. n : Inv(i)}
<1>5. 0 \in S
  BY <1>1, <1>3
<1>6. ASSUME NEW i \in 1 .. n, i - 1 \in S PROVE i \in S
  <2> DEFINE a == h[i - 1]
             b == q[i]
             e == h[i]
  <2>1. Inv(i - 1) /\ i - 1 \in 0 .. n /\ i \in 0 .. n
    BY <1>1, <1>6
  <2>2. /\ a \in Engines /\ e = importPlannedBlock(a, b) /\ b \in Range(q)
        /\ a.known \subseteq start.known \cup Range(q)
        /\ \A x \in a.known : x \in start.known \/ Parent(x) \in a.known
    BY <1>1, <1>3, <1>4, <2>1
  <2> HIDE DEF a, b, e
  <2>3. e.known = a.known \/ (e.known = a.known \cup {b} /\ Parent(b) \in a.known)
    BY <2>2 DEF importPlannedBlock, Engines
  <2>4. Inv(i)
    BY <2>2, <2>3 DEF e
  <2> QED BY <2>1, <2>4
<1>7. n \in S
  <2>1. \A i \in 1 .. n : i - 1 \in S => i \in S
    BY <1>6
  <2> HIDE DEF S
  <2>2. \A i \in 0 .. n : i \in S
    BY <1>1, <1>5, <2>1, CountUp
  <2> QED BY <1>1, <2>2
<1> QED BY <1>3, <1>7

(* BranchWithin: a set that holds o and the parents of its orphans holds    *)
(* the branch of o.                                                         *)
LEMMA BranchWithin ==
  ASSUME TreeOK, NEW o \in Orphans, NEW K, o \in K, \A b \in K \cap Orphans : tree.parent[b] \in K
  PROVE  Branch(o).orphans \subseteq K /\ Branch(o).base \in K
<1>1. PICK k, U : LineOfBranch(o, k, U)
  BY BranchLine
<1>2. /\ k \in Nat /\ U[0] = o /\ Branch(o).orphans = {U[i] : i \in 0 .. k - 1} /\ Branch(o).base = U[k]
      /\ \A i \in 0 .. k - 1 : U[i] \in Orphans /\ U[i + 1] = tree.parent[U[i]]
  BY <1>1 DEF LineOfBranch, Line, Climbs
<1> DEFINE S == {i \in 0 .. k : U[i] \in K}
<1>3. 0 \in S
  BY <1>2
<1>4. ASSUME NEW i \in 1 .. k, i - 1 \in S PROVE i \in S
  <2>1. i - 1 \in 0 .. k - 1 /\ i \in 0 .. k /\ U[i - 1] \in K /\ (i - 1) + 1 = i
    BY <1>2, <1>4
  <2>2. U[i] = tree.parent[U[i - 1]] /\ U[i - 1] \in Orphans
    BY <1>2, <2>1
  <2> QED BY <2>1, <2>2
<1>5. \A i \in 0 .. k : i \in S
  <2> HIDE DEF S
  <2> QED BY <1>2, <1>3, <1>4, CountUp
<1>6. \A i \in 0 .. k : U[i] \in K
  BY <1>5
<1>7. k \in 0 .. k /\ \A i \in 0 .. k - 1 : i \in 0 .. k
  BY <1>2
<1> QED BY <1>2, <1>6, <1>7

-------------------------------------------------------------------------------
(* What a plan carries from slot to slot.                                   *)

PlanRecs ==
  [imported : SUBSET cache, scheduled : SUBSET cache, missing : SUBSET Orphans,
   ignored : SUBSET Orphans, listed : SUBSET Orphans, pending : [Slots -> SUBSET cache],
   now : SUBSET cache, out : Seq(TreeBlocks)]

(* The list only grows, no block of the range is ignored, and a scheduled   *)
(* block is imported or waits at its own slot.                              *)
Carries(p, from, to) ==
  /\ index \subseteq p.listed
  /\ \A x \in p.ignored : ~ (from <= SlotOf(x) /\ SlotOf(x) < to)
  /\ \A x \in p.scheduled : x \in p.imported \/ x \in p.pending[SlotOf(x)]
  /\ \A t \in Slots : \A x \in p.pending[t] : SlotOf(x) = t

Carried(from, to) == {p \in PlanRecs : Carries(p, from, to)}

(* While the sources of slot s are read: what is imported now. *)
Reading(p, from, to, s) ==
  {a \in Carried(from, to) :
     /\ a.out = p.out /\ a.imported = p.imported \cup a.now /\ a.now \cap p.imported = {}
     /\ \A x \in a.now : from <= SlotOf(x) /\ SlotOf(x) <= s}

(* LargerOf: the later of two slots. *)
LEMMA LargerOf ==
  ASSUME NEW a \in Nat, NEW b \in Nat
  PROVE  Max({a, b}) = IF a <= b THEN b ELSE a
<1>1. {a, b} \in SUBSET (0 .. a + b) /\ {a, b} # {} /\ a + b \in Nat
  OBVIOUS
<1>2. Max({a, b}) \in {a, b} /\ \A y \in {a, b} : y <= Max({a, b})
  BY <1>1, LargestNat
<1> QED BY <1>2

(* ScheduleKeeps: scheduling one block. *)
LEMMA ScheduleKeeps ==
  ASSUME TreeOK, cache \subseteq Orphans, NEW from \in Nat, NEW to \in Slots, NEW s \in Nat, from <= s, s < to,
         NEW p, NEW a \in Reading(p, from, to, s), NEW b \in cache
  PROVE  ScheduleOf(a, b, s, from, to) \in Reading(p, from, to, s)
<1> DEFINE r == ScheduleOf(a, b, s, from, to)
           t == SlotOf(b)
           target == Max({t, s})
<1>0. to \in Nat /\ t \in Nat /\ t \in Slots /\ b \in Orphans
  <2>1. b \in Orphans
    OBVIOUS
  <2>2. to \in Nat
    BY SlotPlanAssumption DEF Slots
  <2> QED BY <2>1, <2>2, OrphanSlots
<1>1. target = IF t <= s THEN s ELSE t
  BY <1>0, LargerOf
<1>2. r = IF t < from THEN [a EXCEPT !.ignored = @ \cup {b}]
          ELSE IF b \in a.imported \cup a.scheduled THEN a
          ELSE IF target >= to THEN [a EXCEPT !.ignored = @ \cup {b}]
          ELSE IF target = s THEN [a EXCEPT !.imported = @ \cup {b}, !.now = @ \cup {b}]
          ELSE [a EXCEPT !.scheduled = @ \cup {b}, !.pending[target] = @ \cup {b}]
  BY DEF ScheduleOf, scheduleOrphan
<1>3. a \in PlanRecs /\ Carries(a, from, to) /\ a \in Carried(from, to)
      /\ a.out = p.out /\ a.imported = p.imported \cup a.now /\ a.now \cap p.imported = {}
      /\ \A x \in a.now : from <= SlotOf(x) /\ SlotOf(x) <= s
  BY DEF Reading, Carried
<1> SUFFICES r \in Reading(p, from, to, s)
  OBVIOUS
<1> HIDE DEF r, target
<1>4. ASSUME ~ (from <= t /\ t < to), r = [a EXCEPT !.ignored = @ \cup {b}]
      PROVE  r \in Reading(p, from, to, s)
  <2>1. r \in PlanRecs /\ r.imported = a.imported /\ r.scheduled = a.scheduled /\ r.listed = a.listed
        /\ r.pending = a.pending /\ r.now = a.now /\ r.out = a.out /\ r.ignored = a.ignored \cup {b}
    BY <1>0, <1>3, <1>4 DEF PlanRecs
  <2>2. Carries(r, from, to)
    BY <1>3, <1>4, <2>1 DEF Carries
  <2> QED BY <1>3, <2>1, <2>2 DEF Reading, Carried
<1>5. ASSUME from <= t, t <= s, b \notin a.imported, r = [a EXCEPT !.imported = @ \cup {b}, !.now = @ \cup {b}]
      PROVE  r \in Reading(p, from, to, s)
  <2>1. r \in PlanRecs /\ r.imported = a.imported \cup {b} /\ r.scheduled = a.scheduled /\ r.listed = a.listed
        /\ r.pending = a.pending /\ r.now = a.now \cup {b} /\ r.out = a.out /\ r.ignored = a.ignored
    BY <1>0, <1>3, <1>5 DEF PlanRecs
  <2>2. Carries(r, from, to)
    BY <1>3, <2>1 DEF Carries
  <2>3. r.imported = p.imported \cup r.now /\ r.now \cap p.imported = {}
        /\ \A x \in r.now : from <= SlotOf(x) /\ SlotOf(x) <= s
    BY <1>3, <1>5, <2>1
  <2> QED BY <1>3, <2>1, <2>2, <2>3 DEF Reading, Carried
<1>6. ASSUME r = [a EXCEPT !.scheduled = @ \cup {b}, !.pending[t] = @ \cup {b}]
      PROVE  r \in Reading(p, from, to, s)
  <2>0. a.pending \in [Slots -> SUBSET cache] /\ a.scheduled \cup {b} \in SUBSET cache
        /\ a.pending[t] \cup {b} \in SUBSET cache
    BY <1>0, <1>3 DEF PlanRecs
  <2>1. r \in PlanRecs /\ r.imported = a.imported /\ r.scheduled = a.scheduled \cup {b} /\ r.listed = a.listed
        /\ r.pending = [a.pending EXCEPT ![t] = @ \cup {b}] /\ r.now = a.now /\ r.out = a.out
        /\ r.ignored = a.ignored
    BY <1>0, <1>3, <1>6, <2>0 DEF PlanRecs
  <2>2. b \in r.pending[t] /\ \A u \in Slots : a.pending[u] \subseteq r.pending[u]
        /\ (r.pending[u] = a.pending[u] \/ (u = t /\ r.pending[u] = a.pending[u] \cup {b}))
    BY <1>0, <2>0, <2>1
  <2>3. \A x \in a.scheduled : SlotOf(x) \in Slots
    BY <1>3, OrphanSlots DEF PlanRecs
  <2>4. Carries(r, from, to)
    BY <1>3, <2>1, <2>2, <2>3 DEF Carries
  <2> QED BY <1>3, <2>1, <2>4 DEF Reading, Carried
<1>7. CASE t < from
  BY <1>0, <1>2, <1>4, <1>7
<1>8. CASE from <= t /\ b \in a.imported \cup a.scheduled
  BY <1>0, <1>2, <1>8
<1>9. CASE from <= t /\ b \notin a.imported \cup a.scheduled /\ target >= to
  BY <1>0, <1>1, <1>2, <1>4, <1>9
<1>10. CASE from <= t /\ b \notin a.imported \cup a.scheduled /\ ~ (target >= to) /\ target = s
  BY <1>0, <1>1, <1>2, <1>5, <1>10
<1>11. CASE from <= t /\ b \notin a.imported \cup a.scheduled /\ ~ (target >= to) /\ target # s
  <2>1. target = t /\ ~ (t < from)
    BY <1>0, <1>1, <1>11
  <2>2. r = [a EXCEPT !.scheduled = @ \cup {b}, !.pending[target] = @ \cup {b}]
    BY <1>2, <1>11, <2>1, Zenon
  <2>3. r = [a EXCEPT !.scheduled = @ \cup {b}, !.pending[t] = @ \cup {b}]
    BY <2>1, <2>2, Zenon
  <2> QED BY <1>6, <2>3, Zenon
<1> QED
  <2>1. t < from \/ from <= t
    BY <1>0
  <2> QED BY <2>1, <1>7, <1>8, <1>9, <1>10, <1>11

(* ResolveKeeps: resolving one root. *)
LEMMA ResolveKeeps ==
  ASSUME TreeOK, cache \subseteq Orphans, NEW from \in Nat, NEW to \in Slots, NEW s \in Nat, from <= s, s < to,
         NEW p, NEW a \in Reading(p, from, to, s), NEW root \in Orphans
  PROVE  ResolveRoot(a, root, s, from, to) \in Reading(p, from, to, s)
<1> DEFINE walk == resolveOrphanChain(root, a.imported, cache, s + 1)
           C == walk.chain
           listed == AppendChain(a.listed, C)
           seen == [a EXCEPT !.missing = @ \cup (walk.asked \ cache),
                             !.listed = AppendChain(@, C)]
           R == Reading(p, from, to, s)
<1>0. ResolveRoot(a, root, s, from, to) =
        IF Settled(a, root) THEN a
        ELSE ScheduleChain(seen, Reverse(C), s, from, to)
  BY DEF ResolveRoot
<1>1. C \in Seq(Orphans) /\ Range(C) \subseteq Passes(a.imported, cache, s + 1) /\ walk.asked \subseteq Branch(root).orphans
  <2>1. s + 1 \in Int
    OBVIOUS
  <2> QED BY <2>1, ResolveFacts
<1>2. walk.asked \subseteq Orphans
  BY <1>1, BranchFacts
<1>3. a \in PlanRecs /\ Carries(a, from, to)
      /\ a.out = p.out /\ a.imported = p.imported \cup a.now /\ a.now \cap p.imported = {}
      /\ \A x \in a.now : from <= SlotOf(x) /\ SlotOf(x) <= s
  BY DEF Reading, Carried
<1> HIDE DEF walk, C
<1>4. Range(C) \subseteq cache
  BY <1>1 DEF Passes
<1>5. C \in Seq(cache) /\ Reverse(C) \in Seq(cache)
  <2>1. Len(C) \in Nat /\ C \in [1 .. Len(C) -> Orphans] /\ DOMAIN C = 1 .. Len(C)
    BY <1>1
  <2>2. \A i \in 1 .. Len(C) : C[i] \in cache
    BY <1>4, <2>1 DEF Range
  <2>3. C \in [1 .. Len(C) -> cache]
    BY <2>1, <2>2
  <2>4. \A i \in 1 .. Len(C) : Len(C) - i + 1 \in 1 .. Len(C)
    BY <2>1
  <2>5. [i \in 1 .. Len(C) |-> C[Len(C) - i + 1]] \in [1 .. Len(C) -> cache]
    BY <2>2, <2>4
  <2>6. Reverse(C) \in [1 .. Len(C) -> cache]
    BY <2>5 DEF Reverse
  <2> QED BY <2>1, <2>3, <2>6
<1>6. listed \subseteq Orphans /\ index \subseteq listed
  <2> DEFINE A == {L \in SUBSET Orphans : index \subseteq L}
  <2>1. a.listed \in A
    BY <1>3 DEF PlanRecs, Carries
  <2>2. \A L \in A, x \in Orphans : appendOrphanRoot(L, x) \in A
    BY DEF appendOrphanRoot
  <2> HIDE DEF A
  <2>3. listed \in A
    BY <1>1, <2>1, <2>2, FoldAppend
  <2> QED BY <2>3 DEF A
<1>7. seen \in R
  <2> HIDE DEF listed
  <2>1. seen = [a EXCEPT !.missing = @ \cup (walk.asked \ cache), !.listed = listed]
    BY <1>3 DEF listed, PlanRecs
  <2> HIDE DEF seen
  <2>2. a.missing \cup (walk.asked \ cache) \in SUBSET Orphans
    BY <1>2, <1>3 DEF PlanRecs
  <2>3. seen \in PlanRecs /\ seen.imported = a.imported /\ seen.scheduled = a.scheduled
        /\ seen.listed = listed /\ seen.pending = a.pending /\ seen.now = a.now /\ seen.out = a.out
        /\ seen.ignored = a.ignored
    BY <1>3, <1>6, <2>1, <2>2 DEF PlanRecs
  <2>4. Carries(seen, from, to)
    BY <1>3, <1>6, <2>3 DEF Carries
  <2> QED BY <1>3, <2>3, <2>4 DEF Reading, Carried
<1>8. ScheduleChain(seen, Reverse(C), s, from, to) \in R
  <2>1. \A x \in R, b \in cache : ScheduleOf(x, b, s, from, to) \in R
    BY ScheduleKeeps
  <2> HIDE DEF R, seen
  <2> QED BY <1>5, <1>7, <2>1, FoldSchedule
<1> QED BY <1>0, <1>8

(* The imports so far: the orphans I and the canonical blocks of slots up   *)
(* to c, each once, led by what has to come before them; the listed orphans *)
(* of slots before d are there.                                             *)
Laid(out, I, from, d, c) ==
  /\ Range(out) = I \cup CanonicalAt(from .. c)
  /\ \A x \in I : from <= SlotOf(x) /\ SlotOf(x) <= c
  /\ \A x \in index : from <= SlotOf(x) /\ SlotOf(x) < d => x \in I
  /\ Apart(out) /\ Led(from, out)

(* OrphansLaid: orphans of slots up to s come after the canonical block of  *)
(* slot s.                                                                  *)
LEMMA OrphansLaid ==
  ASSUME TreeOK, cache \subseteq Orphans, index \subseteq cache, NEW from \in Nat, NEW s \in Nat, NEW d \in Nat, s <= d,
         NEW out \in Seq(TreeBlocks), NEW I, I \subseteq cache, NEW N, N \subseteq cache, N \cap I = {},
         \A x \in N : from <= SlotOf(x) /\ SlotOf(x) <= s, Laid(out, I, from, d, s)
  PROVE  out \o Sorted(N) \in Seq(TreeBlocks) /\ Laid(out \o Sorted(N), I \cup N, from, d, s)
<1> DEFINE q == Sorted(N)
<1>0. N \subseteq Orphans /\ I \subseteq Orphans
  OBVIOUS
<1>1. q \in Seq(N) /\ Range(q) = N /\ Apart(q)
  BY <1>0, SortedHolds, SortedApart
<1> HIDE DEF q
<1>2. q \in Seq(TreeBlocks)
  <2>1. N \subseteq TreeBlocks
    BY <1>0 DEF TreeBlocks
  <2> QED BY <1>1, <2>1, SeqWiden
<1>3. /\ Range(out) = I \cup CanonicalAt(from .. s) /\ Apart(out) /\ Led(from, out)
      /\ \A x \in I : from <= SlotOf(x) /\ SlotOf(x) <= s
      /\ \A x \in index : from <= SlotOf(x) /\ SlotOf(x) < d => x \in I
  BY DEF Laid
<1>4. \A x \in tree.canonical : x \notin Orphans /\ SlotOf(x) = x /\ x \in Nat
  BY BlockSlots
<1>5. Range(out \o q) = (I \cup N) \cup CanonicalAt(from .. s) /\ out \o q \in Seq(TreeBlocks)
  BY <1>1, <1>2, <1>3, ConcatAt
<1>6. Apart(out \o q)
  <2>1. Range(out) \cap Range(q) = {}
    BY <1>0, <1>1, <1>3, <1>4 DEF CanonicalAt
  <2> QED BY <1>1, <1>2, <1>3, <2>1, ApartConcat
<1>7. Led(from, out \o q)
  <2>1. ASSUME NEW j \in DOMAIN q, NEW x, Before(from, x, q[j]) PROVE x \in Range(out)
    <3>1. q[j] \in N
      BY <1>1
    <3>2. SlotOf(q[j]) <= s /\ SlotOf(q[j]) \in Nat
      BY <1>0, <3>1, OrphanSlots
    <3>3. from <= SlotOf(x) /\ (x \in index \/ x \in tree.canonical) /\ SlotOf(x) <= SlotOf(q[j])
      <4>1. SlotOf(x) < SlotOf(q[j]) \/ SlotOf(x) = SlotOf(q[j])
        BY <2>1 DEF Before
      <4>2. x \in index \cup tree.canonical /\ from <= SlotOf(x)
        BY <2>1 DEF Before
      <4>3. SlotOf(x) \in Nat
        BY <4>2, <1>4, OrphanSlots
      <4> QED BY <3>2, <4>1, <4>2, <4>3
    <3>4. CASE x \in tree.canonical
      <4>1. x \in from .. s
        BY <1>4, <3>2, <3>3, <3>4
      <4> QED BY <1>3, <3>4, <4>1 DEF CanonicalAt
    <3>5. CASE x \in index /\ x \notin tree.canonical
      <4>1. SlotOf(x) < SlotOf(q[j])
        BY <2>1, <3>5 DEF Before
      <4>2. SlotOf(x) \in Nat
        BY <3>5, OrphanSlots
      <4> QED BY <1>3, <3>2, <3>3, <3>5, <4>1, <4>2
    <3> QED BY <3>3, <3>4, <3>5
  <2> QED BY <1>2, <1>3, <2>1, LedConcat
<1>8. \A x \in I \cup N : from <= SlotOf(x) /\ SlotOf(x) <= s
  BY <1>3
<1>9. Laid(out \o q, I \cup N, from, d, s)
  BY <1>3, <1>5, <1>6, <1>7, <1>8 DEF Laid
<1> QED BY <1>5, <1>9 DEF q

(* CanonicalLaid: the canonical block of slot s comes first in the slot. *)
LEMMA CanonicalLaid ==
  ASSUME TreeOK, cache \subseteq Orphans, index \subseteq cache, NEW from \in Nat, NEW s \in Nat, from <= s,
         NEW out \in Seq(TreeBlocks), NEW I, I \subseteq cache, Laid(out, I, from, s, s - 1)
  PROVE  out \o canonicalImport(s) \in Seq(TreeBlocks) /\ Laid(out \o canonicalImport(s), I, from, s, s)
<1> DEFINE q == canonicalImport(s)
<1>1. q \in Seq(CanonicalAt({s})) /\ Range(q) = CanonicalAt({s}) /\ Apart(q)
  BY CanonicalHolds DEF Apart, IsInjective
<1> HIDE DEF q
<1>2. q \in Seq(TreeBlocks)
  <2>1. CanonicalAt({s}) \subseteq TreeBlocks
    BY DEF TreeBlocks, CanonicalAt
  <2> QED BY <1>1, <2>1, SeqWiden
<1>3. /\ Range(out) = I \cup CanonicalAt(from .. s - 1) /\ Apart(out) /\ Led(from, out)
      /\ \A x \in I : from <= SlotOf(x) /\ SlotOf(x) <= s - 1
      /\ \A x \in index : from <= SlotOf(x) /\ SlotOf(x) < s => x \in I
  BY DEF Laid
<1>4. \A x \in tree.canonical : x \notin Orphans /\ SlotOf(x) = x /\ x \in Nat
  BY BlockSlots
<1>5. Range(out \o q) = I \cup CanonicalAt(from .. s) /\ out \o q \in Seq(TreeBlocks)
  <2>1. CanonicalAt(from .. s) = CanonicalAt(from .. s - 1) \cup CanonicalAt({s})
    <3>1. from .. s = (from .. s - 1) \cup {s}
      OBVIOUS
    <3> QED BY <3>1 DEF CanonicalAt
  <2>2. Range(out \o q) = Range(out) \cup Range(q) /\ out \o q \in Seq(TreeBlocks)
    BY <1>2, ConcatAt
  <2> QED BY <1>1, <1>3, <2>1, <2>2, Zenon
<1>6. Apart(out \o q)
  <2>1. s \notin from .. s - 1
    OBVIOUS
  <2>2. Range(out) \cap Range(q) = {}
    BY <1>1, <1>3, <1>4, <2>1 DEF CanonicalAt
  <2> QED BY <1>1, <1>2, <1>3, <2>2, ApartConcat
<1>7. Led(from, out \o q)
  <2>1. ASSUME NEW j \in DOMAIN q, NEW x, Before(from, x, q[j]) PROVE x \in Range(out)
    <3>1. q[j] = s /\ s \in tree.canonical /\ SlotOf(q[j]) = s
      BY <1>1, <1>4 DEF CanonicalAt
    <3>2. x \in index \cup tree.canonical /\ from <= SlotOf(x)
      BY <2>1 DEF Before
    <3>3. SlotOf(x) < s
      BY <1>4, <2>1, <3>1 DEF Before
    <3>4. CASE x \in tree.canonical
      <4>1. x \in from .. s - 1
        BY <1>4, <3>2, <3>3, <3>4
      <4> QED BY <1>3, <3>4, <4>1 DEF CanonicalAt
    <3> QED BY <1>3, <3>2, <3>3, <3>4
  <2> QED BY <1>2, <1>3, <2>1, LedConcat
<1>8. \A x \in I : from <= SlotOf(x) /\ SlotOf(x) <= s
  <2> SUFFICES ASSUME NEW x \in I PROVE from <= SlotOf(x) /\ SlotOf(x) <= s
    OBVIOUS
  <2>1. SlotOf(x) \in Nat
    BY OrphanSlots
  <2> QED BY <1>3, <2>1
<1>9. Laid(out \o q, I, from, s, s)
  BY <1>3, <1>5, <1>6, <1>7, <1>8 DEF Laid
<1> QED BY <1>5, <1>9 DEF q

Emits(p, S, from, to, r) ==
  /\ r \in Carried(from, to)
  /\ r.out = p.out \o Sorted(S \ p.imported) /\ r.imported = p.imported \cup S
  /\ r.scheduled = p.scheduled /\ r.pending = p.pending /\ r.ignored = p.ignored
  /\ r.listed = p.listed

(* EmitCarried: what emitting orphans changes. *)
LEMMA EmitCarried ==
  ASSUME TreeOK, cache \subseteq Orphans, NEW from, NEW to, NEW p \in Carried(from, to),
         NEW S, S \subseteq cache
  PROVE  Emits(p, S, from, to, Emit(p, S))
<1> DEFINE q == Sorted(S \ p.imported)
           r == Emit(p, S)
<1>1. p \in PlanRecs /\ Carries(p, from, to)
  BY DEF Carried
<1>2. q \in Seq(TreeBlocks)
  <2>1. S \ p.imported \subseteq Orphans /\ S \ p.imported \subseteq TreeBlocks
    BY DEF TreeBlocks
  <2>2. q \in Seq(S \ p.imported)
    BY <2>1, SortedHolds
  <2> HIDE DEF q
  <2> QED BY <2>1, <2>2, SeqWiden
<1>3. r = [p EXCEPT !.out = @ \o q, !.imported = @ \cup S]
  BY DEF Emit
<1> HIDE DEF q, r
<1>4. p.out \o q \in Seq(TreeBlocks) /\ p.imported \cup S \in SUBSET cache
  BY <1>1, <1>2 DEF PlanRecs
<1>5. /\ r \in PlanRecs /\ r.out = p.out \o q /\ r.imported = p.imported \cup S
      /\ r.scheduled = p.scheduled /\ r.pending = p.pending /\ r.ignored = p.ignored
      /\ r.listed = p.listed
  BY <1>1, <1>3, <1>4 DEF PlanRecs
<1>6. Carries(r, from, to)
  BY <1>1, <1>5 DEF Carries
<1>7. Emits(p, S, from, to, r)
  BY <1>5, <1>6 DEF Emits, Carried, q
<1> QED BY <1>7 DEF r

(* LookUpCarried: looking up listed orphans changes nothing else. *)
LEMMA LookUpCarried ==
  ASSUME NEW from, NEW to, NEW p \in Carried(from, to), NEW slots, NEW r, r = LookUpListed(p, slots)
  PROVE  /\ r \in Carried(from, to)
         /\ r.out = p.out /\ r.imported = p.imported /\ r.scheduled = p.scheduled
         /\ r.pending = p.pending /\ r.ignored = p.ignored /\ r.listed = p.listed
<1> DEFINE m == p.missing \cup {o \in p.listed \ cache : SlotOf(o) \in slots}
<1>1. p \in PlanRecs /\ Carries(p, from, to)
  BY DEF Carried
<1>2. m \in SUBSET Orphans
  BY <1>1 DEF PlanRecs
<1>3. r = [p EXCEPT !.missing = m]
  BY <1>1 DEF LookUpListed, PlanRecs
<1> HIDE DEF m
<1>4. /\ r \in PlanRecs /\ r.out = p.out /\ r.imported = p.imported /\ r.scheduled = p.scheduled
      /\ r.pending = p.pending /\ r.ignored = p.ignored /\ r.listed = p.listed
  BY <1>1, <1>2, <1>3 DEF PlanRecs
<1>5. Carries(r, from, to)
  BY <1>1, <1>4 DEF Carries
<1> QED BY <1>4, <1>5 DEF Carried

(* ArchivedKeeps: the listed orphans of slot s are imported or left for the *)
(* next step.                                                               *)
LEMMA ArchivedKeeps ==
  ASSUME TreeOK, cache \subseteq Orphans, index \subseteq cache,
         NEW from \in Nat, NEW to \in Slots, NEW s \in Nat, from <= s, s < to,
         NEW p \in Carried(from, to), NEW r, r = archiveOrphanImportsForSlot(p, s)
  PROVE  /\ r \in Carried(from, to)
         /\ Laid(p.out, p.imported, from, s, s) => Laid(r.out, r.imported, from, s, s)
         /\ \A x \in index : SlotOf(x) = s => x \in r.imported \/ x \in r.pending[s]
<1> DEFINE l == LookUpListed(p, {s})
           S == ListedAt(p, s) \ p.scheduled
<1>1. /\ l \in Carried(from, to) /\ l.out = p.out /\ l.imported = p.imported /\ l.scheduled = p.scheduled
      /\ l.pending = p.pending /\ l.ignored = p.ignored /\ l.listed = p.listed
  BY LookUpCarried
<1>2. r = Emit(l, S)
  BY DEF archiveOrphanImportsForSlot
<1>3. S \subseteq cache /\ \A x \in S : SlotOf(x) = s
  BY DEF ListedAt, archiveOrphanInfosBySlot
<1>4. \A x \in index : SlotOf(x) = s => x \in S \/ x \in p.scheduled
  <2>1. Carries(p, from, to)
    BY DEF Carried
  <2> QED BY <2>1 DEF Carries, ListedAt, archiveOrphanInfosBySlot
<1> HIDE DEF l, S
<1>5. /\ r \in Carried(from, to)
      /\ r.out = l.out \o Sorted(S \ l.imported) /\ r.imported = l.imported \cup S
      /\ r.scheduled = l.scheduled /\ r.pending = l.pending
  <2>1. Emits(l, S, from, to, Emit(l, S))
    BY <1>1, <1>3, EmitCarried
  <2> QED BY <1>2, <2>1 DEF Emits
<1>6. ASSUME Laid(p.out, p.imported, from, s, s) PROVE Laid(r.out, r.imported, from, s, s)
  <2> DEFINE N == S \ p.imported
  <2>1. N \subseteq cache /\ N \cap p.imported = {} /\ \A x \in N : from <= SlotOf(x) /\ SlotOf(x) <= s
    BY <1>3
  <2>2. p.out \in Seq(TreeBlocks) /\ p.imported \subseteq cache /\ s <= s
    BY DEF Carried, PlanRecs
  <2>3. r.out = p.out \o Sorted(N) /\ r.imported = p.imported \cup N
    BY <1>1, <1>5
  <2> HIDE DEF N
  <2>4. Laid(p.out \o Sorted(N), p.imported \cup N, from, s, s)
    BY <1>6, <2>1, <2>2, OrphansLaid
  <2> QED BY <2>3, <2>4
<1>7. \A x \in index : SlotOf(x) = s => x \in r.imported \/ x \in r.pending[s]
  <2>1. \A x \in p.scheduled : x \in p.imported \/ x \in p.pending[SlotOf(x)]
    BY DEF Carried, Carries
  <2> QED BY <1>1, <1>4, <1>5, <2>1
<1> QED BY <1>5, <1>6, <1>7

(* PendingKeeps: what was left for slot s is imported, so all listed        *)
(* orphans of the slot are.                                                 *)
LEMMA PendingKeeps ==
  ASSUME TreeOK, cache \subseteq Orphans, index \subseteq cache,
         NEW from \in Nat, NEW to \in Slots, NEW s \in Nat, from <= s, s < to,
         NEW p \in Carried(from, to), NEW r, r = pendingOrphanImports(p, s),
         \A x \in index : SlotOf(x) = s => x \in p.imported \/ x \in p.pending[s]
  PROVE  /\ r \in Carried(from, to)
         /\ Laid(p.out, p.imported, from, s, s) => Laid(r.out, r.imported, from, s + 1, s)
<1> DEFINE S == p.pending[s]
           e == Emit(p, S)
<1>0. s \in Slots /\ to \in Nat
  BY SlotPlanAssumption DEF Slots
<1>1. p \in PlanRecs /\ Carries(p, from, to)
  BY DEF Carried
<1>2. S \subseteq cache /\ \A x \in S : SlotOf(x) = s
  BY <1>0, <1>1 DEF PlanRecs, Carries
<1>3. r = [e EXCEPT !.pending[s] = {}]
  BY DEF pendingOrphanImports
<1>4. /\ e \in Carried(from, to)
      /\ e.out = p.out \o Sorted(S \ p.imported) /\ e.imported = p.imported \cup S
      /\ e.scheduled = p.scheduled /\ e.pending = p.pending /\ e.ignored = p.ignored
      /\ e.listed = p.listed
  <2> HIDE DEF S, e
  <2>1. Emits(p, S, from, to, Emit(p, S))
    BY <1>2, EmitCarried
  <2> QED BY <2>1 DEF Emits, e
<1> HIDE DEF e
<1>5. e \in PlanRecs /\ Carries(e, from, to)
  BY <1>4 DEF Carried
<1>6. [e.pending EXCEPT ![s] = {}] \in [Slots -> SUBSET cache]
  BY <1>0, <1>5 DEF PlanRecs
<1>7. /\ r \in PlanRecs /\ r.out = e.out /\ r.imported = e.imported /\ r.scheduled = e.scheduled
      /\ r.ignored = e.ignored /\ r.listed = e.listed /\ r.pending = [e.pending EXCEPT ![s] = {}]
  BY <1>0, <1>3, <1>5, <1>6 DEF PlanRecs
<1>8. Carries(r, from, to)
  <2>1. \A t \in Slots : t # s => r.pending[t] = p.pending[t]
    BY <1>0, <1>4, <1>5, <1>7 DEF PlanRecs
  <2>2. r.pending[s] = {}
    BY <1>0, <1>5, <1>7 DEF PlanRecs
  <2>3. ASSUME NEW x \in r.scheduled PROVE x \in r.imported \/ x \in r.pending[SlotOf(x)]
    <3>1. x \in p.scheduled /\ SlotOf(x) \in Slots
      BY <1>1, <1>4, <1>7, <2>3, OrphanSlots DEF PlanRecs
    <3>2. x \in p.imported \/ x \in p.pending[SlotOf(x)]
      BY <1>1, <3>1 DEF Carries
    <3> QED BY <1>4, <1>7, <2>1, <3>1, <3>2
  <2>4. \A t \in Slots : \A x \in r.pending[t] : SlotOf(x) = t
    BY <1>1, <2>1, <2>2 DEF Carries
  <2>5. index \subseteq r.listed /\ \A x \in r.ignored : ~ (from <= SlotOf(x) /\ SlotOf(x) < to)
    BY <1>1, <1>4, <1>7 DEF Carries
  <2> QED BY <2>3, <2>4, <2>5 DEF Carries
<1>9. ASSUME Laid(p.out, p.imported, from, s, s) PROVE Laid(r.out, r.imported, from, s + 1, s)
  <2> DEFINE N == S \ p.imported
  <2>1. N \subseteq cache /\ N \cap p.imported = {} /\ \A x \in N : from <= SlotOf(x) /\ SlotOf(x) <= s
    BY <1>2
  <2>2. p.out \in Seq(TreeBlocks) /\ p.imported \subseteq cache /\ s <= s
    BY <1>1 DEF PlanRecs
  <2>3. r.out = p.out \o Sorted(N) /\ r.imported = p.imported \cup N /\ p.imported \cup N = p.imported \cup S
    BY <1>4, <1>7
  <2> HIDE DEF N
  <2>4. Laid(p.out \o Sorted(N), p.imported \cup N, from, s, s)
    BY <1>9, <2>1, <2>2, OrphansLaid
  <2>5. ASSUME NEW x \in index, from <= SlotOf(x), SlotOf(x) < s + 1 PROVE x \in r.imported
    <3>1. SlotOf(x) \in Nat
      BY OrphanSlots
    <3>2. CASE SlotOf(x) = s
      BY <2>3, <3>2
    <3>3. CASE SlotOf(x) < s
      BY <2>3, <2>4, <2>5, <3>3 DEF Laid
    <3> QED BY <2>5, <3>1, <3>2, <3>3
  <2> QED BY <2>3, <2>4, <2>5 DEF Laid
<1> QED BY <1>7, <1>8, <1>9 DEF Carried

SourcesAdd(new) == [new EXCEPT !.out = @ \o Sorted(new.now)]

(* SourcesFold: outside greedy mode a plan reads no sources; in it the      *)
(* roots that are voted for are resolved one after the other.               *)
LEMMA SourcesFold ==
  ASSUME NEW p, NEW sources, NEW s, NEW from, NEW to, tree.mode = "greedy"
  PROVE  \E roots : /\ roots \subseteq Orphans
                    /\ orphanImportsForSources(p, sources, s, from, to) =
                         SourcesAdd(ResolveRoots([LookUpListed(p, sources) EXCEPT !.now = {}],
                                                    SortedRootKeys(roots), s, from, to))
<1> DEFINE looked == LookUpListed(p, sources)
           carriers == CanonicalAt(sources) \cup UNION {ListedAt(p, t) : t \in sources}
           roots == {o \in UNION {Attestations(b) : b \in carriers} :
                       SlotOf(o) <= s + 1 /\ ~ Settled(looked, o)}
<1>1. roots \subseteq Orphans
  BY VotesAreOrphans
<1>2. orphanImportsForSources(p, sources, s, from, to) =
        SourcesAdd(ResolveRoots([looked EXCEPT !.now = {}], SortedRootKeys(roots), s, from, to))
  BY DEF orphanImportsForSources, SourcesAdd, ResolveRoots, ResolveRoot, ScheduleChain, ScheduleOf, AppendChain
<1> HIDE DEF roots
<1> QED BY <1>1, <1>2

(* SourcesKeep: what the sources of slot s vote for. *)
LEMMA SourcesKeep ==
  ASSUME TreeOK, cache \subseteq Orphans, index \subseteq cache,
         NEW from \in Nat, NEW to \in Slots, NEW s \in Nat, from <= s, s < to,
         NEW p \in Carried(from, to), NEW sources, NEW r, r = orphanImportsForSources(p, sources, s, from, to)
  PROVE  /\ r \in Carried(from, to)
         /\ Laid(p.out, p.imported, from, s + 1, s) => Laid(r.out, r.imported, from, s + 1, s)
<1>1. CASE tree.mode # "greedy"
  <2>1. r = p
    BY <1>1 DEF orphanImportsForSources
  <2> QED BY <2>1
<1>2. CASE tree.mode = "greedy"
  <2> DEFINE R == Reading(p, from, to, s)
             l == LookUpListed(p, sources)
             l0 == [l EXCEPT !.now = {}]
  <2>1. PICK roots : /\ roots \subseteq Orphans
                     /\ r = SourcesAdd(ResolveRoots(l0, SortedRootKeys(roots), s, from, to))
    BY <1>2, SourcesFold
  <2> DEFINE new == ResolveRoots(l0, SortedRootKeys(roots), s, from, to)
  <2>2. /\ l \in Carried(from, to) /\ l.out = p.out /\ l.imported = p.imported
    BY LookUpCarried
  <2> HIDE DEF l
  <2>3. l0 \in R
    <3>1. l \in PlanRecs /\ Carries(l, from, to)
      BY <2>2 DEF Carried
    <3> HIDE DEF l0
    <3>2. l0 = [l EXCEPT !.now = {}]
      BY DEF l0
    <3>3. /\ l0 \in PlanRecs /\ l0.out = l.out /\ l0.imported = l.imported /\ l0.scheduled = l.scheduled
          /\ l0.ignored = l.ignored /\ l0.listed = l.listed /\ l0.pending = l.pending /\ l0.now = {}
      BY <3>1, <3>2 DEF PlanRecs
    <3>4. Carries(l0, from, to)
      BY <3>1, <3>3 DEF Carries
    <3> QED BY <2>2, <3>3, <3>4 DEF Reading, Carried
  <2>4. new \in R
    <3>1. SortedRootKeys(roots) \in Seq(Orphans)
      BY <2>1, RootKeysHold, SeqWiden
    <3>2. \A a \in R, x \in Orphans : ResolveRoot(a, x, s, from, to) \in R
      BY ResolveKeeps
    <3> HIDE DEF R, l0
    <3> QED BY <2>3, <3>1, <3>2, FoldResolve
  <2>5. r = [new EXCEPT !.out = @ \o Sorted(new.now)]
    BY <2>1 DEF SourcesAdd
  <2> HIDE DEF new
  <2>6. /\ new \in PlanRecs /\ Carries(new, from, to) /\ new.out = p.out
        /\ new.imported = p.imported \cup new.now /\ new.now \cap p.imported = {}
        /\ \A x \in new.now : from <= SlotOf(x) /\ SlotOf(x) <= s
    BY <2>4 DEF Reading, Carried
  <2> DEFINE N == new.now
             q == Sorted(N)
  <2>7. N \subseteq cache /\ p.out \in Seq(TreeBlocks) /\ p.imported \subseteq cache /\ s <= s + 1 /\ s + 1 \in Nat
    BY <2>6 DEF PlanRecs, Carried
  <2>8. new.out \o q \in Seq(TreeBlocks)
    <3>1. N \subseteq Orphans /\ N \subseteq TreeBlocks
      BY <2>7 DEF TreeBlocks
    <3> HIDE DEF N
    <3>2. q \in Seq(TreeBlocks)
      BY <3>1, SortedHolds, SeqWiden
    <3> HIDE DEF q
    <3> QED BY <2>6, <2>7, <3>2
  <2> HIDE DEF q
  <2>9. /\ r \in PlanRecs /\ r.out = new.out \o q /\ r.imported = new.imported /\ r.scheduled = new.scheduled
        /\ r.ignored = new.ignored /\ r.listed = new.listed /\ r.pending = new.pending
    <3>1. r = [new EXCEPT !.out = @ \o q]
      BY <2>5 DEF q
    <3> QED BY <2>6, <2>8, <3>1 DEF PlanRecs
  <2>10. Carries(r, from, to)
    BY <2>6, <2>9 DEF Carries
  <2>11. ASSUME Laid(p.out, p.imported, from, s + 1, s) PROVE Laid(r.out, r.imported, from, s + 1, s)
    <3>1. N \cap p.imported = {} /\ (\A x \in N : from <= SlotOf(x) /\ SlotOf(x) <= s)
          /\ r.out = p.out \o Sorted(N) /\ r.imported = p.imported \cup N
      BY <2>6, <2>9 DEF q
    <3> HIDE DEF N
    <3>2. Laid(p.out \o Sorted(N), p.imported \cup N, from, s + 1, s)
      BY <2>7, <2>11, <3>1, OrphansLaid
    <3> QED BY <3>1, <3>2
  <2> QED BY <2>9, <2>10, <2>11 DEF Carried
<1> QED BY <1>1, <1>2

(* PlanSlotKeeps: one slot of a plan. *)
LEMMA PlanSlotKeeps ==
  ASSUME TreeOK, cache \subseteq Orphans, index \subseteq cache,
         NEW from \in Nat, NEW to \in Slots, NEW s \in Nat, from <= s, s < to,
         NEW p \in Carried(from, to), NEW r, r = planSlot(p, from, to, s)
  PROVE  /\ r \in Carried(from, to)
         /\ Laid(p.out, p.imported, from, s, s - 1) => Laid(r.out, r.imported, from, s + 1, s)
<1> DEFINE c == [p EXCEPT !.out = @ \o canonicalImport(s)]
           a == archiveOrphanImportsForSlot(c, s)
           d == pendingOrphanImports(a, s)
<1>1. r = orphanImportsForSources(d, planSourcesForSlot(s), s, from, to)
  BY DEF planSlot
<1>2. p \in PlanRecs /\ Carries(p, from, to)
  BY DEF Carried
<1>3. c \in Carried(from, to) /\ c.out = p.out \o canonicalImport(s) /\ c.imported = p.imported
  <2> DEFINE q == canonicalImport(s)
  <2>1. q \in Seq(TreeBlocks)
    <3>1. CanonicalAt({s}) \subseteq TreeBlocks
      BY DEF TreeBlocks, CanonicalAt
    <3> QED BY <3>1, CanonicalHolds, SeqWiden
  <2> HIDE DEF q
  <2>2. p.out \o q \in Seq(TreeBlocks)
    BY <1>2, <2>1 DEF PlanRecs
  <2>3. c = [p EXCEPT !.out = @ \o q]
    BY DEF q
  <2> HIDE DEF c
  <2>4. /\ c \in PlanRecs /\ c.out = p.out \o q /\ c.imported = p.imported /\ c.scheduled = p.scheduled
        /\ c.ignored = p.ignored /\ c.listed = p.listed /\ c.pending = p.pending
    BY <1>2, <2>2, <2>3 DEF PlanRecs
  <2>5. Carries(c, from, to)
    BY <1>2, <2>4 DEF Carries
  <2> QED BY <2>4, <2>5 DEF Carried, q
<1> HIDE DEF c
<1>4. Laid(p.out, p.imported, from, s, s - 1) => Laid(c.out, c.imported, from, s, s)
  <2>1. p.out \in Seq(TreeBlocks) /\ p.imported \subseteq cache
    BY <1>2 DEF PlanRecs
  <2>2. Laid(p.out, p.imported, from, s, s - 1) => Laid(p.out \o canonicalImport(s), p.imported, from, s, s)
    BY <2>1, CanonicalLaid
  <2> QED BY <1>3, <2>2
<1>5. /\ a \in Carried(from, to)
      /\ Laid(c.out, c.imported, from, s, s) => Laid(a.out, a.imported, from, s, s)
      /\ \A x \in index : SlotOf(x) = s => x \in a.imported \/ x \in a.pending[s]
  BY <1>3, ArchivedKeeps
<1> HIDE DEF a
<1>6. /\ d \in Carried(from, to)
      /\ Laid(a.out, a.imported, from, s, s) => Laid(d.out, d.imported, from, s + 1, s)
  BY <1>5, PendingKeeps
<1> HIDE DEF d
<1>7. /\ r \in Carried(from, to)
      /\ Laid(d.out, d.imported, from, s + 1, s) => Laid(r.out, r.imported, from, s + 1, s)
  BY <1>1, <1>6, SourcesKeep
<1> QED BY <1>4, <1>5, <1>6, <1>7

(* PlanLoop: a plan is made slot after slot. *)
PlanSlots(start, q, from, to) == FoldLeft(LAMBDA plan, s : planSlot(plan, from, to, s), start, q)

PlansAll(start, q, from, to, h) ==
  /\ h \in [0 .. Len(q) -> Carried(from, to)] /\ h[0] = start
  /\ \A i \in 1 .. Len(q) : h[i] = planSlot(h[i - 1], from, to, q[i])
  /\ PlanSlots(start, q, from, to) = h[Len(q)]

LEMMA PlanLoop ==
  ASSUME NEW from, NEW to, NEW start \in Carried(from, to), NEW X, NEW q \in Seq(X),
         \A a \in Carried(from, to), x \in X : planSlot(a, from, to, x) \in Carried(from, to)
  PROVE  \E h : PlansAll(start, q, from, to, h)
<1> DEFINE n == Len(q)
           A == Carried(from, to)
           Op(a, x) == planSlot(a, from, to, x)
           G == [x \in (1 .. n) \X A |-> Op(x[2], q[x[1]])]
           iter == CHOOSE f : f = [s \in SUBSET (1 .. n) |->
                     IF s = {} THEN start ELSE Op(f[s \ {Max(s)}], q[Max(s)])]
<1>0. PlanSlots(start, q, from, to) = iter[1 .. n]
  <2>1. DOMAIN q = 1 .. n
    OBVIOUS
  <2> QED BY <2>1 DEF PlanSlots, FoldLeft, MapThenFoldSet
<1>1. n \in Nat /\ \A i \in 1 .. n : q[i] \in X
  OBVIOUS
<1>2. \A a \in A, x \in X : Op(a, x) \in A
  OBVIOUS
<1>start. start \in A
  OBVIOUS
<1> HIDE DEF n, Op, A
<1>3. G \in [(1 .. n) \X A -> A] /\ \A i \in 1 .. n, a \in A : G[<<i, a>>] = Op(a, q[i])
  BY <1>1, <1>2
<1> HIDE DEF G
<1>4. PICK f : Folds(n, A, start, G, f)
  BY <1>1, <1>3, <1>start, FoldIter
<1>5. /\ f \in [SUBSET (1 .. n) -> A] /\ f[{}] = start
      /\ \A s \in SUBSET (1 .. n) : s # {} => f[s] = G[<<Max(s), f[s \ {Max(s)}]>>]
  BY <1>4 DEF Folds
<1>6. \A s \in SUBSET (1 .. n) :
        f[s] = IF s = {} THEN start ELSE Op(f[s \ {Max(s)}], q[Max(s)])
  <2> SUFFICES ASSUME NEW s \in SUBSET (1 .. n), s # {}
               PROVE  f[s] = Op(f[s \ {Max(s)}], q[Max(s)])
    BY <1>5
  <2> DEFINE m == Max(s)
             t == s \ {m}
  <2>1. m \in 1 .. n
    BY <1>1, LargestOf
  <2>2. f[s] = G[<<m, f[t]>>] /\ t \in SUBSET (1 .. n)
    BY <1>5
  <2> HIDE DEF m, t
  <2>3. f[s] = Op(f[t], q[m])
    BY <1>3, <1>5, <2>1, <2>2
  <2> QED BY <2>3 DEF m, t
<1>7. f = [s \in SUBSET (1 .. n) |-> IF s = {} THEN start ELSE Op(f[s \ {Max(s)}], q[Max(s)])]
  <2>1. f = [s \in SUBSET (1 .. n) |-> f[s]]
    BY <1>5
  <2> QED BY <1>6, <2>1
<1>8. iter = [s \in SUBSET (1 .. n) |-> IF s = {} THEN start ELSE Op(iter[s \ {Max(s)}], q[Max(s)])]
  BY <1>7, Zenon
<1> HIDE DEF iter
<1>9. Unrolls(n, A, start, G, iter)
  <2>1. {} \in SUBSET (1 .. n)
    OBVIOUS
  <2>2. \A s \in SUBSET (1 .. n) :
          iter[s] = IF s = {} THEN start ELSE Op(iter[s \ {Max(s)}], q[Max(s)])
    BY <1>8, Zenon
  <2>3. iter[{}] = start
    BY <2>1, <2>2
  <2>4. ASSUME NEW s \in SUBSET (1 .. n), s # {}, iter[s \ {Max(s)}] \in A
        PROVE  iter[s] = G[<<Max(s), iter[s \ {Max(s)}]>>]
    <3> DEFINE m == Max(s)
               t == iter[s \ {m}]
    <3>1. m \in 1 .. n /\ t \in A /\ iter[s] = Op(t, q[m])
      BY <1>1, <2>2, <2>4, LargestOf
    <3> HIDE DEF m, t
    <3>2. iter[s] = G[<<m, t>>]
      BY <1>3, <3>1
    <3> QED BY <3>2 DEF m, t
  <2> QED BY <2>3, <2>4 DEF Unrolls
<1>10. Reaches(n, A, start, G, iter[1 .. n])
  BY <1>1, <1>3, <1>9, <1>start, FoldLoop
<1>11. PICK h : Loops(n, A, start, G, h) /\ h[n] = iter[1 .. n]
  BY <1>10 DEF Reaches
<1>12. h \in [0 .. n -> A] /\ h[0] = start /\ \A i \in 1 .. n : h[i] = G[<<i, h[i - 1]>>]
  BY <1>11 DEF Loops
<1>13. ASSUME NEW i \in 1 .. n PROVE h[i] = planSlot(h[i - 1], from, to, q[i])
  <2>1. h[i - 1] \in A
    BY <1>1, <1>12
  <2>2. h[i] = Op(h[i - 1], q[i])
    BY <1>3, <1>12, <2>1
  <2> QED BY <2>2 DEF Op
<1>14. PlansAll(start, q, from, to, h)
  BY <1>0, <1>11, <1>12, <1>13 DEF PlansAll, n, A
<1> QED BY <1>14

(* PlanLaid: the plan of a range. *)
LEMMA PlanLaid ==
  ASSUME TreeOK, cache \subseteq Orphans, index \subseteq cache,
         NEW from \in Nat, NEW to \in Slots, from <= to, NEW r, r = BuildPlan(from, to)
  PROVE  /\ r.out \in Seq(TreeBlocks) /\ r.imported \subseteq cache
         /\ Laid(r.out, r.imported, from, to, to - 1)
<1> DEFINE q == [i \in 1 .. to - from |-> from + i - 1]
           n == to - from
           X == from .. to - 1
<1>0. to \in Nat /\ n \in Nat
  BY SlotPlanAssumption DEF Slots
<1>1. r = PlanSlots(NewPlan, q, from, to)
  BY DEF BuildPlan, PlanSlots
<1>2. \A i \in 1 .. n : from + i - 1 \in X
  BY <1>0
<1>3. q \in Seq(X) /\ Len(q) = n /\ \A i \in 1 .. n : q[i] = from + i - 1
  <2>1. q \in [1 .. n -> X]
    BY <1>2
  <2>2. q \in Seq(X) /\ Len(q) = n
    BY <1>0, <2>1
  <2> QED BY <2>2
<1>4. /\ NewPlan \in Carried(from, to) /\ NewPlan.out = << >> /\ NewPlan.imported = {}
  <2>1. /\ NewPlan \in PlanRecs /\ NewPlan.out = << >> /\ NewPlan.imported = {} /\ NewPlan.scheduled = {}
        /\ NewPlan.ignored = {} /\ NewPlan.listed = index /\ NewPlan.pending = [s \in Slots |-> {}]
    <3>1. << >> \in Seq(TreeBlocks) /\ [s \in Slots |-> {}] \in [Slots -> SUBSET cache] /\ index \in SUBSET Orphans
      OBVIOUS
    <3> QED BY <3>1 DEF NewPlan, PlanRecs
  <2>2. Carries(NewPlan, from, to)
    BY <2>1 DEF Carries
  <2> QED BY <2>1, <2>2 DEF Carried
<1>5. ASSUME NEW a \in Carried(from, to), NEW x \in X
      PROVE  /\ planSlot(a, from, to, x) \in Carried(from, to)
             /\ Laid(a.out, a.imported, from, x, x - 1) =>
                  Laid(planSlot(a, from, to, x).out, planSlot(a, from, to, x).imported, from, x + 1, x)
  <2>1. x \in Nat /\ from <= x /\ x < to
    BY <1>0
  <2> QED BY <2>1, PlanSlotKeeps
<1> HIDE DEF q, X
<1>6. PICK h : PlansAll(NewPlan, q, from, to, h)
  BY <1>3, <1>4, <1>5, PlanLoop
<1>7. /\ h \in [0 .. n -> Carried(from, to)] /\ h[0] = NewPlan /\ r = h[n]
      /\ \A i \in 1 .. n : h[i] = planSlot(h[i - 1], from, to, q[i])
  BY <1>1, <1>3, <1>6 DEF PlansAll
<1> DEFINE Inv(i) == Laid(h[i].out, h[i].imported, from, from + i, from + i - 1)
           S == {i \in 0 .. n : Inv(i)}
<1> HIDE DEF n
<1>8. 0 \in S
  <2>1. 0 \in 0 .. n /\ from + 0 = from /\ from .. from - 1 = {}
    BY <1>0
  <2>2. DOMAIN << >> = {}
    OBVIOUS
  <2>3. Range(<< >>) = {} /\ Apart(<< >>) /\ Led(from, << >>)
    BY <2>2 DEF Range, Apart, Led
  <2>4. \A x \in index : ~ (from <= SlotOf(x) /\ SlotOf(x) < from)
    BY OrphanSlots
  <2>5. Laid(<< >>, {}, from, from, from - 1)
    BY <2>1, <2>3, <2>4 DEF Laid, CanonicalAt
  <2>6. from + 0 - 1 = from - 1 /\ h[0].out = << >> /\ h[0].imported = {}
    BY <1>4, <1>7
  <2>7. Inv(0)
    BY <2>1, <2>5, <2>6, Zenon
  <2> QED BY <2>1, <2>7
<1>9. ASSUME NEW i \in 1 .. n, i - 1 \in S PROVE i \in S
  <2> DEFINE a == h[i - 1]
             x == from + i - 1
  <2>1. a \in Carried(from, to) /\ i \in 0 .. n /\ x \in X
    BY <1>0, <1>2, <1>7
  <2>2. h[i] = planSlot(a, from, to, x)
    BY <1>3, <1>7
  <2>3. from + (i - 1) = x /\ from + (i - 1) - 1 = x - 1 /\ from + i = x + 1 /\ from + i - 1 = x
    BY <1>0
  <2>4. Laid(a.out, a.imported, from, x, x - 1)
    BY <1>9, <2>3
  <2> HIDE DEF a, x
  <2>5. Laid(h[i].out, h[i].imported, from, x + 1, x)
    BY <1>5, <2>1, <2>2, <2>4
  <2> QED BY <2>1, <2>3, <2>5
<1>10. Inv(n)
  <2>1. \A i \in 1 .. n : i - 1 \in S => i \in S
    BY <1>9
  <2>2. n \in S
    <3> HIDE DEF S
    <3>1. \A i \in 0 .. n : i \in S
      BY <1>0, <1>8, <2>1, CountUp
    <3> QED BY <1>0, <3>1
  <2> QED BY <2>2
<1>11. r \in PlanRecs
  BY <1>0, <1>7 DEF Carried
<1>12. from + n = to /\ from + n - 1 = to - 1 /\ r = h[n]
  BY <1>0, <1>7 DEF n
<1>13. Laid(r.out, r.imported, from, to, to - 1)
  BY <1>10, <1>12
<1>14. r.out \in Seq(TreeBlocks) /\ r.imported \in SUBSET cache
  BY <1>11 DEF PlanRecs
<1> QED BY <1>13, <1>14

-------------------------------------------------------------------------------
(* A plan names its blocks in order.                                        *)

(* CanonicalParent: the parent of a canonical block after a checkpoint.     *)
LEMMA CanonicalParent ==
  ASSUME TreeOK, NEW w \in Workers, NEW b \in tree.canonical, WarmupSlot[w] < b
  PROVE  Parent(b) \in tree.canonical /\ WarmupSlot[w] <= Parent(b) /\ Parent(b) < b
<1> DEFINE C == CanonicalAt(0 .. b - 1)
           p == Max(C)
<1>1. WarmupSlot[w] \in Nat /\ b \in Nat /\ b \notin Orphans /\ WarmupSlot[w] \in tree.canonical
  BY BlockSlots, SlotPlanAssumption DEF Slots, TreeOK
<1>2. Parent(b) = p
  BY <1>1 DEF Parent
<1>3. C \in SUBSET (0 .. b) /\ WarmupSlot[w] \in C
  <2>1. WarmupSlot[w] \in 0 .. b - 1 /\ 0 .. b - 1 \subseteq 0 .. b
    BY <1>1
  <2> QED BY <1>1, <2>1 DEF CanonicalAt
<1>4. p \in C /\ \A y \in C : y <= p
  <2> HIDE DEF C
  <2> QED BY <1>1, <1>3, LargestNat
<1> HIDE DEF p
<1>5. p \in tree.canonical /\ p \in 0 .. b - 1 /\ WarmupSlot[w] <= p
  BY <1>3, <1>4 DEF CanonicalAt
<1>6. p < b
  BY <1>1, <1>5
<1> QED BY <1>2, <1>5, <1>6

(* PlanOf: the plan of a worker's range. *)
LEMMA PlanOf ==
  ASSUME PlanInv, NEW w \in Workers
  PROVE  LET from == WarmupSlot[w] + 1
             r == BuildPlan(from, EndSlot[w])
         IN  /\ r.out \in Seq(TreeBlocks) /\ r.imported \subseteq cache
             /\ Laid(r.out, r.imported, from, EndSlot[w], EndSlot[w] - 1)
<1>1. TreeOK /\ cache \subseteq Orphans /\ index \subseteq cache
  BY DEF PlanInv, PlanTypes, TreeOK
<1>2. WarmupSlot[w] \in Nat /\ EndSlot[w] \in Slots /\ EndSlot[w] \in Nat /\ WarmupSlot[w] < EndSlot[w]
  BY SlotPlanAssumption DEF Slots
<1>3. WarmupSlot[w] + 1 \in Nat /\ WarmupSlot[w] + 1 <= EndSlot[w]
  BY <1>2
<1> QED BY <1>1, <1>2, <1>3, PlanLaid

(* PlanAlwaysOrdered: whatever the tree, the mode and the limits, a plan    *)
(* names no block twice and none before its parent or an earlier canonical  *)
(* block, except a parent whose slot overflows the lists.                   *)
THEOREM PlanAlwaysOrdered == Spec => []PlanOrdered
<1>1. ASSUME PlanInv, CoverInv PROVE PlanOrdered
  <2> SUFFICES ASSUME status = "serve", NEW w \in Workers
               PROVE  LET out == BuildPlan(WarmupSlot[w] + 1, EndSlot[w]).out
                      IN  \A i, j \in DOMAIN out :
                            /\ out[i] = out[j] => i = j
                            /\ Parent(out[j]) = out[i] => i < j \/ (out[i] \in Orphans /\ ~ Roomy(out[i]))
                            /\ out[i] \in Slots /\ out[i] <= SlotOf(out[j]) => i <= j
    BY DEF PlanOrdered, BeginsToServe
  <2> DEFINE r == BuildPlan(WarmupSlot[w] + 1, EndSlot[w])
             out == r.out
             from == WarmupSlot[w] + 1
  <2>1. /\ out \in Seq(TreeBlocks) /\ r.imported \subseteq cache
        /\ Laid(out, r.imported, from, EndSlot[w], EndSlot[w] - 1)
    BY <1>1, PlanOf
  <2>2. TreeOK /\ cache \subseteq Orphans /\ index \subseteq cache /\ WarmupSlot[w] \in Nat /\ EndSlot[w] \in Nat
    <3>1. TreeOK /\ cache \subseteq Orphans /\ index \subseteq cache
      BY <1>1 DEF PlanInv, PlanTypes, TreeOK
    <3>2. WarmupSlot[w] \in Nat /\ EndSlot[w] \in Nat
      BY SlotPlanAssumption DEF Slots
    <3> QED BY <3>1, <3>2
  <2>3. \A o \in cache : Roomy(o) => o \in index
    BY <1>1 DEF CoverInv, RoomyListed
  <2> HIDE DEF r
  <2>4. /\ Range(out) = r.imported \cup CanonicalAt(from .. EndSlot[w] - 1) /\ Apart(out) /\ Led(from, out)
        /\ \A x \in r.imported : from <= SlotOf(x)
    BY <2>1 DEF Laid
  <2> HIDE DEF out
  <2> SUFFICES ASSUME NEW i \in DOMAIN out, NEW j \in DOMAIN out
               PROVE  /\ out[i] = out[j] => i = j
                      /\ Parent(out[j]) = out[i] => i < j \/ (out[i] \in Orphans /\ ~ Roomy(out[i]))
                      /\ out[i] \in Slots /\ out[i] <= SlotOf(out[j]) => i <= j
    BY DEF out, r
  <2> DEFINE x == out[i]
             y == out[j]
  <2>5. i \in Nat /\ j \in Nat /\ i \in 1 .. Len(out) /\ j \in 1 .. Len(out) /\ Len(out) \in Nat
        /\ x \in Range(out) /\ y \in Range(out) /\ x \in TreeBlocks /\ y \in TreeBlocks
    BY <2>1 DEF Range
  <2>6. x = y => i = j
    BY <2>4 DEF Apart
  <2>7. ASSUME Before(from, x, y) PROVE i < j
    <3>1. PICK k \in 1 .. j - 1 : out[k] = x
      BY <2>4, <2>7 DEF Led
    <3>2. k \in DOMAIN out /\ k < j
      BY <2>1, <2>5
    <3>3. k = i
      BY <2>4, <3>1, <3>2 DEF Apart
    <3> QED BY <3>2, <3>3
  <2> HIDE DEF x, y
  <2>8. \A b \in tree.canonical : b \in Nat /\ b \notin Orphans /\ SlotOf(b) = b
    BY <2>2, BlockSlots
  <2>9. SlotOf(x) \in Nat /\ SlotOf(y) \in Nat /\ from <= SlotOf(x) /\ from <= SlotOf(y)
        /\ (x \in cache \/ x \in tree.canonical) /\ (y \in Orphans \/ (y \in tree.canonical /\ from <= y))
    <3>1. ASSUME NEW b \in Range(out)
          PROVE  SlotOf(b) \in Nat /\ from <= SlotOf(b)
                 /\ (b \in cache \/ b \in tree.canonical) /\ (b \in Orphans \/ (b \in tree.canonical /\ from <= b))
      <4>1. CASE b \in r.imported
        BY <2>1, <2>2, <2>4, <4>1, OrphanSlots
      <4>2. CASE b \in CanonicalAt(from .. EndSlot[w] - 1)
        <5>1. b \in tree.canonical /\ b \in from .. EndSlot[w] - 1
          BY <4>2 DEF CanonicalAt
        <5> QED BY <2>2, <2>8, <5>1
      <4> QED BY <2>4, <4>1, <4>2
    <3> QED BY <2>5, <3>1
  <2>10. ASSUME Parent(y) = x PROVE i < j \/ (x \in Orphans /\ ~ Roomy(x))
    <3>1. SlotOf(x) < SlotOf(y)
      <4>1. CASE y \in Orphans
        <5>1. Parent(y) = tree.parent[y] /\ SlotOf(y) = tree.slot[y]
          BY <4>1 DEF Parent, SlotOf
        <5> QED BY <2>2, <2>10, <4>1, <5>1 DEF TreeOK
      <4>2. CASE y \in tree.canonical /\ from <= y
        <5>1. WarmupSlot[w] < y
          BY <2>2, <2>8, <4>2
        <5>2. x \in tree.canonical /\ x < y
          BY <2>2, <2>10, <4>2, <5>1, CanonicalParent
        <5> QED BY <2>8, <4>2, <5>2
      <4> QED BY <2>9, <4>1, <4>2
    <3>2. CASE x \in tree.canonical
      BY <2>7, <2>9, <3>1, <3>2 DEF Before
    <3>3. CASE x \in cache /\ Roomy(x)
      BY <2>3, <2>7, <2>9, <3>1, <3>3 DEF Before
    <3> QED BY <2>2, <2>9, <3>2, <3>3
  <2>11. ASSUME x \in Slots, x <= SlotOf(y) PROVE i <= j
    <3>1. x \in tree.canonical /\ SlotOf(x) = x
      <4>1. x \notin Orphans
        BY <2>2, <2>11, OrphanSlots
      <4> QED BY <2>2, <2>8, <2>9, <4>1
    <3>2. CASE x = y
      BY <2>5, <2>6, <3>2
    <3>3. CASE x # y
      <4>1. SlotOf(x) < SlotOf(y) \/ SlotOf(x) = SlotOf(y)
        BY <2>9, <2>11, <3>1
      <4>2. Before(from, x, y)
        BY <2>9, <3>1, <3>3, <4>1 DEF Before
      <4> QED BY <2>5, <2>7, <4>2
    <3> QED BY <3>2, <3>3
  <2> QED BY <2>6, <2>10, <2>11 DEF x, y
<1> QED BY PlanInductive, CoverInductive, <1>1, PTL

-------------------------------------------------------------------------------
(* A plan and the slots of its range give an engine the same blocks.        *)

(* The imports q of worker w up to slot `to`: the canonical blocks, cached  *)
(* orphans and at least the listed ones, led by what has to come before     *)
(* them.                                                                    *)
Follows(w, q, to) ==
  LET from == WarmupSlot[w] + 1 IN
  /\ q \in Seq(TreeBlocks)
  /\ CanonicalAt(from .. to - 1) \subseteq Range(q)
  /\ \A b \in Range(q) : b \in CanonicalAt(from .. to - 1) \/ (b \in cache /\ SlotOf(b) < to)
  /\ \A x \in index : from <= SlotOf(x) /\ SlotOf(x) < to => x \in Range(q)
  /\ Led(from, q)

(* What the engine then holds. *)
Held(w, b) ==
  IF b \in Orphans
  THEN Branch(b).orphans \subseteq index /\ Branch(b).base >= WarmupSlot[w] /\ SlotOf(b) < EndSlot[w]
  ELSE b = WarmupSlot[w] \/ b \in CanonicalAt(WarmupSlot[w] + 1 .. EndSlot[w] - 1)

(* HeldParent: the parent of a block that the engine is to hold is one too, *)
(* and has to come before it.                                               *)
LEMMA HeldParent ==
  ASSUME TreeOK, index \subseteq Orphans, NEW w \in Workers, NEW b \in TreeBlocks, Held(w, b), b # WarmupSlot[w]
  PROVE  \/ Parent(b) = WarmupSlot[w]
         \/ Held(w, Parent(b)) /\ Before(WarmupSlot[w] + 1, Parent(b), b)
<1> DEFINE p == Parent(b)
           W == WarmupSlot[w]
           E == EndSlot[w]
<1>0. W \in Nat /\ E \in Nat /\ W \in tree.canonical
  BY SlotPlanAssumption DEF Slots, TreeOK
<1>1. \A x \in tree.canonical : x \in Nat /\ x \notin Orphans /\ SlotOf(x) = x
  BY BlockSlots
<1>2. CASE b \notin Orphans
  <2>1. b \in tree.canonical /\ b \in W + 1 .. E - 1
    BY <1>2 DEF Held, CanonicalAt
  <2>2. b \in Nat /\ W < b /\ b < E
    BY <1>0, <2>1
  <2>3. p \in tree.canonical /\ W <= p /\ p < b
    BY <2>1, <2>2, CanonicalParent
  <2>4. CASE p # W
    <3>1. p \in Nat /\ W + 1 <= p /\ p \in W + 1 .. E - 1 /\ p \notin Orphans /\ SlotOf(p) = p /\ SlotOf(b) = b
      BY <1>0, <1>1, <2>1, <2>2, <2>3, <2>4
    <3>2. Held(w, p)
      BY <2>3, <3>1 DEF Held, CanonicalAt
    <3>3. Before(W + 1, p, b)
      BY <2>3, <3>1 DEF Before
    <3> QED BY <3>2, <3>3
  <2> QED BY <2>4
<1>3. CASE b \in Orphans
  <2>1. p = tree.parent[b] /\ SlotOf(p) < SlotOf(b) /\ p \in tree.canonical \cup Orphans
    BY <1>3 DEF Parent, TreeOK, SlotOf
  <2>2. Branch(b).orphans \subseteq index /\ Branch(b).base >= W /\ SlotOf(b) < E /\ SlotOf(b) \in Nat
    BY <1>3, OrphanSlots DEF Held
  <2>3. /\ b \in Branch(b).orphans /\ Branch(b).base \in Nat
        /\ p \in Orphans => p \in Branch(b).orphans
        /\ p \notin Orphans => p = Branch(b).base
    BY <1>3, <2>1, BranchFacts
  <2>4. CASE p \in Orphans
    <3>1. Branch(p).orphans \subseteq Branch(b).orphans /\ Branch(p).base = Branch(b).base
      BY <1>3, <2>3, <2>4, SubBranch
    <3>2. SlotOf(p) \in Nat /\ Branch(p).base < SlotOf(p) /\ Branch(p).base \in Nat
      BY <2>4, OrphanSlots, BranchFacts
    <3>3. SlotOf(p) < E /\ W + 1 <= SlotOf(p)
      BY <1>0, <2>1, <2>2, <2>3, <3>1, <3>2
    <3>4. Held(w, p)
      BY <2>2, <2>4, <3>1, <3>3 DEF Held
    <3>5. Before(W + 1, p, b)
      BY <2>1, <2>2, <2>3, <2>4, <3>3 DEF Before
    <3> QED BY <3>4, <3>5
  <2>5. CASE p \notin Orphans /\ p # W
    <3>1. p \in tree.canonical /\ p = Branch(b).base
      BY <2>1, <2>3, <2>5
    <3>2. p \in Nat /\ SlotOf(p) = p
      BY <1>1, <3>1
    <3>3. W + 1 <= p /\ p \in W + 1 .. E - 1
      BY <1>0, <2>1, <2>2, <2>5, <3>1, <3>2
    <3>4. Held(w, p)
      BY <2>5, <3>1, <3>3 DEF Held, CanonicalAt
    <3>5. Before(W + 1, p, b)
      BY <2>1, <3>1, <3>2, <3>3 DEF Before
    <3> QED BY <3>4, <3>5
  <2> QED BY <2>4, <2>5
<1> QED BY <1>2, <1>3

(* FollowHolds: whatever the order of the imports, if they follow the range *)
(* the engine holds what it is to hold.                                     *)
LEMMA FollowHolds ==
  ASSUME PlanInv, RoomyListed, status = "serve", NEW w \in Workers, NEW q, Follows(w, q, EndSlot[w]),
         NEW b \in Blocks, b \in Orphans => WithinLimits(b)
  PROVE  b \in Importing(w, q).known <=> Held(w, b)
<1> DEFINE W == WarmupSlot[w]
           E == EndSlot[w]
           from == W + 1
           start == [known |-> {W}, detached |-> {}, fatal |-> FALSE]
           r == Importing(w, q)
<1>1. TreeOK /\ cache \subseteq Orphans /\ index \subseteq cache
  BY DEF PlanInv, PlanTypes, TreeOK
<1>2. W \in Nat /\ E \in Nat /\ W \in tree.canonical /\ W < E
  BY <1>1, SlotPlanAssumption DEF Slots, TreeOK
<1>3. r = FoldLeft(importPlannedBlock, start, q)
  BY DEF Importing
<1>4. start \in Engines /\ start.known = {W} /\ ~ start.fatal
  BY <1>2 DEF Engines, TreeBlocks
<1>5. /\ q \in Seq(TreeBlocks) /\ CanonicalAt(from .. E - 1) \subseteq Range(q) /\ Led(from, q)
      /\ \A x \in Range(q) : x \in CanonicalAt(from .. E - 1) \/ (x \in cache /\ SlotOf(x) < E)
      /\ \A x \in index : from <= SlotOf(x) /\ SlotOf(x) < E => x \in Range(q)
  BY DEF Follows
<1> HIDE DEF start, r
<1>6. /\ r.known \subseteq {W} \cup Range(q)
      /\ \A x \in r.known : x = W \/ Parent(x) \in r.known
  <2>1. /\ r.known \subseteq start.known \cup Range(q)
        /\ \A x \in r.known : x \in start.known \/ Parent(x) \in r.known
    BY <1>1, <1>3, <1>4, <1>5, ImportClosed
  <2> QED BY <1>4, <2>1
<1>7. \A x \in tree.canonical : x \in Nat /\ x \notin Orphans /\ SlotOf(x) = x
  BY <1>1, BlockSlots
<1> DEFINE K == {x \in TreeBlocks : Held(w, x) /\ x # W}
<1>8. W \in r.known /\ \A j \in DOMAIN q : q[j] \in K => q[j] \in r.known
  <2>1. ASSUME NEW j \in DOMAIN q, q[j] \notin Orphans PROVE q[j] \in K
    <3>1. q[j] \in Range(q) /\ q[j] \in TreeBlocks
      BY <1>5 DEF Range
    <3>2. q[j] \in CanonicalAt(from .. E - 1)
      BY <1>1, <1>5, <2>1, <3>1
    <3>3. q[j] # W
      <4>1. q[j] \in W + 1 .. E - 1
        BY <3>2 DEF CanonicalAt
      <4> QED BY <1>2, <4>1
    <3> QED BY <2>1, <3>1, <3>2, <3>3 DEF Held
  <2>2. ASSUME NEW j \in DOMAIN q, q[j] \in K
        PROVE  Parent(q[j]) \in start.known \/ \E i \in 1 .. j - 1 : q[i] = Parent(q[j]) /\ q[i] \in K
    <3> DEFINE p == Parent(q[j])
    <3>1. CASE p # W
      <4>1. Held(w, p) /\ Before(from, p, q[j])
        BY <1>1, <2>2, <3>1, HeldParent
      <4>2. PICK i \in 1 .. j - 1 : q[i] = p
        BY <1>5, <4>1 DEF Led
      <4>3. p \in TreeBlocks
        BY <1>1, <4>1 DEF Before, TreeBlocks
      <4> QED BY <3>1, <4>1, <4>2, <4>3
    <3> QED BY <1>4, <3>1
  <2> HIDE DEF K
  <2>3. start.known \subseteq r.known /\ \A j \in DOMAIN q : q[j] \in K => q[j] \in r.known
    BY <1>1, <1>3, <1>4, <1>5, <2>1, <2>2, ImportReach
  <2> QED BY <1>4, <2>3
<1>9. CASE b \notin Orphans
  <2>1. ASSUME b \in r.known PROVE Held(w, b)
    <3>1. b = W \/ b \in CanonicalAt(from .. E - 1)
      BY <1>1, <1>5, <1>6, <1>9, <2>1
    <3> QED BY <1>9, <3>1 DEF Held
  <2>2. ASSUME Held(w, b), b # W PROVE b \in r.known
    <3>1. b \in CanonicalAt(from .. E - 1)
      BY <1>9, <2>2 DEF Held
    <3>2. PICK j \in DOMAIN q : q[j] = b
      BY <1>5, <3>1 DEF Range
    <3>3. b \in TreeBlocks
      BY <3>1 DEF CanonicalAt, TreeBlocks
    <3> QED BY <1>8, <2>2, <3>2, <3>3
  <2>3. b = W => b \in r.known
    BY <1>8
  <2> QED BY <2>1, <2>2, <2>3 DEF r
<1>10. CASE b \in Orphans
  <2>0. b # W /\ SlotOf(b) \in Nat
    BY <1>1, <1>2, <1>7, <1>10, OrphanSlots
  <2>1. ASSUME b \in r.known PROVE Held(w, b)
    <3>1. \A x \in r.known \cap Orphans : tree.parent[x] \in r.known
      BY <1>2, <1>6, <1>7 DEF Parent
    <3>2. Branch(b).orphans \subseteq r.known /\ Branch(b).base \in r.known
      BY <1>1, <1>10, <2>1, <3>1, BranchWithin
    <3>3. Branch(b).orphans \subseteq Orphans /\ Branch(b).base \in tree.canonical
      BY <1>1, <1>10, BranchFacts
    <3>4. \A x \in r.known \cap Orphans : x \in cache /\ SlotOf(x) < E
      BY <1>2, <1>5, <1>6, <1>7 DEF CanonicalAt
    <3>5. Branch(b).orphans \subseteq index
      <4>1. \A x \in Branch(b).orphans : Roomy(x)
        BY <1>10 DEF WithinLimits
      <4> QED BY <3>2, <3>3, <3>4, <4>1 DEF RoomyListed
    <3>6. Branch(b).base >= W
      <4>1. Branch(b).base = W \/ Branch(b).base \in CanonicalAt(from .. E - 1)
        BY <1>1, <1>5, <1>6, <1>7, <3>2, <3>3
      <4>2. CASE Branch(b).base \in CanonicalAt(from .. E - 1)
        <5>1. Branch(b).base \in W + 1 .. E - 1
          BY <4>2 DEF CanonicalAt
        <5> QED BY <1>2, <5>1
      <4> QED BY <1>2, <4>1, <4>2
    <3> QED BY <1>10, <2>1, <3>4, <3>5, <3>6 DEF Held
  <2>2. ASSUME Held(w, b) PROVE b \in r.known
    <3>1. Branch(b).orphans \subseteq index /\ Branch(b).base >= W /\ SlotOf(b) < E
      BY <1>10, <2>2 DEF Held
    <3>2. b \in Branch(b).orphans /\ Branch(b).base \in Nat /\ Branch(b).base < SlotOf(b)
      BY <1>1, <1>10, BranchFacts
    <3>3. b \in index /\ from <= SlotOf(b)
      BY <1>2, <2>0, <3>1, <3>2
    <3>4. PICK j \in DOMAIN q : q[j] = b
      BY <1>5, <3>1, <3>3 DEF Range
    <3>5. b \in TreeBlocks
      BY <1>10 DEF TreeBlocks
    <3> QED BY <1>8, <2>0, <2>2, <3>4, <3>5
  <2> QED BY <2>1, <2>2 DEF r
<1> QED BY <1>9, <1>10

(* SlotFollows: one more slot. *)
LEMMA SlotFollows ==
  ASSUME PlanInv, NEW w \in Workers, NEW s \in Nat, WarmupSlot[w] < s, NEW q, Follows(w, q, s),
         NEW g, g = BuildSlot(s, WarmupSlot[w]).imports
  PROVE  Follows(w, q \o g, s + 1)
<1> DEFINE from == WarmupSlot[w] + 1
           r == q \o g
<1>1. TreeOK /\ cache \subseteq Orphans /\ index \subseteq cache /\ index \subseteq Orphans
  BY DEF PlanInv, PlanTypes, TreeOK
<1>2. WarmupSlot[w] \in Nat /\ from <= s /\ from \in Nat
  BY SlotPlanAssumption DEF Slots
<1>3. /\ g \in Seq(TreeBlocks)
      /\ Range(g) \subseteq CanonicalAt({s}) \cup Due(s)
      /\ CanonicalAt({s}) \subseteq Range(g)
      /\ \A x \in index : SlotOf(x) = s => x \in Range(g)
  <2>1. {o \in index \cap cache : SlotOf(o) = s} \subseteq Range(g)
    BY <1>1, BuildFacts
  <2>2. /\ g \in Seq(TreeBlocks)
        /\ Range(g) \subseteq CanonicalAt({s}) \cup Due(s)
        /\ CanonicalAt({s}) \subseteq Range(g)
    BY <1>1, BuildFacts
  <2> QED BY <1>1, <2>1, <2>2
<1>4. s \in tree.canonical => g[1] = s
  <2> SUFFICES ASSUME s \in tree.canonical PROVE g[1] = s
    OBVIOUS
  <2> DEFINE archived == archiveOrphanInfosBySlot(index, cache, s)
             attestations == IF tree.mode = "first-seen" THEN AttestationsForSlot(s)
                             ELSE attestationsFromSources(planSourcesForSlot(s), s + 1)
             attested == orphanImportsForSlotAttestations(attestations, archived, s, WarmupSlot[w] + 1)
             c == canonicalImport(s)
             a == Sorted(archived)
             t == Sorted(attested.scheduled)
  <2>1. g = c \o a \o t
    BY DEF BuildSlot
  <2>2. c \in Seq(CanonicalAt({s})) /\ Range(c) = CanonicalAt({s})
    BY CanonicalHolds
  <2>3. a \in Seq(TreeBlocks)
    <3>1. archived \subseteq Orphans /\ archived \subseteq TreeBlocks
      BY <1>1 DEF archiveOrphanInfosBySlot, TreeBlocks
    <3> HIDE DEF archived
    <3> QED BY <1>1, <3>1, SortedHolds, SeqWiden
  <2>4. t \in Seq(TreeBlocks)
    <3>1. s \in Int /\ attestations \subseteq Orphans
      BY VotesAreOrphans
    <3>2. \A o \in attestations : resolveOrphanChain(o, archived, cache, s).asked \ cache \subseteq Orphans
      <4> SUFFICES ASSUME NEW o \in Orphans
                   PROVE  resolveOrphanChain(o, archived, cache, s).asked \subseteq Orphans
        BY <3>1
      <4>1. resolveOrphanChain(o, archived, cache, s).asked \subseteq Branch(o).orphans
        BY <1>1, <3>1, ResolveFacts
      <4> QED BY <1>1, <4>1, BranchFacts
    <3> HIDE DEF attestations, archived
    <3>3. attested \in Plans(s, Orphans)
      BY <1>1, <3>1, <3>2, ScheduleAll
    <3> HIDE DEF attested
    <3>4. attested.scheduled \subseteq Orphans /\ attested.scheduled \subseteq TreeBlocks
      BY <3>3 DEF Plans, Due, TreeBlocks
    <3> QED BY <1>1, <3>4, SortedHolds, SeqWiden
  <2>5. CanonicalAt({s}) = {s}
    BY DEF CanonicalAt
  <2> HIDE DEF c, a, t
  <2>6. Len(c) \in Nat /\ Len(c) # 0 /\ c[1] = s /\ c \in Seq(TreeBlocks)
    <3>1. c \in Seq({s}) /\ s \in Range(c)
      BY <2>2, <2>5
    <3>2. PICK i \in 1 .. Len(c) : c[i] = s
      BY <3>1 DEF Range
    <3>3. {s} \subseteq TreeBlocks
      BY DEF TreeBlocks
    <3> QED BY <3>1, <3>2, <3>3
  <2>7. (c \o a)[1] = c[1] /\ c \o a \in Seq(TreeBlocks) /\ Len(c \o a) # 0 /\ Len(c \o a) \in Nat
    BY <2>3, <2>6
  <2>8. ((c \o a) \o t)[1] = (c \o a)[1]
    BY <2>4, <2>7
  <2> QED BY <2>1, <2>6, <2>7, <2>8
<1>5. /\ q \in Seq(TreeBlocks) /\ CanonicalAt(from .. s - 1) \subseteq Range(q) /\ Led(from, q)
      /\ \A x \in Range(q) : x \in CanonicalAt(from .. s - 1) \/ (x \in cache /\ SlotOf(x) < s)
      /\ \A x \in index : from <= SlotOf(x) /\ SlotOf(x) < s => x \in Range(q)
  BY DEF Follows
<1>6. \A x \in tree.canonical : x \in Nat /\ x \notin Orphans /\ SlotOf(x) = x
  BY <1>1, BlockSlots
<1>7. r \in Seq(TreeBlocks) /\ Range(r) = Range(q) \cup Range(g)
  BY <1>3, <1>5, ConcatAt
<1> HIDE DEF r
<1>8. CanonicalAt(from .. s) = CanonicalAt(from .. s - 1) \cup CanonicalAt({s})
  <2>1. from .. s = (from .. s - 1) \cup {s}
    BY <1>2
  <2> QED BY <2>1 DEF CanonicalAt
<1>9. ASSUME NEW b \in Range(r) PROVE b \in CanonicalAt(from .. s) \/ (b \in cache /\ SlotOf(b) < s + 1)
  <2>1. CASE b \in Range(q)
    <3>1. b \in cache => SlotOf(b) \in Nat
      BY <1>1, OrphanSlots
    <3> QED BY <1>5, <1>8, <2>1, <3>1
  <2>2. CASE b \in Due(s)
    <3>1. b \in cache /\ SlotOf(b) \in Nat /\ SlotOf(b) <= s
      BY <1>1, <2>2, OrphanSlots DEF Due
    <3> QED BY <3>1
  <2> QED BY <1>3, <1>7, <1>8, <1>9, <2>1, <2>2
<1>10. ASSUME NEW x \in index, from <= SlotOf(x), SlotOf(x) < s + 1 PROVE x \in Range(r)
  <2>1. SlotOf(x) \in Nat
    BY <1>1, OrphanSlots
  <2>2. SlotOf(x) < s \/ SlotOf(x) = s
    BY <1>10, <2>1
  <2> QED BY <1>3, <1>5, <1>7, <1>10, <2>2
<1>11. ASSUME NEW j \in DOMAIN g, NEW x, Before(from, x, g[j])
       PROVE  x \in Range(q) \/ \E i \in 1 .. j - 1 : g[i] = x
  <2> DEFINE y == g[j]
  <2>1. y \in Range(g) /\ j \in Nat /\ 1 <= j
    BY <1>3 DEF Range
  <2>2. SlotOf(y) \in Nat /\ SlotOf(y) <= s
    <3>1. CASE y \in CanonicalAt({s})
      BY <1>6, <3>1 DEF CanonicalAt
    <3>2. CASE y \in Due(s)
      BY <1>1, <3>2, OrphanSlots DEF Due
    <3> QED BY <1>3, <2>1, <3>1, <3>2
  <2>3. /\ x \in index \cup tree.canonical /\ from <= SlotOf(x)
        /\ SlotOf(x) < SlotOf(y) \/ (x \in tree.canonical /\ SlotOf(x) = SlotOf(y) /\ x # y)
    BY <1>11 DEF Before
  <2>4. SlotOf(x) \in Nat
    BY <1>1, <1>6, <2>3, OrphanSlots
  <2> HIDE DEF y
  <2>5. CASE SlotOf(x) < s
    <3>1. CASE x \in tree.canonical
      <4>1. x \in from .. s - 1
        BY <1>2, <1>6, <2>3, <2>5, <3>1
      <4> QED BY <1>5, <3>1, <4>1 DEF CanonicalAt
    <3> QED BY <1>5, <2>3, <2>5, <3>1
  <2>6. CASE ~ (SlotOf(x) < s)
    <3>1. x \in tree.canonical /\ SlotOf(x) = s /\ x # y
      BY <2>2, <2>3, <2>4, <2>6
    <3>2. x = s /\ g[1] = x
      BY <1>4, <1>6, <3>1
    <3>3. j # 1
      BY <3>1, <3>2 DEF y
    <3>4. 1 \in 1 .. j - 1
      BY <2>1, <3>3
    <3> QED BY <3>2, <3>4
  <2> QED BY <2>5, <2>6
<1>12. Led(from, r)
  BY <1>3, <1>5, <1>11, LedConcat DEF r
<1>13. s + 1 - 1 = s
  OBVIOUS
<1>14. CanonicalAt(from .. s) \subseteq Range(r)
  BY <1>3, <1>5, <1>7, <1>8
<1>15. Follows(w, r, s + 1)
  BY <1>7, <1>9, <1>10, <1>12, <1>13, <1>14 DEF Follows
<1> QED BY <1>15 DEF r

(* SlotsFollow: the slots of a range, one after the other. *)
LEMMA SlotsFollow ==
  ASSUME PlanInv, NEW w \in Workers
  PROVE  Follows(w, SlotBySlot(w), EndSlot[w])
<1> DEFINE W == WarmupSlot[w]
           n == EndSlot[w] - W - 1
           ss == [i \in 1 .. n |-> BuildSlot(W + i, W).imports]
<1>1. TreeOK /\ cache \subseteq Orphans /\ index \subseteq cache /\ index \subseteq Orphans
  BY DEF PlanInv, PlanTypes, TreeOK
<1>2. W \in Nat /\ EndSlot[w] \in Nat /\ n \in Nat /\ W + n + 1 = EndSlot[w]
  BY SlotPlanAssumption DEF Slots
<1>3. SlotBySlot(w) = FlattenSeq(ss)
  BY DEF SlotBySlot
<1>4. ASSUME NEW i \in 1 .. n PROVE BuildSlot(W + i, W).imports \in Seq(TreeBlocks)
  <2>1. W + i \in Nat
    BY <1>2
  <2> QED BY <1>1, <2>1, BuildFacts
<1> HIDE DEF n
<1>5. ss \in Seq(Seq(TreeBlocks)) /\ Len(ss) = n /\ \A i \in 1 .. n : ss[i] = BuildSlot(W + i, W).imports
  <2>1. ss \in [1 .. n -> Seq(TreeBlocks)]
    BY <1>4
  <2>2. ss \in Seq(Seq(TreeBlocks)) /\ Len(ss) = n
    BY <1>2, <2>1
  <2> QED BY <2>2
<1> HIDE DEF ss
<1>6. PICK h : FlattensBy(TreeBlocks, ss, h)
  BY <1>5, FlattenLoop
<1>7. /\ h[0] = << >> /\ FlattenSeq(ss) = h[n]
      /\ \A i \in 1 .. n : h[i] = h[i - 1] \o ss[i]
  BY <1>5, <1>6 DEF FlattensBy
<1> DEFINE S == {i \in 0 .. n : Follows(w, h[i], W + i + 1)}
<1>8. 0 \in S
  <2>1. W + 0 + 1 = W + 1 /\ W + 1 .. (W + 1) - 1 = {} /\ 0 \in 0 .. n
    BY <1>2
  <2>2. DOMAIN << >> = {} /\ << >> \in Seq(TreeBlocks)
    OBVIOUS
  <2>3. Range(<< >>) = {} /\ Led(W + 1, << >>)
    BY <2>2 DEF Range, Led
  <2>4. \A x \in index : ~ (W + 1 <= SlotOf(x) /\ SlotOf(x) < W + 1)
    <3> SUFFICES ASSUME NEW x \in index PROVE ~ (W + 1 <= SlotOf(x) /\ SlotOf(x) < W + 1)
      OBVIOUS
    <3>1. SlotOf(x) \in Nat
      BY <1>1, OrphanSlots
    <3> QED BY <1>2, <3>1
  <2>5. CanonicalAt({}) = {}
    BY DEF CanonicalAt
  <2>6. Follows(w, << >>, W + 1)
    BY <2>1, <2>2, <2>3, <2>4, <2>5 DEF Follows
  <2> QED BY <1>7, <2>1, <2>6
<1>9. ASSUME NEW i \in 1 .. n, i - 1 \in S PROVE i \in S
  <2>1. W + i \in Nat /\ W < W + i /\ i \in 0 .. n /\ W + (i - 1) + 1 = W + i
    BY <1>2
  <2>2. Follows(w, h[i - 1], W + i)
    BY <1>9, <2>1
  <2>3. Follows(w, h[i - 1] \o ss[i], (W + i) + 1)
    BY <1>5, <2>1, <2>2, SlotFollows
  <2> QED BY <1>7, <2>1, <2>3
<1>10. n \in S
  <2> HIDE DEF S
  <2>1. \A i \in 1 .. n : i - 1 \in S => i \in S
    BY <1>9
  <2>2. \A i \in 0 .. n : i \in S
    BY <1>2, <1>8, <2>1, CountUp
  <2> QED BY <1>2, <2>2
<1>11. Follows(w, h[n], EndSlot[w])
  BY <1>2, <1>10
<1> QED BY <1>3, <1>7, <1>11

(* PlanFollows: so does the plan of the range. *)
LEMMA PlanFollows ==
  ASSUME PlanInv, NEW w \in Workers
  PROVE  Follows(w, BuildPlan(WarmupSlot[w] + 1, EndSlot[w]).out, EndSlot[w])
<1> DEFINE from == WarmupSlot[w] + 1
           E == EndSlot[w]
           r == BuildPlan(from, E)
<1>1. /\ r.out \in Seq(TreeBlocks) /\ r.imported \subseteq cache
      /\ Laid(r.out, r.imported, from, E, E - 1)
  BY PlanOf
<1>2. TreeOK /\ cache \subseteq Orphans
  BY DEF PlanInv, PlanTypes, TreeOK
<1>3. E \in Nat
  BY SlotPlanAssumption DEF Slots
<1> HIDE DEF r
<1>4. /\ Range(r.out) = r.imported \cup CanonicalAt(from .. E - 1) /\ Led(from, r.out)
      /\ \A x \in r.imported : SlotOf(x) <= E - 1
      /\ \A x \in index : from <= SlotOf(x) /\ SlotOf(x) < E => x \in r.imported
  BY <1>1 DEF Laid
<1>5. \A x \in r.imported : x \in cache /\ SlotOf(x) < E
  <2> SUFFICES ASSUME NEW x \in r.imported PROVE x \in cache /\ SlotOf(x) < E
    OBVIOUS
  <2>1. x \in cache /\ SlotOf(x) \in Nat
    BY <1>1, <1>2, OrphanSlots
  <2> QED BY <1>3, <1>4, <2>1
<1>6. Follows(w, r.out, E)
  BY <1>1, <1>4, <1>5 DEF Follows
<1> QED BY <1>6 DEF r

(* PlanAlwaysMatchesSlots: whatever the tree, the mode and the limits, the  *)
(* plan of a range and the answers for its slots give an engine the same    *)
(* blocks, except orphans beyond the limits of a walk or a list.            *)
THEOREM PlanAlwaysMatchesSlots == Spec => []PlanMatchesSlots
<1>1. ASSUME PlanInv, CoverInv PROVE PlanMatchesSlots
  <2> SUFFICES ASSUME status = "serve", NEW w \in Workers, NEW b \in Blocks,
                      b \in Orphans => WithinLimits(b)
               PROVE  b \in Importing(w, BuildPlan(WarmupSlot[w] + 1, EndSlot[w]).out).known
                        <=> b \in Importing(w, SlotBySlot(w)).known
    BY DEF PlanMatchesSlots, BeginsToServe
  <2>1. Follows(w, BuildPlan(WarmupSlot[w] + 1, EndSlot[w]).out, EndSlot[w])
        /\ Follows(w, SlotBySlot(w), EndSlot[w]) /\ RoomyListed
    BY <1>1, PlanFollows, SlotsFollow DEF CoverInv
  <2>2. b \in Importing(w, BuildPlan(WarmupSlot[w] + 1, EndSlot[w]).out).known <=> Held(w, b)
    BY <1>1, <2>1, FollowHolds
  <2>3. b \in Importing(w, SlotBySlot(w)).known <=> Held(w, b)
    BY <1>1, <2>1, FollowHolds
  <2> QED BY <2>2, <2>3
<1> QED BY PlanInductive, CoverInductive, <1>1, PTL
===============================================================================
