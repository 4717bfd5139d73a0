------------------------- MODULE CanonicalSlicesProofs -------------------------
(***************************************************************************)
(* Proofs about CanonicalSlices, for every number of requests and slots.   *)
(***************************************************************************)
EXTENDS CanonicalSlices, CanonicalIndexProofs, SequenceTheorems

(* LeastNat: a set of naturals has a least element, which Min returns. *)
LEMMA LeastNat ==
  ASSUME NEW S, S \subseteq Nat, S # {}
  PROVE  Min(S) \in S /\ \A y \in S : Min(S) <= y
<1> DEFINE R == {ss \in Nat \X Nat : ss[1] < ss[2]}
<1>1. IsWellFoundedOn(R, Nat)
  BY NatLessThanWellFounded DEF OpToRel
<1> HIDE DEF R
<1>2. PICK x \in S : \A y \in S : ~ (<<y, x>> \in R)
  BY <1>1, WFMin
<1>3. \A y \in S : x <= y
  <2> SUFFICES ASSUME NEW y \in S, y < x PROVE FALSE
    OBVIOUS
  <2>1. <<y, x>> \in R
    BY DEF R
  <2> QED BY <1>2, <2>1
<1> QED BY <1>3 DEF Min

(* CountUp: induction over an index, stated for a set. *)
LEMMA CountUp ==
  ASSUME NEW n \in Nat, NEW S, 0 \in S, \A i \in 1 .. n : i - 1 \in S => i \in S
  PROVE  \A i \in 0 .. n : i \in S
<1> DEFINE Bad == {i \in 0 .. n : i \notin S}
<1> SUFFICES ASSUME Bad # {} PROVE FALSE
  OBVIOUS
<1>1. Bad \subseteq Nat
  OBVIOUS
<1>2. Min(Bad) \in Bad /\ \A y \in Bad : Min(Bad) <= y
  BY <1>1, LeastNat
<1> DEFINE m == Min(Bad)
<1> HIDE DEF m
<1>3. m \in 0 .. n /\ m \notin S /\ m # 0
  BY <1>2 DEF m
<1>4. m - 1 \in 0 .. n /\ m \in 1 .. n /\ ~ (m <= m - 1)
  BY <1>3
<1>5. m - 1 \in S
  BY <1>2, <1>4 DEF m
<1> QED BY <1>3, <1>4, <1>5

(* Recursion: a loop with a bounded index computes something, given by a    *)
(* function of the index.                                                   *)
Loops(n, A, b, G, f) ==
  /\ f \in [0 .. n -> A] /\ f[0] = b
  /\ \A i \in 1 .. n : f[i] = G[<<i, f[i - 1]>>]

LEMMA Recursion ==
  ASSUME NEW n \in Nat, NEW A, NEW b \in A, NEW G \in [(1 .. n) \X A -> A]
  PROVE  \E f : Loops(n, A, b, G, f)
<1> USE DEF Loops
<1> DEFINE Runs(m, f) == Loops(m, A, b, G, f)
           S == {m \in 0 .. n : \E f : Runs(m, f)}
<1>1. 0 \in S
  <2> DEFINE z == [i \in 0 .. 0 |-> b]
  <2>1. z \in [0 .. 0 -> A] /\ z[0] = b
    OBVIOUS
  <2> HIDE DEF z
  <2>2. Runs(0, z)
    BY <2>1
  <2> QED BY <2>2
<1>2. ASSUME NEW m \in 1 .. n, m - 1 \in S PROVE m \in S
  <2>1. PICK f : Runs(m - 1, f)
    BY <1>2
  <2> DEFINE g == [i \in 0 .. m |-> IF i = m THEN G[<<m, f[m - 1]>>] ELSE f[i]]
  <2>2. f[m - 1] \in A
    BY <2>1
  <2>3. G[<<m, f[m - 1]>>] \in A
    BY <2>2
  <2>4. /\ g \in [0 .. m -> A] /\ g[0] = b /\ g[m] = G[<<m, f[m - 1]>>]
        /\ \A i \in 0 .. m - 1 : g[i] = f[i]
    BY <2>1, <2>3
  <2> HIDE DEF g
  <2>5. \A i \in 1 .. m : g[i] = G[<<i, g[i - 1]>>]
    <3> SUFFICES ASSUME NEW i \in 1 .. m PROVE g[i] = G[<<i, g[i - 1]>>]
      OBVIOUS
    <3>1. i - 1 \in 0 .. m - 1
      OBVIOUS
    <3>2. g[i - 1] = f[i - 1]
      BY <2>4, <3>1
    <3>3. CASE i = m
      BY <2>4, <3>2, <3>3
    <3>4. CASE i # m
      <4>1. i \in 1 .. m - 1 /\ i \in 0 .. m - 1
        BY <3>4
      <4> QED BY <2>1, <2>4, <3>2, <4>1
    <3> QED BY <3>3, <3>4
  <2> QED BY <2>4, <2>5
<1>3. n \in S
  <2> HIDE DEF S
  <2>1. \A i \in 1 .. n : i - 1 \in S => i \in S
    BY <1>2
  <2> QED BY <1>1, <2>1, CountUp
<1> QED BY <1>3
-------------------------------------------------------------------------------
(* The slice helpers, on a sorted slice of ranges.                          *)

Prefix(slice, i) == {slice[j] : j \in 1 .. i}

(* PrefixFacts: the first i ranges of a sorted slice lie before the next. *)
LEMMA PrefixFacts ==
  ASSUME NEW slice \in Seq(Ranges), Sorted(slice)
  PROVE  /\ Prefix(slice, 0) = {} /\ Prefix(slice, Len(slice)) = ToSet(slice)
         /\ \A i \in 1 .. Len(slice) :
              /\ slice[i] \in Ranges
              /\ Prefix(slice, i) = Prefix(slice, i - 1) \cup {slice[i]}
              /\ \A r \in Prefix(slice, i - 1) : r \in Ranges /\ r.to < slice[i].from
<1>1. DOMAIN slice = 1 .. Len(slice) /\ Len(slice) \in Nat
  OBVIOUS
<1>2. Prefix(slice, 0) = {} /\ Prefix(slice, Len(slice)) = ToSet(slice)
  BY <1>1 DEF Prefix, ToSet
<1> SUFFICES ASSUME NEW i \in 1 .. Len(slice)
             PROVE  /\ slice[i] \in Ranges
                    /\ Prefix(slice, i) = Prefix(slice, i - 1) \cup {slice[i]}
                    /\ \A r \in Prefix(slice, i - 1) : r \in Ranges /\ r.to < slice[i].from
  BY <1>2
<1>3. 1 .. i = (1 .. i - 1) \cup {i}
  BY <1>1
<1>4. Prefix(slice, i) = Prefix(slice, i - 1) \cup {slice[i]}
  BY <1>3 DEF Prefix
<1>5. ASSUME NEW j \in 1 .. i - 1 PROVE slice[j] \in Ranges /\ slice[j].to < slice[i].from
  <2>1. j \in 1 .. Len(slice) /\ j < i
    BY <1>1
  <2> QED BY <1>1, <2>1 DEF Sorted
<1>6. \A r \in Prefix(slice, i - 1) : r \in Ranges /\ r.to < slice[i].from
  BY <1>5 DEF Prefix
<1> QED BY <1>4, <1>6

(* EmptySorted: the empty slice is sorted and holds nothing. *)
LEMMA EmptySorted == << >> \in Seq(Ranges) /\ Sorted(<< >>) /\ ToSet(<< >>) = {}
<1>1. << >> \in Seq(Ranges) /\ DOMAIN << >> = {}
  OBVIOUS
<1> QED BY <1>1 DEF Sorted, ToSet

(* AppendSorted: a range that starts after every range of a slice may be    *)
(* appended to it.                                                          *)
LEMMA AppendSorted ==
  ASSUME NEW s \in Seq(Ranges), Sorted(s), NEW x \in Ranges,
         \A r \in ToSet(s) : r.to < x.from
  PROVE  /\ Append(s, x) \in Seq(Ranges) /\ Sorted(Append(s, x))
         /\ ToSet(Append(s, x)) = ToSet(s) \cup {x}
<1> DEFINE t == Append(s, x)
<1>1. /\ t \in Seq(Ranges) /\ Len(t) = Len(s) + 1 /\ Len(s) \in Nat
      /\ \A i \in 1 .. Len(s) : t[i] = s[i]
      /\ t[Len(s) + 1] = x
      /\ DOMAIN t = 1 .. Len(s) + 1 /\ DOMAIN s = 1 .. Len(s)
  BY AppendProperties
<1> HIDE DEF t
<1>2. 1 .. Len(s) + 1 = (1 .. Len(s)) \cup {Len(s) + 1}
  BY <1>1
<1>3. ToSet(t) = ToSet(s) \cup {x}
  BY <1>1, <1>2 DEF ToSet
<1>4. Sorted(t)
  <2> SUFFICES ASSUME NEW i \in 1 .. Len(s) + 1, NEW j \in 1 .. Len(s) + 1, i < j
               PROVE  t[i].to < t[j].from
    BY <1>1 DEF Sorted
  <2>1. i \in 1 .. Len(s)
    BY <1>1
  <2>2. CASE j \in 1 .. Len(s)
    BY <1>1, <2>1, <2>2 DEF Sorted
  <2>3. CASE j = Len(s) + 1
    <3>1. s[i] \in ToSet(s)
      BY <1>1, <2>1 DEF ToSet
    <3> QED BY <1>1, <2>1, <2>3, <3>1
  <2> QED BY <1>2, <2>2, <2>3
<1> QED BY <1>1, <1>3, <1>4 DEF t

(* RemoveSorted: removeSlotRange takes one range out of a sorted slice. *)
LEMMA RemoveSorted ==
  ASSUME NEW slice \in Seq(Ranges), Sorted(slice), NEW target
  PROVE  /\ removeSlotRange(slice, target) \in Seq(Ranges)
         /\ Sorted(removeSlotRange(slice, target))
         /\ ToSet(removeSlotRange(slice, target)) = ToSet(slice) \ {target}
<1> DEFINE n == Len(slice)
           A == Seq(Ranges)
           b == << >>
           Turn(i, s) == IF slice[i] = target THEN s ELSE Append(s, slice[i])
           G == [x \in (1 .. n) \X A |-> Turn(x[1], x[2])]
           kept == CHOOSE f : f = [i \in 0 .. n |-> IF i = 0 THEN b ELSE Turn(i, f[i - 1])]
<1>0. removeSlotRange(slice, target) = kept[n]
  BY DEF removeSlotRange
<1>1. n \in Nat /\ b \in A /\ \A i \in 1 .. n, s \in A : Turn(i, s) \in A
  OBVIOUS
<1> HIDE DEF Turn, b, n, A
<1>2. kept[0] = b /\ \A i \in 1 .. n : kept[i] = Turn(i, kept[i - 1])
  <2>1. G \in [(1 .. n) \X A -> A] /\ \A i \in 1 .. n, s \in A : G[<<i, s>>] = Turn(i, s)
    BY <1>1
  <2> HIDE DEF G
  <2>2. PICK f : Loops(n, A, b, G, f)
    BY <1>1, <2>1, Recursion
  <2>3. f = [i \in 0 .. n |-> IF i = 0 THEN b ELSE Turn(i, f[i - 1])]
    <3>1. f \in [0 .. n -> A] /\ f[0] = b /\ \A i \in 1 .. n : f[i] = G[<<i, f[i - 1]>>]
      BY <2>2 DEF Loops
    <3>2. \A i \in 0 .. n : i # 0 => i \in 1 .. n /\ i - 1 \in 0 .. n
      BY <1>1
    <3>3. \A i \in 0 .. n : f[i] = IF i = 0 THEN b ELSE Turn(i, f[i - 1])
      BY <2>1, <3>1, <3>2
    <3> QED BY <3>1, <3>3
  <2>4. kept = [i \in 0 .. n |-> IF i = 0 THEN b ELSE Turn(i, kept[i - 1])]
    BY <2>3, Zenon
  <2> HIDE DEF kept
  <2>5. 0 \in 0 .. n /\ \A i \in 1 .. n : i \in 0 .. n /\ i # 0
    BY <1>1
  <2> QED BY <2>4, <2>5
<1> HIDE DEF kept
<1> USE DEF n, A
<1>9. kept[0] = << >> /\ \A i \in 1 .. n : kept[i] = IF slice[i] = target THEN kept[i - 1]
                                             ELSE Append(kept[i - 1], slice[i])
  BY <1>2 DEF b, Turn
<1> DEFINE S == {i \in 0 .. n : /\ kept[i] \in A /\ Sorted(kept[i])
                                /\ ToSet(kept[i]) = Prefix(slice, i) \ {target}}
<1>10. 0 \in S
  <2>1. kept[0] \in A /\ Sorted(kept[0]) /\ ToSet(kept[0]) = {}
    BY <1>9, EmptySorted, Zenon
  <2> QED BY <1>1, <2>1, PrefixFacts
<1>11. ASSUME NEW i \in 1 .. n, i - 1 \in S PROVE i \in S
  <2>1. /\ slice[i] \in Ranges
        /\ Prefix(slice, i) = Prefix(slice, i - 1) \cup {slice[i]}
        /\ \A r \in Prefix(slice, i - 1) : r.to < slice[i].from
    BY PrefixFacts
  <2>2. CASE slice[i] = target
    BY <1>9, <1>11, <2>1, <2>2
  <2>3. CASE slice[i] # target
    <3>1. kept[i] = Append(kept[i - 1], slice[i])
      BY <1>9, <2>3
    <3>2. /\ kept[i] \in A /\ Sorted(kept[i])
          /\ ToSet(kept[i]) = ToSet(kept[i - 1]) \cup {slice[i]}
      BY <1>11, <2>1, <3>1, AppendSorted
    <3> QED BY <1>11, <2>1, <2>3, <3>2
  <2> QED BY <2>2, <2>3
<1>12. n \in S
  <2> HIDE DEF S
  <2>1. \A i \in 1 .. n : i - 1 \in S => i \in S
    BY <1>11
  <2>2. n \in 0 .. n
    BY <1>1
  <2> HIDE DEF n
  <2> QED BY <1>1, <1>10, <2>1, <2>2, CountUp
<1> QED BY <1>0, <1>12, PrefixFacts
-------------------------------------------------------------------------------
(* addSlotRange on a slice.                                                 *)

(* PlusOne: uint64 addition is addition except at the largest slot. *)
LEMMA PlusOne ==
  ASSUME NEW x \in Slots, x # MaxSlot
  PROVE  Plus1(x) = x + 1
<1>1. x + 1 \in Nat /\ MaxSlot + 1 \in Nat \ {0} /\ x + 1 < MaxSlot + 1
  BY CanonicalIndexAssumption DEF Slots
<1>2. \A a \in Nat, d \in Nat \ {0} : a < d => a % d = a
  OBVIOUS
<1>3. (x + 1) % (MaxSlot + 1) = x + 1
  BY <1>1, <1>2, Zenon
<1> QED BY <1>3 DEF Plus1

(* SameBefore: with its guard, rangeBefore on uint64 compares as on naturals. *)
LEMMA SameBefore ==
  ASSUME NEW a \in Ranges, NEW b \in Ranges
  PROVE  sliceRangeBefore(a, b) <=> rangeBefore(a, b)
BY PlusOne, RangeFields DEF sliceRangeBefore, rangeBefore

(* BeforeSlots: rangeBefore without the guard, for two ranges. *)
LEMMA BeforeSlots ==
  ASSUME NEW a \in Ranges, NEW b \in Ranges
  PROVE  rangeBefore(a, b) <=> a.to + 1 < b.from
BY RangeFields DEF rangeBefore

(* MinOfTwo, MaxOfTwo: one more bound for a hull. *)
LEMMA MinOfTwo ==
  ASSUME NEW F, F \subseteq Slots, F # {}, NEW x \in Slots
  PROVE  Min({x, Min(F)}) = Min(F \cup {x})
<1>1. Min(F) \in F /\ \A y \in F : Min(F) <= y
  BY MinSlot
<1> DEFINE m == Min(F)
           U == F \cup {x}
           V == {x, m}
<1> HIDE DEF m
<1>2. m \in F /\ m \in Slots /\ \A y \in F : m <= y
  BY <1>1 DEF m
<1>3. Min(U) \in U /\ \A y \in U : Min(U) <= y
  BY MinSlot
<1>4. Min(V) \in V /\ \A y \in V : Min(V) <= y
  BY <1>2, MinSlot
<1>5. Min(U) <= Min(V) /\ Min(V) <= Min(U)
  <2>1. Min(V) \in U /\ \A y \in U : Min(V) <= y
    BY <1>2, <1>4, CanonicalIndexAssumption DEF Slots
  <2> QED BY <1>3, <2>1
<1>6. Min(U) \in Nat /\ Min(V) \in Nat
  <2>1. U \subseteq Nat /\ V \subseteq Nat
    BY <1>2, CanonicalIndexAssumption DEF Slots
  <2> QED BY <1>3, <1>4, <2>1
<1> HIDE DEF U, V
<1>7. Min(V) = Min(U)
  BY <1>5, <1>6
<1> QED BY <1>7 DEF m, U, V

(* The same for the largest element. *)
LEMMA MaxOfTwo ==
  ASSUME NEW F, F \subseteq Slots, F # {}, NEW x \in Slots
  PROVE  Max({x, Max(F)}) = Max(F \cup {x})
<1>1. Max(F) \in F /\ \A y \in F : Max(F) >= y
  BY MaxSlotOf
<1> DEFINE m == Max(F)
           U == F \cup {x}
           V == {x, m}
<1> HIDE DEF m
<1>2. m \in F /\ m \in Slots /\ \A y \in F : m >= y
  BY <1>1 DEF m
<1>3. Max(U) \in U /\ \A y \in U : Max(U) >= y
  BY MaxSlotOf
<1>4. Max(V) \in V /\ \A y \in V : Max(V) >= y
  BY <1>2, MaxSlotOf
<1>5. Max(U) >= Max(V) /\ Max(V) >= Max(U)
  <2>1. Max(V) \in U /\ \A y \in U : Max(V) >= y
    BY <1>2, <1>4, CanonicalIndexAssumption DEF Slots
  <2> QED BY <1>3, <2>1
<1>6. Max(U) \in Nat /\ Max(V) \in Nat
  <2>1. U \subseteq Nat /\ V \subseteq Nat
    BY <1>2, CanonicalIndexAssumption DEF Slots
  <2> QED BY <1>3, <1>4, <2>1
<1> HIDE DEF U, V
<1>7. Max(V) = Max(U)
  BY <1>5, <1>6
<1> QED BY <1>7 DEF m, U, V

(* HullGrows: absorbing a touching range into the hull gives the hull of    *)
(* one range more; a range that does not touch leaves it alone.             *)
LEMMA HullGrows ==
  ASSUME NEW P, P \subseteq Ranges, NEW N \in Ranges, NEW c \in Ranges
  PROVE  /\ c \in Touching({c}, N) =>
              /\ Touching(P \cup {c}, N) = Touching(P, N) \cup {c}
              /\ Hull(P \cup {c}, N) = [from |-> Min({c.from, Hull(P, N).from}),
                                        to   |-> Max({c.to, Hull(P, N).to})]
         /\ c \notin Touching({c}, N) =>
              /\ Touching(P \cup {c}, N) = Touching(P, N)
              /\ Hull(P \cup {c}, N) = Hull(P, N)
<1> DEFINE T == Touching(P, N)
           F == {N.from} \cup {t.from : t \in T}
           E == {N.to} \cup {t.to : t \in T}
<1>1. /\ c \in Touching({c}, N) => Touching(P \cup {c}, N) = T \cup {c}
      /\ c \notin Touching({c}, N) => Touching(P \cup {c}, N) = T
  BY DEF Touching
<1>2. Hull(P, N) = [from |-> Min(F), to |-> Max(E)]
  BY DEF Hull
<1>3. T \subseteq Ranges
  BY DEF Touching
<1> HIDE DEF T
<1>4. F \subseteq Slots /\ F # {} /\ E \subseteq Slots /\ E # {} /\ c.from \in Slots /\ c.to \in Slots
  BY <1>3, RangeFields
<1>5. CASE c \in Touching({c}, N)
  <2>1. Hull(P \cup {c}, N) = [from |-> Min({N.from} \cup {t.from : t \in T \cup {c}}),
                              to |-> Max({N.to} \cup {t.to : t \in T \cup {c}})]
    BY <1>1, <1>5 DEF Hull
  <2>2. {N.from} \cup {t.from : t \in T \cup {c}} = F \cup {c.from}
    OBVIOUS
  <2>3. {N.to} \cup {t.to : t \in T \cup {c}} = E \cup {c.to}
    OBVIOUS
  <2> HIDE DEF F, E
  <2>4. Min({c.from, Min(F)}) = Min(F \cup {c.from}) /\ Max({c.to, Max(E)}) = Max(E \cup {c.to})
    BY <1>4, MinOfTwo, MaxOfTwo
  <2>5. Hull(P, N).from = Min(F) /\ Hull(P, N).to = Max(E)
    BY <1>2
  <2> QED BY <1>1, <1>5, <2>1, <2>2, <2>3, <2>4, <2>5 DEF T
<1>6. CASE c \notin Touching({c}, N)
  BY <1>1, <1>6 DEF Hull, T
<1> QED BY <1>5, <1>6
(* Absorbs: what the pass has done when it has seen the ranges of P: the    *)
(* ranges that do not touch N are out, in order, the others are in next,    *)
(* and next is out once a range after it was met.                           *)
Absorbs(a, P, N) ==
  /\ a \in [out : Seq(Ranges), next : Ranges, inserted : BOOLEAN]
  /\ Sorted(a.out) /\ a.next = Hull(P, N)
  /\ a.inserted <=> \E r \in P : rangeBefore(N, r)
  /\ ToSet(a.out) = (P \ Touching(P, N)) \cup (IF a.inserted THEN {a.next} ELSE {})

(* MakeAbsorbs: Absorbs for a record given by its fields. *)
LEMMA MakeAbsorbs ==
  ASSUME NEW P, NEW N, NEW out \in Seq(Ranges), NEW h \in Ranges, NEW ins \in BOOLEAN,
         Sorted(out), h = Hull(P, N),
         ins <=> \E r \in P : rangeBefore(N, r),
         ToSet(out) = (P \ Touching(P, N)) \cup (IF ins THEN {h} ELSE {})
  PROVE  Absorbs([out |-> out, next |-> h, inserted |-> ins], P, N)
<1> DEFINE a == [out |-> out, next |-> h, inserted |-> ins]
<1>1. a \in [out : Seq(Ranges), next : Ranges, inserted : BOOLEAN]
  OBVIOUS
<1>2. a.out = out /\ a.next = h /\ a.inserted = ins
  OBVIOUS
<1> HIDE DEF a
<1>3. Absorbs(a, P, N)
  BY <1>1, <1>2, Zenon DEF Absorbs
<1> QED BY <1>3 DEF a

(* HullOrder: where a range c that starts after every range of P lies with  *)
(* respect to the hull is where it lies with respect to N.                  *)
LEMMA HullOrder ==
  ASSUME NEW P, P \subseteq Ranges, NEW N \in Ranges, NEW c \in Ranges,
         \A r \in P : r.to < c.from, Separated(P \cup {c})
  PROVE  /\ rangeBefore(c, Hull(P, N)) <=> rangeBefore(c, N)
         /\ rangeBefore(Hull(P, N), c) <=> rangeBefore(N, c)
<1> DEFINE T == Touching(P, N)
           h == Hull(P, N)
<1>1. /\ h \in Ranges /\ h.from <= N.from /\ N.to <= h.to
      /\ \A t \in T : h.from <= t.from /\ t.to <= h.to
      /\ h.from = N.from \/ \E t \in T : h.from = t.from
      /\ h.to = N.to \/ \E t \in T : h.to = t.to
  BY HullEnds
<1>2. \A t \in T : /\ t \in Ranges /\ t.to + 1 < c.from
                   /\ ~ rangeBefore(t, N) /\ ~ rangeBefore(N, t)
  <2> SUFFICES ASSUME NEW t \in T PROVE t.to + 1 < c.from
    BY DEF Touching
  <2>1. t \in P /\ t \in Ranges
    BY DEF Touching
  <2>2. t # c
    BY <2>1, RangeFields
  <2>3. t.to + 1 < c.from \/ c.to + 1 < t.from
    BY <2>1, <2>2 DEF Separated
  <2> QED BY <2>1, <2>3, RangeFields
<1> HIDE DEF T, h
<1>3. \A t \in T : ~ (t.to + 1 < N.from) /\ ~ (N.to + 1 < t.from)
  BY <1>2, BeforeSlots
<1>4. /\ N.from \in Nat /\ N.to \in Nat /\ c.from \in Nat /\ c.to \in Nat /\ c.from <= c.to
      /\ h.from \in Nat /\ h.to \in Nat /\ N.from <= N.to
      /\ \A t \in T : t.from \in Nat /\ t.to \in Nat /\ t.from <= t.to
  BY <1>1, <1>2, RangeFields
<1>5. c.to + 1 < h.from <=> c.to + 1 < N.from
  BY <1>1, <1>2, <1>3, <1>4
<1>6. h.to + 1 < c.from <=> N.to + 1 < c.from
  BY <1>1, <1>2, <1>3, <1>4
<1>7. /\ rangeBefore(c, h) <=> c.to + 1 < h.from
      /\ rangeBefore(c, N) <=> c.to + 1 < N.from
      /\ rangeBefore(h, c) <=> h.to + 1 < c.from
      /\ rangeBefore(N, c) <=> N.to + 1 < c.from
  BY <1>1, BeforeSlots
<1> QED BY <1>5, <1>6, <1>7 DEF h

(* BeforeHull: a range that neither touches N nor comes after it ends       *)
(* before the hull begins.                                                  *)
LEMMA BeforeHull ==
  ASSUME NEW P, P \subseteq Ranges, NEW N \in Ranges, Separated(P),
         NEW r \in P \ Touching(P, N), ~ rangeBefore(N, r)
  PROVE  r.to < Hull(P, N).from
<1> DEFINE T == Touching(P, N)
           h == Hull(P, N)
<1>1. h \in Ranges /\ (h.from = N.from \/ \E t \in T : h.from = t.from)
  BY HullEnds
<1>2. r \in Ranges /\ rangeBefore(r, N)
  BY DEF Touching
<1>3. \A t \in T : /\ t \in Ranges /\ ~ rangeBefore(t, N)
                   /\ (r.to + 1 < t.from \/ t.to + 1 < r.from)
  BY DEF Touching, Separated
<1> HIDE DEF T, h
<1>4. r.to + 1 < N.from /\ \A t \in T : ~ (t.to + 1 < N.from)
  BY <1>2, <1>3, BeforeSlots
<1>5. /\ N.from \in Nat /\ r.to \in Nat /\ r.from \in Nat /\ r.from <= r.to
      /\ \A t \in T : t.from \in Nat /\ t.to \in Nat
  BY <1>2, <1>3, RangeFields
<1>6. r.to < h.from
  BY <1>1, <1>3, <1>4, <1>5
<1> QED BY <1>6 DEF h
(* AddTurn: one turn of addSlotRange's loop keeps its invariant. *)
LEMMA AddTurn ==
  ASSUME NEW P, P \subseteq Ranges, NEW N \in Ranges, NEW c \in Ranges,
         \A r \in P : r.to < c.from, Separated(P \cup {c}),
         NEW a, Absorbs(a, P, N)
  PROVE  Absorbs(addStep(a, c), P \cup {c}, N)
<1> DEFINE h == Hull(P, N)
           T == Touching(P, N)
           Q == P \cup {c}
           Record == [out : Seq(Ranges), next : Ranges, inserted : BOOLEAN]
<1>1. /\ a \in Record /\ Sorted(a.out) /\ a.next = h /\ h \in Ranges
      /\ a.inserted <=> \E r \in P : rangeBefore(N, r)
      /\ ToSet(a.out) = (P \ T) \cup (IF a.inserted THEN {h} ELSE {})
  BY DEF Absorbs
<1>2. a.out \in Seq(Ranges) /\ a.inserted \in BOOLEAN
      /\ a = [out |-> a.out, next |-> h, inserted |-> a.inserted]
  BY <1>1
<1>3. /\ rangeBefore(c, h) <=> rangeBefore(c, N)
      /\ rangeBefore(h, c) <=> rangeBefore(N, c)
  BY HullOrder
<1>4. /\ c \in Touching({c}, N) <=> (~ rangeBefore(c, N) /\ ~ rangeBefore(N, c))
      /\ T \subseteq P /\ c \notin P
  BY RangeFields DEF Touching
<1>5. /\ c \in Touching({c}, N) => /\ Touching(Q, N) = T \cup {c}
                                  /\ Hull(Q, N) = [from |-> Min({c.from, h.from}),
                                                   to   |-> Max({c.to, h.to})]
      /\ c \notin Touching({c}, N) => Touching(Q, N) = T /\ Hull(Q, N) = h
  BY HullGrows
<1>6. Hull(Q, N) \in Ranges
  BY HullEnds
<1>7. Separated(P)
  BY DEF Separated
<1>8. a.inserted => rangeBefore(N, c)
  <2> SUFFICES ASSUME NEW r \in P, rangeBefore(N, r) PROVE rangeBefore(N, c)
    BY <1>1
  <2>1. N.to + 1 < r.from /\ r \in Ranges
    BY BeforeSlots
  <2>2. N.to + 1 < c.from
    BY <2>1, RangeFields
  <2> QED BY <2>2, BeforeSlots
<1>9. ~ (rangeBefore(c, N) /\ rangeBefore(N, c))
  BY BeforeSlots, RangeFields
<1>10. (\E r \in Q : rangeBefore(N, r)) <=> (a.inserted \/ rangeBefore(N, c))
  BY <1>1
<1>11. /\ sliceRangeBefore(c, a.next) <=> rangeBefore(c, N)
       /\ sliceRangeBefore(a.next, c) <=> rangeBefore(N, c)
  BY <1>1, <1>3, SameBefore
<1> HIDE DEF h, T, Q
<1>12. CASE rangeBefore(c, N)
  <2>1. /\ ~ a.inserted /\ ~ rangeBefore(N, c) /\ Touching(Q, N) = T /\ Hull(Q, N) = h
    BY <1>4, <1>5, <1>8, <1>9, <1>12
  <2>2. addStep(a, c) = [out |-> Append(a.out, c), next |-> h, inserted |-> a.inserted]
    BY <1>2, <1>11, <1>12, SMTT(20) DEF addStep
  <2>3. \A r \in ToSet(a.out) : r.to < c.from
    BY <1>1, <2>1
  <2>4. /\ Append(a.out, c) \in Seq(Ranges) /\ Sorted(Append(a.out, c))
        /\ ToSet(Append(a.out, c)) = ToSet(a.out) \cup {c}
    BY <1>2, <1>1, <2>3, AppendSorted
  <2>5. ToSet(a.out) \cup {c} = Q \ T
    BY <1>1, <1>4, <2>1 DEF Q
  <2>6. a.inserted <=> \E r \in Q : rangeBefore(N, r)
    BY <1>10, <2>1
  <2>7. Absorbs([out |-> Append(a.out, c), next |-> h, inserted |-> a.inserted], Q, N)
    BY <1>1, <1>2, <2>1, <2>4, <2>5, <2>6, MakeAbsorbs
  <2> QED BY <2>2, <2>7 DEF Q
<1>13. CASE rangeBefore(N, c)
  <2>1. /\ ~ rangeBefore(c, N) /\ Touching(Q, N) = T /\ Hull(Q, N) = h
        /\ h.to < c.from
    <3>1. h.to + 1 < c.from
      BY <1>1, <1>3, <1>13, BeforeSlots
    <3> QED BY <1>1, <1>4, <1>5, <1>9, <1>13, <3>1, RangeFields
  <2> DEFINE o == IF a.inserted THEN a.out ELSE Append(a.out, h)
  <2>2. addStep(a, c) = [out |-> Append(o, c), next |-> h, inserted |-> TRUE]
    <3>1. ~ sliceRangeBefore(c, a.next) /\ sliceRangeBefore(a.next, c)
      BY <1>11, <1>13, <2>1
    <3> QED BY <1>1, <3>1 DEF addStep
  <2>3. /\ o \in Seq(Ranges) /\ Sorted(o) /\ ToSet(o) = (P \ T) \cup {h}
    <3>1. CASE a.inserted
      BY <1>1, <1>2, <3>1
    <3>2. CASE ~ a.inserted
      <4>1. \A r \in ToSet(a.out) : r.to < h.from
        BY <1>1, <1>7, <3>2, BeforeHull DEF h, T
      <4>2. ToSet(a.out) = P \ T
        BY <1>1, <3>2
      <4> QED BY <1>1, <1>2, <3>2, <4>1, <4>2, AppendSorted
    <3> QED BY <3>1, <3>2
  <2> HIDE DEF o
  <2>4. \A r \in ToSet(o) : r.to < c.from
    BY <2>1, <2>3
  <2>5. /\ Append(o, c) \in Seq(Ranges) /\ Sorted(Append(o, c))
        /\ ToSet(Append(o, c)) = ToSet(o) \cup {c}
    BY <2>3, <2>4, AppendSorted
  <2>6. ToSet(o) \cup {c} = (Q \ T) \cup {h}
    BY <1>4, <2>3 DEF Q
  <2>7. TRUE <=> \E r \in Q : rangeBefore(N, r)
    BY <1>10, <1>13
  <2>8. Absorbs([out |-> Append(o, c), next |-> h, inserted |-> TRUE], Q, N)
    BY <1>1, <2>1, <2>5, <2>6, <2>7, MakeAbsorbs
  <2> QED BY <2>2, <2>8 DEF Q
<1>14. CASE ~ rangeBefore(c, N) /\ ~ rangeBefore(N, c)
  <2>1. /\ ~ a.inserted /\ Touching(Q, N) = T \cup {c}
        /\ Hull(Q, N) = [from |-> Min({c.from, h.from}), to |-> Max({c.to, h.to})]
    BY <1>4, <1>5, <1>8, <1>14
  <2>2. addStep(a, c) = [out |-> a.out, next |-> Hull(Q, N), inserted |-> a.inserted]
    BY <1>1, <1>2, <1>11, <1>14, <2>1 DEF addStep
  <2>3. ToSet(a.out) = Q \ (T \cup {c})
    BY <1>1, <1>4, <2>1 DEF Q
  <2>4. a.inserted <=> \E r \in Q : rangeBefore(N, r)
    BY <1>10, <1>14
  <2>5. Absorbs([out |-> a.out, next |-> Hull(Q, N), inserted |-> a.inserted], Q, N)
    BY <1>1, <1>2, <1>6, <2>1, <2>3, <2>4, MakeAbsorbs
  <2> QED BY <2>2, <2>5 DEF Q
<1> QED BY <1>12, <1>13, <1>14

(* AddType: a turn of the loop yields an output, a range and a flag. *)
LEMMA AddType ==
  ASSUME NEW a \in [out : Seq(Ranges), next : Ranges, inserted : BOOLEAN], NEW c \in Ranges
  PROVE  addStep(a, c) \in [out : Seq(Ranges), next : Ranges, inserted : BOOLEAN]
<1> DEFINE N == a.next
           m == [from |-> Min({c.from, N.from}), to |-> Max({c.to, N.to})]
<1>1. /\ a.out \in Seq(Ranges) /\ N \in Ranges /\ a.inserted \in BOOLEAN
      /\ a = [out |-> a.out, next |-> N, inserted |-> a.inserted]
  OBVIOUS
<1>2. m \in Ranges
  <2>1. /\ c.from \in Slots /\ c.to \in Slots /\ N.from \in Slots /\ N.to \in Slots
        /\ c.from <= c.to /\ N.from <= N.to
    BY <1>1, RangeFields
  <2> HIDE DEF N
  <2>2. /\ Min({c.from, N.from}) \in {c.from, N.from}
        /\ \A y \in {c.from, N.from} : Min({c.from, N.from}) <= y
    BY <2>1, MinSlot
  <2>3. /\ Max({c.to, N.to}) \in {c.to, N.to}
        /\ \A y \in {c.to, N.to} : Max({c.to, N.to}) >= y
    BY <2>1, MaxSlotOf
  <2>4. Min({c.from, N.from}) \in Slots /\ Max({c.to, N.to}) \in Slots
    BY <2>1, <2>2, <2>3
  <2>5. Min({c.from, N.from}) <= c.from /\ c.to <= Max({c.to, N.to})
    BY <2>1, <2>2, <2>3, <2>4, CanonicalIndexAssumption DEF Slots
  <2>6. Min({c.from, N.from}) <= Max({c.to, N.to})
    BY <2>1, <2>4, <2>5, CanonicalIndexAssumption DEF Slots
  <2> QED BY <2>4, <2>6 DEF Ranges
<1>3. /\ Append(a.out, c) \in Seq(Ranges)
      /\ Append(IF a.inserted THEN a.out ELSE Append(a.out, N), c) \in Seq(Ranges)
  BY <1>1
<1> HIDE DEF m, N
<1>4. addStep(a, c) \in {[out |-> Append(a.out, c), next |-> N, inserted |-> a.inserted],
                        [out |-> Append(IF a.inserted THEN a.out ELSE Append(a.out, N), c),
                         next |-> N, inserted |-> TRUE],
                        [out |-> a.out, next |-> m, inserted |-> a.inserted]}
  BY <1>1 DEF addStep, m, N
<1> DEFINE o == Append(IF a.inserted THEN a.out ELSE Append(a.out, N), c)
           q == Append(a.out, c)
<1>5. o \in Seq(Ranges) /\ q \in Seq(Ranges)
  BY <1>3
<1>6. addStep(a, c) \in {[out |-> q, next |-> N, inserted |-> a.inserted],
                        [out |-> o, next |-> N, inserted |-> TRUE],
                        [out |-> a.out, next |-> m, inserted |-> a.inserted]}
  BY <1>4
<1> HIDE DEF o, q
<1>7. \A x \in Seq(Ranges), y \in Ranges, z \in BOOLEAN :
        [out |-> x, next |-> y, inserted |-> z]
          \in [out : Seq(Ranges), next : Ranges, inserted : BOOLEAN]
  OBVIOUS
<1> QED BY <1>1, <1>2, <1>5, <1>6, <1>7, ZenonT(30)

(* AddSorted: addSlotRange, run on a sorted slice of separated ranges,      *)
(* returns a sorted slice of the ranges it is said to return.               *)
LEMMA AddSorted ==
  ASSUME NEW slice \in Seq(Ranges), Sorted(slice), Separated(ToSet(slice)),
         NEW N \in Ranges
  PROVE  /\ addSlice(slice, N) \in Seq(Ranges) /\ Sorted(addSlice(slice, N))
         /\ ToSet(addSlice(slice, N)) = addSlotRange(ToSet(slice), N)
<1> DEFINE n == Len(slice)
           A == [out : Seq(Ranges), next : Ranges, inserted : BOOLEAN]
           b == [out |-> << >>, next |-> N, inserted |-> FALSE]
           Turn(i, a) == addStep(a, slice[i])
           G == [x \in (1 .. n) \X A |-> Turn(x[1], x[2])]
           acc == CHOOSE f : f = [i \in 0 .. n |-> IF i = 0 THEN b ELSE Turn(i, f[i - 1])]
<1>0. addSlice(slice, N) = IF acc[n].inserted THEN acc[n].out
                           ELSE Append(acc[n].out, acc[n].next)
  BY DEF addSlice
<1>1. n \in Nat /\ b \in A /\ \A i \in 1 .. n, a \in A : Turn(i, a) \in A
  BY AddType
<1> HIDE DEF Turn, b, n, A
<1>2. acc[0] = b /\ \A i \in 1 .. n : acc[i] = Turn(i, acc[i - 1])
  <2>1. G \in [(1 .. n) \X A -> A] /\ \A i \in 1 .. n, s \in A : G[<<i, s>>] = Turn(i, s)
    BY <1>1
  <2> HIDE DEF G
  <2>2. PICK f : Loops(n, A, b, G, f)
    BY <1>1, <2>1, Recursion
  <2>3. f = [i \in 0 .. n |-> IF i = 0 THEN b ELSE Turn(i, f[i - 1])]
    <3>1. f \in [0 .. n -> A] /\ f[0] = b /\ \A i \in 1 .. n : f[i] = G[<<i, f[i - 1]>>]
      BY <2>2 DEF Loops
    <3>2. \A i \in 0 .. n : i # 0 => i \in 1 .. n /\ i - 1 \in 0 .. n
      BY <1>1
    <3>3. \A i \in 0 .. n : f[i] = IF i = 0 THEN b ELSE Turn(i, f[i - 1])
      BY <2>1, <3>1, <3>2
    <3> QED BY <3>1, <3>3
  <2>4. acc = [i \in 0 .. n |-> IF i = 0 THEN b ELSE Turn(i, acc[i - 1])]
    BY <2>3, Zenon
  <2> HIDE DEF acc
  <2>5. 0 \in 0 .. n /\ \A i \in 1 .. n : i \in 0 .. n /\ i # 0
    BY <1>1
  <2> QED BY <2>4, <2>5
<1> HIDE DEF acc
<1> DEFINE S == {i \in 0 .. n : Absorbs(acc[i], Prefix(slice, i), N)}
<1>3. 0 \in S
  <2>1. Touching({}, N) = {}
    BY DEF Touching
  <2>2. Hull({}, N) = N
    <3>1. Hull({}, N) \in Ranges /\ Hull({}, N).from = N.from /\ Hull({}, N).to = N.to
      BY <2>1, HullEnds
    <3> QED BY <3>1, RangeFields
  <2>3. Absorbs(b, {}, N)
    <3>1. /\ b \in [out : Seq(Ranges), next : Ranges, inserted : BOOLEAN]
          /\ b.out = << >> /\ b.next = N /\ b.inserted = FALSE
      BY DEF b
    <3>2. Sorted(b.out) /\ ToSet(b.out) = {}
      BY <3>1, EmptySorted, Zenon
    <3> QED BY <2>1, <2>2, <3>1, <3>2 DEF Absorbs
  <2>4. Prefix(slice, 0) = {}
    BY PrefixFacts
  <2>5. Absorbs(acc[0], Prefix(slice, 0), N)
    BY <1>2, <2>3, <2>4, Zenon
  <2> QED BY <1>1, <2>5
<1>4. ASSUME NEW i \in 1 .. n, i - 1 \in S PROVE i \in S
  <2> DEFINE P == Prefix(slice, i - 1)
             c == slice[i]
             a == acc[i - 1]
  <2>1. /\ c \in Ranges /\ Prefix(slice, i) = P \cup {c} /\ P \subseteq Ranges
        /\ \A r \in P : r.to < c.from
    BY PrefixFacts DEF n
  <2>2. Separated(P \cup {c})
    <3>1. P \cup {c} \subseteq ToSet(slice)
      <4>1. \A j \in 1 .. i : j \in DOMAIN slice
        BY <1>1 DEF n
      <4> QED BY <2>1, <4>1 DEF Prefix, ToSet
    <3> QED BY <3>1 DEF Separated
  <2>3. Absorbs(a, P, N)
    BY <1>4
  <2>4. acc[i] = addStep(a, c)
    BY <1>2 DEF Turn
  <2> HIDE DEF P, c, a
  <2>5. Absorbs(addStep(a, c), P \cup {c}, N)
    BY <2>1, <2>2, <2>3, AddTurn
  <2>6. Absorbs(acc[i], Prefix(slice, i), N)
    BY <2>1, <2>4, <2>5, Zenon
  <2>7. i \in 0 .. n
    BY <1>1
  <2> QED BY <2>6, <2>7
<1>5. Absorbs(acc[n], ToSet(slice), N)
  <2>1. \A i \in 1 .. n : i - 1 \in S => i \in S
    BY <1>4
  <2>2. n \in 0 .. n /\ 0 \in S
    BY <1>1, <1>3
  <2> HIDE DEF S
  <2>3. n \in S
    BY <1>1, <2>1, <2>2, CountUp
  <2> QED BY <2>3, PrefixFacts DEF S, n
<1> DEFINE end == acc[n]
           P == ToSet(slice)
<1> HIDE DEF end
<1>6. /\ end.out \in Seq(Ranges) /\ end.next \in Ranges /\ end.inserted \in BOOLEAN
      /\ Sorted(end.out) /\ end.next = Hull(P, N)
      /\ end.inserted <=> \E r \in P : rangeBefore(N, r)
      /\ ToSet(end.out) = (P \ Touching(P, N)) \cup (IF end.inserted THEN {end.next} ELSE {})
  BY <1>5 DEF Absorbs, end
<1>7. P \subseteq Ranges
  BY DEF ToSet
<1> HIDE DEF P
<1>8. addSlotRange(P, N) = (P \ Touching(P, N)) \cup {Hull(P, N)}
  BY AddIsHull
<1>9. CASE end.inserted
  BY <1>0, <1>6, <1>8, <1>9 DEF end, P
<1>10. CASE ~ end.inserted
  <2>1. \A r \in ToSet(end.out) : r.to < end.next.from
    BY <1>6, <1>7, <1>10, BeforeHull DEF P
  <2>2. /\ Append(end.out, end.next) \in Seq(Ranges) /\ Sorted(Append(end.out, end.next))
        /\ ToSet(Append(end.out, end.next)) = ToSet(end.out) \cup {end.next}
    BY <1>6, <2>1, AppendSorted
  <2>3. addSlice(slice, N) = Append(end.out, end.next)
    BY <1>0, <1>10 DEF end
  <2> QED BY <1>6, <1>8, <1>10, <2>2, <2>3 DEF P
<1> QED BY <1>9, <1>10
-------------------------------------------------------------------------------
(* InsertSorted: insertSlotRange puts a range that overlaps no other where  *)
(* it belongs.                                                              *)
LEMMA InsertSorted ==
  ASSUME NEW slice \in Seq(Ranges), Sorted(slice), NEW g \in Ranges,
         \A r \in ToSet(slice) : Span(r) \cap Span(g) = {}
  PROVE  /\ insertSlotRange(slice, g) \in Seq(Ranges)
         /\ Sorted(insertSlotRange(slice, g))
         /\ ToSet(insertSlotRange(slice, g)) = ToSet(slice) \cup {g}
<1> DEFINE n == Len(slice)
           later == {i \in DOMAIN slice : g.from < slice[i].from}
           at == IF later = {} THEN n + 1 ELSE Min(later)
           left == SubSeq(slice, 1, at - 1)
           right == SubSeq(slice, at, n)
           out == (left \o <<g>>) \o right
<1>0. insertSlotRange(slice, g) = out
  BY DEF insertSlotRange
<1>1. /\ n \in Nat /\ DOMAIN slice = 1 .. n
      /\ \A i \in 1 .. n : /\ slice[i] \in Ranges
                           /\ slice[i].from \in Nat /\ slice[i].to \in Nat
                           /\ slice[i].from <= slice[i].to
      /\ g.from \in Nat /\ g.to \in Nat /\ g.from <= g.to
  BY RangeFields
<1>2. \A i \in 1 .. n : slice[i].to < g.from \/ g.to < slice[i].from
  <2> SUFFICES ASSUME NEW i \in 1 .. n, g.from <= slice[i].to, slice[i].from <= g.to
               PROVE  FALSE
    BY <1>1
  <2>1. slice[i] \in ToSet(slice)
    BY <1>1 DEF ToSet
  <2>2. slice[i].from .. slice[i].to \cap g.from .. g.to = {}
    BY <2>1 DEF Span
  <2>3. CASE slice[i].from <= g.from
    <3>1. g.from \in slice[i].from .. slice[i].to /\ g.from \in g.from .. g.to
      BY <1>1, <2>3
    <3> QED BY <2>2, <3>1
  <2>4. CASE g.from <= slice[i].from
    <3>1. slice[i].from \in slice[i].from .. slice[i].to /\ slice[i].from \in g.from .. g.to
      BY <1>1, <2>4
    <3> QED BY <2>2, <3>1
  <2> QED BY <1>1, <2>3, <2>4
<1>3. /\ at \in 1 .. n + 1
      /\ \A i \in 1 .. n : i < at => ~ (g.from < slice[i].from)
      /\ at \in 1 .. n => g.from < slice[at].from
  <2>1. CASE later = {}
    BY <1>1, <2>1
  <2>2. CASE later # {}
    <3>1. later \subseteq Nat
      BY <1>1
    <3>2. Min(later) \in later /\ \A y \in later : Min(later) <= y
      BY <2>2, <3>1, LeastNat
    <3> DEFINE m == Min(later)
    <3> HIDE DEF m
    <3>3. m \in 1 .. n /\ g.from < slice[m].from /\ \A y \in later : m <= y
      BY <1>1, <3>2 DEF m
    <3>4. at = m
      BY <2>2 DEF m
    <3>5. \A i \in 1 .. n : i < m => i \notin later
      BY <1>1, <3>3
    <3>6. m \in 1 .. n + 1 /\ \A i \in 1 .. n : i < m => ~ (g.from < slice[i].from)
      BY <1>1, <3>3, <3>5
    <3> HIDE DEF at, later, n
    <3> QED BY <3>3, <3>4, <3>6
  <2> QED BY <2>1, <2>2
<1> HIDE DEF later, at, n
<1>4. /\ \A i \in 1 .. n : i < at => slice[i].to < g.from
      /\ \A i \in 1 .. n : i >= at => g.to < slice[i].from
  <2>1. ASSUME NEW i \in 1 .. n, i < at PROVE slice[i].to < g.from
    BY <1>1, <1>2, <1>3, <2>1
  <2>2. ASSUME NEW i \in 1 .. n, i >= at PROVE g.to < slice[i].from
    <3>1. at \in 1 .. n
      BY <1>1, <1>3, <2>2
    <3>2. at < i => slice[at].to < slice[i].from
      BY <1>1, <3>1 DEF Sorted
    <3>3. g.from < slice[i].from
      BY <1>1, <1>3, <2>2, <3>1, <3>2
    <3> QED BY <1>1, <1>2, <3>3
  <2> QED BY <2>1, <2>2
<1>5. /\ left \in Seq(Ranges) /\ Len(left) = at - 1 /\ \A i \in 1 .. at - 1 : left[i] = slice[i]
      /\ right \in Seq(Ranges) /\ Len(right) = n - at + 1
      /\ \A i \in 1 .. n - at + 1 : right[i] = slice[at + i - 1]
  <2>1. \A i \in 1 .. at - 1 : i \in 1 .. n
    BY <1>1, <1>3
  <2>2. \A i \in at .. n : i \in 1 .. n
    BY <1>1, <1>3
  <2>3. at \in Int /\ at - 1 \in Int /\ n \in Int /\ (at <= n \/ n - at + 1 = 0)
        /\ (1 <= at - 1 \/ at - 1 = 0)
    BY <1>1, <1>3
  <2>4. /\ left \in Seq(Ranges) /\ Len(left) = IF 1 <= at - 1 THEN (at - 1) - 1 + 1 ELSE 0
        /\ \A i \in 1 .. (at - 1) - 1 + 1 : left[i] = slice[1 + i - 1]
    BY <1>1, <2>1, <2>3, SubSeqProperties
  <2>5. /\ right \in Seq(Ranges) /\ Len(right) = IF at <= n THEN n - at + 1 ELSE 0
        /\ \A i \in 1 .. n - at + 1 : right[i] = slice[at + i - 1]
    BY <1>1, <2>2, <2>3, SubSeqProperties
  <2> HIDE DEF left, right
  <2> QED BY <1>1, <1>3, <2>3, <2>4, <2>5
<1> HIDE DEF left, right
<1>6. /\ out \in Seq(Ranges) /\ Len(out) = n + 1
      /\ \A i \in 1 .. n + 1 : out[i] = IF i < at THEN slice[i]
                                       ELSE IF i = at THEN g ELSE slice[i - 1]
  <2> DEFINE l == left \o <<g>>
  <2>1. /\ l \in Seq(Ranges) /\ Len(l) = at
        /\ \A i \in 1 .. at : l[i] = IF i <= at - 1 THEN left[i] ELSE g
    BY <1>1, <1>3, <1>5
  <2> HIDE DEF l
  <2>2. /\ out \in Seq(Ranges) /\ Len(out) = at + (n - at + 1)
        /\ \A i \in 1 .. at + (n - at + 1) : out[i] = IF i <= at THEN l[i] ELSE right[i - at]
    <3>1. out = l \o right
      BY DEF l
    <3> HIDE DEF out
    <3>2. /\ out \in Seq(Ranges) /\ Len(out) = Len(l) + Len(right)
          /\ \A i \in 1 .. Len(l) + Len(right) :
               out[i] = IF i <= Len(l) THEN l[i] ELSE right[i - Len(l)]
      BY <1>5, <2>1, <3>1, ConcatProperties, ZenonT(20)
    <3>3. Len(l) = at /\ Len(right) = n - at + 1
      BY <1>5, <2>1
    <3> QED BY <3>2, <3>3
  <2> HIDE DEF out
  <2>3. at + (n - at + 1) = n + 1
    BY <1>1, <1>3
  <2>4. ASSUME NEW i \in 1 .. n + 1
        PROVE  out[i] = IF i < at THEN slice[i] ELSE IF i = at THEN g ELSE slice[i - 1]
    <3>1. CASE i < at
      <4>1. i \in 1 .. at - 1 /\ i \in 1 .. at /\ i <= at /\ i <= at - 1
        BY <1>1, <1>3, <3>1
      <4> QED BY <1>5, <2>1, <2>2, <2>3, <3>1, <4>1
    <3>2. CASE i = at
      BY <1>1, <1>3, <2>1, <2>2, <2>3, <3>2
    <3>3. CASE i > at
      <4>1. i - at \in 1 .. n - at + 1 /\ at + (i - at) - 1 = i - 1
        BY <1>1, <1>3, <3>3
      <4>2. right[i - at] = slice[i - 1]
        BY <1>5, <4>1
      <4> QED BY <1>1, <1>3, <2>2, <2>3, <3>3, <4>2
    <3> QED BY <1>1, <1>3, <3>1, <3>2, <3>3
  <2> QED BY <2>2, <2>3, <2>4
<1> HIDE DEF out
<1>7. DOMAIN out = 1 .. n + 1
  BY <1>6
<1>8. Sorted(out)
  <2> SUFFICES ASSUME NEW i \in 1 .. n + 1, NEW j \in 1 .. n + 1, i < j
               PROVE  out[i].to < out[j].from
    BY <1>7 DEF Sorted
  <2>1. CASE j < at
    <3>1. i \in 1 .. n /\ j \in 1 .. n /\ i < at
      BY <1>1, <1>3, <2>1
    <3> QED BY <1>1, <1>6, <2>1, <3>1 DEF Sorted
  <2>2. CASE j = at
    <3>1. i \in 1 .. n /\ i < at
      BY <1>1, <1>3, <2>2
    <3> QED BY <1>4, <1>6, <2>2, <3>1
  <2>3. CASE j > at /\ i = at
    <3>1. j - 1 \in 1 .. n /\ j - 1 >= at /\ ~ (j < at) /\ j # at
      BY <1>1, <1>3, <2>3
    <3> QED BY <1>4, <1>6, <2>3, <3>1
  <2>4. CASE j > at /\ i < at
    <3>1. j - 1 \in 1 .. n /\ i \in 1 .. n /\ i < j - 1 /\ ~ (j < at) /\ j # at
      BY <1>1, <1>3, <2>4
    <3>2. slice[i].to < slice[j - 1].from
      BY <1>1, <3>1 DEF Sorted
    <3> QED BY <1>6, <2>4, <3>1, <3>2
  <2>5. CASE j > at /\ i > at
    <3>1. /\ j - 1 \in 1 .. n /\ i - 1 \in 1 .. n /\ i - 1 < j - 1
          /\ ~ (j < at) /\ j # at /\ ~ (i < at) /\ i # at
      BY <1>1, <1>3, <2>5
    <3>2. slice[i - 1].to < slice[j - 1].from
      BY <1>1, <3>1 DEF Sorted
    <3> QED BY <1>6, <3>1, <3>2
  <2> QED BY <1>3, <2>1, <2>2, <2>3, <2>4, <2>5
<1>9. ToSet(out) = ToSet(slice) \cup {g}
  <2>1. ASSUME NEW i \in 1 .. n + 1 PROVE out[i] \in ToSet(slice) \cup {g}
    <3>1. (i < at /\ i \in 1 .. n) \/ i = at \/ (~ (i < at) /\ i # at /\ i - 1 \in 1 .. n)
      BY <1>1, <1>3
    <3>2. out[i] = g \/ (\E j \in 1 .. n : out[i] = slice[j])
      BY <1>6, <3>1
    <3> QED BY <1>1, <3>2 DEF ToSet
  <2>2. g \in ToSet(out)
    BY <1>3, <1>6, <1>7 DEF ToSet
  <2>3. ASSUME NEW i \in 1 .. n PROVE slice[i] \in ToSet(out)
    <3>1. CASE i < at
      <4>1. i \in 1 .. n + 1 /\ out[i] = slice[i]
        BY <1>1, <1>6, <3>1
      <4> QED BY <1>7, <4>1 DEF ToSet
    <3>2. CASE ~ (i < at)
      <4>1. i + 1 \in 1 .. n + 1 /\ ~ (i + 1 < at) /\ i + 1 # at /\ (i + 1) - 1 = i
        BY <1>1, <1>3, <3>2
      <4>2. out[i + 1] = slice[i]
        BY <1>6, <4>1
      <4> QED BY <1>7, <4>1, <4>2 DEF ToSet
    <3> QED BY <3>1, <3>2
  <2>4. ToSet(out) \subseteq ToSet(slice) \cup {g}
    BY <1>7, <2>1 DEF ToSet
  <2>5. ToSet(slice) \subseteq ToSet(out)
    BY <1>1, <2>3 DEF ToSet
  <2> QED BY <2>2, <2>4, <2>5
<1> QED BY <1>0, <1>6, <1>8, <1>9

(* ContainsSlot: the scan that stops at the first range ending at or after  *)
(* a slot finds the range that holds it.                                    *)
LEMMA ContainsSlot ==
  ASSUME NEW slice \in Seq(Ranges), Sorted(slice), NEW slot \in Slots
  PROVE  /\ rangeContainingSlot(slice, slot) = NoRange <=> slot \notin Covered(ToSet(slice))
         /\ rangeContainingSlot(slice, slot) # NoRange =>
              /\ rangeContainingSlot(slice, slot) \in ToSet(slice)
              /\ slot \in Span(rangeContainingSlot(slice, slot))
<1> DEFINE n == Len(slice)
           candidates == {i \in DOMAIN slice : slot <= slice[i].to}
           m == Min(candidates)
<1>0. rangeContainingSlot(slice, slot)
        = IF candidates # {} /\ slot >= slice[m].from THEN slice[m] ELSE NoRange
  BY DEF rangeContainingSlot
<1>1. /\ n \in Nat /\ DOMAIN slice = 1 .. n /\ slot \in Nat
      /\ \A i \in 1 .. n : /\ slice[i] \in Ranges /\ slice[i] \in ToSet(slice)
                           /\ slice[i].from \in Nat /\ slice[i].to \in Nat
                           /\ slice[i].from <= slice[i].to
      /\ \A r \in ToSet(slice) : \E i \in 1 .. n : r = slice[i]
  <2>1. n \in Nat /\ DOMAIN slice = 1 .. n /\ \A i \in 1 .. n : slice[i] \in Ranges
    OBVIOUS
  <2>2. slot \in Nat
    BY CanonicalIndexAssumption DEF Slots
  <2>3. \A i \in 1 .. n : slice[i] \in ToSet(slice)
    BY <2>1 DEF ToSet
  <2>4. \A r \in ToSet(slice) : \E i \in 1 .. n : r = slice[i]
    BY <2>1 DEF ToSet
  <2> QED BY <2>1, <2>2, <2>3, <2>4, RangeFields
<1>2. NoRange \notin Ranges
  BY CanonicalIndexAssumption DEF NoRange, Ranges, Slots
<1>3. candidates # {} => /\ m \in 1 .. n /\ slot <= slice[m].to
                         /\ \A i \in 1 .. n : slot <= slice[i].to => m <= i
  <2> SUFFICES ASSUME candidates # {}
               PROVE  m \in candidates /\ \A i \in candidates : m <= i
    BY <1>1
  <2>1. candidates \subseteq Nat
    BY <1>1
  <2> HIDE DEF candidates
  <2> QED BY <2>1, LeastNat
<1>4. candidates = {} => \A i \in 1 .. n : ~ (slot <= slice[i].to)
  BY <1>1
<1> HIDE DEF candidates, m, n
<1>5. CASE candidates # {} /\ slot >= slice[m].from
  <2>1. slice[m] \in ToSet(slice) /\ slot \in Span(slice[m]) /\ slice[m] # NoRange
    BY <1>1, <1>2, <1>3, <1>5 DEF Span
  <2> QED BY <1>0, <1>5, <2>1 DEF Covered
<1>6. CASE ~ (candidates # {} /\ slot >= slice[m].from)
  <2>1. rangeContainingSlot(slice, slot) = NoRange
    BY <1>0, <1>6
  <2>2. ASSUME NEW i \in 1 .. n PROVE slot \notin Span(slice[i])
    <3> SUFFICES ASSUME slice[i].from <= slot, slot <= slice[i].to PROVE FALSE
      BY <1>1 DEF Span
    <3>1. /\ candidates # {} /\ m \in 1 .. n /\ m <= i /\ slot < slice[m].from
      <4>1. candidates # {}
        BY <1>4
      <4>2. m \in 1 .. n /\ m <= i /\ ~ (slot >= slice[m].from)
        BY <1>3, <1>6, <4>1
      <4>3. slot < slice[m].from
        BY <1>1, <4>2
      <4> QED BY <4>1, <4>2, <4>3
    <3>2. m < i => slice[m].to < slice[i].from
      BY <1>1, <3>1 DEF Sorted
    <3> QED BY <1>1, <3>1, <3>2
  <2>3. slot \notin Covered(ToSet(slice))
    BY <1>1, <2>2 DEF Covered
  <2> QED BY <2>1, <2>3
<1> QED BY <1>5, <1>6
-------------------------------------------------------------------------------
(* nextGapLocked.                                                           *)

(* What the walk from slot still has to find: missing slots up to to. *)
Ahead(slot, to) == {x \in Slots : (x \in slot .. to \/ x = slot) /\ x \notin Covered(loaded)}

(* Where the walk from slot ends. *)
Stop(slot, to) == IF Ahead(slot, to) = {} THEN MaxSlot + 1 ELSE Min(Ahead(slot, to))

(* Stands: the slices stand for the sets. *)
Stands ==
  /\ loadedSlice \in Seq(Ranges) /\ loadingSlice \in Seq(Ranges)
  /\ SlicesRepresentSets

(* StopEquation: Stop solves the equation of the walk. *)
LEMMA StopEquation ==
  ASSUME Stands, NEW to \in Slots, NEW slot \in Slots,
         NEW r, r = rangeContainingSlot(loadedSlice, slot)
  PROVE  /\ r = NoRange => Stop(slot, to) = slot
         /\ r # NoRange =>
              /\ r \in Ranges /\ slot <= r.to
              /\ r.to = MaxSlot \/ Plus1(r.to) > to => Stop(slot, to) = MaxSlot + 1
              /\ ~ (r.to = MaxSlot \/ Plus1(r.to) > to) =>
                   /\ Plus1(r.to) \in Slots /\ slot < Plus1(r.to)
                   /\ Stop(slot, to) = Stop(Plus1(r.to), to)
<1>1. /\ r = NoRange <=> slot \notin Covered(loaded)
      /\ r # NoRange => r \in loaded /\ slot \in Span(r)
      /\ loaded \subseteq Ranges
  <2>1. loadedSlice \in Seq(Ranges) /\ Sorted(loadedSlice) /\ ToSet(loadedSlice) = loaded
    BY DEF Stands, SlicesRepresentSets
  <2>2. ToSet(loadedSlice) \subseteq Ranges
    BY <2>1 DEF ToSet
  <2> QED BY <2>1, <2>2, ContainsSlot
<1>2. MaxSlot \in Nat /\ slot \in Nat /\ to \in Nat /\ to <= MaxSlot /\ slot <= MaxSlot
  BY CanonicalIndexAssumption DEF Slots
<1>3. CASE r = NoRange
  <2>1. slot \in Ahead(slot, to)
    BY <1>1, <1>3 DEF Ahead
  <2>2. /\ Min(Ahead(slot, to)) \in Ahead(slot, to)
        /\ \A y \in Ahead(slot, to) : Min(Ahead(slot, to)) <= y
    BY <2>1, MinSlot DEF Ahead
  <2>3. \A y \in Ahead(slot, to) : slot <= y /\ y \in Nat
    BY <1>2 DEF Ahead, Slots
  <2>4. Min(Ahead(slot, to)) = slot
    <3> DEFINE m == Min(Ahead(slot, to))
    <3> HIDE DEF m
    <3>1. m \in Nat /\ slot <= m /\ m <= slot
      BY <2>1, <2>2, <2>3 DEF m
    <3>2. m = slot
      BY <1>2, <3>1
    <3> QED BY <3>2 DEF m
  <2> QED BY <1>3, <2>1, <2>4 DEF Stop
<1>4. CASE r # NoRange
  <2>1. /\ r \in Ranges /\ r.from \in Nat /\ r.to \in Nat /\ r.to <= MaxSlot /\ r.to \in Slots
        /\ r.from <= slot /\ slot <= r.to
    BY <1>1, <1>4, RangeFields DEF Span
  <2>2. \A x \in slot .. r.to : x \in Covered(loaded)
    <3>1. \A x \in slot .. r.to : x \in Span(r)
      BY <1>2, <2>1 DEF Span
    <3> QED BY <1>1, <1>4, <3>1 DEF Covered
  <2>3. r.to # MaxSlot => Plus1(r.to) = r.to + 1
    BY <2>1, PlusOne
  <2>4. ASSUME r.to = MaxSlot \/ Plus1(r.to) > to
        PROVE  Stop(slot, to) = MaxSlot + 1
    <3>1. \A x \in slot .. to : x \in slot .. r.to
      BY <1>2, <2>1, <2>3, <2>4
    <3>2. Ahead(slot, to) = {}
      BY <1>1, <1>4, <2>2, <3>1 DEF Ahead
    <3> QED BY <3>2 DEF Stop
  <2>5. ASSUME ~ (r.to = MaxSlot \/ Plus1(r.to) > to)
        PROVE  /\ Plus1(r.to) \in Slots /\ slot < Plus1(r.to)
               /\ Stop(slot, to) = Stop(Plus1(r.to), to)
    <3> DEFINE p == Plus1(r.to)
    <3>1. p = r.to + 1 /\ p \in Slots /\ slot < p /\ p <= to /\ p \in Nat
      BY <1>2, <2>1, <2>3, <2>5 DEF Slots
    <3> HIDE DEF p
    <3>2. \A x \in Slots : x \in slot .. to => x \in slot .. r.to \/ x \in p .. to
      BY <1>2, <2>1, <3>1 DEF Slots
    <3>3. \A x \in p .. to : x \in slot .. to
      BY <1>2, <3>1
    <3>4. p \in p .. to
      BY <1>2, <3>1
    <3>5. Ahead(slot, to) \subseteq Ahead(p, to)
      BY <1>1, <1>4, <2>2, <3>2 DEF Ahead
    <3>6. Ahead(p, to) \subseteq Ahead(slot, to)
      BY <3>3, <3>4 DEF Ahead
    <3>7. Ahead(p, to) = Ahead(slot, to)
      BY <3>5, <3>6
    <3>8. Stop(slot, to) = Stop(p, to)
      BY <3>7 DEF Stop
    <3> QED BY <3>1, <3>8 DEF p
  <2> QED BY <1>4, <2>1, <2>4, <2>5
<1> QED BY <1>3, <1>4

(* The walk of nextGapLocked. *)
Walk(to) ==
  LET walk[slot \in Slots] ==
        LET r == rangeContainingSlot(loadedSlice, slot)
        IN  IF r = NoRange THEN slot
            ELSE IF r.to = MaxSlot \/ Plus1(r.to) > to THEN MaxSlot + 1
            ELSE walk[Plus1(r.to)]
  IN  walk

(* WalkStops: the walk over the loaded ranges ends at the first missing     *)
(* slot, or beyond all slots.                                               *)
LEMMA WalkStops ==
  ASSUME Stands, NEW to \in Slots
  PROVE  \A slot \in Slots : Walk(to)[slot] = Stop(slot, to)
<1> DEFINE L(slot) == rangeContainingSlot(loadedSlice, slot)
           Turn(slot, f) == IF L(slot) = NoRange THEN slot
                            ELSE IF L(slot).to = MaxSlot \/ Plus1(L(slot).to) > to
                                   THEN MaxSlot + 1
                            ELSE f[Plus1(L(slot).to)]
           walk == CHOOSE f : f = [slot \in Slots |-> Turn(slot, f)]
           g == [slot \in Slots |-> Stop(slot, to)]
<1>1. Walk(to) = walk
  BY DEF Walk
<1>2. \A slot \in Slots : g[slot] = Turn(slot, g)
  <2> SUFFICES ASSUME NEW slot \in Slots PROVE g[slot] = Turn(slot, g)
    OBVIOUS
  <2> DEFINE r == L(slot)
  <2>1. /\ r = NoRange => Stop(slot, to) = slot
        /\ r # NoRange =>
              /\ r.to = MaxSlot \/ Plus1(r.to) > to => Stop(slot, to) = MaxSlot + 1
              /\ ~ (r.to = MaxSlot \/ Plus1(r.to) > to) =>
                   /\ Plus1(r.to) \in Slots
                   /\ Stop(slot, to) = Stop(Plus1(r.to), to)
    BY StopEquation
  <2>2. g[slot] = Stop(slot, to) /\ \A x \in Slots : g[x] = Stop(x, to)
    OBVIOUS
  <2> HIDE DEF g, L
  <2> QED BY <2>1, <2>2
<1>3. g = [slot \in Slots |-> Turn(slot, g)]
  <2>1. g = [slot \in Slots |-> g[slot]]
    OBVIOUS
  <2> HIDE DEF g, Turn
  <2> QED BY <1>2, <2>1
<1> HIDE DEF g, Turn
<1>4. walk = [slot \in Slots |-> Turn(slot, walk)]
  BY <1>3, Zenon
<1> HIDE DEF walk
<1>5. \A slot \in Slots : walk[slot] = Turn(slot, walk)
  BY <1>4, Zenon
<1> DEFINE S == {i \in 0 .. MaxSlot : \A slot \in Slots :
                    slot >= MaxSlot - i => walk[slot] = Stop(slot, to)}
<1>6. ASSUME NEW i \in Nat, i <= MaxSlot,
             \A slot \in Slots : slot > MaxSlot - i => walk[slot] = Stop(slot, to)
      PROVE  \A slot \in Slots : slot >= MaxSlot - i => walk[slot] = Stop(slot, to)
  <2> SUFFICES ASSUME NEW slot \in Slots, slot >= MaxSlot - i
               PROVE  walk[slot] = Stop(slot, to)
    OBVIOUS
  <2> DEFINE r == L(slot)
  <2>1. /\ r = NoRange => Stop(slot, to) = slot
        /\ r # NoRange =>
              /\ r.to = MaxSlot \/ Plus1(r.to) > to => Stop(slot, to) = MaxSlot + 1
              /\ ~ (r.to = MaxSlot \/ Plus1(r.to) > to) =>
                   /\ Plus1(r.to) \in Slots /\ slot < Plus1(r.to)
                   /\ Stop(slot, to) = Stop(Plus1(r.to), to)
    BY StopEquation
  <2>2. walk[slot] = IF r = NoRange THEN slot
                     ELSE IF r.to = MaxSlot \/ Plus1(r.to) > to THEN MaxSlot + 1
                     ELSE walk[Plus1(r.to)]
    BY <1>5 DEF Turn
  <2> DEFINE p == Plus1(r.to)
  <2> HIDE DEF r, p
  <2>3. p \in Slots /\ slot < p => walk[p] = Stop(p, to)
    BY <1>6, CanonicalIndexAssumption DEF Slots
  <2> QED BY <2>1, <2>2, <2>3 DEF p
<1>7. 0 \in S
  <2>1. \A slot \in Slots : ~ (slot > MaxSlot - 0)
    BY CanonicalIndexAssumption DEF Slots
  <2> QED BY <1>6, <2>1, CanonicalIndexAssumption
<1>8. ASSUME NEW i \in 1 .. MaxSlot, i - 1 \in S PROVE i \in S
  <2>1. \A slot \in Slots : slot > MaxSlot - i => slot >= MaxSlot - (i - 1)
    BY CanonicalIndexAssumption DEF Slots
  <2> QED BY <1>6, <1>8, <2>1, CanonicalIndexAssumption
<1>9. MaxSlot \in S
  <2> HIDE DEF S
  <2>1. \A i \in 1 .. MaxSlot : i - 1 \in S => i \in S
    BY <1>8
  <2> QED BY <1>7, <2>1, CountUp, CanonicalIndexAssumption
<1> QED BY <1>1, <1>9, CanonicalIndexAssumption DEF Slots
-------------------------------------------------------------------------------
(* nextGapLocked on the slices.                                             *)

(* StopIsFirst: from the start of a window the walk stops at the first      *)
(* missing slot of the window, or beyond all slots when nothing is missing. *)
LEMMA StopIsFirst ==
  ASSUME NEW w \in Ranges
  PROVE  /\ Missing(w) = {} => Stop(w.from, w.to) = MaxSlot + 1
         /\ Missing(w) # {} => /\ Stop(w.from, w.to) \in Slots
                               /\ FirstMissing(Stop(w.from, w.to), w)
<1>1. w.from \in Nat /\ w.to \in Nat /\ w.from <= w.to /\ w.to <= MaxSlot /\ MaxSlot \in Nat
  BY RangeFields, CanonicalIndexAssumption
<1>2. Ahead(w.from, w.to) = Missing(w)
  <2>1. \A x \in w.from .. w.to : x \in Slots
    BY <1>1 DEF Slots
  <2>2. w.from \in w.from .. w.to
    BY <1>1
  <2> QED BY <2>1, <2>2 DEF Ahead, Missing, Span
<1>3. Ahead(w.from, w.to) \subseteq Slots
  BY DEF Ahead
<1>4. CASE Missing(w) = {}
  BY <1>2, <1>4 DEF Stop
<1>5. CASE Missing(w) # {}
  <2>1. Stop(w.from, w.to) = Min(Missing(w))
    BY <1>2, <1>5 DEF Stop
  <2>2. Min(Missing(w)) \in Missing(w) /\ \A y \in Missing(w) : Min(Missing(w)) <= y
    BY <1>2, <1>3, <1>5, MinSlot
  <2> QED BY <1>2, <1>3, <1>5, <2>1, <2>2 DEF FirstMissing
<1> QED BY <1>4, <1>5

(* GapEnd: the end nextGapLocked gives a gap is the least bound on it;      *)
(* leaving out a chunk end that overflows loses nothing.                    *)
LEMMA GapEnd ==
  ASSUME TypeOK, NEW w \in Ranges, NEW slot \in Slots,
         NEW later, later = {r.from - 1 : r \in {q \in loaded \cup loading : q.from > slot}},
         NEW chunk, chunk = IF slot + ChunkSize - 1 <= MaxSlot THEN {slot + ChunkSize - 1} ELSE {},
         NEW end, end = Min({w.to} \cup later \cup chunk)
  PROVE  end \in GapEnds(slot, w) /\ \A e \in GapEnds(slot, w) : end <= e
<1> DEFINE B == {w.to} \cup later \cup chunk
           c == slot + ChunkSize - 1
<1>1. /\ slot \in Nat /\ MaxSlot \in Nat /\ c \in Nat /\ w.to \in Nat
      /\ w.to <= MaxSlot /\ w.to \in Slots
  BY RangeFields, CanonicalIndexAssumption DEF Slots
<1>2. \A r \in loaded \cup loading : r.from > slot => r.from - 1 \in Slots
  <2> SUFFICES ASSUME NEW r \in loaded \cup loading, r.from > slot PROVE r.from - 1 \in Slots
    OBVIOUS
  <2>1. r \in Ranges
    BY DEF TypeOK
  <2>2. r.from \in Nat /\ r.from <= MaxSlot
    BY <2>1, RangeFields, CanonicalIndexAssumption DEF Slots
  <2> QED BY <1>1, <2>2 DEF Slots
<1>3. chunk \subseteq Slots
  BY <1>1 DEF Slots
<1>4. B \subseteq Slots /\ B # {}
  BY <1>1, <1>2, <1>3
<1>5. Min(B) \in B /\ \A y \in B : Min(B) <= y
  BY <1>4, MinSlot
<1>6. end \in B /\ (\A y \in B : end <= y) /\ end \in Nat
  <2>1. end \in B /\ \A y \in B : end <= y
    BY <1>5
  <2>2. \A y \in Slots : y \in Nat
    BY <1>1 DEF Slots
  <2> QED BY <1>4, <2>1, <2>2
<1>7. GapEnds(slot, w) = {w.to, c} \cup later
  BY DEF GapEnds
<1>8. chunk \subseteq {c} /\ (c \notin chunk => c > MaxSlot)
  BY <1>1
<1>9. end <= w.to /\ end <= c
  <2>1. end <= w.to
    BY <1>6
  <2>2. CASE c \in chunk
    BY <1>6, <2>1, <2>2
  <2>3. CASE c \notin chunk
    <3>1. c > MaxSlot
      BY <1>8, <2>3
    <3> HIDE DEF c
    <3> QED BY <1>1, <1>6, <2>1, <3>1
  <2> QED BY <2>2, <2>3
<1> HIDE DEF c
<1> QED BY <1>6, <1>7, <1>8, <1>9

(* ScanAnswers: nextGapLocked answers every window as CanonicalIndex says. *)
LEMMA ScanAnswers ==
  ASSUME TypeOK, Stands
  PROVE  ScanAgrees
<1> SUFFICES ASSUME NEW w \in Ranges, NEW answer, answer = nextGapLocked(w.from, w.to)
             PROVE  /\ answer.kind = "done" <=> Missing(w) = {}
                    /\ answer.kind = "wait" <=> \E s \in Covered(loading) : FirstMissing(s, w)
                    /\ answer.kind = "gap" => IsNextGap(answer.gap, w)
  BY Zenon DEF ScanAgrees
<1> DEFINE slot == Stop(w.from, w.to)
           later == {r.from - 1 : r \in {q \in loaded \cup loading : q.from > slot}}
           chunk == IF slot + ChunkSize - 1 <= MaxSlot THEN {slot + ChunkSize - 1} ELSE {}
           end == Min({w.to} \cup later \cup chunk)
<1>1. /\ loadedSlice \in Seq(Ranges) /\ loadingSlice \in Seq(Ranges)
      /\ Sorted(loadingSlice) /\ ToSet(loadedSlice) = loaded /\ ToSet(loadingSlice) = loading
  BY DEF Stands, SlicesRepresentSets
<1>2. ToSet(loadedSlice \o loadingSlice) = loaded \cup loading
  <2>1. \A s : ToSet(s) = Range(s)
    BY DEF ToSet, Range
  <2>2. Range(loadedSlice \o loadingSlice) = Range(loadedSlice) \cup Range(loadingSlice)
    BY <1>1, RangeConcatenation
  <2> QED BY <1>1, <2>1, <2>2
<1>3. w.from \in Slots /\ w.to \in Slots
  BY RangeFields
<1>4. Walk(w.to)[w.from] = slot
  BY <1>3, WalkStops
<1>5. answer = IF slot > MaxSlot THEN [kind |-> "done", gap |-> NoRange]
               ELSE IF rangeContainingSlot(loadingSlice, slot) # NoRange
                 THEN [kind |-> "wait", gap |-> NoRange]
               ELSE [kind |-> "gap", gap |-> [from |-> slot, to |-> end]]
  <2> HIDE DEF slot
  <2> QED BY <1>2, <1>4 DEF nextGapLocked, Walk
<1>6. CASE Missing(w) = {}
  <2>1. slot > MaxSlot
    BY <1>6, StopIsFirst, CanonicalIndexAssumption
  <2>2. answer.kind = "done"
    BY <1>5, <2>1
  <2> QED BY <1>6, <2>2 DEF FirstMissing
<1>7. CASE Missing(w) # {}
  <2>1. slot \in Slots /\ FirstMissing(slot, w)
    BY <1>7, StopIsFirst
  <2>2. ~ (slot > MaxSlot)
    BY <2>1, CanonicalIndexAssumption DEF Slots
  <2>3. rangeContainingSlot(loadingSlice, slot) = NoRange <=> slot \notin Covered(loading)
    BY <1>1, <2>1, ContainsSlot
  <2>4. ASSUME NEW s \in Covered(loading), FirstMissing(s, w) PROVE s = slot
    <3>1. s <= slot /\ slot <= s
      BY <2>1, <2>4 DEF FirstMissing
    <3>2. s \in Nat /\ slot \in Nat
      <4>1. \A x \in Span(w) : x \in Nat
        BY RangeFields DEF Span
      <4> QED BY <2>1, <2>4, <4>1 DEF FirstMissing, Missing
    <3> HIDE DEF slot
    <3> QED BY <3>1, <3>2
  <2>5. CASE slot \in Covered(loading)
    <3>1. answer.kind = "wait"
      BY <1>5, <2>2, <2>3, <2>5
    <3> HIDE DEF slot
    <3> QED BY <1>7, <2>1, <2>5, <3>1
  <2>6. CASE slot \notin Covered(loading)
    <3>1. answer.kind = "gap" /\ answer.gap.from = slot /\ answer.gap.to = end
      <4> HIDE DEF slot, end
      <4> QED BY <1>5, <2>2, <2>3, <2>6
    <3>2. end \in GapEnds(slot, w) /\ \A e \in GapEnds(slot, w) : end <= e
      <4> HIDE DEF slot
      <4> QED BY <2>1, GapEnd
    <3>3. IsNextGap(answer.gap, w)
      <4> HIDE DEF slot, end
      <4> QED BY <2>1, <3>1, <3>2 DEF IsNextGap
    <3> HIDE DEF slot
    <3> QED BY <1>7, <2>4, <2>6, <3>1, <3>3
  <2> QED BY <2>5, <2>6
<1> QED BY <1>6, <1>7
-------------------------------------------------------------------------------
(* The two results.                                                         *)

SliceInv == IInv /\ Stands

(* SliceInitInv: both slices start empty, like the sets. *)
LEMMA SliceInitInv == SliceInit => SliceInv
<1> SUFFICES ASSUME SliceInit PROVE SliceInv
  OBVIOUS
<1>1. IInv
  BY InitIInv DEF SliceInit
<1>2. loaded = {} /\ loading = {} /\ loadedSlice = << >> /\ loadingSlice = << >>
  BY DEF SliceInit, Init
<1> DEFINE nil == << >>
<1>3. nil \in Seq(Ranges) /\ Sorted(nil) /\ ToSet(nil) = {}
  BY EmptySorted
<1> HIDE DEF nil
<1>4. loadedSlice = nil /\ loadingSlice = nil
  BY <1>2 DEF nil
<1>5. Stands
  BY <1>2, <1>3, <1>4, Zenon DEF Stands, SlicesRepresentSets
<1> QED BY <1>1, <1>5 DEF SliceInv

(* KeepsStanding: a step that changes neither slices nor sets. *)
LEMMA KeepsStanding ==
  ASSUME Stands, UNCHANGED <<loaded, loading, loadedSlice, loadingSlice>>
  PROVE  Stands'
BY DEF Stands, SlicesRepresentSets, Sorted, ToSet

(* ClaimStands: a claimed gap lies clear of every range being loaded, so    *)
(* insertSlotRange finds its place.                                         *)
LEMMA ClaimStands ==
  ASSUME IInv, Stands, NEW r \in Requests, SliceEnsureClaim(r)
  PROVE  Stands'
<1>1. TypeOK /\ want[r] \in Windows /\ gap \in [Requests -> Ranges]
  BY DEF IInv, TypeOK
<1>2. PICK g \in Ranges : /\ IsNextGap(g, want[r]) /\ g.from \notin Covered(loading)
                          /\ loading' = loading \cup {g}
                          /\ gap' = [gap EXCEPT ![r] = g]
  BY DEF SliceEnsureClaim, EnsureClaim
<1>3. gap'[r] = g
  BY <1>1, <1>2
<1>4. /\ loadingSlice' = insertSlotRange(loadingSlice, g)
      /\ loadedSlice' = loadedSlice /\ loaded' = loaded
  BY <1>3 DEF SliceEnsureClaim, EnsureClaim
<1>5. loadingSlice \in Seq(Ranges) /\ Sorted(loadingSlice) /\ ToSet(loadingSlice) = loading
  BY DEF Stands, SlicesRepresentSets
<1>6. \A p \in ToSet(loadingSlice) : Span(p) \cap Span(g) = {}
  <2>1. \A p \in loading : Span(g) \cap Span(p) = {}
    BY <1>1, <1>2, GapIsFree
  <2> QED BY <1>5, <2>1
<1> DEFINE t == insertSlotRange(loadingSlice, g)
<1>7. t \in Seq(Ranges) /\ Sorted(t) /\ ToSet(t) = loading \cup {g}
  BY <1>5, <1>6, InsertSorted
<1> HIDE DEF t
<1>8. loadingSlice' = t
  BY <1>4 DEF t
<1> QED BY <1>2, <1>4, <1>7, <1>8 DEF Stands, SlicesRepresentSets, Sorted, ToSet

(* DropStands: what removing the claim does to loading. *)
LEMMA DropStands ==
  ASSUME Stands, NEW g, loading' = loading \ {g},
         loadingSlice' = removeSlotRange(loadingSlice, g)
  PROVE  /\ loadingSlice' \in Seq(Ranges) /\ Sorted(loadingSlice')
         /\ ToSet(loadingSlice') = loading'
<1>1. loadingSlice \in Seq(Ranges) /\ Sorted(loadingSlice) /\ ToSet(loadingSlice) = loading
  BY DEF Stands, SlicesRepresentSets
<1> QED BY <1>1, RemoveSorted

(* LoadOkStands: publishing a range keeps both slices true. *)
LEMMA LoadOkStands ==
  ASSUME IInv, Stands, NEW r \in Requests, SliceLoadOk(r)
  PROVE  Stands'
<1>1. /\ loading' = loading \ {gap[r]} /\ loaded' = addSlotRange(loaded, gap[r])
      /\ loadingSlice' = removeSlotRange(loadingSlice, gap[r])
      /\ loadedSlice' = addSlice(loadedSlice, gap[r])
  BY DEF SliceLoadOk, LoadOk
<1>2. gap[r] \in Ranges /\ Separated(loaded)
  BY DEF IInv, TypeOK, LoadedSeparated, Separated
<1>3. /\ loadingSlice' \in Seq(Ranges) /\ Sorted(loadingSlice')
      /\ ToSet(loadingSlice') = loading'
  BY <1>1, DropStands
<1>4. loadedSlice \in Seq(Ranges) /\ Sorted(loadedSlice) /\ ToSet(loadedSlice) = loaded
  BY DEF Stands, SlicesRepresentSets
<1>5. /\ loadedSlice' \in Seq(Ranges) /\ Sorted(loadedSlice')
      /\ ToSet(loadedSlice') = loaded'
  BY <1>1, <1>2, <1>4, AddSorted
<1> QED BY <1>3, <1>5 DEF Stands, SlicesRepresentSets, Sorted, ToSet

(* LoadErrStands: giving a range up keeps both slices true. *)
LEMMA LoadErrStands ==
  ASSUME Stands, NEW r \in Requests, SliceLoadErr(r)
  PROVE  Stands'
<1>1. /\ loading' = loading \ {gap[r]} /\ loaded' = loaded
      /\ loadingSlice' = removeSlotRange(loadingSlice, gap[r])
      /\ loadedSlice' = loadedSlice
  BY DEF SliceLoadErr, LoadErr
<1>2. /\ loadingSlice' \in Seq(Ranges) /\ Sorted(loadingSlice')
      /\ ToSet(loadingSlice') = loading'
  BY <1>1, DropStands
<1> QED BY <1>1, <1>2 DEF Stands, SlicesRepresentSets, Sorted, ToSet

(* SliceNextInv: every step keeps the invariant, one case per action. *)
LEMMA SliceNextInv == SliceInv /\ [SliceNext]_<<vars, sliceVars>> => SliceInv'
<1> SUFFICES ASSUME IInv, Stands, [SliceNext]_<<vars, sliceVars>> PROVE SliceInv'
  BY DEF SliceInv
<1>1. IInv'
  <2>1. SliceNext => Next
    BY DEF SliceNext, Next, SliceRequest, SliceEnsureDone, SliceEnsureWait, SliceEnsureClaim,
           SliceLoadOk, SliceLoadErr, SliceSnapshot
  <2> QED BY <2>1, NextIInv
<1>2. Stands'
  <2>1. ASSUME NEW r \in Requests, NEW w \in Windows, SliceRequest(r, w) PROVE Stands'
    BY <2>1, KeepsStanding DEF SliceRequest, Request, sliceVars
  <2>2. ASSUME NEW r \in Requests, SliceEnsureDone(r) PROVE Stands'
    BY <2>2, KeepsStanding DEF SliceEnsureDone, EnsureDone, sliceVars
  <2>3. ASSUME NEW r \in Requests, SliceEnsureWait(r) PROVE Stands'
    BY <2>3, KeepsStanding DEF SliceEnsureWait, EnsureWait, sliceVars
  <2>4. ASSUME NEW r \in Requests, SliceEnsureClaim(r) PROVE Stands'
    BY <2>4, ClaimStands
  <2>5. ASSUME NEW r \in Requests, SliceLoadOk(r) PROVE Stands'
    BY <2>5, LoadOkStands
  <2>6. ASSUME NEW r \in Requests, SliceLoadErr(r) PROVE Stands'
    BY <2>6, LoadErrStands
  <2>7. ASSUME NEW r \in Requests, SliceSnapshot(r) PROVE Stands'
    BY <2>7, KeepsStanding DEF SliceSnapshot, Snapshot, sliceVars
  <2>8. CASE UNCHANGED <<vars, sliceVars>>
    BY <2>8, KeepsStanding DEF vars, sliceVars
  <2> QED BY <2>1, <2>2, <2>3, <2>4, <2>5, <2>6, <2>7, <2>8 DEF SliceNext
<1> QED BY <1>1, <1>2 DEF SliceInv

(* The index and its slices, together, keep their invariant. *)
THEOREM SliceInductive == SliceSpec => []SliceInv
<1>1. SliceInit => SliceInv
  BY SliceInitInv
<1>2. SliceInv /\ [SliceNext]_<<vars, sliceVars>> => SliceInv'
  BY SliceNextInv
<1> QED BY <1>1, <1>2, PTL DEF SliceSpec

(* The sorted slices of canonicalBlockIndex always hold exactly the ranges  *)
(* they stand for: addSlotRange, insertSlotRange and removeSlotRange never  *)
(* lose, repeat or misplace one, also next to MaxUint64.                    *)
THEOREM SlicesAlwaysRepresentSets == SliceSpec => []SlicesRepresentSets
<1>1. SliceInv => SlicesRepresentSets
  BY DEF SliceInv, Stands
<1> QED BY <1>1, SliceInductive, PTL

(* nextGapLocked's scan over the slices always gives the answer that the    *)
(* proofs about CanonicalIndex take it to give.                             *)
THEOREM ScanAlwaysAgrees == SliceSpec => []ScanAgrees
<1>1. SliceInv => ScanAgrees
  BY ScanAnswers DEF SliceInv, IInv
<1> QED BY <1>1, SliceInductive, PTL
===============================================================================
