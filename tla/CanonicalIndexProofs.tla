------------------------- MODULE CanonicalIndexProofs -------------------------
(***************************************************************************)
(* Proofs about CanonicalIndex, for every set of requests, every slot and  *)
(* chunk size, every archive and every bound on failures: the invariants   *)
(* TLC checks on a small instance, and the refinement of CanonicalReads.   *)
(***************************************************************************)
EXTENDS CanonicalIndex, WellFoundedInduction, TLAPS

(* A non-empty set of slots has a smallest and a largest element. *)
LEMMA MinSlot ==
  ASSUME NEW S, S \subseteq Slots, S # {}
  PROVE  Min(S) \in S /\ \A y \in S : Min(S) <= y
<1>. DEFINE R == {ss \in Nat \X Nat : ss[1] < ss[2]}
<1>1. IsWellFoundedOn(R, Nat)
  BY NatLessThanWellFounded DEF OpToRel
<1>. HIDE DEF R
<1>2. S \subseteq Nat
  BY CanonicalIndexAssumption DEF Slots
<1>3. PICK x \in S : \A y \in S : ~ (<<y, x>> \in R)
  BY <1>1, <1>2, WFMin
<1>4. \A y \in S : x <= y
  <2>. SUFFICES ASSUME NEW y \in S, y < x PROVE FALSE
    BY <1>2
  <2>1. y \in Nat /\ x \in Nat
    BY <1>2
  <2>2. <<y, x>> \in R
    BY <2>1 DEF R
  <2>. QED
    BY <1>3, <2>2
<1>. QED
  BY <1>4 DEF Min

(* The same for the largest element. *)
LEMMA MaxSlotOf ==
  ASSUME NEW S, S \subseteq Slots, S # {}
  PROVE  Max(S) \in S /\ \A y \in S : Max(S) >= y
<1>. DEFINE T == {MaxSlot - x : x \in S}
<1>0. \A x \in S : x \in 0 .. MaxSlot
  BY DEF Slots
<1>1. T \subseteq Slots /\ T # {}
  <2>1. \A x \in S : MaxSlot - x \in 0 .. MaxSlot
    BY <1>0, CanonicalIndexAssumption
  <2>. QED
    BY <2>1 DEF Slots
<1>2. Min(T) \in T /\ \A y \in T : Min(T) <= y
  BY <1>1, MinSlot
<1>3. PICK x \in S : Min(T) = MaxSlot - x
  BY <1>2
<1>4. \A y \in S : MaxSlot - x <= MaxSlot - y
  BY <1>2, <1>3
<1>5. \A y \in S : x >= y
  BY <1>4, CanonicalIndexAssumption DEF Slots
<1>. QED
  BY <1>5 DEF Max

-------------------------------------------------------------------------------
(* addSlotRange: the hull it builds, what it covers, and how it leaves the  *)
(* ranges.                                                                  *)

Touching(ranges, next) ==
  {c \in ranges : ~ rangeBefore(c, next) /\ ~ rangeBefore(next, c)}

Hull(ranges, next) ==
  [from |-> Min({next.from} \cup {c.from : c \in Touching(ranges, next)}),
   to   |-> Max({next.to}   \cup {c.to   : c \in Touching(ranges, next)})]

(* The bounds of a range are slots, in order. *)
LEMMA RangeFields ==
  ASSUME NEW r \in Ranges
  PROVE  /\ r.from \in Slots /\ r.to \in Slots
         /\ r.from \in Nat /\ r.to \in Nat
         /\ r.from <= r.to /\ r.to <= MaxSlot
         /\ r = [from |-> r.from, to |-> r.to]
BY CanonicalIndexAssumption DEF Ranges, Slots

(* addSlotRange replaces what next touches by the hull. *)
LEMMA AddIsHull ==
  ASSUME NEW ranges, NEW next
  PROVE  addSlotRange(ranges, next)
           = (ranges \ Touching(ranges, next)) \cup {Hull(ranges, next)}
BY DEF addSlotRange, Touching, Hull

(* The ends of the hull are ends of next or of a range that touches it. *)
LEMMA HullEnds ==
  ASSUME NEW ranges, ranges \subseteq Ranges, NEW next \in Ranges
  PROVE  LET h == Hull(ranges, next) IN
         /\ h \in Ranges
         /\ h.from <= next.from /\ next.to <= h.to
         /\ \A c \in Touching(ranges, next) : h.from <= c.from /\ c.to <= h.to
         /\ h.from = next.from \/ \E c \in Touching(ranges, next) : h.from = c.from
         /\ h.to = next.to \/ \E c \in Touching(ranges, next) : h.to = c.to
<1>. DEFINE T == Touching(ranges, next)
            F == {next.from} \cup {c.from : c \in T}
            E == {next.to} \cup {c.to : c \in T}
<1>1. T \subseteq Ranges
  BY DEF Touching
<1>2. \A c \in T : c.from \in Slots /\ c.to \in Slots
  BY <1>1, RangeFields
<1>3. F \subseteq Slots /\ F # {} /\ E \subseteq Slots /\ E # {}
  BY <1>2, RangeFields
<1>4. Min(F) \in F /\ \A y \in F : Min(F) <= y
  BY <1>3, MinSlot
<1>5. Max(E) \in E /\ \A y \in E : Max(E) >= y
  BY <1>3, MaxSlotOf
<1>6. Hull(ranges, next) = [from |-> Min(F), to |-> Max(E)]
  BY DEF Hull
<1>. HIDE DEF T
<1>7. Min(F) <= next.from /\ next.to <= Max(E)
  BY <1>3, <1>4, <1>5, RangeFields, CanonicalIndexAssumption DEF Slots
<1>8. \A c \in T : Min(F) <= c.from /\ c.to <= Max(E)
  BY <1>2, <1>3, <1>4, <1>5, CanonicalIndexAssumption DEF Slots
<1>9. [from |-> Min(F), to |-> Max(E)] \in Ranges
  <2>1. Min(F) \in Slots /\ Max(E) \in Slots
    BY <1>3, <1>4, <1>5
  <2>2. Min(F) <= Max(E)
    BY <2>1, <1>7, RangeFields, CanonicalIndexAssumption DEF Slots
  <2>. QED
    BY <2>1, <2>2 DEF Ranges
<1>10. Min(F) = next.from \/ \E c \in T : Min(F) = c.from
  BY <1>4
<1>11. Max(E) = next.to \/ \E c \in T : Max(E) = c.to
  BY <1>5
<1>. HIDE DEF F, E
<1>12. Hull(ranges, next).from = Min(F) /\ Hull(ranges, next).to = Max(E)
  BY <1>6
<1>. QED
  BY <1>6, <1>7, <1>8, <1>9, <1>10, <1>11, <1>12 DEF T

(* addSlotRange covers exactly the slots of ranges and of next. *)
LEMMA AddCovers ==
  ASSUME NEW ranges, ranges \subseteq Ranges, NEW next \in Ranges
  PROVE  /\ addSlotRange(ranges, next) \subseteq Ranges
         /\ Covered(addSlotRange(ranges, next)) = Covered(ranges) \cup Span(next)
<1>. DEFINE T == Touching(ranges, next)
            h == Hull(ranges, next)
<1>1. /\ h \in Ranges
      /\ h.from <= next.from /\ next.to <= h.to
      /\ \A c \in T : h.from <= c.from /\ c.to <= h.to
      /\ h.from = next.from \/ \E c \in T : h.from = c.from
      /\ h.to = next.to \/ \E c \in T : h.to = c.to
  BY HullEnds
<1>2. addSlotRange(ranges, next) = (ranges \ T) \cup {h}
  BY AddIsHull
<1>3. T \subseteq ranges /\ T \subseteq Ranges
  BY DEF Touching
<1>4. \A c \in T : ~ rangeBefore(c, next) /\ ~ rangeBefore(next, c)
  BY DEF Touching
<1>. HIDE DEF T, h
<1>5. \A c \in T : Span(c) \subseteq Span(h)
  <2>. SUFFICES ASSUME NEW c \in T, NEW x \in Span(c) PROVE x \in Span(h)
    OBVIOUS
  <2>. QED
    BY <1>1, <1>3, RangeFields DEF Span
<1>6. Span(next) \subseteq Span(h)
  <2>. SUFFICES ASSUME NEW x \in Span(next) PROVE x \in Span(h)
    OBVIOUS
  <2>. QED
    BY <1>1, RangeFields DEF Span
<1>7. \A x \in Span(h) : x \in Span(next) \/ \E c \in T : x \in Span(c)
  <2>. SUFFICES ASSUME NEW x \in Span(h), x \notin Span(next)
                PROVE  \E c \in T : x \in Span(c)
    OBVIOUS
  <2>1. x \in Nat /\ h.from <= x /\ x <= h.to
    BY <1>1, RangeFields DEF Span
  <2>2. CASE x < next.from
    <3>1. PICK c \in T : h.from = c.from
      BY <2>1, <2>2, <1>1, RangeFields
    <3>2. c.to = MaxSlot \/ c.to + 1 >= next.from
      BY <1>3, <1>4, RangeFields DEF rangeBefore
    <3>3. x <= c.to
      BY <2>1, <2>2, <3>2, <1>3, RangeFields, CanonicalIndexAssumption
    <3>. QED
      BY <2>1, <3>1, <3>3, <1>3, RangeFields DEF Span
  <2>3. CASE x > next.to
    <3>1. PICK c \in T : h.to = c.to
      BY <2>1, <2>3, <1>1, RangeFields
    <3>2. next.to = MaxSlot \/ next.to + 1 >= c.from
      BY <1>3, <1>4, RangeFields DEF rangeBefore
    <3>3. c.from <= x
      BY <2>1, <2>3, <3>2, <1>1, <1>3, RangeFields, CanonicalIndexAssumption
    <3>. QED
      BY <2>1, <3>1, <3>3, <1>3, RangeFields DEF Span
  <2>. QED
    BY <2>1, <2>2, <2>3, RangeFields DEF Span
<1>8. Covered(addSlotRange(ranges, next)) = Covered(ranges) \cup Span(next)
  BY <1>2, <1>3, <1>5, <1>6, <1>7 DEF Covered
<1>. QED
  BY <1>1, <1>2, <1>8

Separated(ranges) ==
  \A a, b \in ranges : a # b => a.to + 1 < b.from \/ b.to + 1 < a.from

(* addSlotRange keeps ranges apart. *)
LEMMA AddSeparates ==
  ASSUME NEW ranges, ranges \subseteq Ranges, NEW next \in Ranges, Separated(ranges)
  PROVE  Separated(addSlotRange(ranges, next))
<1>. DEFINE T == Touching(ranges, next)
            h == Hull(ranges, next)
<1>1. /\ h \in Ranges
      /\ h.from <= next.from /\ next.to <= h.to
      /\ \A c \in T : h.from <= c.from /\ c.to <= h.to
      /\ h.from = next.from \/ \E c \in T : h.from = c.from
      /\ h.to = next.to \/ \E c \in T : h.to = c.to
  BY HullEnds
<1>2. addSlotRange(ranges, next) = (ranges \ T) \cup {h}
  BY AddIsHull
<1>3. T \subseteq ranges /\ T \subseteq Ranges
  BY DEF Touching
<1>4. \A c \in T : ~ rangeBefore(c, next) /\ ~ rangeBefore(next, c)
  BY DEF Touching
<1>5. \A c \in ranges \ T : rangeBefore(c, next) \/ rangeBefore(next, c)
  BY DEF Touching
<1>. HIDE DEF T, h
<1>6. ASSUME NEW c \in ranges \ T
      PROVE  c.to + 1 < h.from \/ h.to + 1 < c.from
  <2>1. CASE rangeBefore(c, next)
    <3>1. CASE h.from = next.from
      BY <2>1, <3>1, RangeFields DEF rangeBefore
    <3>2. CASE h.from # next.from
      <4>1. PICK d \in T : h.from = d.from
        BY <1>1, <3>2
      <4>2. c.to + 1 < d.from \/ d.to + 1 < c.from
        BY <1>3, <1>6 DEF Separated
      <4>3. ~ (d.to + 1 < c.from)
        BY <2>1, <1>3, <1>4, <1>6, RangeFields, CanonicalIndexAssumption DEF rangeBefore
      <4>. QED
        BY <4>1, <4>2, <4>3
    <3>. QED
      BY <3>1, <3>2
  <2>2. CASE rangeBefore(next, c)
    <3>1. CASE h.to = next.to
      BY <2>2, <3>1, RangeFields DEF rangeBefore
    <3>2. CASE h.to # next.to
      <4>1. PICK d \in T : h.to = d.to
        BY <1>1, <3>2
      <4>2. c.to + 1 < d.from \/ d.to + 1 < c.from
        BY <1>3, <1>6 DEF Separated
      <4>3. ~ (c.to + 1 < d.from)
        BY <2>2, <1>3, <1>4, <1>6, RangeFields, CanonicalIndexAssumption DEF rangeBefore
      <4>. QED
        BY <4>1, <4>2, <4>3
    <3>. QED
      BY <3>1, <3>2
  <2>. QED
    BY <1>5, <1>6, <2>1, <2>2
<1>. QED
  BY <1>2, <1>6 DEF Separated

-------------------------------------------------------------------------------
(* The inductive invariant.                                                 *)

(* The empty index of newCanonicalBlockIndex satisfies the invariant. *)
LEMMA InitIInv == Init => IInv
<1>. SUFFICES ASSUME Init PROVE IInv
  OBVIOUS
<1>1. NoGap \in Ranges
  BY CanonicalIndexAssumption DEF NoGap, Ranges, Slots
<1>2. TypeOK
  BY <1>1, CanonicalIndexAssumption DEF Init, TypeOK, PCs
<1>3. LoadingExact /\ NoDoubleLoad /\ ReadyCovered /\ SnapshotExact /\ WaiterHasLoader
  BY DEF Init, LoadingExact, NoDoubleLoad, ReadyCovered, SnapshotExact, WaiterHasLoader
<1>4. LoadedSeparated /\ IndexExact
  BY DEF Init, LoadedSeparated, IndexExact, Covered
<1>. QED
  BY <1>2, <1>3, <1>4 DEF IInv

(* What a claimed gap may not contain: the heart of NoDoubleLoad. *)
LEMMA GapIsFree ==
  ASSUME TypeOK, NEW w \in Windows, NEW g \in Ranges, IsNextGap(g, w),
         g.from \notin Covered(loading),
         NEW p \in loaded \cup loading
  PROVE  Span(g) \cap Span(p) = {}
<1>. SUFFICES ASSUME NEW x \in Span(g), x \in Span(p) PROVE FALSE
  OBVIOUS
<1>1. p \in Ranges
  BY DEF TypeOK
<1>2. g.from \notin Span(p)
  BY DEF IsNextGap, FirstMissing, Missing, Covered
<1>3. x \in Nat /\ g.from <= x /\ x <= g.to /\ p.from <= x /\ x <= p.to
  BY <1>1, RangeFields DEF Span
<1>4. p.from > g.from
  BY <1>1, <1>2, <1>3, RangeFields DEF Span
<1>5. p.from - 1 \in GapEnds(g.from, w)
  BY <1>4 DEF GapEnds
<1>6. g.to <= p.from - 1
  BY <1>5 DEF IsNextGap
<1>. QED
  BY <1>1, <1>3, <1>6, RangeFields

(* A range holds at least its first slot. *)
LEMMA SpanNonempty ==
  ASSUME NEW r \in Ranges
  PROVE  Span(r) # {}
BY RangeFields DEF Span

-------------------------------------------------------------------------------
(* One lemma per action.                                                    *)

(* A new request changes nothing the other requests rely on. *)
LEMMA RequestIInv ==
  ASSUME IInv, NEW r \in Requests, NEW w \in Windows, Request(r, w)
  PROVE  IInv'
<1>. USE DEF Request
<1>1. TypeOK'
  BY DEF IInv, TypeOK, PCs
<1>2. LoadingExact'
  <2>1. {q \in Requests : pc'[q] = "loading"} = {q \in Requests : pc[q] = "loading"}
    BY DEF IInv, TypeOK
  <2>. QED
    BY <2>1 DEF IInv, LoadingExact
<1>3. NoDoubleLoad'
  BY DEF IInv, TypeOK, NoDoubleLoad
<1>4. LoadedSeparated' /\ IndexExact'
  BY DEF IInv, LoadedSeparated, IndexExact
<1>5. ReadyCovered' /\ SnapshotExact'
  BY DEF IInv, TypeOK, ReadyCovered, SnapshotExact
<1>6. WaiterHasLoader'
  <2>1. \A q \in Requests : pc'[q] = "waiting" => pc[q] = "waiting" /\ want'[q] = want[q]
    BY DEF IInv, TypeOK
  <2>2. \A q \in Requests : pc[q] = "loading" => pc'[q] = "loading"
    BY DEF IInv, TypeOK
  <2>. QED
    BY <2>1, <2>2 DEF IInv, WaiterHasLoader, Missing
<1>. QED
  BY <1>1, <1>2, <1>3, <1>4, <1>5, <1>6 DEF IInv

(* ensureRange returns nil only when the whole window is loaded. *)
LEMMA EnsureDoneIInv ==
  ASSUME IInv, NEW r \in Requests, EnsureDone(r)
  PROVE  IInv'
<1>. USE DEF EnsureDone
<1>1. TypeOK'
  BY DEF IInv, TypeOK, PCs
<1>2. LoadingExact'
  <2>1. {q \in Requests : pc'[q] = "loading"} = {q \in Requests : pc[q] = "loading"}
    BY DEF IInv, TypeOK
  <2>. QED
    BY <2>1 DEF IInv, LoadingExact
<1>3. NoDoubleLoad'
  BY DEF IInv, TypeOK, NoDoubleLoad
<1>4. LoadedSeparated' /\ IndexExact'
  BY DEF IInv, LoadedSeparated, IndexExact
<1>5. ReadyCovered' /\ SnapshotExact'
  BY DEF IInv, TypeOK, ReadyCovered, SnapshotExact, Missing
<1>6. WaiterHasLoader'
  <2>1. \A q \in Requests : pc'[q] = "waiting" => pc[q] = "waiting"
    BY DEF IInv, TypeOK
  <2>2. \A q \in Requests : pc[q] = "loading" => pc'[q] = "loading"
    BY DEF IInv, TypeOK
  <2>. QED
    BY <2>1, <2>2 DEF IInv, WaiterHasLoader, Missing
<1>. QED
  BY <1>1, <1>2, <1>3, <1>4, <1>5, <1>6 DEF IInv

(* A request that starts to wait has a loader for its first missing slot. *)
LEMMA EnsureWaitIInv ==
  ASSUME IInv, NEW r \in Requests, EnsureWait(r)
  PROVE  IInv'
<1>. USE DEF EnsureWait
<1>1. TypeOK'
  BY DEF IInv, TypeOK, PCs
<1>2. LoadingExact'
  <2>1. {q \in Requests : pc'[q] = "loading"} = {q \in Requests : pc[q] = "loading"}
    BY DEF IInv, TypeOK
  <2>. QED
    BY <2>1 DEF IInv, LoadingExact
<1>3. NoDoubleLoad'
  BY DEF IInv, TypeOK, NoDoubleLoad
<1>4. LoadedSeparated' /\ IndexExact'
  BY DEF IInv, LoadedSeparated, IndexExact
<1>5. ReadyCovered' /\ SnapshotExact'
  BY DEF IInv, TypeOK, ReadyCovered, SnapshotExact
<1>6. WaiterHasLoader'
  <2>1. PICK s \in Covered(loading) : FirstMissing(s, want[r])
    OBVIOUS
  <2>2. PICK g \in loading : s \in Span(g)
    BY <2>1 DEF Covered
  <2>3. PICK p \in Requests : pc[p] = "loading" /\ gap[p] = g
    BY <2>2 DEF IInv, LoadingExact
  <2>4. Missing(want[r]) \cap Span(gap[p]) # {}
    BY <2>1, <2>2, <2>3 DEF FirstMissing
  <2>5. \A q \in Requests : pc'[q] = "waiting" => q = r \/ pc[q] = "waiting"
    BY DEF IInv, TypeOK
  <2>6. \A q \in Requests : pc[q] = "loading" => pc'[q] = "loading"
    BY DEF IInv, TypeOK
  <2>. QED
    BY <2>3, <2>4, <2>5, <2>6 DEF IInv, WaiterHasLoader, Missing
<1>. QED
  BY <1>1, <1>2, <1>3, <1>4, <1>5, <1>6 DEF IInv

(* A claimed gap meets no loaded range and no other claim (GapIsFree). *)
LEMMA EnsureClaimIInv ==
  ASSUME IInv, NEW r \in Requests, EnsureClaim(r)
  PROVE  IInv'
<1>1. PICK g \in Ranges :
        /\ IsNextGap(g, want[r])
        /\ g.from \notin Covered(loading)
        /\ loading' = loading \cup {g}
        /\ gap' = [gap EXCEPT ![r] = g]
  BY DEF EnsureClaim
<1>2. /\ pc[r] = "scan"
      /\ pc' = [pc EXCEPT ![r] = "loading"]
      /\ UNCHANGED <<loaded, bySlot, want, snap, failures>>
  BY DEF EnsureClaim
<1>3. TypeOK
  BY DEF IInv
<1>4. TypeOK'
  BY <1>1, <1>2, <1>3 DEF TypeOK, PCs
<1>5. \A q \in Requests : q # r => pc'[q] = pc[q] /\ gap'[q] = gap[q]
  BY <1>1, <1>2, <1>3 DEF TypeOK
<1>6. pc'[r] = "loading" /\ gap'[r] = g
  BY <1>1, <1>2, <1>3 DEF TypeOK
<1>7. LoadingExact'
  <2>1. loading = {gap[q] : q \in {p \in Requests : pc[p] = "loading"}}
    BY DEF IInv, LoadingExact
  <2>2. loading \cup {g} = {gap'[q] : q \in {p \in Requests : pc'[p] = "loading"}}
    BY <2>1, <1>2, <1>5, <1>6
  <2>. QED
    BY <2>2, <1>1 DEF LoadingExact
<1>8. NoDoubleLoad'
  <2>1. \A p \in loaded \cup loading : Span(g) \cap Span(p) = {}
    BY <1>1, <1>3, GapIsFree DEF TypeOK
  <2>2. Span(g) \cap Covered(loaded) = {}
    BY <2>1 DEF Covered
  <2>3. \A q \in Requests : pc[q] = "loading" => gap[q] \in loading
    BY DEF IInv, NoDoubleLoad
  <2>. QED
    BY <1>1, <1>2, <1>5, <1>6, <2>1, <2>2, <2>3 DEF IInv, NoDoubleLoad
<1>9. LoadedSeparated' /\ IndexExact'
  BY <1>2 DEF IInv, LoadedSeparated, IndexExact
<1>10. ReadyCovered' /\ SnapshotExact'
  BY <1>2, <1>5, <1>6 DEF IInv, ReadyCovered, SnapshotExact
<1>11. WaiterHasLoader'
  BY <1>2, <1>5, <1>6 DEF IInv, WaiterHasLoader, Missing
<1>. QED
  BY <1>4, <1>7, <1>8, <1>9, <1>10, <1>11 DEF IInv

(* What both ways of leaving loadRange do to pc, gap and loading. *)
LEMMA LoadEnds ==
  ASSUME IInv, NEW r \in Requests, NEW after \in {"scan", "failed"},
         pc[r] = "loading",
         loading' = loading \ {gap[r]},
         pc' = Broadcast([pc EXCEPT ![r] = after]),
         gap' = [gap EXCEPT ![r] = NoGap]
  PROVE  /\ pc' \in [Requests -> PCs]
         /\ gap' \in [Requests -> Ranges]
         /\ LoadingExact'
         /\ \A q \in Requests : pc'[q] # "waiting"
         /\ \A q \in Requests : pc'[q] = "loading" <=> (q # r /\ pc[q] = "loading")
         /\ \A q \in Requests : pc'[q] \in {"ready", "done"} => pc'[q] = pc[q]
         /\ \A q \in Requests : q # r => gap'[q] = gap[q]
         /\ \A q \in Requests : q # r /\ pc[q] = "loading" => gap[q] # gap[r]
<1>1. TypeOK
  BY DEF IInv
<1>2. NoGap \in Ranges
  BY CanonicalIndexAssumption DEF NoGap, Ranges, Slots
<1>3. gap' \in [Requests -> Ranges] /\ \A q \in Requests : q # r => gap'[q] = gap[q]
  BY <1>1, <1>2 DEF TypeOK
<1>4. \A q \in Requests :
        pc'[q] = IF q = r THEN after
                 ELSE IF pc[q] = "waiting" THEN "scan" ELSE pc[q]
  BY <1>1 DEF TypeOK, Broadcast
<1>5. pc' \in [Requests -> PCs]
  <2>1. \A q \in Requests : pc[q] \in PCs
    BY <1>1 DEF TypeOK
  <2>2. \A q \in Requests : pc'[q] \in PCs
    BY <1>4, <2>1 DEF PCs
  <2>3. pc' = [q \in Requests |-> pc'[q]]
    BY DEF Broadcast
  <2>. QED
    BY <2>2, <2>3
<1>6. \A q \in Requests : pc'[q] # "waiting"
  BY <1>4
<1>7. \A q \in Requests : pc'[q] = "loading" <=> (q # r /\ pc[q] = "loading")
  BY <1>4
<1>8. \A q \in Requests : pc'[q] \in {"ready", "done"} => pc'[q] = pc[q]
  BY <1>4
<1>9. \A q \in Requests : q # r /\ pc[q] = "loading" => gap[q] # gap[r]
  <2>. SUFFICES ASSUME NEW q \in Requests, q # r, pc[q] = "loading", gap[q] = gap[r]
                PROVE  FALSE
    OBVIOUS
  <2>1. Span(gap[r]) \cap Span(gap[q]) = {}
    BY DEF IInv, NoDoubleLoad
  <2>. QED
    BY <2>1, <1>1, SpanNonempty DEF TypeOK
<1>10. LoadingExact'
  <2>1. loading = {gap[q] : q \in {p \in Requests : pc[p] = "loading"}}
    BY DEF IInv, LoadingExact
  <2>2. loading \ {gap[r]} = {gap'[q] : q \in {p \in Requests : pc'[p] = "loading"}}
    <3>1. ASSUME NEW g \in loading \ {gap[r]}
          PROVE  g \in {gap'[q] : q \in {p \in Requests : pc'[p] = "loading"}}
      <4>1. PICK q \in Requests : pc[q] = "loading" /\ g = gap[q]
        BY <2>1
      <4>. QED
        BY <1>3, <1>7, <4>1
    <3>2. ASSUME NEW q \in Requests, pc'[q] = "loading"
          PROVE  gap'[q] \in loading \ {gap[r]}
      <4>1. q # r /\ pc[q] = "loading" /\ gap'[q] = gap[q]
        BY <1>3, <1>7, <3>2
      <4>. QED
        BY <1>9, <2>1, <4>1
    <3>. QED
      BY <3>1, <3>2
  <2>. QED
    BY <2>2 DEF LoadingExact
<1>. QED
  BY <1>3, <1>5, <1>6, <1>7, <1>8, <1>9, <1>10

(* Publishing a gap keeps index and loaded ranges in step and wakes the waiters. *)
LEMMA LoadOkIInv ==
  ASSUME IInv, NEW r \in Requests, LoadOk(r)
  PROVE  IInv'
<1>1. TypeOK
  BY DEF IInv
<1>2. /\ pc' \in [Requests -> PCs]
      /\ gap' \in [Requests -> Ranges]
      /\ LoadingExact'
      /\ \A q \in Requests : pc'[q] # "waiting"
      /\ \A q \in Requests : pc'[q] = "loading" <=> (q # r /\ pc[q] = "loading")
      /\ \A q \in Requests : pc'[q] \in {"ready", "done"} => pc'[q] = pc[q]
      /\ \A q \in Requests : q # r => gap'[q] = gap[q]
      /\ \A q \in Requests : q # r /\ pc[q] = "loading" => gap[q] # gap[r]
  BY LoadEnds DEF LoadOk
<1>3. gap[r] \in Ranges /\ loaded \subseteq Ranges
  BY <1>1 DEF TypeOK
<1>4. /\ loaded' \subseteq Ranges
      /\ Covered(loaded') = Covered(loaded) \cup Span(gap[r])
  BY <1>3, AddCovers DEF LoadOk
<1>5. TypeOK'
  BY <1>1, <1>2, <1>4 DEF TypeOK, LoadOk, loadRange
<1>6. NoDoubleLoad'
  <2>1. \A q \in Requests : pc'[q] = "loading" =>
          /\ gap'[q] \in loading'
          /\ Span(gap'[q]) \cap Covered(loaded') = {}
    BY <1>2, <1>4 DEF IInv, NoDoubleLoad, LoadOk
  <2>2. \A q, p \in Requests : pc'[q] = "loading" /\ pc'[p] = "loading" /\ p # q =>
          Span(gap'[q]) \cap Span(gap'[p]) = {}
    BY <1>2 DEF IInv, NoDoubleLoad
  <2>. QED
    BY <2>1, <2>2 DEF NoDoubleLoad
<1>7. LoadedSeparated'
  <2>1. Separated(loaded)
    BY DEF IInv, LoadedSeparated, Separated
  <2>2. Separated(loaded')
    BY <1>3, <2>1, AddSeparates DEF LoadOk
  <2>. QED
    BY <2>2 DEF LoadedSeparated, Separated
<1>8. IndexExact'
  BY <1>4 DEF IInv, IndexExact, LoadOk, loadRange
<1>9. ReadyCovered' /\ SnapshotExact'
  BY <1>2, <1>4 DEF IInv, ReadyCovered, SnapshotExact, LoadOk
<1>10. WaiterHasLoader'
  BY <1>2 DEF WaiterHasLoader
<1>. QED
  BY <1>2, <1>5, <1>6, <1>7, <1>8, <1>9, <1>10 DEF IInv

(* A failed load gives its claim up, publishes nothing and wakes the waiters. *)
LEMMA LoadErrIInv ==
  ASSUME IInv, NEW r \in Requests, LoadErr(r)
  PROVE  IInv'
<1>1. TypeOK
  BY DEF IInv
<1>2. /\ pc' \in [Requests -> PCs]
      /\ gap' \in [Requests -> Ranges]
      /\ LoadingExact'
      /\ \A q \in Requests : pc'[q] # "waiting"
      /\ \A q \in Requests : pc'[q] = "loading" <=> (q # r /\ pc[q] = "loading")
      /\ \A q \in Requests : pc'[q] \in {"ready", "done"} => pc'[q] = pc[q]
      /\ \A q \in Requests : q # r => gap'[q] = gap[q]
      /\ \A q \in Requests : q # r /\ pc[q] = "loading" => gap[q] # gap[r]
  BY LoadEnds DEF LoadErr
<1>3. TypeOK'
  <2>1. failures' \in 0 .. MaxFailures
    BY <1>1, CanonicalIndexAssumption DEF TypeOK, LoadErr
  <2>2. loaded' \subseteq Ranges /\ loading' \subseteq Ranges /\ bySlot' \subseteq Blocks
    BY <1>1 DEF TypeOK, LoadErr
  <2>3. want' \in [Requests -> Windows] /\ snap' \in [Requests -> SUBSET Blocks]
    BY <1>1 DEF TypeOK, LoadErr
  <2>. QED
    BY <1>2, <2>1, <2>2, <2>3 DEF TypeOK
<1>4. NoDoubleLoad'
  BY <1>2 DEF IInv, NoDoubleLoad, LoadErr
<1>5. LoadedSeparated' /\ IndexExact'
  BY DEF IInv, LoadedSeparated, IndexExact, LoadErr
<1>6. ReadyCovered' /\ SnapshotExact'
  BY <1>2 DEF IInv, ReadyCovered, SnapshotExact, LoadErr
<1>7. WaiterHasLoader'
  BY <1>2 DEF WaiterHasLoader
<1>. QED
  BY <1>2, <1>3, <1>4, <1>5, <1>6, <1>7 DEF IInv

(* A snapshot of a loaded window is exact. *)
LEMMA SnapshotIInv ==
  ASSUME IInv, NEW r \in Requests, Snapshot(r)
  PROVE  IInv'
<1>. USE DEF Snapshot
<1>1. TypeOK'
  BY DEF IInv, TypeOK, PCs
<1>2. LoadingExact'
  <2>1. {q \in Requests : pc'[q] = "loading"} = {q \in Requests : pc[q] = "loading"}
    BY DEF IInv, TypeOK
  <2>. QED
    BY <2>1 DEF IInv, LoadingExact
<1>3. NoDoubleLoad'
  BY DEF IInv, TypeOK, NoDoubleLoad
<1>4. LoadedSeparated' /\ IndexExact'
  BY DEF IInv, LoadedSeparated, IndexExact
<1>5. ReadyCovered'
  BY DEF IInv, TypeOK, ReadyCovered
<1>6. SnapshotExact'
  <2>1. bySlot \cap Span(want[r]) = Blocks \cap Span(want[r])
    BY DEF IInv, IndexExact, ReadyCovered
  <2>. QED
    BY <2>1 DEF IInv, TypeOK, SnapshotExact
<1>7. WaiterHasLoader'
  <2>1. \A q \in Requests : pc'[q] = "waiting" => pc[q] = "waiting"
    BY DEF IInv, TypeOK
  <2>2. \A q \in Requests : pc[q] = "loading" => pc'[q] = "loading"
    BY DEF IInv, TypeOK
  <2>. QED
    BY <2>1, <2>2 DEF IInv, WaiterHasLoader, Missing
<1>. QED
  BY <1>1, <1>2, <1>3, <1>4, <1>5, <1>6, <1>7 DEF IInv

(* A step that changes nothing preserves the invariant. *)
LEMMA StutterIInv ==
  ASSUME IInv, UNCHANGED vars
  PROVE  IInv'
BY DEF IInv, vars, TypeOK, LoadingExact, NoDoubleLoad, LoadedSeparated, IndexExact,
       ReadyCovered, SnapshotExact, WaiterHasLoader, Missing

(* Every step preserves the invariant: one case per action. *)
LEMMA NextIInv == IInv /\ [Next]_vars => IInv'
<1>. SUFFICES ASSUME IInv, [Next]_vars PROVE IInv'
  OBVIOUS
<1>1. ASSUME NEW r \in Requests, NEW w \in Windows, Request(r, w) PROVE IInv'
  BY <1>1, RequestIInv
<1>2. ASSUME NEW r \in Requests, EnsureDone(r) PROVE IInv'
  BY <1>2, EnsureDoneIInv
<1>3. ASSUME NEW r \in Requests, EnsureWait(r) PROVE IInv'
  BY <1>3, EnsureWaitIInv
<1>4. ASSUME NEW r \in Requests, EnsureClaim(r) PROVE IInv'
  BY <1>4, EnsureClaimIInv
<1>5. ASSUME NEW r \in Requests, LoadOk(r) PROVE IInv'
  BY <1>5, LoadOkIInv
<1>6. ASSUME NEW r \in Requests, LoadErr(r) PROVE IInv'
  BY <1>6, LoadErrIInv
<1>7. ASSUME NEW r \in Requests, Snapshot(r) PROVE IInv'
  BY <1>7, SnapshotIInv
<1>8. CASE UNCHANGED vars
  BY <1>8, StutterIInv
<1>. QED
  BY <1>1, <1>2, <1>3, <1>4, <1>5, <1>6, <1>7, <1>8 DEF Next

(* IInv is an invariant of ensureRange under any interleaving of requests. *)
THEOREM InductiveInvariant == SafeSpec => []IInv
<1>1. Init => IInv
  BY InitIInv
<1>2. IInv /\ [Next]_vars => IInv'
  BY NextIInv
<1>. QED
  BY <1>1, <1>2, PTL DEF SafeSpec

(* The type invariant. *)
THEOREM TypeCorrect == SafeSpec => []TypeOK
BY InductiveInvariant, PTL DEF IInv

(* No ERA slot is read twice: nextGapLocked's gaps never overlap. *)
THEOREM NeverLoadsTwice == SafeSpec => []NoDoubleLoad
BY InductiveInvariant, PTL DEF IInv

(* The loaded ranges stay sorted apart, as rangeContainingSlot needs. *)
THEOREM LoadedStaysSeparated == SafeSpec => []LoadedSeparated
BY InductiveInvariant, PTL DEF IInv

(* Planner requests never mistake an unread slot for a missed one. *)
THEOREM SnapshotsAreExact == SafeSpec => []SnapshotExact
BY InductiveInvariant, PTL DEF IInv

(* Nobody sleeps in cond.Wait without a loader that will Broadcast. *)
THEOREM WaitersHaveLoaders == SafeSpec => []WaiterHasLoader
BY InductiveInvariant, PTL DEF IInv
-------------------------------------------------------------------------------
(* Refinement of CanonicalReads: every step of the index is a step of the   *)
(* caller's view, or changes nothing the caller sees.                       *)

(* Initial states map to initial states. *)
LEMMA InitRefines == Init => Reads!Init
BY DEF Init, Reads!Init, Status

(* Every step maps to an Ask, an Answer, a Fail or a stutter. *)
LEMMA StepRefines == IInv /\ [Next]_vars => [Reads!Next]_Reads!vars
<1>. SUFFICES ASSUME IInv, [Next]_vars PROVE [Reads!Next]_Reads!vars
  OBVIOUS
<1>. DEFINE Asked == {"scan", "waiting", "loading", "ready"}
<1>0. TypeOK /\ pc \in [Requests -> PCs]
  BY DEF IInv, TypeOK
<1>1. ASSUME NEW r \in Requests, NEW w \in Windows, Request(r, w) PROVE Reads!Next
  <2>1. Status' = [Status EXCEPT ![r] = "asked"] /\ Status[r] # "asked"
    BY <1>0, <1>1 DEF Request, Status, PCs
  <2>2. Reads!Ask(r, w)
    BY <1>1, <2>1 DEF Request, Reads!Ask
  <2>. QED
    BY <2>2 DEF Reads!Next
<1>2. ASSUME NEW r \in Requests, EnsureDone(r) \/ EnsureWait(r) \/ EnsureClaim(r)
      PROVE  UNCHANGED Reads!vars
  <2>1. Status' = Status
    BY <1>0, <1>2 DEF EnsureDone, EnsureWait, EnsureClaim, Status
  <2>. QED
    BY <1>2, <2>1 DEF EnsureDone, EnsureWait, EnsureClaim, Reads!vars
<1>3. ASSUME NEW r \in Requests, LoadOk(r) PROVE UNCHANGED Reads!vars
  <2>1. Status' = Status
    BY <1>0, <1>3 DEF LoadOk, Status, Broadcast
  <2>. QED
    BY <1>3, <2>1 DEF LoadOk, Reads!vars
<1>4. ASSUME NEW r \in Requests, LoadErr(r) PROVE Reads!Next
  <2>1. Status' = [Status EXCEPT ![r] = "failed"] /\ Status[r] = "asked"
    BY <1>0, <1>4 DEF LoadErr, Status, Broadcast
  <2>2. Reads!Fail(r)
    BY <1>4, <2>1 DEF LoadErr, Reads!Fail
  <2>. QED
    BY <2>2 DEF Reads!Next
<1>5. ASSUME NEW r \in Requests, Snapshot(r) PROVE Reads!Next
  <2>1. Status' = [Status EXCEPT ![r] = "done"] /\ Status[r] = "asked"
    BY <1>0, <1>5 DEF Snapshot, Status
  <2>2. bySlot \cap Span(want[r]) = Blocks \cap Span(want[r])
    BY <1>5 DEF Snapshot, IInv, IndexExact, ReadyCovered
  <2>3. Reads!Answer(r)
    BY <1>5, <2>1, <2>2 DEF Snapshot, Reads!Answer, Span
  <2>. QED
    BY <2>3 DEF Reads!Next
<1>6. CASE UNCHANGED vars
  BY <1>6 DEF vars, Reads!vars, Status
<1>. QED
  BY <1>1, <1>2, <1>3, <1>4, <1>5, <1>6 DEF Next

(* The concurrently filled index implements direct reads of the archive:    *)
(* the safety part of ImplementsReads.                                      *)
THEOREM RefinesReads == SafeSpec => Reads!SafeSpec
<1>1. Init => Reads!Init
  BY InitRefines
<1>2. IInv /\ [Next]_vars => [Reads!Next]_Reads!vars
  BY StepRefines
<1>. QED
  BY <1>1, <1>2, InductiveInvariant, PTL DEF SafeSpec, Reads!SafeSpec

=============================================================================
