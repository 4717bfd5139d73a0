---------------------------- MODULE CanonicalSlices ---------------------------
(***************************************************************************)
(* The slices of canonicalBlockIndex.  CanonicalIndex speaks of loaded and *)
(* loading as sets of ranges; the code keeps them as slices that every     *)
(* helper scans in order and that must therefore stay sorted.  This module *)
(* runs the code's helpers on the slices next to the sets and checks that  *)
(* they give the same answers, uint64 arithmetic included.                 *)
(***************************************************************************)
EXTENDS CanonicalIndex, SequencesExt

VARIABLES loadedSlice, loadingSlice

sliceVars == <<loadedSlice, loadingSlice>>

NoRange == [from |-> 0, to |-> -1]

(* uint64 addition of 1. *)
Plus1(x) == (x + 1) % (MaxSlot + 1)
-------------------------------------------------------------------------------
(* The scan stops at the first range that ends at or after slot; slot lies  *)
(* in it, or in none.                                                       *)
rangeContainingSlot(slice, slot) ==
  LET candidates == {i \in DOMAIN slice : slot <= slice[i].to}
      r == slice[Min(candidates)]
  IN  IF candidates # {} /\ slot >= r.from THEN r ELSE NoRange

(* Bug: no guard for a range that ends at MaxUint64. *)
sliceRangeBeforeWraps(left, right) == Plus1(left.to) < right.from

sliceRangeBefore(left, right) == left.to # MaxSlot /\ Plus1(left.to) < right.from

(* One pass: ranges before next are kept, ranges that touch it are absorbed *)
(* into it, and it is emitted before the first range after it, or last.     *)
addStep(acc, current) ==
  IF sliceRangeBefore(current, acc.next)
    THEN [acc EXCEPT !.out = Append(acc.out, current)]
  ELSE IF sliceRangeBefore(acc.next, current)
    THEN [out |-> Append(IF acc.inserted THEN acc.out ELSE Append(acc.out, acc.next),
                         current),
          next |-> acc.next, inserted |-> TRUE]
  ELSE [acc EXCEPT !.next = [from |-> Min({current.from, acc.next.from}),
                             to   |-> Max({current.to, acc.next.to})]]

addSlice(slice, next) ==
  LET acc[i \in 0 .. Len(slice)] ==
        IF i = 0 THEN [out |-> << >>, next |-> next, inserted |-> FALSE]
        ELSE addStep(acc[i - 1], slice[i])
      end == acc[Len(slice)]
  IN  IF end.inserted THEN end.out ELSE Append(end.out, end.next)

(* next goes before the first range that starts after it. *)
insertSlotRange(slice, next) ==
  LET later == {i \in DOMAIN slice : next.from < slice[i].from}
      at == IF later = {} THEN Len(slice) + 1 ELSE Min(later)
  IN  SubSeq(slice, 1, at - 1) \o <<next>> \o SubSeq(slice, at, Len(slice))

removeSlotRange(slice, target) ==
  LET kept[i \in 0 .. Len(slice)] ==
        IF i = 0 THEN << >>
        ELSE IF slice[i] = target THEN kept[i - 1]
        ELSE Append(kept[i - 1], slice[i])
  IN  kept[Len(slice)]

(* Bug: the gap may be longer than a chunk and only looks at loaded ranges. *)
nextGapIgnoresLoading(from, to) ==
  LET walk[slot \in Slots] ==
        LET r == rangeContainingSlot(loadedSlice, slot)
        IN  IF r = NoRange THEN slot
            ELSE IF r.to = MaxSlot \/ Plus1(r.to) > to THEN MaxSlot + 1
            ELSE walk[Plus1(r.to)]
      slot == walk[from]
      later == {r.from - 1 : r \in {q \in ToSet(loadedSlice) : q.from > slot}}
  IN  IF slot > MaxSlot THEN [kind |-> "done", gap |-> NoRange]
      ELSE [kind |-> "gap", gap |-> [from |-> slot, to |-> Min({to} \cup later)]]

(* Walk over the loaded ranges from the start of the window; then wait if   *)
(* the slot reached is being loaded, else cut the gap short of every range  *)
(* that starts later and to the chunk size (unless that sum overflows).     *)
nextGapLocked(from, to) ==
  LET walk[slot \in Slots] ==
        LET r == rangeContainingSlot(loadedSlice, slot)
        IN  IF r = NoRange THEN slot
            ELSE IF r.to = MaxSlot \/ Plus1(r.to) > to THEN MaxSlot + 1
            ELSE walk[Plus1(r.to)]
      slot == walk[from]
      later == {r.from - 1 : r \in {q \in ToSet(loadedSlice \o loadingSlice) : q.from > slot}}
      chunk == IF slot + ChunkSize - 1 <= MaxSlot THEN {slot + ChunkSize - 1} ELSE {}
  IN  IF slot > MaxSlot THEN [kind |-> "done", gap |-> NoRange]
      ELSE IF rangeContainingSlot(loadingSlice, slot) # NoRange
        THEN [kind |-> "wait", gap |-> NoRange]
      ELSE [kind |-> "gap", gap |-> [from |-> slot, to |-> Min({to} \cup later \cup chunk)]]
-------------------------------------------------------------------------------
SliceInit == Init /\ loadedSlice = <<>> /\ loadingSlice = <<>>

SliceRequest(r, w) == Request(r, w) /\ UNCHANGED sliceVars
SliceEnsureDone(r) == EnsureDone(r) /\ UNCHANGED sliceVars
SliceEnsureWait(r) == EnsureWait(r) /\ UNCHANGED sliceVars

SliceEnsureClaim(r) ==
  /\ EnsureClaim(r)
  /\ loadingSlice' = insertSlotRange(loadingSlice, gap'[r])
  /\ UNCHANGED loadedSlice

SliceLoadOk(r) ==
  /\ LoadOk(r)
  /\ loadingSlice' = removeSlotRange(loadingSlice, gap[r])
  /\ loadedSlice' = addSlice(loadedSlice, gap[r])

SliceLoadErr(r) ==
  /\ LoadErr(r)
  /\ loadingSlice' = removeSlotRange(loadingSlice, gap[r])
  /\ UNCHANGED loadedSlice

SliceSnapshot(r) == Snapshot(r) /\ UNCHANGED sliceVars

SliceNext == \E r \in Requests :
               \/ \E w \in Windows : SliceRequest(r, w)
               \/ SliceEnsureDone(r)
               \/ SliceEnsureWait(r)
               \/ SliceEnsureClaim(r)
               \/ SliceLoadOk(r)
               \/ SliceLoadErr(r)
               \/ SliceSnapshot(r)

SliceStep(r) == \/ SliceEnsureDone(r) \/ SliceEnsureWait(r) \/ SliceEnsureClaim(r)
                \/ SliceLoadOk(r) \/ SliceLoadErr(r) \/ SliceSnapshot(r)

SliceSpec == /\ SliceInit
             /\ [][SliceNext]_<<vars, sliceVars>>
             /\ \A r \in Requests : WF_<<vars, sliceVars>>(SliceStep(r))
-------------------------------------------------------------------------------
Sorted(slice) == \A i, j \in DOMAIN slice : i < j => slice[i].to < slice[j].from

(* The slices are sorted, free of overlaps, and hold exactly the ranges of  *)
(* the sets, also next to MaxUint64 and whatever order loads finish in.     *)
SlicesRepresentSets ==
  /\ Sorted(loadedSlice) /\ ToSet(loadedSlice) = loaded
  /\ Sorted(loadingSlice) /\ ToSet(loadingSlice) = loading

(* nextGapLocked, run on the slices, gives every window the answer that     *)
(* CanonicalIndex (and the proofs about it) take it to give.                *)
ScanAgrees ==
  \A w \in Ranges :
    LET answer == nextGapLocked(w.from, w.to) IN
    /\ answer.kind = "done" <=> Missing(w) = {}
    /\ answer.kind = "wait" <=> \E s \in Covered(loading) : FirstMissing(s, w)
    /\ answer.kind = "gap" => IsNextGap(answer.gap, w)

=============================================================================
