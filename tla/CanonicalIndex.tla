---------------------------- MODULE CanonicalIndex ----------------------------
(***************************************************************************)
(* canonicalBlockIndex of pkg/beaconapi/realbackend.go: the index of       *)
(* canonical blocks that all planner requests of one backend share.  It is *)
(* filled on demand from the ERA files.  ensureRange looks for the first   *)
(* slot of the window that is not loaded; if another request is reading it *)
(* the caller waits on a condition variable, otherwise it claims a gap,    *)
(* reads it WITHOUT the lock, and publishes the result under the lock.     *)
(*                                                                         *)
(* Each action below is one critical section of mu (or one unlocked read,  *)
(* joined with the critical section that publishes it: reading ERA data    *)
(* touches nothing shared).  loaded and loading are kept as sets of        *)
(* ranges; module CanonicalSlices models the slices that represent them.  The   *)
(* canonical block of a slot is represented by the slot itself, so bySlot  *)
(* (and byRoot, which is written with it) is a set of slots.               *)
(***************************************************************************)
EXTENDS Integers, FiniteSetsExt

CONSTANTS Requests,     \* concurrent planner requests (HTTP handler goroutines)
          MaxSlot,      \* the largest slot number (math.MaxUint64)
          ChunkSize,    \* canonicalLoadChunkSize
          Blocks,       \* slots at which the ERA files hold a block
          Windows,      \* windows [from, to] that requests ask for
          MaxFailures   \* bound on failing ERA reads

Slots == 0 .. MaxSlot

Ranges == {w \in [from : Slots, to : Slots] : w.from <= w.to}

ASSUME CanonicalIndexAssumption ==
  /\ MaxSlot \in Nat
  /\ ChunkSize \in Nat \ {0}
  /\ MaxFailures \in Nat
  /\ Blocks \subseteq Slots
  /\ Windows \subseteq [from : Slots, to : Slots]
  /\ Windows # {}

VARIABLES loaded,    \* ranges whose blocks are in the index
          loading,   \* ranges some request is reading from the ERA files
          bySlot,    \* the blocks in the index
          pc,        \* where each request is
          want,      \* the window each request asks for
          gap,       \* the range a loading request has claimed
          snap,      \* the blocks snapshotRange gave the request
          failures   \* failing reads so far

vars == <<loaded, loading, bySlot, pc, want, gap, snap, failures>>

(* "scan": about to take the lock in ensureRange; "waiting": in cond.Wait; *)
(* "loading": in loadRange; "ready": ensureRange returned nil; "done":     *)
(* snapshotRange returned; "failed": ensureRange returned an error.        *)
PCs == {"idle", "scan", "waiting", "loading", "ready", "done", "failed"}

NoGap == [from |-> 0, to |-> 0]

Span(r) == r.from .. r.to

Covered(ranges) == UNION {Span(r) : r \in ranges}

TypeOK ==
  /\ loaded \subseteq Ranges
  /\ loading \subseteq Ranges
  /\ bySlot \subseteq Blocks
  /\ pc \in [Requests -> PCs]
  /\ want \in [Requests -> Windows]
  /\ gap \in [Requests -> Ranges]
  /\ snap \in [Requests -> SUBSET Blocks]
  /\ failures \in 0 .. MaxFailures
-------------------------------------------------------------------------------
(* The helpers on ranges.                                                  *)

(* left ends at least two slots before right starts.  A range that ends at *)
(* MaxSlot is before nothing: left.to + 1 would wrap to 0.                 *)
rangeBefore(left, right) == left.to # MaxSlot /\ left.to + 1 < right.from

(* Bug: adjacent ranges are not merged. *)
MergesOverlapOnly(ranges, next) ==
  LET touching == {c \in ranges : Span(c) \cap Span(next) # {}}
      hull == [from |-> Min({next.from} \cup {c.from : c \in touching}),
               to   |-> Max({next.to}   \cup {c.to   : c \in touching})]
  IN  (ranges \ touching) \cup {hull}

(* Every range that overlaps or touches next is replaced by their hull. *)
addSlotRange(ranges, next) ==
  LET touching == {c \in ranges : ~ rangeBefore(c, next) /\ ~ rangeBefore(next, c)}
      hull == [from |-> Min({next.from} \cup {c.from : c \in touching}),
               to   |-> Max({next.to}   \cup {c.to   : c \in touching})]
  IN  (ranges \ touching) \cup {hull}

(* The slots of window w that are not loaded.  An inverted window has none: *)
(* ensureRange returns at once.                                             *)
Missing(w) == Span(w) \ Covered(loaded)

(* Where the scan over the loaded ranges stops: the first missing slot. *)
FirstMissing(s, w) == s \in Missing(w) /\ \A x \in Missing(w) : s <= x

(* Bug: the gap is not cut short before a range that is being loaded. *)
GapEndsPastLoading(s, w) ==
  {w.to, s + ChunkSize - 1} \cup {q.from - 1 : q \in {p \in loaded : p.from > s}}

(* The bounds on the end of a gap that starts at s: the window's end, the  *)
(* last slot before the next loaded or loading range, and the chunk size   *)
(* (checkedAdd drops the last one when it overflows; it then exceeds w.to).*)
GapEnds(s, w) ==
  {w.to, s + ChunkSize - 1}
    \cup {q.from - 1 : q \in {p \in loaded \cup loading : p.from > s}}

(* nextGapLocked's answer when there is a gap to load. *)
IsNextGap(g, w) ==
  /\ FirstMissing(g.from, w)
  /\ g.to \in GapEnds(g.from, w)
  /\ \A e \in GapEnds(g.from, w) : g.to <= e

(* Bug: a slot the archive has no block for is indexed all the same. *)
LoadsMissedSlots(g) == Span(g)

(* The blocks loadRange reads from the ERA files. *)
loadRange(g) == Blocks \cap Span(g)

(* Bug: Signal instead of Broadcast. *)
SignalOne(pcs) ==
  LET waiters == {q \in Requests : pcs[q] = "waiting"}
  IN  IF waiters = {} THEN pcs
      ELSE [pcs EXCEPT ![CHOOSE q \in waiters : TRUE] = "scan"]

(* cond.Broadcast: every waiter leaves cond.Wait and takes the lock again. *)
Broadcast(pcs) ==
  [q \in Requests |-> IF pcs[q] = "waiting" THEN "scan" ELSE pcs[q]]
-------------------------------------------------------------------------------
Init ==
  /\ loaded = {}
  /\ loading = {}
  /\ bySlot = {}
  /\ pc = [r \in Requests |-> "idle"]
  /\ want \in [Requests -> Windows]
  /\ gap = [r \in Requests |-> NoGap]
  /\ snap = [r \in Requests |-> {}]
  /\ failures = 0

(* A planner request needs the canonical blocks of window w. *)
Request(r, w) ==
  /\ pc[r] \in {"idle", "done", "failed"}
  /\ pc' = [pc EXCEPT ![r] = "scan"]
  /\ want' = [want EXCEPT ![r] = w]
  /\ snap' = [snap EXCEPT ![r] = {}]
  /\ UNCHANGED <<loaded, loading, bySlot, gap, failures>>

(* ensureRange finds the whole window loaded and returns nil. *)
EnsureDone(r) ==
  /\ pc[r] = "scan"
  /\ Missing(want[r]) = {}
  /\ pc' = [pc EXCEPT ![r] = "ready"]
  /\ UNCHANGED <<loaded, loading, bySlot, want, gap, snap, failures>>

(* The first missing slot is being loaded by another request: cond.Wait. *)
EnsureWait(r) ==
  /\ pc[r] = "scan"
  /\ \E s \in Covered(loading) : FirstMissing(s, want[r])
  /\ pc' = [pc EXCEPT ![r] = "waiting"]
  /\ UNCHANGED <<loaded, loading, bySlot, want, gap, snap, failures>>

(* The first missing slot is free: claim the gap that starts there. *)
EnsureClaim(r) ==
  /\ pc[r] = "scan"
  /\ \E g \in Ranges :
       /\ IsNextGap(g, want[r])
       /\ g.from \notin Covered(loading)
       /\ loading' = loading \cup {g}
       /\ gap' = [gap EXCEPT ![r] = g]
  /\ pc' = [pc EXCEPT ![r] = "loading"]
  /\ UNCHANGED <<loaded, bySlot, want, snap, failures>>

(* loadRange succeeded: publish the blocks, wake the waiters, scan again. *)
LoadOk(r) ==
  /\ pc[r] = "loading"
  /\ loading' = loading \ {gap[r]}
  /\ bySlot' = bySlot \cup loadRange(gap[r])
  /\ loaded' = addSlotRange(loaded, gap[r])
  /\ pc' = Broadcast([pc EXCEPT ![r] = "scan"])
  /\ gap' = [gap EXCEPT ![r] = NoGap]
  /\ UNCHANGED <<want, snap, failures>>

(* Bug: the failed range is recorded as loaded. *)
LoadErrMarksLoaded(r) ==
  /\ pc[r] = "loading"
  /\ failures < MaxFailures
  /\ failures' = failures + 1
  /\ loading' = loading \ {gap[r]}
  /\ loaded' = addSlotRange(loaded, gap[r])
  /\ pc' = Broadcast([pc EXCEPT ![r] = "failed"])
  /\ gap' = [gap EXCEPT ![r] = NoGap]
  /\ UNCHANGED <<bySlot, want, snap>>

(* Bug: an error returns before the waiters are woken. *)
LoadErrWakesNobody(r) ==
  /\ pc[r] = "loading"
  /\ failures < MaxFailures
  /\ failures' = failures + 1
  /\ loading' = loading \ {gap[r]}
  /\ pc' = [pc EXCEPT ![r] = "failed"]
  /\ gap' = [gap EXCEPT ![r] = NoGap]
  /\ UNCHANGED <<loaded, bySlot, want, snap>>

(* loadRange failed: give the range up, wake the waiters, return the error. *)
LoadErr(r) ==
  /\ pc[r] = "loading"
  /\ failures < MaxFailures
  /\ failures' = failures + 1
  /\ loading' = loading \ {gap[r]}
  /\ pc' = Broadcast([pc EXCEPT ![r] = "failed"])
  /\ gap' = [gap EXCEPT ![r] = NoGap]
  /\ UNCHANGED <<loaded, bySlot, want, snap>>

(* snapshotRange (or infoBySlot and rootKnown through a view of the window) *)
(* reads the index in a later critical section.                             *)
Snapshot(r) ==
  /\ pc[r] = "ready"
  /\ snap' = [snap EXCEPT ![r] = bySlot \cap Span(want[r])]
  /\ pc' = [pc EXCEPT ![r] = "done"]
  /\ UNCHANGED <<loaded, loading, bySlot, want, gap, failures>>

Next == \E r \in Requests :
          \/ \E w \in Windows : Request(r, w)
          \/ EnsureDone(r)
          \/ EnsureWait(r)
          \/ EnsureClaim(r)
          \/ LoadOk(r)
          \/ LoadErr(r)
          \/ Snapshot(r)

(* What the goroutine of request r does once it runs. *)
Step(r) == \/ EnsureDone(r) \/ EnsureWait(r) \/ EnsureClaim(r)
           \/ LoadOk(r) \/ LoadErr(r) \/ Snapshot(r)

SafeSpec == Init /\ [][Next]_vars

(* The Go scheduler runs every runnable goroutine and disk reads return. *)
Spec == SafeSpec /\ \A r \in Requests : WF_vars(Step(r))
-------------------------------------------------------------------------------
(* Loaders r and q, r # q, have claimed no common slot, and no claimed slot *)
(* is already loaded: an ERA slot is never read and decoded twice at once,  *)
(* nor again after it was loaded.  nextGapLocked cuts every gap short of    *)
(* the loaded and loading ranges, whatever windows overlap.                 *)
NoDoubleLoad ==
  \A r \in Requests : pc[r] = "loading" =>
    /\ gap[r] \in loading
    /\ Span(gap[r]) \cap Covered(loaded) = {}
    /\ \A q \in Requests :
         pc[q] = "loading" /\ q # r => Span(gap[r]) \cap Span(gap[q]) = {}

(* The ranges of loaded never overlap or touch: addSlotRange merged them.   *)
(* rangeContainingSlot's early exit and the bound on the number of ranges   *)
(* rest on it.                                                              *)
LoadedSeparated ==
  \A a, b \in loaded : a # b => a.to + 1 < b.from \/ b.to + 1 < a.from

(* A request that got its blocks got exactly the canonical blocks of its    *)
(* window: no slot with a block is taken for a missed slot because another  *)
(* request had only claimed it, or failed to read it.                       *)
SnapshotExact ==
  \A r \in Requests : pc[r] = "done" => snap[r] = Blocks \cap Span(want[r])

(* A request in cond.Wait waits for a missing slot of its window that some  *)
(* request is loading, so some Broadcast is still to come.                  *)
WaiterHasLoader ==
  \A r \in Requests : pc[r] = "waiting" =>
    \E q \in Requests : pc[q] = "loading" /\ Missing(want[r]) \cap Span(gap[q]) # {}
-------------------------------------------------------------------------------
(* The rest of the inductive invariant: what loading, the index and a       *)
(* request that has returned from ensureRange stand for.                    *)

LoadingExact == loading = {gap[r] : r \in {q \in Requests : pc[q] = "loading"}}

IndexExact == bySlot = Blocks \cap Covered(loaded)

ReadyCovered == \A r \in Requests : pc[r] = "ready" => Span(want[r]) \subseteq Covered(loaded)

IInv == /\ TypeOK
        /\ LoadingExact
        /\ NoDoubleLoad
        /\ LoadedSeparated
        /\ IndexExact
        /\ ReadyCovered
        /\ SnapshotExact
        /\ WaiterHasLoader
-------------------------------------------------------------------------------
(* The callers' view: CanonicalReads. *)
Status == [r \in Requests |->
             IF pc[r] \in {"scan", "waiting", "loading", "ready"} THEN "asked" ELSE pc[r]]

Reads == INSTANCE CanonicalReads WITH status <- Status, window <- want, answer <- snap

(* The shared, concurrently filled index is indistinguishable from reading  *)
(* the ERA files directly, and every ensureRange returns.                   *)
ImplementsReads == Reads!Spec

=============================================================================
