------------------------------- MODULE SlotPlan -------------------------------
(***************************************************************************)
(* How a fork reaches an engine.  realBackend (pkg/beaconapi/              *)
(* realbackend.go) first warms the block-archive cache for every worker's  *)
(* range (WarmBlockArchiveCache) and then, from that cache alone, answers  *)
(* each engine's request for a slot (BuildSlot) with the blocks to import  *)
(* and the attestations to inject; the engine (engines/lodestar/src/       *)
(* main.ts) imports them in the order given.                               *)
(*                                                                         *)
(* A canonical block is named by its slot, an orphan by a number outside   *)
(* Slots; the order of these numbers is the byte order of the roots.  An   *)
(* attestation is named by the orphan it votes for and has that orphan's   *)
(* slot: votes for canonical blocks never change what is planned, because  *)
(* a walk that meets a canonical block ends there whether the block is     *)
(* known, fetched or not found.                                            *)
(*                                                                         *)
(* Left out: saturation of slot numbers at 2^64-1, the counters that are   *)
(* only logged, the checks of malformed archive answers, and votes cast    *)
(* later than at the slot of the block they name.  What the                *)
(* canonical index returns is CanonicalIndex's subject.                    *)
(***************************************************************************)
EXTENDS Integers, FiniteSetsExt, SequencesExt

CONSTANTS Workers,
          WarmupSlot,                \* ActualWarmupStartSlot of each worker
          EndSlot,                   \* Chunk.EndSlot of each worker
          MaxSlot,                   \* bound: the last slot of the block tree
          Orphans,                   \* names of the non-canonical blocks
          Modes,                     \* attestation source modes to consider
          LookaheadCap,
          IndexPageSize,             \* indexSlotRangePageSize
          MaxOrphanWalk,             \* maxOrphanWalk
          MaxArchiveOrphansPerSlot   \* maxArchiveOrphansPerSlot

Slots == 0 .. MaxSlot
Blocks == Slots \cup Orphans
NoBlock == -1

ASSUME SlotPlanAssumption ==
  /\ Workers \subseteq Nat /\ IsFiniteSet(Workers)
  /\ WarmupSlot \in [Workers -> Slots]
  /\ EndSlot \in [Workers -> Slots]
  /\ \A w \in Workers : WarmupSlot[w] < EndSlot[w]
  /\ MaxSlot \in Nat
  /\ Orphans \subseteq Nat \ Slots /\ IsFiniteSet(Orphans)
  /\ Modes \subseteq {"next-non-missed", "strict", "greedy", "first-seen"}
  /\ LookaheadCap \in Nat \ {0}
  /\ IndexPageSize \in Nat \ {0}
  /\ MaxOrphanWalk \in Nat \ {0}
  /\ MaxArchiveOrphansPerSlot \in Nat \ {0}

(* Ranges begin in worker order: chunks ascend, and a checkpoint that falls *)
(* back to an earlier epoch takes the nearest one that is not missed.       *)
ASSUME RangesInOrder ==
  \A u, w \in Workers : u < w => WarmupSlot[u] <= WarmupSlot[w]

VARIABLES tree,      \* the block tree, its attestations and what the archive holds
          cold,      \* worker ranges not yet warmed
          cache,     \* orphans in the archive client's disk cache
          index,     \* ArchiveWarmResult.OrphanRootsBySlot: the orphans it lists
          next,      \* the slot each engine asks for next
          forkChoice,\* blocks each engine has imported
          missing,   \* roots the last BuildSlot for a worker did not find
          detached,  \* orphans an engine was given and could not attach
          status     \* "warm", "serve" or "failed"

vars == <<tree, cold, cache, index, next, forkChoice, missing, detached, status>>

SlotOf(b) == IF b \in Orphans THEN tree.slot[b] ELSE b

CanonicalAt(slots) == tree.canonical \cap slots

(* The attestations a block carries, and those gossip delivered in a slot. *)
Attestations(b) == {o \in Orphans : tree.carrier[o] = b}

AttestationsForSlot(s) ==
  {o \in Orphans : tree.slot[o] = s /\ tree.carrier[o] # NoBlock}

(* parseConfig sets the look-ahead of the modes that have none to 0. *)
Cap == IF tree.mode \in {"strict", "first-seen"} THEN 0 ELSE LookaheadCap

TypeOK ==
  /\ tree.mode \in Modes
  /\ tree.canonical \subseteq Slots
  /\ tree.slot \in [Orphans -> Slots]
  /\ tree.parent \in [Orphans -> Blocks]
  /\ tree.carrier \in [Orphans -> Blocks \cup {NoBlock}]
  /\ tree.archive \subseteq Orphans
  /\ cold \subseteq Workers
  /\ cache \subseteq tree.archive
  /\ index \subseteq cache
  /\ \A w \in Workers : next[w] \in WarmupSlot[w] + 1 .. EndSlot[w]
  /\ forkChoice \in [Workers -> SUBSET Blocks]
  /\ missing \in [Workers -> SUBSET Orphans]
  /\ detached \in [Workers -> SUBSET Orphans]
  /\ status \in {"warm", "serve", "failed"}
-------------------------------------------------------------------------------
(* Every block tree over Slots (orphans below MaxSlot) in which a parent    *)
(* and a carried vote are older than the block, and in which each worker's  *)
(* checkpoint slot is not missed (FetchCheckpointAtWarmupSlot finds such a  *)
(* slot).                                                                   *)
Init ==
  /\ \E canonical \in SUBSET Slots, slot \in [Orphans -> 1 .. MaxSlot - 1] :
       /\ 0 \in canonical
       /\ \A w \in Workers : WarmupSlot[w] \in canonical
       /\ LET At(b) == IF b \in Orphans THEN slot[b] ELSE b IN
          \E parent \in [Orphans -> canonical \cup Orphans] :
            /\ \A o \in Orphans : At(parent[o]) < slot[o]
            /\ \E carrier \in [Orphans -> canonical \cup Orphans \cup {NoBlock}],
                  archive \in SUBSET Orphans, mode \in Modes :
                 /\ \A o \in Orphans : carrier[o] # NoBlock => At(carrier[o]) > slot[o]
                 /\ tree = [mode |-> mode, canonical |-> canonical, slot |-> slot,
                            parent |-> parent, carrier |-> carrier, archive |-> archive]
  /\ cold = Workers
  /\ cache = {}
  /\ index = {}
  /\ next = [w \in Workers |-> WarmupSlot[w] + 1]
  /\ forkChoice = [w \in Workers |-> {WarmupSlot[w]}]
  /\ missing = [w \in Workers |-> {}]
  /\ detached = [w \in Workers |-> {}]
  /\ status = "warm"

(* The walk from root through its ancestors, up to the first block that     *)
(* Stops it and at most limit blocks long.                                  *)
WalkUp(root, limit, Stops(_)) ==
  LET up[d \in 1 .. limit] ==
        IF d = 1 THEN root
        ELSE IF up[d - 1] \in Orphans THEN tree.parent[up[d - 1]] ELSE up[d - 1]
      ends == {d \in 1 .. limit : Stops(up[d])}
      n == IF ends = {} THEN limit ELSE Min(ends) - 1
  IN  [chain |-> [d \in 1 .. n |-> up[d]],
       asked |-> {up[d] : d \in 1 .. Min({n + 1, limit})}]

(* Bug: the ancestors of an orphan are not walked. *)
resolveTipOnly(root, known, fetchable, evalSlot) ==
  LET Stops(b) == b \notin Orphans \ known \/ b \notin fetchable \/ SlotOf(b) > evalSlot
      walk == WalkUp(root, 1, Stops)
  IN  [walk EXCEPT !.asked = @ \cap (Orphans \ known)]

(* resolveOrphanChain: a walk ends at a block that is canonical, known, not *)
(* fetchable or newer than evalSlot.  asked is every root it tried to fetch. *)
resolveOrphanChain(root, known, fetchable, evalSlot) ==
  LET Stops(b) == b \notin Orphans \ known \/ b \notin fetchable \/ SlotOf(b) > evalSlot
      walk == WalkUp(root, MaxOrphanWalk, Stops)
  IN  [walk EXCEPT !.asked = @ \cap (Orphans \ known)]

(* Bug: the limit is off by one. *)
appendOneFewer(roots, o) ==
  IF Cardinality({r \in roots : SlotOf(r) = SlotOf(o)}) < MaxArchiveOrphansPerSlot - 1
  THEN roots \cup {o} ELSE roots

(* appendOrphanRoot: a slot's list never grows past the limit. *)
appendOrphanRoot(roots, o) ==
  IF Cardinality({r \in roots : SlotOf(r) = SlotOf(o)}) < MaxArchiveOrphansPerSlot
  THEN roots \cup {o} ELSE roots

(* rememberArchiveOrphanInfo: the range's own list first, then the shared one. *)
rememberArchiveOrphanInfo(lists, o) ==
  IF appendOrphanRoot(lists.own, o) = lists.own THEN lists
  ELSE [own |-> appendOrphanRoot(lists.own, o),
        shared |-> appendOrphanRoot(lists.shared, o)]

(* sortBlockInfos: by slot, then by root. *)
Sorted(orphans) ==
  CHOOSE q \in SetToSeqs(orphans) :
    \A i, j \in DOMAIN q :
      i < j => \/ SlotOf(q[i]) < SlotOf(q[j])
               \/ SlotOf(q[i]) = SlotOf(q[j]) /\ q[i] < q[j]

SortedRootKeys(roots) ==
  CHOOSE q \in SetToSeqs(roots) : \A i, j \in DOMAIN q : i < j => q[i] < q[j]

(* archiveOrphanInfosBySlot and sourceBlockInfosBySlot, for a list of      *)
(* orphan roots and the roots that can be fetched.                         *)
archiveOrphanInfosBySlot(roots, fetchable, s) ==
  {o \in roots \cap fetchable : SlotOf(o) = s}

sourceBlockInfosBySlot(s) ==
  CanonicalAt({s}) \cup archiveOrphanInfosBySlot(index, cache, s)
-------------------------------------------------------------------------------
(* ListIndexBySlotRangeWithStats: the archive's listing of a slot range,    *)
(* page after page from where the entries received so far end, until a page *)
(* is empty.                                                                *)
ListIndexBySlotRange(slotMin, slotMax) ==
  LET all == Sorted({o \in tree.archive : SlotOf(o) \in slotMin .. slotMax})
      Page(offset) == SubSeq(all, offset + 1, Min({offset + IndexPageSize, Len(all)}))
      entries[n \in 0 .. Len(all)] ==
        IF n = 0 THEN << >> ELSE entries[n - 1] \o Page(Len(entries[n - 1]))
  IN  Range(entries[Len(all)])

(* Bug: the votes carried by listed orphans are not read. *)
unknownRootsOfCanonical(from, to, listed) ==
  IF tree.mode = "first-seen"
  THEN UNION {AttestationsForSlot(s) : s \in from .. to - 1}
  ELSE UNION {Attestations(b) : b \in CanonicalAt(from .. to + Cap)}

(* The roots warmArchiveCache resolves: what gossip, or the canonical       *)
(* blocks of the range and the orphans listed for it, vote for.             *)
unknownRoots(from, to, listed) ==
  IF tree.mode = "first-seen"
  THEN UNION {AttestationsForSlot(s) : s \in from .. to - 1}
  ELSE UNION {Attestations(b) : b \in CanonicalAt(from .. to + Cap) \cup listed}

(* warmArchiveCache for the range of worker w: in greedy mode the archive's *)
(* listing of the range, then the chains of the roots that the attestations *)
(* of the range vote for.                                                   *)
WarmRange(w) ==
  LET from == WarmupSlot[w] + 1
      to == EndSlot[w]
      loadEnd == to + Cap
      listed == IF tree.mode = "greedy" THEN ListIndexBySlotRange(from, loadEnd) ELSE {}
      start == [own |-> {}, shared |-> index]
      afterList == FoldLeft(rememberArchiveOrphanInfo, start, Sorted(listed))
      roots == unknownRoots(from, to, afterList.own)
      walks == [o \in roots |-> resolveOrphanChain(o, {}, tree.archive, loadEnd)]
      chains == FlattenSeq([i \in 1 .. Cardinality(roots) |->
                              walks[SortedRootKeys(roots)[i]].chain])
  IN  [cached |-> listed \cup UNION {walks[o].asked \cap tree.archive : o \in roots},
       lists |-> FoldLeft(rememberArchiveOrphanInfo, afterList, chains)]

(* Ranges are warmed one after the other, in worker order. *)
Warm(w) ==
  /\ status = "warm"
  /\ w = Min(cold)
  /\ cold' = cold \ {w}
  /\ cache' = cache \cup WarmRange(w).cached
  /\ index' = WarmRange(w).lists.shared
  /\ status' = IF cold' = {} THEN "serve" ELSE "warm"
  /\ UNCHANGED <<tree, next, forkChoice, missing, detached>>

(* An archive answer other than "not found" that outlasts its retries, or a *)
(* listing beyond its safety limit, ends the run; the blocks cached so far  *)
(* stay on disk.                                                            *)
WarmErr(w) ==
  /\ status = "warm"
  /\ w = Min(cold)
  /\ status' = "failed"
  /\ \E some \in SUBSET WarmRange(w).cached : cache' = cache \cup some
  /\ UNCHANGED <<tree, cold, index, next, forkChoice, missing, detached>>
-------------------------------------------------------------------------------
(* planSourcesForSlot: the canonical slots whose blocks the slot's          *)
(* attestations are taken from.                                             *)
planSourcesForSlot(s) ==
  LET window == CanonicalAt(s + 1 .. s + Cap)
  IN  CASE tree.mode = "next-non-missed" -> IF window = {} THEN {} ELSE {Min(window)}
        [] tree.mode = "strict" -> CanonicalAt({s + 1})
        [] tree.mode = "greedy" -> window
        [] tree.mode = "first-seen" -> {}

attestationsFromSources(sources, evalSlot) ==
  {o \in UNION {Attestations(b) : b \in UNION {sourceBlockInfosBySlot(s) : s \in sources}} :
     tree.mode = "greedy" => SlotOf(o) <= evalSlot}

(* Bug: a root counted as imported is not imported again. *)
canonicalImportUnlessKnown(s) ==
  SetToSeq(CanonicalAt({s}) \ {WarmupSlot[w] : w \in Workers})

(* The canonical import of a slot.  It does not depend on the roots already *)
(* marked as imported, which hold the checkpoints of every worker.          *)
canonicalImport(s) == SetToSeq(CanonicalAt({s}))

(* orphanImportsForSlotAttestations: each voted root that is not known yet  *)
(* is walked; it is emitted, with its ancestors after the checkpoint, only  *)
(* at its own slot.                                                         *)
orphanImportsForSlotAttestations(attestations, known, s, minImportSlot) ==
  LET Schedule(acc, root) ==
        LET walk == resolveOrphanChain(root, known, cache, s)
            chain == Range(walk.chain)
            old == {b \in chain : SlotOf(b) < minImportSlot}
        IN  IF root \in acc.scheduled \cup acc.ignored \cup acc.missing THEN acc
            ELSE [scheduled |-> IF chain # {} /\ SlotOf(root) = s
                                THEN acc.scheduled \cup (chain \ old) ELSE acc.scheduled,
                  ignored |-> acc.ignored \cup (IF SlotOf(root) = s THEN old ELSE chain \cap {root}),
                  missing |-> acc.missing \cup (walk.asked \ cache)]
  IN  FoldLeft(Schedule, [scheduled |-> {}, ignored |-> {}, missing |-> {}],
               SortedRootKeys(attestations \ known))

(* BuildSlot.  The imports are the canonical block, the listed orphans of   *)
(* the slot, and then the attested orphans of the slot with their           *)
(* ancestors.                                                               *)
BuildSlot(s, warmupStartSlot) ==
  LET archived == archiveOrphanInfosBySlot(index, cache, s)
      attestations == IF tree.mode = "first-seen" THEN AttestationsForSlot(s)
                      ELSE attestationsFromSources(planSourcesForSlot(s), s + 1)
      attested == orphanImportsForSlotAttestations(attestations, archived, s,
                                                   warmupStartSlot + 1)
  IN  [imports |-> canonicalImport(s) \o Sorted(archived) \o Sorted(attested.scheduled),
       missing |-> attested.missing]

Parent(b) ==
  IF b \in Orphans THEN tree.parent[b] ELSE Max(CanonicalAt(0 .. b - 1))

(* importPlannedBlocks: known blocks are skipped, an orphan without its     *)
(* parent is skipped with a warning, a canonical block without its parent   *)
(* ends the engine.                                                         *)
importPlannedBlock(engine, b) ==
  IF b \in engine.known \/ engine.fatal THEN engine
  ELSE IF Parent(b) \in engine.known THEN [engine EXCEPT !.known = @ \cup {b}]
  ELSE IF b \in Orphans THEN [engine EXCEPT !.detached = @ \cup {b}]
  ELSE [engine EXCEPT !.fatal = TRUE]

(* One turn of an engine's slot loop. *)
RunSlot(w) ==
  /\ status = "serve"
  /\ next[w] < EndSlot[w]
  /\ LET plan == BuildSlot(next[w], WarmupSlot[w])
         engine == FoldLeft(importPlannedBlock,
                            [known |-> forkChoice[w], detached |-> detached[w],
                             fatal |-> FALSE],
                            plan.imports)
     IN  /\ forkChoice' = [forkChoice EXCEPT ![w] = engine.known]
         /\ detached' = [detached EXCEPT ![w] = engine.detached]
         /\ missing' = [missing EXCEPT ![w] = plan.missing]
         /\ status' = IF engine.fatal THEN "failed" ELSE "serve"
         /\ next' = [next EXCEPT ![w] = IF engine.fatal THEN @ ELSE @ + 1]
  /\ UNCHANGED <<tree, cold, cache, index>>

Next == \E w \in Workers : Warm(w) \/ WarmErr(w) \/ RunSlot(w)

Spec == Init /\ [][Next]_vars
-------------------------------------------------------------------------------
(* The reference: what the block tree says, without walks or caches.        *)

(* An orphan with its orphan ancestors, nearest first, and the canonical    *)
(* block the branch leaves from.                                            *)
Branch(o) ==
  LET up[d \in 0 .. Cardinality(Orphans)] ==
        IF d = 0 THEN o
        ELSE IF up[d - 1] \in Orphans THEN tree.parent[up[d - 1]] ELSE up[d - 1]
  IN  [orphans |-> Range(up) \cap Orphans, base |-> up[Cardinality(Orphans)]]

(* Worker w can hold o: the archive has the whole branch, and the branch    *)
(* leaves the canonical chain at or after the worker's checkpoint.          *)
Attachable(w, o) ==
  /\ Branch(o).orphans \subseteq tree.archive
  /\ Branch(o).base >= WarmupSlot[w]

(* The roots the warm phase starts from. *)
Voted ==
  {o \in Orphans : \E w \in Workers :
     LET window == WarmupSlot[w] + 1 .. EndSlot[w] + Cap IN
     \/ tree.mode # "first-seen" /\ tree.carrier[o] \in CanonicalAt(window)
     \/ tree.mode = "first-seen" /\ tree.carrier[o] # NoBlock
                                /\ SlotOf(o) \in WarmupSlot[w] + 1 .. EndSlot[w] - 1
     \/ tree.mode = "greedy" /\ SlotOf(o) \in window}

(* The archived orphans of the slot of o fit on a list. *)
Roomy(o) == Cardinality({r \in tree.archive : SlotOf(r) = SlotOf(o)}) <= MaxArchiveOrphansPerSlot

(* No slot of the branch has more archived orphans than a list may hold,    *)
(* and the branch is not longer than a walk.                                *)
WithinLimits(o) ==
  /\ Cardinality(Branch(o).orphans) <= MaxOrphanWalk
  /\ \A a \in Branch(o).orphans : Roomy(a)

(* ForksImported: once an engine has passed a slot it holds every orphan of *)
(* that slot that a vote or the archive listing names and that the worker   *)
(* can attach, its ancestors included.  The list of orphans built while     *)
(* warming, the lookups of BuildSlot and the order of the imports must fit  *)
(* together for this; one orphan is enough to change what fork choice sees. *)
ForksImported ==
  status = "serve" =>
    \A w \in Workers, v \in Voted :
      Attachable(w, v) /\ WithinLimits(v) =>
        \A o \in Branch(v).orphans : SlotOf(o) < next[w] => o \in forkChoice[w]

(* o is the tip or an ancestor only of branches within the limits: a walk   *)
(* from a branch that is too long can list o and stop before its parent.    *)
BranchesWithinLimits(o) ==
  \A v \in Orphans : o \in Branch(v).orphans => WithinLimits(v)

(* OnlyDetachedSkipped: an engine is never given an orphan it cannot attach *)
(* (Lodestar warns and drops it, other engines stop) unless the branch is   *)
(* really not to be had, or is part of one beyond the limits of a walk or a *)
(* list.                                                                    *)
OnlyDetachedSkipped ==
  \A w \in Workers : \A o \in detached[w] : ~Attachable(w, o) \/ ~BranchesWithinLimits(o)

(* CanonicalAttaches: no engine ends because a canonical block came without *)
(* its parent, although all workers share one set of checkpoint roots that  *)
(* the planner counts as imported.                                          *)
CanonicalAttaches == status = "failed" => cold # {}

(* WarmCovers: the serving backend, which reads only the cache, never asks  *)
(* for an orphan that the archive has and the warm phase did not cache      *)
(* (comment of WarmBlockArchiveCache).                                      *)
WarmCovers == \A w \in Workers : missing[w] \cap tree.archive = {}

(* WarmCoversImports: the same comment, of the orphans that matter most: an *)
(* orphan of the very slot just built, which the worker could attach and    *)
(* which would have been imported there, is never one that the archive has  *)
(* and the warm phase did not cache.                                        *)
WarmCoversImports ==
  \A w \in Workers : \A o \in missing[w] \cap tree.archive :
    SlotOf(o) = next[w] - 1 => ~ Attachable(w, o)

(* WarmCoversByRange: WarmCovers in the modes whose warm phase also reads   *)
(* what the sources of a slot can carry: greedy lists the range's orphans,  *)
(* first-seen takes its votes from gossip.                                  *)
WarmCoversByRange == tree.mode \in {"greedy", "first-seen"} => WarmCovers
===============================================================================
