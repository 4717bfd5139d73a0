------------------------------- MODULE RangePlan -------------------------------
(***************************************************************************)
(* The plan endpoint: BuildPlan (pkg/beaconapi/realbackend.go) answers, in *)
(* one go, for a whole range of slots what BuildSlot answers slot by slot. *)
(* It carries its own bookkeeping from slot to slot (what is imported,     *)
(* scheduled for a later slot, missing or ignored, and the orphans met on  *)
(* the way), where BuildSlot starts from nothing each time.                *)
(*                                                                         *)
(* A plan is a fold over the slots of the range; the state it carries is   *)
(* the record of planBuildState.                                           *)
(***************************************************************************)
EXTENDS SlotPlan

(* planBuildState at the start of a plan, with the orphans due at once      *)
(* (now) and the imports so far (out).  Roots of canonical blocks, the      *)
(* checkpoints among them, are known throughout.                            *)
NewPlan ==
  [imported |-> {}, scheduled |-> {}, missing |-> {}, ignored |-> {},
   listed |-> index, pending |-> [s \in Slots |-> {}], now |-> {}, out |-> << >>]

Settled(plan, root) ==
  root \in plan.imported \cup plan.scheduled \cup plan.missing \cup plan.ignored

(* Emit the orphans of a set that are not imported yet, in block order. *)
Emit(plan, orphans) ==
  [plan EXCEPT !.out = @ \o Sorted(orphans \ plan.imported),
               !.imported = @ \cup orphans]

(* archiveOrphanInfosBySlot for a plan: a listed root of the slots looked   *)
(* at that is not cached is missing from then on.                           *)
ListedAt(plan, s) == archiveOrphanInfosBySlot(plan.listed \ plan.ignored, cache, s)

LookUpListed(plan, slots) ==
  [plan EXCEPT !.missing = @ \cup {o \in plan.listed \ cache : SlotOf(o) \in slots}]

(* Bug: the list is read in greedy mode only. *)
archiveOrphanImportsIfGreedy(plan, s) ==
  IF tree.mode # "greedy" THEN plan
  ELSE Emit(LookUpListed(plan, {s}), ListedAt(plan, s) \ plan.scheduled)

(* archiveOrphanImportsForSlot: scheduled orphans come with the pending ones. *)
archiveOrphanImportsForSlot(plan, s) ==
  Emit(LookUpListed(plan, {s}), ListedAt(plan, s) \ plan.scheduled)

(* The orphans that earlier slots left for slot s. *)
pendingOrphanImports(plan, s) ==
  [Emit(plan, plan.pending[s]) EXCEPT !.pending[s] = {}]

(* Bug: a block of a later slot is imported at once. *)
scheduleNow(plan, simSlot, minImportSlot, planEnd, b) ==
  IF SlotOf(b) < minImportSlot THEN [plan EXCEPT !.ignored = @ \cup {b}]
  ELSE IF b \in plan.imported \cup plan.scheduled THEN plan
  ELSE [plan EXCEPT !.imported = @ \cup {b}, !.now = @ \cup {b}]

(* What orphanImportsForSources does with one block of a chain: ignore a    *)
(* block from before the range or from after it, import one that is due,    *)
(* schedule the others at their own slot.                                   *)
scheduleOrphan(plan, simSlot, minImportSlot, planEnd, b) ==
  LET target == Max({SlotOf(b), simSlot})
  IN  IF SlotOf(b) < minImportSlot THEN [plan EXCEPT !.ignored = @ \cup {b}]
      ELSE IF b \in plan.imported \cup plan.scheduled THEN plan
      ELSE IF target >= planEnd THEN [plan EXCEPT !.ignored = @ \cup {b}]
      ELSE IF target = simSlot THEN [plan EXCEPT !.imported = @ \cup {b}, !.now = @ \cup {b}]
      ELSE [plan EXCEPT !.scheduled = @ \cup {b}, !.pending[target] = @ \cup {b}]

(* The sources of the slot are read, their votes collected, and the chain   *)
(* of each unsettled root is walked, remembered and scheduled, oldest block *)
(* first.                                                                   *)
orphanImportsForSources(plan, sources, simSlot, minImportSlot, planEnd) ==
  LET evalSlot == simSlot + 1
      looked == LookUpListed(plan, sources)
      carriers == CanonicalAt(sources) \cup UNION {ListedAt(plan, s) : s \in sources}
      roots == {o \in UNION {Attestations(b) : b \in carriers} :
                  SlotOf(o) <= evalSlot /\ ~ Settled(looked, o)}
      Resolve(acc, root) ==
        LET walk == resolveOrphanChain(root, acc.imported, cache, evalSlot)
            seen == [acc EXCEPT !.missing = @ \cup (walk.asked \ cache),
                                !.listed = FoldLeft(appendOrphanRoot, @, walk.chain)]
            Schedule(a, b) == scheduleOrphan(a, simSlot, minImportSlot, planEnd, b)
        IN  IF Settled(acc, root) THEN acc
            ELSE FoldLeft(Schedule, seen, Reverse(walk.chain))
      new == FoldLeft(Resolve, [looked EXCEPT !.now = {}], SortedRootKeys(roots))
  IN  IF tree.mode # "greedy" THEN plan
      ELSE [new EXCEPT !.out = @ \o Sorted(new.now)]

(* One slot of BuildPlan: the canonical block, the listed orphans, what was *)
(* left for this slot, what the sources of this slot vote for.              *)
planSlot(plan, from, to, s) ==
  LET canonical == [plan EXCEPT !.out = @ \o canonicalImport(s)]
      archived == archiveOrphanImportsForSlot(canonical, s)
      due == pendingOrphanImports(archived, s)
  IN  orphanImportsForSources(due, planSourcesForSlot(s), s, from, to)

(* BuildPlan: all imports of [from, to), in order. *)
BuildPlan(from, to) ==
  LET Slot(plan, s) == planSlot(plan, from, to, s)
  IN  FoldLeft(Slot, NewPlan, [i \in 1 .. to - from |-> from + i - 1])
-------------------------------------------------------------------------------
(* What engine w holds when it imports a sequence of blocks from its        *)
(* checkpoint on.                                                           *)
Importing(w, blocks) ==
  FoldLeft(importPlannedBlock,
           [known |-> {WarmupSlot[w]}, detached |-> {}, fatal |-> FALSE], blocks)

SlotBySlot(w) ==
  FlattenSeq([i \in 1 .. EndSlot[w] - WarmupSlot[w] - 1 |->
                BuildSlot(WarmupSlot[w] + i, WarmupSlot[w]).imports])

(* The plan of a worker's range is evaluated when the backend begins to     *)
(* serve: neither answer depends on what engines have asked for before.     *)
BeginsToServe ==
  status = "serve" /\ \A w \in Workers : next[w] = WarmupSlot[w] + 1

(* PlanMatchesSlots: following the plan of a range or asking slot by slot   *)
(* gives an engine the same blocks, except for orphans beyond the limits of *)
(* a walk or a list (BuildSlot still finds those that are voted for).       *)
PlanMatchesSlots ==
  BeginsToServe =>
    \A w \in Workers :
      LET planned == Importing(w, BuildPlan(WarmupSlot[w] + 1, EndSlot[w]).out).known
          asked == Importing(w, SlotBySlot(w)).known
      IN  \A b \in Blocks : (b \in planned) # (b \in asked) => b \in Orphans /\ ~ WithinLimits(b)

(* PlanOrdered: a plan names no block twice, none before its parent (unless *)
(* the slot of the parent has more orphans than a list holds: an unlisted   *)
(* parent comes when it is voted for), and none before a canonical block of *)
(* an earlier slot or of its own, although a block may be listed by the     *)
(* archive, voted for in several slots, left for a later slot and an        *)
(* ancestor of other blocks.                                                *)
PlanOrdered ==
  BeginsToServe =>
    \A w \in Workers :
      LET out == BuildPlan(WarmupSlot[w] + 1, EndSlot[w]).out
      IN  \A i, j \in DOMAIN out :
            /\ out[i] = out[j] => i = j
            /\ Parent(out[j]) = out[i] => i < j \/ (out[i] \in Orphans /\ ~ Roomy(out[i]))
            /\ out[i] \in Slots /\ out[i] <= SlotOf(out[j]) => i <= j
===============================================================================
