---------------------------- MODULE LodestarEngine ----------------------------
(***************************************************************************)
(* The slot loop of the Lodestar engine (engines/lodestar/src/main.ts)     *)
(* against the orchestrator's server: fetch the slot's instruction, import *)
(* the planned blocks one by one, inject the votes, evaluate, prune.       *)
(*                                                                         *)
(* A canonical block is named by its slot, an orphan by a number outside   *)
(* Slots.  A post-state is named by the block that led to it, so that the  *)
(* state a block is processed on is right exactly when it is the one named *)
(* by the block's parent; Corrupt is what any other state leads to.        *)
(*                                                                         *)
(* The instructions are those SlotPlan allows: the canonical block of the  *)
(* slot, and some orphans of the slot with the ancestors they need; an     *)
(* ancestor may be named again.  Fork choice is a library (external): which *)
(* block is final, which is the head, and what a call of prune removes are *)
(* left open within its contract.  The loop awaits each call, so that only *)
(* the server and fork choice act between two of its steps.                *)
(*                                                                         *)
(* Left out: the cache of BlockFetcher (each canonical slot is asked for   *)
(* once), the votes, the logged eviction history, and several blocks with  *)
(* one state root (a state contains its block's header).                   *)
(***************************************************************************)
EXTENDS BeaconServer, Sequences, FiniteSetsExt

CONSTANTS WarmupStartSlot, StartSlot, EndSlot,
          Orphans,
          SlotsPerEpoch,           \* 32
          RecentStateCacheSlots,   \* RECENT_STATE_CACHE_SLOTS
          CheckpointCacheEpochs,   \* CHECKPOINT_STATE_CACHE_EPOCHS
          MaxFaults                \* bound on failing requests and invalid orphans

Slots == WarmupStartSlot .. EndSlot - 1
Blocks == Slots \cup Orphans
Before == -1     \* any block from before the checkpoint
Corrupt == -2    \* a state that is no block's post-state
None == -3       \* null

(* parseArgs also accepts a warm-up slot equal to the start slot: the       *)
(* orchestrator passes it with --warmup-epochs 0 or at epoch 0.  The loop   *)
(* then begins after StartSlot, which is never recorded; Runner's           *)
(* ExitZeroComplete is about that case, and it is left out here.            *)
ASSUME LodestarEngineAssumption ==
  /\ WarmupStartSlot \in Nat /\ StartSlot \in Nat /\ EndSlot \in Nat
  /\ WarmupStartSlot < StartSlot /\ StartSlot < EndSlot
  /\ Orphans \subseteq Nat \ Slots /\ IsFiniteSet(Orphans)
  /\ SlotsPerEpoch \in Nat \ {0}
  /\ RecentStateCacheSlots \in Nat /\ CheckpointCacheEpochs \in Nat
  /\ MaxFaults \in Nat

VARIABLES tree,           \* the canonical slots; slot and parent of each orphan
          phase,          \* "boot", "fetch", "import", "evaluate", "done" or "failed"
          slot,           \* the slot of the loop
          queue,          \* planned blocks not yet looked at
          forkChoice,     \* the blocks fork choice knows
          finalized,      \* its finalized block
          lastPruned,     \* lastPrunedFinalizedRoot
          head,           \* headStateRef
          importedState,  \* importedPostStateByBlockRoot
          stateByRoot,    \* stateByStateRoot, by the block that has the state root
          checkpoints,    \* stateByCheckpointKey
          planned,        \* orphans an instruction has named (history)
          excused,        \* orphans answered with 404 or invalid (history)
          recorded,       \* slots written to the output
          faults

vars == <<tree, phase, slot, queue, forkChoice, finalized, lastPruned, head, importedState,
          stateByRoot, checkpoints, planned, excused, recorded, faults>>

caches == <<importedState, stateByRoot, checkpoints>>

States == Blocks \cup {Corrupt}

SlotOf(b) == IF b \in Orphans THEN tree.slot[b] ELSE b

Parent(b) ==
  IF b \in Orphans THEN tree.parent[b]
  ELSE LET older == {c \in tree.canonical : c < b} IN IF older = {} THEN Before ELSE Max(older)

(* The blocks there are. *)
Chain == tree.canonical \cup Orphans

(* A block with its ancestors, as far back as the checkpoint: the smallest  *)
(* set that contains it and the parents of its members.                     *)
Ancestry(b) ==
  LET closed == {S \in SUBSET Chain :
                   b \in S /\ \A c \in S : Parent(c) \in S \cup {Before}}
  IN  {a \in Chain : \A S \in closed : a \in S}

(* Map.set *)
Put(map, key, value) ==
  [k \in DOMAIN map \cup {key} |-> IF k = key THEN value ELSE map[k]]

Epoch(s) == s \div SlotsPerEpoch
-------------------------------------------------------------------------------
Init ==
  /\ \E canonical \in SUBSET Slots, at \in [Orphans -> Slots \ {WarmupStartSlot}] :
       /\ WarmupStartSlot \in canonical
       /\ \E parent \in [Orphans -> canonical \cup Orphans \cup {Before}] :
            /\ \A o \in Orphans :
                 (IF parent[o] \in Orphans THEN at[parent[o]] ELSE parent[o]) < at[o]
            /\ tree = [canonical |-> canonical, slot |-> at, parent |-> parent]
  /\ phase = "boot"
  /\ slot = WarmupStartSlot
  /\ queue = << >>
  /\ forkChoice = {}
  /\ finalized = None
  /\ lastPruned = None
  /\ head = None
  /\ importedState = << >>
  /\ stateByRoot = << >>
  /\ checkpoints = << >>
  /\ planned = {}
  /\ excused = {}
  /\ recorded = << >>
  /\ faults = 0

(* BlockSSZBySlot, StateSSZBySlot and BuildSlot for what the engine asks    *)
(* for exist: the backend answers, or fails.                                *)
Fetched == {"ok"} \cup (IF faults < MaxFaults THEN {"error"} ELSE {})

(* BlockSSZByRoot reads the archive's cache: the planner has read the block *)
(* there, but the file may be gone or unreadable now.                       *)
BlockSSZByRoot == {"ok"} \cup (IF faults < MaxFaults THEN {"notfound", "error"} ELSE {})

CountFault(ok) == faults' = IF ok THEN faults ELSE faults + 1

Get(path, id) ==
  [method |-> "GET", path |-> path, id |-> id, slot |-> slot, warmup |-> WarmupStartSlot,
   accept |-> {[type |-> "application/octet-stream", q |-> 1]}]

Fail ==
  /\ phase' = "failed"
  /\ queue' = << >>
  /\ UNCHANGED <<forkChoice, head, caches>>

(* bootstrapEngine: the checkpoint state is the anchor of fork choice, of   *)
(* the head and of the caches.                                              *)
bootstrapEngine ==
  /\ phase = "boot"
  /\ \E result \in Fetched :
       /\ CountFault(result = "ok")
       /\ IF serveHTTP(Get("states", "slot"), result) = OK
          THEN /\ phase' = "fetch"
               /\ slot' = slot + 1
               /\ forkChoice' = {slot}
               /\ finalized' = slot /\ lastPruned' = slot
               /\ head' = slot
               /\ importedState' = Put(importedState, slot, slot)
               /\ stateByRoot' = Put(stateByRoot, slot, slot)
               /\ checkpoints' = Put(checkpoints, <<Epoch(slot), slot>>, slot)
          ELSE /\ phase' = "failed"
               /\ UNCHANGED <<slot, forkChoice, finalized, lastPruned, head, caches>>
  /\ UNCHANGED <<tree, queue, planned, excused, recorded>>

(* The orders in which the planner lists them: by slot, then by root. *)
Orders(orphans) ==
  {order \in [1 .. Cardinality(orphans) -> orphans] :
     /\ \A o \in orphans : \E i \in DOMAIN order : order[i] = o
     /\ \A i, j \in DOMAIN order : i < j =>
          \/ SlotOf(order[i]) < SlotOf(order[j])
          \/ SlotOf(order[i]) = SlotOf(order[j]) /\ order[i] < order[j]}

(* What an instruction of BuildSlot can name (SlotPlan): orphans of the     *)
(* slot and, of their ancestors, at least those not named before.           *)
Nameable(named) ==
  LET due == {o \in named : SlotOf(o) = slot}
      older == (UNION {Ancestry(o) : o \in due}) \cap Orphans
  IN  named \subseteq due \cup older /\ older \subseteq named \cup planned

Imports(order) == IF slot \in tree.canonical THEN <<slot>> \o order ELSE order

(* The top of the loop: fetchSlotInstruction. *)
fetchSlotInstruction ==
  /\ phase = "fetch"
  /\ \E result \in Fetched, named \in SUBSET Orphans :
       /\ Nameable(named)
       /\ CountFault(result = "ok")
       /\ IF serveHTTP(Get("slot", "slot"), result) = OK
          THEN /\ phase' = "import"
               /\ \E order \in Orders(named) : queue' = Imports(order)
               /\ planned' = planned \cup named
               /\ UNCHANGED <<forkChoice, head, caches>>
          ELSE Fail /\ UNCHANGED planned
  /\ UNCHANGED <<tree, slot, finalized, lastPruned, excused, recorded>>
-------------------------------------------------------------------------------
(* stateTransition (external): the post-state of b on a given state. *)
processBlock(pre, b) == IF pre = Parent(b) THEN b ELSE Corrupt

(* Fork choice's onBlock (external) throws for a block whose parent it does *)
(* not know, and for one that is not in the finalized block's future.       *)
OnBlockAccepts(b) ==
  /\ Parent(b) \in forkChoice
  /\ SlotOf(b) > SlotOf(finalized)
  /\ finalized \in Ancestry(b)

(* Bug: the head state is taken for any orphan. *)
onHeadState(b) == {head}

(* resolveOrphanParentPostState: the parent's imported post-state; without  *)
(* it the head state, if the parent is fork choice's head; without that the *)
(* recent state with the parent's state root.  None if fork choice does not *)
(* know the parent or there is no such state.                               *)
resolveOrphanParentPostState(b) ==
  LET p == Parent(b)
      recent == IF p \in DOMAIN stateByRoot THEN stateByRoot[p] ELSE None
  IN  IF p \notin forkChoice THEN {None}
      ELSE IF p \in DOMAIN importedState THEN {importedState[p]}
      ELSE {head, recent}

(* stateCacheImport: the state is kept under its root, fork choice takes    *)
(* the block or throws; a block it took has its post-state kept until it is *)
(* pruned, as a checkpoint too if it starts an epoch; only the canonical    *)
(* block moves the head state.                                              *)
stateCacheImport(b, post) ==
  /\ stateByRoot' = Put(stateByRoot, b, post)
  /\ IF OnBlockAccepts(b)
     THEN /\ forkChoice' = forkChoice \cup {b}
          /\ importedState' = Put(importedState, b, post)
          /\ checkpoints' = IF SlotOf(b) % SlotsPerEpoch = 0
                            THEN Put(checkpoints, <<Epoch(SlotOf(b)), b>>, post)
                            ELSE checkpoints
          /\ head' = IF b = slot THEN post ELSE head
     ELSE UNCHANGED <<forkChoice, importedState, checkpoints, head>>

Skip == UNCHANGED <<forkChoice, head, caches>>

Advance == phase' = "import" /\ queue' = Tail(queue)

(* importPlannedBlocks, for a canonical block: not found or not imported    *)
(* ends the engine.                                                         *)
importCanonical ==
  /\ phase = "import"
  /\ queue # << >>
  /\ Head(queue) \notin Orphans
  /\ LET b == Head(queue) IN
     \E result \in Fetched :
       /\ CountFault(result = "ok")
       /\ CASE serveHTTP(Get("blocks", "slot"), result) # OK -> Fail
            [] serveHTTP(Get("blocks", "slot"), result) = OK ->
                 IF b \in forkChoice THEN Skip /\ Advance
                 ELSE IF OnBlockAccepts(b)
                 THEN stateCacheImport(b, processBlock(head, b)) /\ Advance
                 ELSE Fail
  /\ UNCHANGED <<tree, slot, finalized, lastPruned, planned, excused, recorded>>

(* importPlannedBlocks, for an orphan: 404 skips it, any other failure to   *)
(* fetch it ends the engine; a known block, one without a parent state, and *)
(* one that cannot be processed or imported are skipped.                    *)
importOrphan ==
  /\ phase = "import"
  /\ queue # << >>
  /\ Head(queue) \in Orphans
  /\ LET b == Head(queue) IN
     \E result \in BlockSSZByRoot, valid \in BOOLEAN :
       /\ ~ valid => result = "ok" /\ faults < MaxFaults
       /\ CountFault(result = "ok" /\ valid)
       /\ excused' = IF result = "notfound" \/ ~ valid THEN excused \cup {b} ELSE excused
       /\ LET status == serveHTTP(Get("blocks", "root"), result) IN
          CASE status = NotFound -> Skip /\ Advance
            [] status \notin {OK, NotFound} -> Fail
            [] status = OK ->
                 /\ Advance
                 /\ IF b \in forkChoice THEN Skip
                    ELSE \E pre \in resolveOrphanParentPostState(b) :
                           IF pre = None \/ ~ valid THEN Skip
                           ELSE stateCacheImport(b, processBlock(pre, b))
  /\ UNCHANGED <<tree, slot, finalized, lastPruned, planned, recorded>>
-------------------------------------------------------------------------------
(* Fork choice finalizes a canonical block (external). *)
Finalize ==
  /\ phase \in {"fetch", "import", "evaluate"}
  /\ \E b \in forkChoice \cap tree.canonical :
       /\ b > finalized
       /\ finalized' = b
  /\ UNCHANGED <<tree, phase, slot, queue, forkChoice, lastPruned, head, caches, planned,
                 excused, recorded, faults>>

(* All blocks are imported: the votes are injected and the slot evaluated,  *)
(* and recorded if it belongs to the chunk.                                 *)
buildRecord ==
  /\ phase = "import"
  /\ queue = << >>
  /\ phase' = "evaluate"
  /\ recorded' = IF slot >= StartSlot THEN Append(recorded, slot) ELSE recorded
  /\ UNCHANGED <<tree, slot, queue, forkChoice, finalized, lastPruned, head, caches, planned,
                 excused, faults>>

(* Bug: the states of pruned blocks are kept. *)
pruneNothing(gone) == importedState

(* pruneFinalizedBlocks *)
pruneFinalizedBlocks(gone) == Restrict(importedState, DOMAIN importedState \ gone)

(* The end of the loop: when the finalized block has changed, fork choice   *)
(* prunes (external: some of the blocks that do not descend from it) and    *)
(* the post-states of what it pruned go; old states and checkpoints go.     *)
pruneSlot ==
  /\ phase = "evaluate"
  /\ \E gone \in SUBSET {b \in forkChoice : finalized \notin Ancestry(b)} :
       /\ finalized = lastPruned => gone = {}
       /\ forkChoice' = forkChoice \ gone
       /\ importedState' = pruneFinalizedBlocks(gone)
  /\ lastPruned' = finalized
  /\ stateByRoot' = Restrict(stateByRoot,
       {b \in DOMAIN stateByRoot : SlotOf(b) >= slot - RecentStateCacheSlots})
  /\ checkpoints' = Restrict(checkpoints,
       {k \in DOMAIN checkpoints : k[1] >= Epoch(slot) - CheckpointCacheEpochs})
  /\ slot' = slot + 1
  /\ phase' = IF slot + 1 < EndSlot THEN "fetch" ELSE "done"
  /\ UNCHANGED <<tree, queue, finalized, head, planned, excused, recorded, faults>>

Next ==
  \/ bootstrapEngine
  \/ fetchSlotInstruction
  \/ importCanonical
  \/ importOrphan
  \/ Finalize
  \/ buildRecord
  \/ pruneSlot

Spec == Init /\ [][Next]_vars
-------------------------------------------------------------------------------
Running == phase \in {"fetch", "import", "evaluate", "done"}

(* StatesExact: no block is ever processed on another block's state.  Every *)
(* state the engine keeps, under whatever key, is the post-state of the     *)
(* block the key names, and the head state is the one of the last canonical *)
(* block that was imported.                                                 *)
StatesExact ==
  /\ \A b \in DOMAIN importedState : importedState[b] = b
  /\ \A b \in DOMAIN stateByRoot : stateByRoot[b] = b
  /\ \A k \in DOMAIN checkpoints : checkpoints[k] = k[2]
  /\ Running => head = Max(tree.canonical \cap forkChoice)

(* CacheMatchesForkChoice: the post-states kept for orphans to come are     *)
(* those of the blocks fork choice knows: none is lost while a child may    *)
(* still need it, none stays behind when fork choice forgets its block.     *)
CacheMatchesForkChoice == Running => DOMAIN importedState = forkChoice

(* NothingLost: an orphan an instruction named is in fork choice when the   *)
(* slot is evaluated, unless it or an ancestor was not found or invalid, or *)
(* its branch leaves from before the checkpoint or from before what is      *)
(* final.  In particular a failing server never makes one disappear.        *)
NothingLost ==
  phase \in {"evaluate", "fetch", "done"} =>
    \A o \in planned \ forkChoice :
      \/ Ancestry(o) \cap excused # {}
      \/ finalized \notin Ancestry(o)

(* FailsOnlyOnFaults: the engine ends early only if a request failed; no    *)
(* instruction, order of imports or pruning makes it refuse a canonical     *)
(* block.  Otherwise it records each slot of its chunk once, in order.      *)
FailsOnlyOnFaults ==
  /\ phase = "failed" => faults > 0
  /\ phase = "done" => recorded = [i \in 1 .. EndSlot - StartSlot |-> StartSlot + i - 1]
===============================================================================
