------------------------- MODULE LodestarEngineProofs -------------------------
(***************************************************************************)
(* LodestarEngine for every block tree, chunk, cache size and pattern of   *)
(* failures.  The argument has two halves.  The first is about the tree:   *)
(* Ancestry unfolds along Parent, slots decrease along it, and the         *)
(* canonical blocks are one chain.  The second is the invariant: the head  *)
(* is the last canonical block imported (HeadLatest), pruning never        *)
(* reaches the blocks from the final one to the head (FinalKept), and a    *)
(* planned orphan is imported after its parent (QueueOrder, PlannedWhole), *)
(* so that every one of them is accounted for (Accounted).                 *)
(*                                                                         *)
(* All theorems rest on LodestarEngineAssumption, which has the warm-up    *)
(* begin before the chunk: WarmupStartSlot < StartSlot.  main.ts:121 also  *)
(* lets the two be equal (--warmup-epochs 0, or epoch 0); the theorems     *)
(* say nothing of that case, in which the first slot of a chunk is not     *)
(* recorded and FailsOnlyOnFaults, for one, is false.                      *)
(***************************************************************************)
EXTENDS LodestarEngine, SequenceTheorems, FiniteSetTheorems, WellFoundedInduction, TLAPS

(* TreeOK: the block tree the engine works on. *)
TreeOK ==
  /\ tree.canonical \subseteq Slots /\ WarmupStartSlot \in tree.canonical
  /\ tree.slot \in [Orphans -> Slots \ {WarmupStartSlot}]
  /\ tree.parent \in [Orphans -> tree.canonical \cup Orphans \cup {Before}]
  /\ \A o \in Orphans : SlotOf(tree.parent[o]) < SlotOf(o)

(* Numbers: canonical blocks, orphans and the marks are told apart. *)
LEMMA Numbers ==
  ASSUME TreeOK
  PROVE  /\ Slots \subseteq Nat /\ Orphans \subseteq Nat /\ Chain \subseteq Nat
         /\ tree.canonical \cap Orphans = {}
         /\ Before \notin Chain /\ None \notin Chain /\ Before \in Int /\ Before < 0
         /\ \A c \in tree.canonical : SlotOf(c) = c
         /\ \A b \in Chain : SlotOf(b) \in Slots
<1>1. Slots \subseteq Nat /\ Orphans \subseteq Nat /\ Slots \cap Orphans = {}
  BY LodestarEngineAssumption DEF Slots
<1>2. tree.canonical \cap Orphans = {} /\ Chain \subseteq Nat
  BY <1>1 DEF TreeOK, Chain
<1>3. Before \notin Chain /\ None \notin Chain /\ Before \in Int /\ Before < 0
  BY <1>2 DEF Before, None
<1>4. \A c \in tree.canonical : SlotOf(c) = c
  BY <1>2 DEF SlotOf
<1>5. \A b \in Chain : SlotOf(b) \in Slots
  BY <1>4 DEF TreeOK, SlotOf, Chain
<1> QED BY <1>1, <1>2, <1>3, <1>4, <1>5

(* MaxOf: Max names the largest element of a non-empty set of slots. *)
LEMMA MaxOf ==
  ASSUME NEW S, S \subseteq Slots, S # {}
  PROVE  Max(S) \in S /\ \A y \in S : Max(S) >= y
<1> DEFINE R == {ss \in Nat \X Nat : ss[1] < ss[2]}
           T == {EndSlot - x : x \in S}
<1>0. \A x \in S : x \in Nat /\ EndSlot - x \in Nat
  BY LodestarEngineAssumption DEF Slots
<1>1. IsWellFoundedOn(R, Nat)
  BY NatLessThanWellFounded DEF OpToRel
<1> HIDE DEF R
<1>2. T \subseteq Nat /\ T # {}
  BY <1>0
<1>3. PICK t \in T : \A y \in T : ~ (<<y, t>> \in R)
  <2> HIDE DEF T
  <2> QED BY <1>1, <1>2, WFMin
<1>4. PICK x \in S : t = EndSlot - x
  BY <1>3
<1>5. ASSUME NEW y \in S PROVE x >= y
  <2>1. ~ (<<EndSlot - y, EndSlot - x>> \in R)
    BY <1>3, <1>4
  <2>2. ~ (EndSlot - y < EndSlot - x)
    BY <1>0, <2>1 DEF R
  <2> QED BY <1>0, <2>2, LodestarEngineAssumption
<1> QED
  BY <1>5 DEF Max

(* MaxIs: an element that bounds the others is the Max. *)
LEMMA MaxIs ==
  ASSUME NEW S, S \subseteq Int, NEW x \in S, \A y \in S : y <= x
  PROVE  Max(S) = x
<1>1. Max(S) \in S /\ \A y \in S : Max(S) >= y
  BY DEF Max
<1>2. Max(S) \in Int /\ x \in Int /\ Max(S) >= x /\ Max(S) <= x
  BY <1>1
<1> HIDE DEF Max
<1> QED BY <1>2

(* ParentFacts: a parent lies in an earlier slot; the parent of a canonical *)
(* block is the canonical block before it.                                  *)
LEMMA ParentFacts ==
  ASSUME TreeOK
  PROVE  /\ \A b \in Chain : Parent(b) \in Chain \cup {Before}
         /\ \A b \in Chain : Parent(b) # Before => SlotOf(Parent(b)) < SlotOf(b)
         /\ \A c \in tree.canonical :
              /\ Parent(c) \in tree.canonical \cup {Before}
              /\ \A d \in tree.canonical : d < c => Parent(c) \in tree.canonical /\ d <= Parent(c)
              /\ Parent(c) # Before => Parent(c) < c
<1>n. /\ Slots \subseteq Nat /\ Orphans \subseteq Nat /\ Chain \subseteq Nat
      /\ tree.canonical \cap Orphans = {} /\ tree.canonical \subseteq Slots
      /\ Before \notin Chain
      /\ \A c \in tree.canonical : SlotOf(c) = c
  BY Numbers DEF TreeOK
<1>1. ASSUME NEW c \in tree.canonical
      PROVE  /\ Parent(c) \in tree.canonical \cup {Before}
             /\ \A d \in tree.canonical : d < c => Parent(c) \in tree.canonical /\ d <= Parent(c)
             /\ Parent(c) # Before => Parent(c) < c
  <2> DEFINE older == {d \in tree.canonical : d < c}
  <2>1. Parent(c) = IF older = {} THEN Before ELSE Max(older)
    BY <1>n DEF Parent
  <2>2. CASE older = {}
    BY <2>1, <2>2
  <2>3. CASE older # {}
    <3>1. Max(older) \in older /\ \A y \in older : Max(older) >= y
      <4> HIDE DEF older
      <4>1. older \subseteq Slots
        BY <1>n DEF older
      <4> QED BY <2>3, <4>1, MaxOf
    <3>2. Parent(c) \in older
      BY <2>1, <2>3, <3>1
    <3>3. \A y \in older : y <= Parent(c)
      BY <1>n, <2>1, <2>3, <3>1
    <3> QED BY <1>n, <3>2, <3>3
  <2> QED BY <2>2, <2>3
<1>2. ASSUME NEW b \in Orphans
      PROVE  Parent(b) \in Chain \cup {Before} /\ SlotOf(Parent(b)) < SlotOf(b)
  BY DEF TreeOK, Parent, Chain
<1>3. ASSUME NEW b \in Chain
      PROVE  /\ Parent(b) \in Chain \cup {Before}
             /\ Parent(b) # Before => SlotOf(Parent(b)) < SlotOf(b)
  <2>1. CASE b \in Orphans
    BY <1>2, <2>1
  <2>2. CASE b \in tree.canonical
    BY <1>1, <1>n, <2>2 DEF Chain
  <2> QED BY <2>1, <2>2 DEF Chain
<1> QED BY <1>1, <1>3
-------------------------------------------------------------------------------
(* IsClosed: what Ancestry is the smallest of. *)
IsClosed(S) == S \subseteq Chain /\ \A c \in S : Parent(c) \in S \cup {Before}

(* AncestryIs: membership in Ancestry. *)
LEMMA AncestryIs ==
  \A a, b : a \in Ancestry(b) <=> a \in Chain /\ \A S : IsClosed(S) /\ b \in S => a \in S
<1> SUFFICES ASSUME NEW a, NEW b
             PROVE  a \in Ancestry(b) <=> a \in Chain /\ \A S : IsClosed(S) /\ b \in S => a \in S
  OBVIOUS
<1>1. a \in Ancestry(b) <=>
        a \in Chain /\ \A S \in {S \in SUBSET Chain :
                                   b \in S /\ \A c \in S : Parent(c) \in S \cup {Before}} : a \in S
  BY DEF Ancestry
<1> QED BY <1>1 DEF IsClosed

(* AncestryClosed: Ancestry(b) holds b, is closed, and is in every closed   *)
(* set that holds b.                                                        *)
LEMMA AncestryClosed ==
  ASSUME TreeOK, NEW b \in Chain
  PROVE  /\ b \in Ancestry(b) /\ IsClosed(Ancestry(b))
         /\ \A S : IsClosed(S) /\ b \in S => Ancestry(b) \subseteq S
<1>1. b \in Ancestry(b)
  BY AncestryIs
<1>2. IsClosed(Ancestry(b))
  <2>1. Ancestry(b) \subseteq Chain
    BY AncestryIs
  <2>2. ASSUME NEW c \in Ancestry(b), Parent(c) # Before PROVE Parent(c) \in Ancestry(b)
    <3>1. Parent(c) \in Chain
      BY <2>1, <2>2, ParentFacts
    <3>2. ASSUME NEW S, IsClosed(S), b \in S PROVE Parent(c) \in S
      <4>1. c \in S
        BY <3>2, AncestryIs
      <4> QED BY <2>2, <3>2, <4>1 DEF IsClosed
    <3> QED BY <3>1, <3>2, AncestryIs
  <2> QED BY <2>1, <2>2 DEF IsClosed
<1> QED BY <1>1, <1>2, AncestryIs

(* AncestryTrans: an ancestor's ancestors are ancestors. *)
LEMMA AncestryTrans ==
  ASSUME TreeOK, NEW c \in Chain, NEW b \in Ancestry(c)
  PROVE  Ancestry(b) \subseteq Ancestry(c)
<1>1. b \in Chain
  BY AncestryIs
<1> QED BY <1>1, AncestryClosed

(* AncestryUp: the ancestors of a block are the block and those of its      *)
(* parent.                                                                  *)
LEMMA AncestryUp ==
  ASSUME TreeOK, NEW b \in Chain
  PROVE  /\ Parent(b) # Before => Parent(b) \in Ancestry(b)
         /\ Parent(b) # Before => Ancestry(b) = {b} \cup Ancestry(Parent(b))
         /\ Parent(b) = Before => Ancestry(b) = {b}
<1>1. b \in Ancestry(b) /\ IsClosed(Ancestry(b))
  BY AncestryClosed
<1>2. CASE Parent(b) = Before
  <2>1. IsClosed({b})
    BY <1>2 DEF IsClosed
  <2> QED BY <1>1, <1>2, <2>1, AncestryClosed
<1>3. CASE Parent(b) # Before
  <2>1. Parent(b) \in Chain /\ Parent(b) \in Ancestry(b)
    BY <1>1, <1>3, ParentFacts DEF IsClosed
  <2>2. Ancestry(Parent(b)) \subseteq Ancestry(b)
    BY <2>1, AncestryTrans
  <2>3. Parent(b) \in Ancestry(Parent(b)) /\ IsClosed(Ancestry(Parent(b)))
    BY <2>1, AncestryClosed
  <2>4. IsClosed({b} \cup Ancestry(Parent(b)))
    BY <2>3 DEF IsClosed
  <2>5. Ancestry(b) \subseteq {b} \cup Ancestry(Parent(b))
    BY <2>4, AncestryClosed
  <2> QED BY <1>1, <1>3, <2>1, <2>2, <2>5
<1> QED BY <1>2, <1>3

(* AncestrySlots: an ancestor lies in an earlier slot. *)
LEMMA AncestrySlots ==
  ASSUME TreeOK, NEW b \in Chain, NEW a \in Ancestry(b)
  PROVE  a \in Chain /\ (a # b => SlotOf(a) < SlotOf(b))
<1> DEFINE S == {x \in Chain : x = b \/ SlotOf(x) < SlotOf(b)}
<1>1. \A x \in Chain : SlotOf(x) \in Nat
  BY Numbers
<1>2. ASSUME NEW x \in S, Parent(x) # Before PROVE Parent(x) \in S
  <2>1. x \in Chain /\ (x = b \/ SlotOf(x) < SlotOf(b))
    OBVIOUS
  <2>2. Parent(x) \in Chain /\ SlotOf(Parent(x)) < SlotOf(x)
    BY <1>2, <2>1, ParentFacts
  <2> QED BY <1>1, <2>1, <2>2
<1>3. IsClosed(S)
  BY <1>2 DEF IsClosed
<1>4. a \in S
  BY <1>3, AncestryClosed
<1> QED BY <1>4

(* AncestryCanonical: the canonical blocks are one chain. *)
LEMMA AncestryCanonical ==
  ASSUME TreeOK, NEW c \in tree.canonical
  PROVE  \A d \in tree.canonical : c <= d => c \in Ancestry(d)
<1> DEFINE R == {ss \in Nat \X Nat : ss[1] < ss[2]}
           D == {d \in tree.canonical : c <= d /\ c \notin Ancestry(d)}
<1>1. IsWellFoundedOn(R, Nat)
  BY NatLessThanWellFounded DEF OpToRel
<1>n. tree.canonical \subseteq Nat /\ tree.canonical \subseteq Chain /\ Before \notin tree.canonical
  BY Numbers DEF TreeOK, Chain
<1> HIDE DEF R
<1>2. D = {}
  <2> SUFFICES ASSUME D # {} PROVE FALSE
    OBVIOUS
  <2>1. PICK d \in D : \A y \in D : ~ (<<y, d>> \in R)
    <3>1. D \subseteq Nat
      BY <1>n
    <3> HIDE DEF D
    <3> QED BY <1>1, <3>1, WFMin
  <2>2. d \in tree.canonical /\ c <= d /\ c \notin Ancestry(d) /\ d \in Chain
    BY <1>n, <2>1
  <2>3. c # d
    BY <2>2, AncestryClosed
  <2>4. c < d
    BY <1>n, <2>2, <2>3
  <2>5. Parent(d) \in tree.canonical /\ c <= Parent(d) /\ Parent(d) # Before /\ Parent(d) < d
    BY <1>n, <2>2, <2>4, ParentFacts
  <2>6. Ancestry(d) = {d} \cup Ancestry(Parent(d))
    BY <2>2, <2>5, AncestryUp
  <2>7. Parent(d) \in D
    BY <2>2, <2>5, <2>6
  <2>8. <<Parent(d), d>> \in R
    BY <1>n, <2>2, <2>5 DEF R
  <2> QED BY <2>1, <2>7, <2>8
<1> QED BY <1>2
-------------------------------------------------------------------------------
(* Types: where the loop is, and what its sets and sequences hold. *)
Types ==
  /\ phase \in {"boot", "fetch", "import", "evaluate", "done", "failed"}
  /\ slot \in WarmupStartSlot .. EndSlot
  /\ phase \in {"fetch", "import", "evaluate"} => slot \in WarmupStartSlot + 1 .. EndSlot - 1
  /\ phase = "done" => slot = EndSlot
  /\ queue \in Seq(Chain)
  /\ forkChoice \subseteq Chain
  /\ planned \subseteq Orphans /\ excused \subseteq Orphans
  /\ recorded \in Seq(Nat)
  /\ faults \in Nat

(* Booting: nothing has happened before the checkpoint is loaded. *)
Booting ==
  phase = "boot" =>
    /\ slot = WarmupStartSlot /\ queue = << >> /\ forkChoice = {}
    /\ DOMAIN importedState = {} /\ DOMAIN stateByRoot = {} /\ DOMAIN checkpoints = {}
    /\ planned = {} /\ recorded = << >>

(* Exact: what the three caches hold. *)
Exact ==
  /\ \A b \in DOMAIN importedState : importedState[b] = b
  /\ \A b \in DOMAIN stateByRoot : stateByRoot[b] = b
  /\ \A k \in DOMAIN checkpoints : checkpoints[k] = k[2]

(* Imported: the last slot whose canonical block, if any, was imported. *)
Imported ==
  IF \/ phase = "evaluate"
     \/ phase = "import" /\ ~ (queue # << >> /\ Head(queue) = slot)
  THEN slot ELSE slot - 1

(* HeadLatest: the head state is that of the last canonical block up to     *)
(* there, and fork choice knows no later one.                               *)
HeadLatest ==
  Running =>
    /\ head \in tree.canonical \cap forkChoice /\ head <= Imported
    /\ \A c \in tree.canonical : c <= Imported => c <= head
    /\ \A c \in tree.canonical \cap forkChoice : c <= head

(* FinalKept: what is final is known, and so are the canonical blocks since. *)
FinalKept ==
  Running =>
    /\ finalized \in tree.canonical \cap forkChoice
    /\ \A c \in tree.canonical : finalized <= c /\ c <= head => c \in forkChoice

(* QueueOrder: the canonical block, if it is there, comes first, then the   *)
(* orphans, a parent before its children.                                   *)
QueueOrder ==
  phase = "import" =>
    /\ \A i \in 1 .. Len(queue) :
         queue[i] \in planned \/ (i = 1 /\ queue[i] = slot /\ slot \in tree.canonical)
    /\ \A i, j \in 1 .. Len(queue) :
         i < j /\ queue[i] \in Orphans => SlotOf(queue[i]) <= SlotOf(queue[j])

(* PlannedWhole: an orphan is planned when it is due, with its ancestors. *)
PlannedWhole ==
  \A o \in planned :
    /\ SlotOf(o) <= slot
    /\ Parent(o) \in Orphans => Parent(o) \in planned

(* Accounted: NothingLost, but for the blocks that are still in the queue. *)
Accounted ==
  Running =>
    \A o \in planned \ forkChoice :
      \/ phase = "import" /\ \E i \in 1 .. Len(queue) : queue[i] = o
      \/ Ancestry(o) \cap excused # {}
      \/ finalized \notin Ancestry(o)

(* Recorded: the slots recorded so far. *)
Recorded ==
  Running =>
    LET n == (IF phase = "evaluate" THEN slot + 1 ELSE slot) - StartSlot IN
    /\ Len(recorded) = IF n < 0 THEN 0 ELSE n
    /\ \A i \in 1 .. Len(recorded) : recorded[i] = StartSlot + i - 1

(* Blamed: the engine gives up only when a request failed. *)
Blamed == phase = "failed" => faults > 0

IInv ==
  /\ TreeOK /\ Types /\ Booting /\ Exact /\ CacheMatchesForkChoice /\ HeadLatest /\ FinalKept
  /\ QueueOrder /\ PlannedWhole /\ Accounted /\ Recorded /\ Blamed
-------------------------------------------------------------------------------
(* Frame: the tree does not change, and with it what is said of it. *)
LEMMA Frame ==
  ASSUME TreeOK, tree' = tree
  PROVE  /\ TreeOK' /\ Chain' = Chain
         /\ \A b : SlotOf(b)' = SlotOf(b)
         /\ \A b : Parent(b)' = Parent(b)
         /\ \A b : Ancestry(b)' = Ancestry(b)
<1>1. Chain' = Chain /\ \A b : SlotOf(b)' = SlotOf(b)
  BY DEF Chain, SlotOf
<1>2. \A b : Parent(b)' = Parent(b)
  BY DEF Parent
<1>3. \A b : Ancestry(b)' = Ancestry(b)
  BY <1>1, <1>2 DEF Ancestry
<1>4. TreeOK'
  BY <1>1 DEF TreeOK
<1> QED BY <1>1, <1>2, <1>3, <1>4

(* Served: what the server answers to the engine's requests.  In particular *)
(* each slot the loop asks for lies after the worker's checkpoint.          *)
LEMMA Served ==
  ASSUME NEW result \in {"ok", "notfound", "error"}
  PROVE  /\ serveHTTP(Get("states", "slot"), result) = OK <=> result = "ok"
         /\ serveHTTP(Get("blocks", "slot"), result) = OK <=> result = "ok"
         /\ serveHTTP(Get("blocks", "root"), result) = OK <=> result = "ok"
         /\ serveHTTP(Get("blocks", "root"), result) = NotFound <=> result = "notfound"
         /\ slot \in WarmupStartSlot + 1 .. EndSlot =>
              (serveHTTP(Get("slot", "slot"), result) = OK <=> result = "ok")
<1> USE DEF serveHTTP, Get, handleBlock, handleState, handleSlot, acceptsSSZ, parseBlockID,
        writeBackendResult, OK, NotFound, InternalServerError, NotAcceptable, BadRequest,
        MethodNotAllowed
<1>1. serveHTTP(Get("states", "slot"), result) = OK <=> result = "ok"
  OBVIOUS
<1>2. serveHTTP(Get("blocks", "slot"), result) = OK <=> result = "ok"
  OBVIOUS
<1>3. /\ serveHTTP(Get("blocks", "root"), result) = OK <=> result = "ok"
      /\ serveHTTP(Get("blocks", "root"), result) = NotFound <=> result = "notfound"
  OBVIOUS
<1>4. slot \in WarmupStartSlot + 1 .. EndSlot =>
        (serveHTTP(Get("slot", "slot"), result) = OK <=> result = "ok")
  BY LodestarEngineAssumption
<1> QED BY <1>1, <1>2, <1>3, <1>4

(* BootStep: the checkpoint block is the head, final, and all there is. *)
LEMMA BootStep == ASSUME IInv, bootstrapEngine PROVE IInv'
<1> USE LodestarEngineAssumption
<1>1. PICK result \in Fetched :
        /\ CountFault(result = "ok")
        /\ IF serveHTTP(Get("states", "slot"), result) = OK
           THEN /\ phase' = "fetch"
                /\ slot' = slot + 1
                /\ forkChoice' = {slot}
                /\ finalized' = slot /\ lastPruned' = slot
                /\ head' = slot
                /\ importedState' = Put(importedState, slot, slot)
                /\ stateByRoot' = Put(stateByRoot, slot, slot)
                /\ checkpoints' = Put(checkpoints, <<Epoch(slot), slot>>, slot)
           ELSE /\ phase' = "failed"
                /\ UNCHANGED <<slot, forkChoice, finalized, lastPruned, head, caches>>
  BY DEF bootstrapEngine
<1>2. /\ phase = "boot" /\ UNCHANGED <<tree, queue, planned, excused, recorded>>
      /\ slot = WarmupStartSlot /\ queue = << >> /\ forkChoice = {}
      /\ DOMAIN importedState = {} /\ DOMAIN stateByRoot = {} /\ DOMAIN checkpoints = {}
      /\ planned = {} /\ recorded = << >>
  BY DEF bootstrapEngine, IInv, Booting
<1>3. TreeOK /\ TreeOK' /\ Chain' = Chain
  BY <1>2, Frame DEF IInv
<1>4. serveHTTP(Get("states", "slot"), result) = OK <=> result = "ok"
  BY Served DEF Fetched
<1>5. CASE result = "ok"
  <2>1. /\ phase' = "fetch" /\ slot' = WarmupStartSlot + 1
        /\ forkChoice' = {WarmupStartSlot} /\ finalized' = WarmupStartSlot
        /\ head' = WarmupStartSlot /\ faults' = faults
    BY <1>1, <1>2, <1>4, <1>5 DEF CountFault
  <2>2. /\ DOMAIN importedState' = {WarmupStartSlot}
        /\ DOMAIN stateByRoot' = {WarmupStartSlot}
        /\ DOMAIN checkpoints' = {<<Epoch(slot), WarmupStartSlot>>}
        /\ Exact'
    <3>1. /\ importedState' = Put(importedState, slot, slot)
          /\ stateByRoot' = Put(stateByRoot, slot, slot)
          /\ checkpoints' = Put(checkpoints, <<Epoch(slot), slot>>, slot)
      BY <1>1, <1>4, <1>5
    <3>2. /\ DOMAIN importedState' = {slot} /\ importedState'[slot] = slot
          /\ DOMAIN stateByRoot' = {slot} /\ stateByRoot'[slot] = slot
      BY <1>2, <3>1 DEF Put
    <3>3. /\ DOMAIN checkpoints' = {<<Epoch(slot), slot>>}
          /\ checkpoints'[<<Epoch(slot), slot>>] = slot
      BY <1>2, <3>1 DEF Put
    <3> QED BY <1>2, <3>2, <3>3 DEF Exact
  <2>3. Types' /\ Booting' /\ CacheMatchesForkChoice'
    BY <1>2, <1>3, <2>1, <2>2 DEF IInv, TreeOK, Types, Booting, CacheMatchesForkChoice, Chain
  <2>4. HeadLatest' /\ FinalKept'
    BY <1>2, <1>3, <2>1 DEF TreeOK, HeadLatest, FinalKept, Imported, Running, Slots
  <2>5. QueueOrder' /\ PlannedWhole' /\ Accounted' /\ Recorded' /\ Blamed'
    BY <1>2, <2>1 DEF QueueOrder, PlannedWhole, Accounted, Recorded, Blamed, Running
  <2> QED BY <1>3, <2>2, <2>3, <2>4, <2>5 DEF IInv
<1>6. CASE result # "ok"
  <2>1. /\ phase' = "failed" /\ faults' = faults + 1
        /\ UNCHANGED <<slot, forkChoice, finalized, lastPruned, head, caches>>
    BY <1>1, <1>4, <1>6 DEF CountFault
  <2> QED
    BY <1>2, <1>3, <2>1 DEF IInv, Types, Booting, Exact, CacheMatchesForkChoice, HeadLatest,
       FinalKept, QueueOrder, PlannedWhole, Accounted, Recorded, Blamed, Running, caches
<1> QED BY <1>5, <1>6

(* FailStep: giving up keeps what was exact exact. *)
LEMMA FailStep ==
  ASSUME IInv, Fail, UNCHANGED <<tree, slot, planned, recorded>>, excused' \subseteq Orphans,
         faults' = faults + 1
  PROVE  IInv'
<1>1. TreeOK' /\ Chain' = Chain /\ (\A b : SlotOf(b)' = SlotOf(b)) /\ (\A b : Parent(b)' = Parent(b))
  BY Frame DEF IInv
<1>2. /\ phase' = "failed" /\ queue' = << >>
      /\ UNCHANGED <<forkChoice, head, importedState, stateByRoot, checkpoints>>
  BY DEF Fail, caches
<1>3. Types' /\ Booting' /\ Blamed'
  BY <1>1, <1>2 DEF IInv, Types, Booting, Blamed
<1>4. Exact' /\ PlannedWhole'
  BY <1>1, <1>2 DEF IInv, Exact, PlannedWhole
<1> QED
  BY <1>1, <1>2, <1>3, <1>4 DEF IInv, CacheMatchesForkChoice, HeadLatest, FinalKept, QueueOrder,
     Accounted, Recorded, Running

(* FinalizeStep: what descends from the new final block descends from the   *)
(* old one.                                                                 *)
LEMMA FinalizeStep == ASSUME IInv, Finalize PROVE IInv'
<1>1. /\ TreeOK /\ TreeOK' /\ Chain' = Chain
      /\ \A b : SlotOf(b)' = SlotOf(b)
      /\ \A b : Parent(b)' = Parent(b)
      /\ \A b : Ancestry(b)' = Ancestry(b)
  BY Frame DEF IInv, Finalize
<1>2. /\ phase \in {"fetch", "import", "evaluate"}
      /\ finalized' \in tree.canonical \cap forkChoice /\ finalized' > finalized
      /\ UNCHANGED <<tree, phase, slot, queue, forkChoice, lastPruned, head, importedState,
                     stateByRoot, checkpoints, planned, excused, recorded, faults>>
  BY DEF Finalize, caches
<1>3. Running /\ finalized \in tree.canonical /\ tree.canonical \subseteq Chain /\ tree.canonical \subseteq Nat
  BY <1>1, <1>2, Numbers DEF IInv, FinalKept, Running, Chain, TreeOK
<1>4. \A o \in Orphans : finalized' \in Ancestry(o) => finalized \in Ancestry(o)
  <2>1. finalized \in Ancestry(finalized')
    BY <1>1, <1>2, <1>3, AncestryCanonical
  <2> QED BY <1>1, <2>1, AncestryTrans DEF Chain
<1>5. Accounted'
  BY <1>1, <1>2, <1>3, <1>4 DEF IInv, Types, Accounted, Running
<1>6. FinalKept'
  <2>1. \A c \in tree.canonical : finalized' <= c => finalized <= c
    BY <1>2, <1>3
  <2> QED BY <1>2, <1>3, <2>1 DEF IInv, FinalKept, Running
<1>7. Types' /\ Booting' /\ Exact' /\ CacheMatchesForkChoice' /\ HeadLatest'
  BY <1>1, <1>2 DEF IInv, Types, Booting, Exact, CacheMatchesForkChoice, HeadLatest, Imported, Running
<1>8. QueueOrder' /\ PlannedWhole' /\ Recorded' /\ Blamed'
  BY <1>1, <1>2 DEF IInv, QueueOrder, PlannedWhole, Recorded, Blamed, Running
<1> QED BY <1>1, <1>5, <1>6, <1>7, <1>8 DEF IInv

(* NamedFacts: an orphan is named when it is due, and not without its       *)
(* ancestors.                                                               *)
LEMMA NamedFacts ==
  ASSUME TreeOK, slot \in Nat, NEW named \in SUBSET Orphans, Nameable(named)
  PROVE  \A x \in named :
           SlotOf(x) <= slot /\ (Parent(x) \in Orphans => Parent(x) \in planned \cup named)
<1> DEFINE due == {o \in named : SlotOf(o) = slot}
           older == (UNION {Ancestry(o) : o \in due}) \cap Orphans
<1>1. named \subseteq due \cup older /\ older \subseteq named \cup planned
  BY DEF Nameable
<1>2. \A b \in Chain : SlotOf(b) \in Nat
  BY Numbers
<1> SUFFICES ASSUME NEW x \in named
             PROVE  SlotOf(x) <= slot /\ (Parent(x) \in Orphans => Parent(x) \in planned \cup named)
  OBVIOUS
<1>3. PICK d \in due : x \in Ancestry(d)
  <2>1. CASE x \in due
    BY <2>1, AncestryClosed DEF Chain
  <2>2. CASE x \in older
    BY <2>2
  <2> QED BY <1>1, <2>1, <2>2
<1>4. d \in Chain /\ x \in Chain /\ SlotOf(d) = slot
  BY DEF Chain
<1>5. SlotOf(x) <= slot
  BY <1>2, <1>3, <1>4, AncestrySlots
<1>6. ASSUME Parent(x) \in Orphans PROVE Parent(x) \in planned \cup named
  <2>1. Parent(x) # Before
    BY <1>6, Numbers DEF Chain
  <2>2. Parent(x) \in Ancestry(d)
    BY <1>3, <1>4, <2>1, AncestryUp, AncestryTrans
  <2>3. Parent(x) \in older
    <3>1. Ancestry(d) \in {Ancestry(o) : o \in due}
      BY <1>3
    <3> QED BY <1>6, <2>2, <3>1
  <2> QED BY <1>1, <2>3
<1> QED BY <1>5, <1>6

(* Lists: q lists the named orphans, by slot, after the canonical           *)
(* block of the slot.                                                       *)
Lists(q, named) ==
  /\ q \in Seq(Chain)
  /\ slot \in tree.canonical => Len(q) > 0 /\ q[1] = slot
  /\ \A i \in 1 .. Len(q) : q[i] \in named \/ (i = 1 /\ q[i] = slot /\ slot \in tree.canonical)
  /\ \A x \in named : \E i \in 1 .. Len(q) : q[i] = x
  /\ \A i, j \in 1 .. Len(q) : i < j /\ q[i] \in Orphans => SlotOf(q[i]) <= SlotOf(q[j])

(* ImportsFacts: the canonical block of the slot comes first; the named     *)
(* orphans follow by slot.                                                  *)
LEMMA ImportsFacts ==
  ASSUME TreeOK, NEW named \in SUBSET Orphans, NEW order \in Orders(named), NEW q, q = Imports(order)
  PROVE  Lists(q, named)
<1> USE DEF Lists
<1> DEFINE k == Cardinality(named)
<1>n. /\ tree.canonical \cap Orphans = {} /\ tree.canonical \subseteq Chain /\ Orphans \subseteq Chain
      /\ \A b \in Chain : SlotOf(b) \in Nat
  BY Numbers DEF Chain
<1>1. k \in Nat
  BY FS_Subset, FS_CardinalityType, LodestarEngineAssumption
<1>2. /\ order \in [1 .. k -> named]
      /\ \A o \in named : \E i \in 1 .. k : order[i] = o
      /\ \A i, j \in 1 .. k : i < j => SlotOf(order[i]) <= SlotOf(order[j])
  <2>1. /\ order \in [1 .. k -> named]
        /\ \A o \in named : \E i \in DOMAIN order : order[i] = o
        /\ \A i, j \in DOMAIN order : i < j => \/ SlotOf(order[i]) < SlotOf(order[j])
                                               \/ SlotOf(order[i]) = SlotOf(order[j])
    BY DEF Orders
  <2>2. \A i \in 1 .. k : order[i] \in named /\ SlotOf(order[i]) \in Nat
    BY <1>n, <2>1
  <2> HIDE DEF k
  <2>3. DOMAIN order = 1 .. k
    BY <2>1
  <2> QED BY <2>1, <2>2, <2>3
<1> HIDE DEF k
<1>3. order \in Seq(Chain) /\ Len(order) = k
  <2>1. order \in [1 .. k -> Chain]
    BY <1>n, <1>2
  <2> QED BY <1>1, <2>1
<1>4. CASE slot \notin tree.canonical
  BY <1>2, <1>3, <1>4, <1>1 DEF Imports
<1>5. CASE slot \in tree.canonical
  <2>1. q = <<slot>> \o order
    BY <1>5 DEF Imports
  <2>2. q \in Seq(Chain) /\ Len(q) = k + 1 /\ q[1] = slot
    BY <1>n, <1>1, <1>3, <1>5, <2>1, ConcatProperties
  <2>3. \A i \in 1 .. k : q[i + 1] = order[i]
    BY <1>1, <1>3, <2>1
  <2>4. ASSUME NEW i \in 1 .. Len(q), i # 1
        PROVE  i - 1 \in 1 .. k /\ q[i] = order[i - 1]
    <3>1. i - 1 \in 1 .. k /\ (i - 1) + 1 = i
      BY <1>1, <2>2, <2>4
    <3> QED BY <2>3, <3>1
  <2>5. \A i \in 1 .. Len(q) : q[i] \in named \/ (i = 1 /\ q[i] = slot /\ slot \in tree.canonical)
    BY <1>2, <1>5, <2>2, <2>4
  <2>6. ASSUME NEW x \in named PROVE \E i \in 1 .. Len(q) : q[i] = x
    <3>1. PICK i \in 1 .. k : order[i] = x
      BY <1>2
    <3>2. i + 1 \in 1 .. Len(q)
      BY <1>1, <2>2
    <3> QED BY <2>3, <3>1, <3>2
  <2>7. ASSUME NEW i \in 1 .. Len(q), NEW j \in 1 .. Len(q), i < j, q[i] \in Orphans
        PROVE  SlotOf(q[i]) <= SlotOf(q[j])
    <3>1. i # 1 /\ j # 1
      BY <1>n, <1>5, <2>2, <2>7
    <3>2. /\ i - 1 \in 1 .. k /\ q[i] = order[i - 1]
          /\ j - 1 \in 1 .. k /\ q[j] = order[j - 1] /\ i - 1 < j - 1
      BY <2>4, <2>7, <3>1
    <3> QED BY <1>2, <3>2
  <2> QED BY <1>5, <1>1, <2>2, <2>5, <2>6, <2>7
<1> QED BY <1>4, <1>5

(* FetchStep: the queue of a slot is the one its instruction asks for. *)
LEMMA FetchStep == ASSUME IInv, fetchSlotInstruction PROVE IInv'
<1> USE LodestarEngineAssumption
<1>1. PICK result \in Fetched, named \in SUBSET Orphans :
        /\ Nameable(named)
        /\ CountFault(result = "ok")
        /\ IF serveHTTP(Get("slot", "slot"), result) = OK
           THEN /\ phase' = "import"
                /\ \E order \in Orders(named) : queue' = Imports(order)
                /\ planned' = planned \cup named
                /\ UNCHANGED <<forkChoice, head, caches>>
           ELSE Fail /\ UNCHANGED planned
  BY DEF fetchSlotInstruction
<1>2. /\ phase = "fetch" /\ Running
      /\ UNCHANGED <<tree, slot, finalized, lastPruned, excused, recorded>>
  BY DEF fetchSlotInstruction, Running
<1>3. slot \in WarmupStartSlot + 1 .. EndSlot - 1 /\ slot \in Nat
  BY <1>2 DEF IInv, Types
<1>4. serveHTTP(Get("slot", "slot"), result) = OK <=> result = "ok"
  BY <1>3, Served DEF Fetched
<1>5. CASE result # "ok"
  <2>1. faults' = faults + 1 /\ Fail /\ UNCHANGED planned
    BY <1>1, <1>4, <1>5 DEF CountFault
  <2> QED BY <1>2, <2>1, FailStep DEF IInv, Types
<1>6. CASE result = "ok"
  <2>1. /\ faults' = faults /\ phase' = "import" /\ planned' = planned \cup named
        /\ UNCHANGED <<forkChoice, head, importedState, stateByRoot, checkpoints>>
    BY <1>1, <1>4, <1>6 DEF CountFault, caches
  <2>2. PICK order \in Orders(named) : queue' = Imports(order)
    BY <1>1, <1>4, <1>6
  <2>3. /\ TreeOK /\ TreeOK' /\ Chain' = Chain
        /\ \A b : SlotOf(b)' = SlotOf(b)
        /\ \A b : Parent(b)' = Parent(b)
        /\ \A b : Ancestry(b)' = Ancestry(b)
    BY <1>2, Frame DEF IInv
  <2>4. /\ queue' \in Seq(Chain)
        /\ slot \in tree.canonical => Len(queue') > 0 /\ queue'[1] = slot
        /\ \A i \in 1 .. Len(queue') :
             queue'[i] \in named \/ (i = 1 /\ queue'[i] = slot /\ slot \in tree.canonical)
        /\ \A x \in named : \E i \in 1 .. Len(queue') : queue'[i] = x
        /\ \A i, j \in 1 .. Len(queue') :
             i < j /\ queue'[i] \in Orphans => SlotOf(queue'[i]) <= SlotOf(queue'[j])
    <3>1. Lists(queue', named)
      BY <2>2, <2>3, ImportsFacts
    <3> QED BY <3>1 DEF Lists
  <2>5. Types' /\ Booting' /\ Exact' /\ CacheMatchesForkChoice'
    BY <1>2, <1>3, <2>1, <2>3, <2>4 DEF IInv, Types, Booting, Exact, CacheMatchesForkChoice, Running
  <2>6. HeadLatest'
    <3>1. Imported = slot - 1
      BY <1>2 DEF Imported
    <3>2. CASE slot \in tree.canonical
      <4>1. queue' # << >> /\ Head(queue') = slot
        BY <2>4, <3>2
      <4>2. Imported' = slot - 1
        BY <1>2, <2>1, <4>1 DEF Imported
      <4> QED BY <1>2, <2>1, <3>1, <4>2 DEF IInv, HeadLatest, Running
    <3>3. CASE slot \notin tree.canonical
      <4>1. Imported' = slot \/ Imported' = slot - 1
        BY <1>2 DEF Imported
      <4>2. tree.canonical \subseteq Nat
        BY <2>3, Numbers DEF Chain
      <4>3. \A c \in tree.canonical : c <= slot => c <= slot - 1
        BY <1>3, <3>3, <4>2
      <4> QED BY <1>2, <1>3, <2>1, <3>1, <4>1, <4>2, <4>3 DEF IInv, HeadLatest, Running
    <3> QED BY <3>2, <3>3
  <2>7. FinalKept' /\ Recorded' /\ Blamed'
    BY <1>2, <2>1 DEF IInv, FinalKept, Recorded, Blamed, Running
  <2>8. QueueOrder'
    BY <1>2, <2>1, <2>3, <2>4 DEF QueueOrder
  <2>9. PlannedWhole'
    BY <1>1, <1>2, <1>3, <2>1, <2>3, NamedFacts DEF IInv, PlannedWhole
  <2>10. Accounted'
    BY <1>2, <2>1, <2>3, <2>4 DEF IInv, Accounted, Running
  <2> QED BY <2>3, <2>5, <2>6, <2>7, <2>8, <2>9, <2>10 DEF IInv
<1> QED BY <1>5, <1>6

(* Follows: q is what the queue holds after its first block, b: orphans     *)
(* only, in the queue's order, and every queued block but b.                *)
Follows(q, b) ==
  /\ b \in Chain /\ q \in Seq(Chain)
  /\ \A i \in 1 .. Len(q) : q[i] \in planned
  /\ \A i, j \in 1 .. Len(q) : i < j /\ q[i] \in Orphans => SlotOf(q[i]) <= SlotOf(q[j])
  /\ b \in Orphans => \A i \in 1 .. Len(q) : SlotOf(b) <= SlotOf(q[i])
  /\ \A x : (\E i \in 1 .. Len(queue) : queue[i] = x) =>
              x = b \/ \E i \in 1 .. Len(q) : q[i] = x

(* AdvanceQueue: taking the first block off the queue keeps its order, and  *)
(* leaves orphans only.                                                     *)
LEMMA AdvanceQueue ==
  ASSUME IInv, phase = "import", queue # << >>, NEW q, q = Tail(queue)
  PROVE  Follows(q, Head(queue))
<1> USE DEF Follows
<1>1. /\ queue \in Seq(Chain) /\ Len(queue) \in Nat /\ Len(queue) > 0
      /\ Head(queue) = queue[1] /\ queue[1] \in Chain
  BY DEF IInv, Types
<1>2. q \in Seq(Chain) /\ Len(q) = Len(queue) - 1 /\ \A i \in 1 .. Len(q) : q[i] = queue[i + 1]
  BY <1>1, HeadTailProperties
<1>3. /\ \A i \in 1 .. Len(queue) :
           queue[i] \in planned \/ (i = 1 /\ queue[i] = slot /\ slot \in tree.canonical)
      /\ \A i, j \in 1 .. Len(queue) :
           i < j /\ queue[i] \in Orphans => SlotOf(queue[i]) <= SlotOf(queue[j])
  BY DEF IInv, QueueOrder
<1>4. \A i \in 1 .. Len(q) : i + 1 \in 1 .. Len(queue) /\ i + 1 # 1 /\ 1 < i + 1
  BY <1>1, <1>2
<1>5. \A i, j \in 1 .. Len(q) : i < j => i + 1 < j + 1
  BY <1>1, <1>2
<1>6. \A i \in 1 .. Len(q) : q[i] \in planned
  BY <1>2, <1>3, <1>4
<1>7. \A i, j \in 1 .. Len(q) : i < j /\ q[i] \in Orphans => SlotOf(q[i]) <= SlotOf(q[j])
  BY <1>2, <1>3, <1>4, <1>5
<1>8. Head(queue) \in Orphans => \A i \in 1 .. Len(q) : SlotOf(Head(queue)) <= SlotOf(q[i])
  BY <1>1, <1>2, <1>3, <1>4
<1>9. ASSUME NEW i \in 1 .. Len(queue), queue[i] # Head(queue)
      PROVE  \E j \in 1 .. Len(q) : q[j] = queue[i]
  <2>1. i - 1 \in 1 .. Len(q) /\ (i - 1) + 1 = i
    BY <1>1, <1>2, <1>9
  <2> QED BY <1>2, <2>1
<1> QED BY <1>1, <1>2, <1>6, <1>7, <1>8, <1>9

(* ImportFacts: a block that is processed on its parent's state leaves the  *)
(* caches exact; they grow with fork choice.                                *)
LEMMA ImportFacts ==
  ASSUME IInv, NEW b \in Chain, stateCacheImport(b, b)
  PROVE  /\ Exact'
         /\ OnBlockAccepts(b) => /\ forkChoice' = forkChoice \cup {b}
                                 /\ DOMAIN importedState' = DOMAIN importedState \cup {b}
                                 /\ head' = IF b = slot THEN b ELSE head
         /\ ~ OnBlockAccepts(b) => UNCHANGED <<forkChoice, importedState, head>>
<1>1. stateByRoot' = Put(stateByRoot, b, b)
  BY DEF stateCacheImport
<1>2. \A x \in DOMAIN stateByRoot' : stateByRoot'[x] = x
  BY <1>1 DEF Put, IInv, Exact
<1>3. CASE OnBlockAccepts(b)
  <2>1. /\ forkChoice' = forkChoice \cup {b}
        /\ importedState' = Put(importedState, b, b)
        /\ checkpoints' = Put(checkpoints, <<Epoch(SlotOf(b)), b>>, b) \/ checkpoints' = checkpoints
        /\ head' = IF b = slot THEN b ELSE head
    BY <1>3 DEF stateCacheImport
  <2>2. /\ DOMAIN importedState' = DOMAIN importedState \cup {b}
        /\ \A x \in DOMAIN importedState' : importedState'[x] = x
    BY <2>1 DEF Put, IInv, Exact
  <2>3. \A k \in DOMAIN checkpoints' : checkpoints'[k] = k[2]
    <3>1. CASE checkpoints' = Put(checkpoints, <<Epoch(SlotOf(b)), b>>, b)
      <4> DEFINE key == <<Epoch(SlotOf(b)), b>>
      <4>1. key[2] = b
        OBVIOUS
      <4> HIDE DEF key
      <4> QED BY <3>1, <4>1 DEF Put, IInv, Exact, key
    <3>2. CASE checkpoints' = checkpoints
      BY <3>2 DEF IInv, Exact
    <3> QED BY <2>1, <3>1, <3>2
  <2> QED BY <1>2, <1>3, <2>1, <2>2, <2>3 DEF Exact
<1>4. CASE ~ OnBlockAccepts(b)
  <2>1. UNCHANGED <<forkChoice, importedState, checkpoints, head>>
    BY <1>4 DEF stateCacheImport
  <2> QED BY <1>2, <1>4, <2>1 DEF IInv, Exact
<1> QED BY <1>3, <1>4

(* CanonicalStep: the canonical block of a slot builds on the head, so that *)
(* it is processed on the right state and fork choice takes it.             *)
LEMMA CanonicalStep == ASSUME IInv, importCanonical PROVE IInv'
<1> USE LodestarEngineAssumption
<1> DEFINE b == Head(queue)
<1>1. PICK result \in Fetched :
        /\ CountFault(result = "ok")
        /\ CASE serveHTTP(Get("blocks", "slot"), result) # OK -> Fail
             [] serveHTTP(Get("blocks", "slot"), result) = OK ->
                  IF b \in forkChoice THEN Skip /\ Advance
                  ELSE IF OnBlockAccepts(b)
                  THEN stateCacheImport(b, processBlock(head, b)) /\ Advance
                  ELSE Fail
  BY DEF importCanonical
<1>2. /\ phase = "import" /\ Running /\ queue # << >> /\ b \notin Orphans
      /\ UNCHANGED <<tree, slot, finalized, lastPruned, planned, excused, recorded>>
  BY DEF importCanonical, Running
<1>3. serveHTTP(Get("blocks", "slot"), result) = OK <=> result = "ok"
  BY Served DEF Fetched
<1>4. CASE result # "ok"
  <2>1. faults' = faults + 1 /\ Fail
    BY <1>1, <1>3, <1>4 DEF CountFault
  <2> QED BY <1>2, <2>1, FailStep DEF IInv, Types
<1>5. CASE result = "ok"
  <2>1. /\ faults' = faults
        /\ IF b \in forkChoice THEN Skip /\ Advance
           ELSE IF OnBlockAccepts(b)
           THEN stateCacheImport(b, processBlock(head, b)) /\ Advance
           ELSE Fail
    BY <1>1, <1>3, <1>5 DEF CountFault
  <2>2. /\ TreeOK /\ TreeOK' /\ Chain' = Chain
        /\ \A x : SlotOf(x)' = SlotOf(x)
        /\ \A x : Parent(x)' = Parent(x)
        /\ \A x : Ancestry(x)' = Ancestry(x)
    BY <1>2, Frame DEF IInv
  <2>3. /\ tree.canonical \subseteq Chain /\ tree.canonical \subseteq Nat /\ Before \notin Chain
        /\ tree.canonical \cap Orphans = {} /\ \A c \in tree.canonical : SlotOf(c) = c
    BY <2>2, Numbers DEF Chain
  <2>4. b = slot /\ slot \in tree.canonical /\ slot \in Nat
    <3>1. queue \in Seq(Chain) /\ 1 \in 1 .. Len(queue) /\ b = queue[1]
      BY <1>2 DEF IInv, Types
    <3> QED BY <1>2, <2>3, <3>1 DEF IInv, Types, QueueOrder
  <2>5. Imported = slot - 1
    BY <1>2, <2>4 DEF Imported
  <2>6. /\ head \in tree.canonical \cap forkChoice /\ head <= slot - 1
        /\ \A c \in tree.canonical : c <= slot - 1 => c <= head
        /\ \A c \in tree.canonical \cap forkChoice : c <= head
    BY <1>2, <2>5 DEF IInv, HeadLatest
  <2>7. Parent(b) = head
    <3>1. head < slot
      BY <2>3, <2>4, <2>6
    <3>2. Parent(slot) \in tree.canonical /\ head <= Parent(slot) /\ Parent(slot) < slot
      BY <2>2, <2>3, <2>4, <2>6, <3>1, ParentFacts
    <3>3. Parent(slot) <= head
      BY <2>3, <2>4, <2>6, <3>2
    <3> QED BY <2>3, <2>4, <2>6, <3>2, <3>3
  <2>8. finalized \in tree.canonical \cap forkChoice /\ finalized <= head
    BY <1>2, <2>6 DEF IInv, FinalKept
  <2>9. OnBlockAccepts(b) /\ b \notin forkChoice
    <3>1. finalized < slot
      BY <2>3, <2>4, <2>6, <2>8
    <3>2. finalized \in Ancestry(slot)
      BY <2>2, <2>3, <2>4, <2>8, <3>1, AncestryCanonical
    <3>3. slot \notin forkChoice
      BY <2>3, <2>4, <2>6
    <3> QED BY <2>3, <2>4, <2>6, <2>7, <2>8, <3>1, <3>2, <3>3 DEF OnBlockAccepts
  <2>10. stateCacheImport(b, b) /\ phase' = "import" /\ queue' = Tail(queue)
    BY <2>1, <2>7, <2>9 DEF processBlock, Advance
  <2>11. /\ Exact' /\ forkChoice' = forkChoice \cup {slot}
         /\ DOMAIN importedState' = DOMAIN importedState \cup {slot} /\ head' = slot
    BY <2>3, <2>4, <2>9, <2>10, ImportFacts
  <2>12. /\ queue' \in Seq(Chain)
         /\ \A i \in 1 .. Len(queue') : queue'[i] \in planned
         /\ \A i, j \in 1 .. Len(queue') :
              i < j /\ queue'[i] \in Orphans => SlotOf(queue'[i]) <= SlotOf(queue'[j])
         /\ \A x : (\E i \in 1 .. Len(queue) : queue[i] = x) =>
                     x = b \/ \E i \in 1 .. Len(queue') : queue'[i] = x
    <3>1. Follows(queue', Head(queue))
      BY <1>2, <2>10, AdvanceQueue
    <3> QED BY <3>1 DEF Follows
  <2>13. Types' /\ Booting' /\ CacheMatchesForkChoice'
    BY <1>2, <2>1, <2>2, <2>3, <2>4, <2>10, <2>11, <2>12
    DEF IInv, Types, Booting, CacheMatchesForkChoice, Running
  <2>14. HeadLatest'
    <3>1. ~ (queue' # << >> /\ Head(queue') = slot)
      <4> SUFFICES ASSUME queue' # << >>, Head(queue') = slot PROVE FALSE
        OBVIOUS
      <4>1. 1 \in 1 .. Len(queue') /\ Head(queue') = queue'[1]
        BY <2>12
      <4> QED BY <2>3, <2>4, <2>12, <4>1 DEF IInv, Types
    <3>2. Imported' = slot
      BY <1>2, <2>10, <3>1 DEF Imported
    <3> QED BY <1>2, <2>3, <2>4, <2>6, <2>10, <2>11, <3>2 DEF HeadLatest
  <2>15. FinalKept'
    <3>1. \A c \in tree.canonical : c <= slot => c = slot \/ c <= head
      BY <2>3, <2>4, <2>6
    <3> QED BY <1>2, <2>8, <2>10, <2>11, <3>1 DEF IInv, FinalKept
  <2>16. QueueOrder' /\ PlannedWhole' /\ Recorded' /\ Blamed'
    BY <1>2, <2>2, <2>10, <2>12 DEF IInv, QueueOrder, PlannedWhole, Recorded, Blamed, Running
  <2>17. Accounted'
    <3>1. \A o \in planned \ forkChoice' : o \in planned \ forkChoice /\ o # b
      BY <2>4, <2>11
    <3> QED BY <1>2, <2>2, <2>10, <2>12, <3>1 DEF IInv, Accounted, Running
  <2> QED BY <2>2, <2>11, <2>13, <2>14, <2>15, <2>16, <2>17 DEF IInv
<1> QED BY <1>4, <1>5

(* OrphanNext: where the loop is when an orphan is next. *)
LEMMA OrphanNext ==
  ASSUME IInv, phase = "import", queue # << >>, Head(queue) \in Orphans
  PROVE  /\ Running /\ Head(queue) \in planned /\ Head(queue) # slot /\ Imported = slot
         /\ finalized \in tree.canonical \cap forkChoice /\ finalized # Head(queue)
         /\ slot \in Slots /\ slot \notin Orphans
<1>1. TreeOK /\ tree.canonical \cap Orphans = {} /\ Running
  BY Numbers DEF IInv, Running
<1>2. slot \in Slots /\ slot \notin Orphans
  BY LodestarEngineAssumption DEF IInv, Types, Slots
<1>3. queue \in Seq(Chain) /\ 1 \in 1 .. Len(queue) /\ Head(queue) = queue[1]
  BY DEF IInv, Types
<1>4. Head(queue) \in planned
  BY <1>1, <1>3 DEF IInv, QueueOrder
<1>5. Imported = slot
  BY <1>2 DEF Imported
<1> QED BY <1>1, <1>2, <1>4, <1>5 DEF IInv, FinalKept

(* OrphanLost: why an orphan whose parent is unknown is not imported. *)
LEMMA OrphanLost ==
  ASSUME IInv, phase = "import", queue # << >>, NEW b, b = Head(queue), b \in Orphans,
         Parent(b) \notin forkChoice
  PROVE  Ancestry(b) \cap excused # {} \/ finalized \notin Ancestry(b)
<1> DEFINE p == Parent(b)
<1>1. /\ Running /\ b \in planned /\ Imported = slot /\ slot \in Nat
      /\ finalized \in tree.canonical \cap forkChoice /\ finalized # b
  BY OrphanNext, LodestarEngineAssumption DEF Slots
<1>2. /\ TreeOK /\ b \in Chain /\ tree.canonical \subseteq Nat /\ tree.canonical \subseteq Chain
      /\ \A c \in tree.canonical : SlotOf(c) = c
      /\ \A x \in Chain : SlotOf(x) \in Nat
  BY Numbers DEF IInv, Chain
<1>3. p \in Chain \cup {Before} /\ (p # Before => SlotOf(p) < SlotOf(b))
  BY <1>2, ParentFacts
<1>4. CASE p = Before
  BY <1>1, <1>2, <1>4, AncestryUp
<1>5. ASSUME p # Before, Ancestry(p) \cap excused # {} \/ finalized \notin Ancestry(p)
      PROVE  Ancestry(b) \cap excused # {} \/ finalized \notin Ancestry(b)
  <2>1. Ancestry(b) = {b} \cup Ancestry(p)
    BY <1>2, <1>5, AncestryUp
  <2> HIDE DEF p
  <2> QED BY <1>1, <1>5, <2>1
<1>6. CASE p # Before /\ p \in Orphans
  <2>1. p \in planned \ forkChoice
    BY <1>1, <1>6 DEF IInv, PlannedWhole
  <2>2. ~ \E i \in 1 .. Len(queue) : queue[i] = p
    <3> SUFFICES ASSUME \E i \in 1 .. Len(queue) : queue[i] = p PROVE FALSE
      OBVIOUS
    <3>0. Follows(Tail(queue), b)
      BY AdvanceQueue
    <3>1. p = b \/ \E i \in 1 .. Len(Tail(queue)) : Tail(queue)[i] = p
      BY <3>0 DEF Follows
    <3>2. \A i \in 1 .. Len(Tail(queue)) : SlotOf(b) <= SlotOf(Tail(queue)[i])
      BY <3>0 DEF Follows
    <3>3. SlotOf(p) < SlotOf(b) /\ SlotOf(p) \in Nat /\ SlotOf(b) \in Nat
      BY <1>2, <1>3, <1>6
    <3> HIDE DEF p
    <3> QED BY <3>1, <3>2, <3>3
  <2>3. Ancestry(p) \cap excused # {} \/ finalized \notin Ancestry(p)
    BY <1>1, <2>1, <2>2 DEF IInv, Accounted
  <2> QED BY <1>5, <1>6, <2>3
<1>7. CASE p # Before /\ p \in tree.canonical
  <2>1. SlotOf(b) <= slot /\ p < SlotOf(b)
    BY <1>1, <1>2, <1>3, <1>7 DEF IInv, PlannedWhole
  <2>2. p <= slot
    BY <1>1, <1>2, <1>7, <2>1
  <2>3. p <= head
    BY <1>1, <1>7, <2>2 DEF IInv, HeadLatest
  <2>4. p < finalized
    <3>1. ~ (finalized <= p)
      BY <1>1, <1>7, <2>3 DEF IInv, FinalKept
    <3> QED BY <1>1, <1>2, <1>7, <3>1
  <2>5. finalized \notin Ancestry(p)
    BY <1>1, <1>2, <1>7, <2>4, AncestrySlots
  <2> QED BY <1>5, <1>7, <2>5
<1> QED BY <1>3, <1>4, <1>6, <1>7 DEF Chain

(* OrphanDone: an orphan is dealt with when it is known, excused, or lies   *)
(* on a branch that cannot be imported.                                     *)
LEMMA OrphanDone ==
  ASSUME IInv, phase = "import", queue # << >>, NEW b, b = Head(queue), b \in Orphans, Advance,
         UNCHANGED <<tree, slot, finalized, planned, recorded, head>>, faults' \in Nat, Exact',
         excused \subseteq excused', excused' \subseteq Orphans,
         \/ UNCHANGED <<forkChoice, importedState>>
         \/ /\ forkChoice' = forkChoice \cup {b}
            /\ DOMAIN importedState' = DOMAIN importedState \cup {b},
         \/ b \in forkChoice' \cup excused' \/ Ancestry(b) \cap excused # {}
         \/ finalized \notin Ancestry(b)
  PROVE  IInv'
<1>1. /\ Running /\ b \in planned /\ Imported = slot /\ slot \notin Orphans
      /\ finalized \in tree.canonical \cap forkChoice
  BY OrphanNext
<1>2. /\ TreeOK /\ b \in Chain /\ tree.canonical \cap Orphans = {}
  BY Numbers DEF IInv, Chain
<1>3. /\ TreeOK' /\ Chain' = Chain
      /\ \A x : SlotOf(x)' = SlotOf(x)
      /\ \A x : Parent(x)' = Parent(x)
      /\ \A x : Ancestry(x)' = Ancestry(x)
  BY <1>2, Frame
<1>4. phase' = "import" /\ queue' = Tail(queue)
  BY DEF Advance
<1>5. /\ queue' \in Seq(Chain)
      /\ \A i \in 1 .. Len(queue') : queue'[i] \in planned
      /\ \A i, j \in 1 .. Len(queue') :
           i < j /\ queue'[i] \in Orphans => SlotOf(queue'[i]) <= SlotOf(queue'[j])
      /\ \A x : (\E i \in 1 .. Len(queue) : queue[i] = x) =>
                  x = b \/ \E i \in 1 .. Len(queue') : queue'[i] = x
  <2>1. Follows(queue', Head(queue))
    BY <1>4, AdvanceQueue
  <2> QED BY <2>1 DEF Follows
<1>6. Types' /\ Booting' /\ CacheMatchesForkChoice'
  BY <1>1, <1>2, <1>3, <1>4, <1>5 DEF IInv, Types, Booting, CacheMatchesForkChoice, Running
<1>7. tree.canonical \cap forkChoice' = tree.canonical \cap forkChoice
  BY <1>2
<1>8. HeadLatest'
  <2>1. ~ (queue' # << >> /\ Head(queue') = slot)
    <3> SUFFICES ASSUME queue' # << >>, Head(queue') = slot PROVE FALSE
      OBVIOUS
    <3>1. 1 \in 1 .. Len(queue') /\ Head(queue') = queue'[1]
      BY <1>5
    <3> QED BY <1>1, <1>5, <3>1 DEF IInv, Types
  <2>2. Imported' = slot
    BY <1>4, <2>1 DEF Imported
  <2> QED BY <1>1, <1>7, <2>2 DEF IInv, HeadLatest
<1>9. FinalKept'
  BY <1>1, <1>7 DEF IInv, FinalKept
<1>10. QueueOrder' /\ PlannedWhole' /\ Recorded' /\ Blamed'
  BY <1>1, <1>3, <1>4, <1>5 DEF IInv, QueueOrder, PlannedWhole, Recorded, Blamed, Running
<1>11. Accounted'
  <2> SUFFICES ASSUME NEW o \in planned \ forkChoice'
               PROVE  \/ \E i \in 1 .. Len(queue') : queue'[i] = o
                      \/ Ancestry(o) \cap excused' # {}
                      \/ finalized \notin Ancestry(o)
    BY <1>3, <1>4 DEF Accounted
  <2>1. CASE o = b
    <3>1. b \in Ancestry(b)
      BY <1>2, AncestryClosed
    <3> QED BY <2>1, <3>1
  <2>2. CASE o # b
    <3>1. o \in planned \ forkChoice
      OBVIOUS
    <3> QED BY <1>1, <1>5, <2>2, <3>1 DEF IInv, Accounted
  <2> QED BY <2>1, <2>2
<1> QED BY <1>3, <1>6, <1>8, <1>9, <1>10, <1>11 DEF IInv

(* OrphanStep: an orphan is processed on its parent's own post-state, or    *)
(* skipped for a reason.                                                    *)
LEMMA OrphanStep == ASSUME IInv, importOrphan PROVE IInv'
<1> USE LodestarEngineAssumption
<1> DEFINE b == Head(queue)
<1>1. PICK result \in BlockSSZByRoot, valid \in BOOLEAN :
        /\ ~ valid => result = "ok" /\ faults < MaxFaults
        /\ CountFault(result = "ok" /\ valid)
        /\ excused' = IF result = "notfound" \/ ~ valid THEN excused \cup {b} ELSE excused
        /\ LET status == serveHTTP(Get("blocks", "root"), result) IN
           CASE status = NotFound -> Skip /\ Advance
             [] status \notin {OK, NotFound} -> Fail
             [] status = OK ->
                  /\ Advance
                  /\ IF b \in forkChoice THEN Skip
                     ELSE \E pre \in resolveOrphanParentPostState(b) :
                            IF pre = None \/ ~ valid THEN Skip
                            ELSE stateCacheImport(b, processBlock(pre, b))
  BY DEF importOrphan
<1>2. /\ phase = "import" /\ queue # << >> /\ b \in Orphans
      /\ UNCHANGED <<tree, slot, finalized, lastPruned, planned, recorded>>
  BY DEF importOrphan
<1>3. /\ result \in {"ok", "notfound", "error"}
      /\ serveHTTP(Get("blocks", "root"), result) = OK <=> result = "ok"
      /\ serveHTTP(Get("blocks", "root"), result) = NotFound <=> result = "notfound"
  BY Served DEF BlockSSZByRoot
<1>4. faults' \in Nat
  BY <1>1 DEF CountFault, IInv, Types
<1>5. excused \subseteq excused' /\ excused' \subseteq Orphans
  BY <1>1, <1>2 DEF IInv, Types
<1>6. ASSUME Skip PROVE UNCHANGED <<forkChoice, head, importedState, stateByRoot, checkpoints>> /\ Exact'
  BY <1>6 DEF Skip, caches, IInv, Exact
<1>7. CASE result = "error"
  <2>1. Fail /\ faults' = faults + 1
    BY <1>1, <1>3, <1>7 DEF CountFault, OK, NotFound
  <2> QED BY <1>2, <1>5, <2>1, FailStep
<1>8. CASE result = "notfound"
  <2>1. Skip /\ Advance /\ b \in excused'
    BY <1>1, <1>3, <1>8 DEF OK, NotFound
  <2> QED BY <1>2, <1>4, <1>5, <1>6, <2>1, OrphanDone
<1>9. CASE result = "ok"
  <2>1. /\ Advance
        /\ IF b \in forkChoice THEN Skip
           ELSE \E pre \in resolveOrphanParentPostState(b) :
                  IF pre = None \/ ~ valid THEN Skip
                  ELSE stateCacheImport(b, processBlock(pre, b))
    BY <1>1, <1>3, <1>9 DEF OK, NotFound
  <2>2. CASE b \in forkChoice
    BY <1>2, <1>4, <1>5, <1>6, <2>1, <2>2, OrphanDone
  <2>3. CASE b \notin forkChoice
    <3>1. PICK pre \in resolveOrphanParentPostState(b) :
                 IF pre = None \/ ~ valid THEN Skip
                 ELSE stateCacheImport(b, processBlock(pre, b))
      BY <2>1, <2>3
    <3>2. /\ Running /\ b \in planned /\ b # slot
          /\ finalized \in tree.canonical \cap forkChoice /\ finalized # b
      BY <1>2, OrphanNext
    <3>3. TreeOK /\ b \in Chain /\ None \notin Chain
      BY <1>2, Numbers DEF IInv, Chain
    <3>4. CASE ~ valid
      <4>1. Skip /\ b \in excused'
        BY <1>1, <3>1, <3>4
      <4> QED BY <1>2, <1>4, <1>5, <1>6, <2>1, <4>1, OrphanDone
    <3>5. CASE Parent(b) \notin forkChoice
      <4>1. Skip
        BY <3>1, <3>5 DEF resolveOrphanParentPostState
      <4>2. Ancestry(b) \cap excused # {} \/ finalized \notin Ancestry(b)
        BY <1>2, <3>5, OrphanLost
      <4> QED BY <1>2, <1>4, <1>5, <1>6, <2>1, <4>1, <4>2, OrphanDone
    <3>6. CASE valid /\ Parent(b) \in forkChoice
      <4>1. Parent(b) \in DOMAIN importedState /\ Parent(b) \in Chain
        BY <3>2, <3>6 DEF IInv, CacheMatchesForkChoice, Types
      <4>2. pre = Parent(b) /\ pre # None
        BY <3>1, <3>3, <3>6, <4>1 DEF resolveOrphanParentPostState, IInv, Exact
      <4>3. stateCacheImport(b, b)
        BY <3>1, <3>6, <4>2 DEF processBlock
      <4>4. /\ Exact'
            /\ OnBlockAccepts(b) => /\ forkChoice' = forkChoice \cup {b}
                                    /\ DOMAIN importedState' = DOMAIN importedState \cup {b}
                                    /\ head' = head
            /\ ~ OnBlockAccepts(b) => UNCHANGED <<forkChoice, importedState, head>>
        BY <3>2, <3>3, <4>3, ImportFacts
      <4>5. ~ OnBlockAccepts(b) => finalized \notin Ancestry(b)
        <5>1. finalized \in Ancestry(b) => SlotOf(b) > SlotOf(finalized)
          <6>1. SlotOf(b) \in Nat /\ SlotOf(finalized) \in Nat
            BY <3>2, <3>3, Numbers DEF Chain
          <6> QED BY <3>2, <3>3, <6>1, AncestrySlots
        <5> QED BY <3>6, <5>1 DEF OnBlockAccepts
      <4>6. CASE OnBlockAccepts(b)
        BY <1>2, <1>4, <1>5, <2>1, <4>4, <4>6, OrphanDone
      <4>7. CASE ~ OnBlockAccepts(b)
        BY <1>2, <1>4, <1>5, <2>1, <4>4, <4>5, <4>7, OrphanDone
      <4> QED BY <4>6, <4>7
    <3> QED BY <3>4, <3>5, <3>6
  <2> QED BY <2>2, <2>3
<1> QED BY <1>3, <1>7, <1>8, <1>9

(* RecordStep: the slot is recorded when all its blocks are imported. *)
LEMMA RecordStep == ASSUME IInv, buildRecord PROVE IInv'
<1> USE LodestarEngineAssumption
<1>1. /\ phase = "import" /\ Running /\ queue = << >> /\ phase' = "evaluate"
      /\ recorded' = IF slot >= StartSlot THEN Append(recorded, slot) ELSE recorded
      /\ UNCHANGED <<tree, slot, queue, forkChoice, finalized, lastPruned, head, importedState,
                     stateByRoot, checkpoints, planned, excused, faults>>
  BY DEF buildRecord, caches, Running
<1>2. /\ TreeOK' /\ Chain' = Chain
      /\ \A x : SlotOf(x)' = SlotOf(x)
      /\ \A x : Parent(x)' = Parent(x)
      /\ \A x : Ancestry(x)' = Ancestry(x)
  BY <1>1, Frame DEF IInv
<1>3. slot \in WarmupStartSlot + 1 .. EndSlot - 1 /\ slot \in Nat /\ recorded \in Seq(Nat)
  BY <1>1 DEF IInv, Types
<1>4. recorded' \in Seq(Nat)
  BY <1>1, <1>3
<1>5. Types' /\ Booting' /\ Exact' /\ CacheMatchesForkChoice'
  BY <1>1, <1>2, <1>3, <1>4 DEF IInv, Types, Booting, Exact, CacheMatchesForkChoice, Running
<1>6. HeadLatest' /\ FinalKept'
  <2>1. Imported = slot /\ Imported' = slot
    BY <1>1 DEF Imported
  <2> QED BY <1>1, <2>1 DEF IInv, HeadLatest, FinalKept
<1>7. QueueOrder' /\ PlannedWhole' /\ Blamed'
  BY <1>1, <1>2 DEF IInv, QueueOrder, PlannedWhole, Blamed
<1>8. Accounted'
  <2>1. ~ \E i \in 1 .. Len(queue) : TRUE
    BY <1>1
  <2> QED BY <1>1, <1>2, <2>1 DEF IInv, Accounted
<1>9. Recorded'
  <2>1. /\ Len(recorded) = IF slot - StartSlot < 0 THEN 0 ELSE slot - StartSlot
        /\ \A i \in 1 .. Len(recorded) : recorded[i] = StartSlot + i - 1
    BY <1>1 DEF IInv, Recorded
  <2>2. CASE slot >= StartSlot
    <3>1. /\ recorded' = Append(recorded, slot) /\ Len(recorded') = Len(recorded) + 1
          /\ Len(recorded) = slot - StartSlot
          /\ recorded'[Len(recorded) + 1] = slot
          /\ \A i \in 1 .. Len(recorded) : recorded'[i] = recorded[i]
      BY <1>1, <1>3, <2>1, <2>2
    <3>2. \A i \in 1 .. Len(recorded') : recorded'[i] = StartSlot + i - 1
      <4> SUFFICES ASSUME NEW i \in 1 .. Len(recorded')
                   PROVE  recorded'[i] = StartSlot + i - 1
        OBVIOUS
      <4>1. i \in 1 .. Len(recorded) \/ i = Len(recorded) + 1
        BY <1>3, <3>1
      <4>2. slot = StartSlot + (Len(recorded) + 1) - 1
        BY <1>3, <3>1
      <4>3. CASE i \in 1 .. Len(recorded)
        BY <2>1, <3>1, <4>3
      <4>4. CASE i = Len(recorded) + 1
        BY <3>1, <4>2, <4>4
      <4> QED BY <4>1, <4>3, <4>4
    <3>3. Len(recorded') = (slot + 1) - StartSlot /\ ~ ((slot + 1) - StartSlot < 0)
      BY <1>3, <2>2, <3>1
    <3> QED BY <1>1, <3>2, <3>3 DEF Recorded
  <2>3. CASE ~ (slot >= StartSlot)
    <3>1. recorded' = recorded /\ Len(recorded) = 0 /\ (slot + 1) - StartSlot <= 0
      BY <1>1, <1>3, <2>1, <2>3
    <3> QED BY <1>1, <1>3, <2>1, <3>1 DEF Recorded
  <2> QED BY <2>2, <2>3
<1> QED BY <1>2, <1>5, <1>6, <1>7, <1>8, <1>9 DEF IInv

(* PruneStep: nothing that descends from the final block is pruned, so that *)
(* the head, its canonical ancestors and what can still be built on stay.   *)
LEMMA PruneStep == ASSUME IInv, pruneSlot PROVE IInv'
<1> USE LodestarEngineAssumption
<1>1. PICK gone \in SUBSET {b \in forkChoice : finalized \notin Ancestry(b)} :
        /\ forkChoice' = forkChoice \ gone
        /\ importedState' = pruneFinalizedBlocks(gone)
  BY DEF pruneSlot
<1>2. /\ phase = "evaluate" /\ Running
      /\ stateByRoot' = Restrict(stateByRoot,
           {b \in DOMAIN stateByRoot : SlotOf(b) >= slot - RecentStateCacheSlots})
      /\ checkpoints' = Restrict(checkpoints,
           {k \in DOMAIN checkpoints : k[1] >= Epoch(slot) - CheckpointCacheEpochs})
      /\ slot' = slot + 1
      /\ phase' = IF slot + 1 < EndSlot THEN "fetch" ELSE "done"
      /\ UNCHANGED <<tree, queue, finalized, head, planned, excused, recorded, faults>>
  BY DEF pruneSlot, Running
<1>3. /\ TreeOK /\ TreeOK' /\ Chain' = Chain
      /\ \A x : SlotOf(x)' = SlotOf(x)
      /\ \A x : Parent(x)' = Parent(x)
      /\ \A x : Ancestry(x)' = Ancestry(x)
  BY <1>2, Frame DEF IInv
<1>4. slot \in WarmupStartSlot + 1 .. EndSlot - 1 /\ slot \in Nat
  BY <1>2 DEF IInv, Types
<1>5. /\ phase' \in {"fetch", "done"} /\ Running'
      /\ phase' = "fetch" => slot' \in WarmupStartSlot + 1 .. EndSlot - 1
      /\ phase' = "done" => slot' = EndSlot
  BY <1>2, <1>4 DEF Running
<1>6. Exact'
  <2>1. \A b \in DOMAIN importedState' : importedState'[b] = b
    BY <1>1 DEF pruneFinalizedBlocks, Restrict, IInv, Exact
  <2>2. \A b \in DOMAIN stateByRoot' : stateByRoot'[b] = b
    BY <1>2 DEF Restrict, IInv, Exact
  <2>3. \A k \in DOMAIN checkpoints' : checkpoints'[k] = k[2]
    BY <1>2 DEF Restrict, IInv, Exact
  <2> QED BY <2>1, <2>2, <2>3 DEF Exact
<1>7. CacheMatchesForkChoice'
  <2>1. DOMAIN importedState' = DOMAIN importedState \ gone
    BY <1>1 DEF pruneFinalizedBlocks, Restrict
  <2> QED BY <1>1, <1>2, <2>1 DEF IInv, CacheMatchesForkChoice
<1>8. Types' /\ Booting' /\ Blamed'
  BY <1>1, <1>2, <1>3, <1>4, <1>5 DEF IInv, Types, Booting, Blamed
<1>9. /\ finalized \in tree.canonical \cap forkChoice
      /\ \A c \in tree.canonical : finalized <= c /\ c <= head => c \in forkChoice
      /\ head \in tree.canonical \cap forkChoice /\ head <= slot
      /\ \A c \in tree.canonical : c <= slot => c <= head
      /\ \A c \in tree.canonical \cap forkChoice : c <= head
  BY <1>2 DEF IInv, FinalKept, HeadLatest, Imported
<1>10. \A c \in tree.canonical : finalized <= c => c \notin gone
  BY <1>3, <1>9, AncestryCanonical
<1>11. tree.canonical \subseteq Nat
  BY <1>3, Numbers DEF Chain
<1>12. HeadLatest'
  <2>1. Imported' = slot
    BY <1>2, <1>4, <1>5 DEF Imported
  <2> QED BY <1>1, <1>2, <1>9, <1>10, <2>1 DEF HeadLatest
<1>13. FinalKept'
  <2>1. finalized <= finalized
    BY <1>9, <1>11
  <2> QED BY <1>1, <1>2, <1>9, <1>10, <2>1 DEF FinalKept
<1>14. QueueOrder' /\ PlannedWhole'
  <2>1. \A o \in planned : SlotOf(o) \in Nat
    BY <1>3, Numbers DEF IInv, Types, Chain
  <2> QED BY <1>2, <1>3, <1>4, <1>5, <2>1 DEF IInv, QueueOrder, PlannedWhole
<1>15. Accounted'
  BY <1>1, <1>2, <1>3, <1>5 DEF IInv, Accounted
<1>16. Recorded'
  BY <1>2, <1>4, <1>5 DEF IInv, Recorded
<1> QED BY <1>3, <1>6, <1>7, <1>8, <1>12, <1>13, <1>14, <1>15, <1>16 DEF IInv

(* Inductive: IInv holds in every state of the specification. *)
THEOREM Inductive == Spec => []IInv
<1>1. Init => IInv
  <2> SUFFICES ASSUME Init PROVE IInv
    OBVIOUS
  <2>1. PICK canonical \in SUBSET Slots, at \in [Orphans -> Slots \ {WarmupStartSlot}] :
          /\ WarmupStartSlot \in canonical
          /\ \E parent \in [Orphans -> canonical \cup Orphans \cup {Before}] :
               /\ \A o \in Orphans :
                    (IF parent[o] \in Orphans THEN at[parent[o]] ELSE parent[o]) < at[o]
               /\ tree = [canonical |-> canonical, slot |-> at, parent |-> parent]
    BY DEF Init
  <2>2. PICK parent \in [Orphans -> canonical \cup Orphans \cup {Before}] :
          /\ \A o \in Orphans :
               (IF parent[o] \in Orphans THEN at[parent[o]] ELSE parent[o]) < at[o]
          /\ tree = [canonical |-> canonical, slot |-> at, parent |-> parent]
    BY <2>1
  <2>3. tree.canonical = canonical /\ tree.slot = at /\ tree.parent = parent
    BY <2>2
  <2>4. TreeOK
    BY <2>1, <2>2, <2>3 DEF TreeOK, SlotOf
  <2>5. /\ phase = "boot" /\ slot = WarmupStartSlot /\ queue = << >> /\ forkChoice = {}
        /\ importedState = << >> /\ stateByRoot = << >> /\ checkpoints = << >>
        /\ planned = {} /\ excused = {} /\ recorded = << >> /\ faults = 0
    BY DEF Init
  <2>6. Types /\ Booting /\ Exact
    BY <2>5, LodestarEngineAssumption DEF Types, Booting, Exact
  <2> QED
    BY <2>4, <2>5, <2>6 DEF IInv, CacheMatchesForkChoice, HeadLatest, FinalKept, QueueOrder,
       PlannedWhole, Accounted, Recorded, Blamed, Running
<1>2. IInv /\ [Next]_vars => IInv'
  <2> SUFFICES ASSUME IInv, [Next]_vars PROVE IInv'
    OBVIOUS
  <2>1. CASE UNCHANGED vars
    <3>1. /\ TreeOK' /\ Chain' = Chain
          /\ \A x : SlotOf(x)' = SlotOf(x)
          /\ \A x : Parent(x)' = Parent(x)
          /\ \A x : Ancestry(x)' = Ancestry(x)
      BY <2>1, Frame DEF IInv, vars
    <3> QED
      BY <2>1, <3>1 DEF vars, IInv, Types, Booting, Exact, CacheMatchesForkChoice, HeadLatest,
         FinalKept, QueueOrder, PlannedWhole, Accounted, Recorded, Blamed, Imported, Running
  <2> QED
    BY <2>1, BootStep, FetchStep, CanonicalStep, OrphanStep, FinalizeStep, RecordStep, PruneStep
    DEF Next
<1> QED
  BY <1>1, <1>2, PTL DEF Spec

(* EveryStateExact: no order of imports, forks, failures, finality and      *)
(* pruning makes the engine process a block on another block's state.       *)
THEOREM EveryStateExact == Spec => []StatesExact
<1>1. IInv => StatesExact
  <2> SUFFICES ASSUME IInv PROVE StatesExact
    OBVIOUS
  <2>1. ASSUME Running PROVE head = Max(tree.canonical \cap forkChoice)
    <3>1. /\ head \in tree.canonical \cap forkChoice
          /\ \A c \in tree.canonical \cap forkChoice : c <= head
      BY <2>1 DEF IInv, HeadLatest
    <3>2. tree.canonical \cap forkChoice \subseteq Int
      BY Numbers DEF IInv, TreeOK
    <3> QED BY <3>1, <3>2, MaxIs
  <2> QED BY <2>1 DEF IInv, Exact, StatesExact
<1> QED BY <1>1, Inductive, PTL

(* StatesOfKnownBlocks: a post-state is kept exactly as long as fork choice *)
(* knows its block.                                                         *)
THEOREM StatesOfKnownBlocks == Spec => []CacheMatchesForkChoice
BY Inductive, PTL DEF IInv

(* NoneLost: every orphan an instruction names is imported, or is excused,  *)
(* or lies on a branch that finality has cut off.                           *)
THEOREM NoneLost == Spec => []NothingLost
<1>1. IInv => NothingLost
  BY DEF IInv, Accounted, NothingLost, Running
<1> QED BY <1>1, Inductive, PTL

(* OnlyFaultsFail: without a failing request the loop reaches its end       *)
(* having recorded every slot of its chunk once, in order.                  *)
THEOREM OnlyFaultsFail == Spec => []FailsOnlyOnFaults
<1>1. IInv => FailsOnlyOnFaults
  <2> SUFFICES ASSUME IInv PROVE FailsOnlyOnFaults
    OBVIOUS
  <2>1. ASSUME phase = "done"
        PROVE  recorded = [i \in 1 .. EndSlot - StartSlot |-> StartSlot + i - 1]
    <3>1. slot = EndSlot /\ Running /\ recorded \in Seq(Nat)
      BY <2>1 DEF IInv, Types, Running
    <3>2. /\ Len(recorded) = EndSlot - StartSlot
          /\ \A i \in 1 .. Len(recorded) : recorded[i] = StartSlot + i - 1
      BY <2>1, <3>1, LodestarEngineAssumption DEF IInv, Recorded
    <3> QED BY <3>1, <3>2
  <2> QED BY <2>1 DEF IInv, Blamed, FailsOnlyOnFaults
<1> QED BY <1>1, Inductive, PTL
===============================================================================
