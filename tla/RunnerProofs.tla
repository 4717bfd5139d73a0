----------------------------- MODULE RunnerProofs -----------------------------
(***************************************************************************)
(* run.sh and the orchestrator it runs, proved for every range of epochs,  *)
(* chunk size, number of workers and number of faults and kills.           *)
(*                                                                         *)
(* The argument follows a record from the engine that writes it to         *)
(* merged.csv.  The plan of a chunk partitions its slots (Partition, from  *)
(* SplitCuts), so the slots the merge expects are the chunk's (Expected).  *)
(* prepareWorkers removes what an earlier run left before any engine       *)
(* starts, so a worker file holds slots of its worker and records of this  *)
(* run (FreshFiles).  What passes the merge is then exactly the chunk      *)
(* (MergedWhole), and it is put in place by renames, so it replaces a      *)
(* complete chunk by a complete chunk (Outputs).  The script goes past a   *)
(* chunk that is complete or records it as failed (Accepted), so that it   *)
(* exits 0 with the whole range.  The downloads follow the checkpoints     *)
(* that were found (Downloaded).                                           *)
(*                                                                         *)
(* Warmed and LookaheadFits are hypotheses of the theorems that need them. *)
(***************************************************************************)
EXTENDS Runner, FiniteSetTheorems, WellFoundedInduction, TLAPS
-------------------------------------------------------------------------------
(* What Split and epochToSlot compute, for every range of epochs and every  *)
(* number of workers.                                                       *)

(* Least: a property that holds at some number holds first at some number. *)
LEMMA Least ==
  ASSUME NEW S, S \subseteq Nat, S # {}
  PROVE  \E x \in S : \A y \in S : x <= y
<1> DEFINE R == {ss \in Nat \X Nat : ss[1] < ss[2]}
<1>1. IsWellFoundedOn(R, Nat)
  BY NatLessThanWellFounded DEF OpToRel
<1> HIDE DEF R
<1>2. PICK x \in S : \A y \in S : ~ (<<y, x>> \in R)
  BY <1>1, WFMin
<1>3. ASSUME NEW y \in S PROVE x <= y
  <2>1. ~ (y < x)
    BY <1>2 DEF R
  <2> QED BY <2>1
<1> QED BY <1>3

(* DivFacts: what quotient and remainder of natural numbers are. *)
LEMMA DivFacts ==
  ASSUME NEW a \in Nat, NEW b \in Nat \ {0}
  PROVE  /\ a \div b \in Nat /\ a % b \in Nat
         /\ a = b * (a \div b) + (a % b) /\ a % b < b
BY SMT

(* DivMono: division rounds down monotonically. *)
LEMMA DivMono ==
  ASSUME NEW a \in Nat, NEW b \in Nat \ {0}, NEW c \in Nat, a <= c
  PROVE  a \div b <= c \div b
<1> DEFINE q == a \div b
           r == c \div b
<1>1. /\ q \in Nat /\ r \in Nat /\ b * q <= a /\ c < b * r + b
  BY DivFacts
<1> HIDE DEF q, r
<1>2. CASE q > r
  <2>1. q >= r + 1
    BY <1>1, <1>2
  <2>2. b * q >= b * (r + 1)
    BY <1>1, <2>1
  <2>3. b * (r + 1) = b * r + b
    BY <1>1
  <2> QED BY <1>1, <2>2, <2>3
<1> QED BY <1>1, <1>2 DEF q, r

(* EpochSlots: below the end of the slot range epochToSlot multiplies. *)
LEMMA EpochSlots ==
  ASSUME SlotsPerEpoch \in Nat \ {0}, MaxSlot \in Nat,
         NEW e \in Nat, e * SlotsPerEpoch <= MaxSlot
  PROVE  epochToSlot(e) = e * SlotsPerEpoch /\ epochToSlot(e) \in Nat
<1> DEFINE r == MaxSlot \div SlotsPerEpoch
<1>1. r \in Nat /\ MaxSlot < SlotsPerEpoch * r + SlotsPerEpoch
  BY DivFacts
<1> HIDE DEF r
<1>2. CASE e > r
  <2>1. e >= r + 1
    BY <1>1, <1>2
  <2>2. e * SlotsPerEpoch >= (r + 1) * SlotsPerEpoch
    BY <1>1, <2>1
  <2>3. (r + 1) * SlotsPerEpoch = SlotsPerEpoch * r + SlotsPerEpoch
    BY <1>1
  <2>4. e * SlotsPerEpoch \in Nat
    OBVIOUS
  <2> QED BY <1>1, <2>2, <2>3, <2>4
<1>3. CASE ~ (e > r)
  <2>1. e * SlotsPerEpoch \in Nat
    OBVIOUS
  <2> QED BY <1>3, <2>1 DEF epochToSlot, r
<1> QED BY <1>2, <1>3

(* Cuts: where Split cuts the range.  The cuts run from one end of it to    *)
(* the other, and never backwards.                                          *)
Cuts(n, startEpoch, endEpoch, parallel) ==
  /\ n \in [0 .. parallel -> startEpoch .. endEpoch]
  /\ n[0] = startEpoch /\ n[parallel] = endEpoch
  /\ \A i \in 1 .. parallel : n[i - 1] <= n[i]

(* The chunk between two cuts. *)
Piece(from, to, warmupEpochs) ==
  [StartEpoch |-> from,
   EndEpoch |-> to,
   WarmupStartSlot |-> epochToSlot(IF from > warmupEpochs THEN from - warmupEpochs ELSE 0),
   StartSlot |-> epochToSlot(from),
   EndSlot |-> epochToSlot(to)]

(* CutAt: the chunks are the pieces between the cuts. *)
CutAt(chunks, n, startEpoch, endEpoch, warmupEpochs, parallel) ==
  /\ Cuts(n, startEpoch, endEpoch, parallel)
  /\ chunks = [i \in 1 .. parallel |-> Piece(n[i - 1], n[i], warmupEpochs)]

(* SplitCuts: Split cuts the whole range, without gap or overlap, into      *)
(* exactly as many pieces as there are workers.                             *)
THEOREM SplitCuts ==
  ASSUME NEW s \in Nat, NEW e \in Nat, s < e, NEW w \in Nat, NEW p \in Nat \ {0}
  PROVE  \E n : CutAt(Split(s, e, w, p), n, s, e, w, p)
<1> DEFINE base == (e - s) \div p
           rem == (e - s) % p
           size(i) == IF i < rem THEN base + 1 ELSE base
           n == CHOOSE g : g = [i \in 0 .. p |-> IF i = 0 THEN s ELSE g[i - 1] + size(i - 1)]
           closed(i) == s + i * base + (IF i < rem THEN i ELSE rem)
           G == [i \in 0 .. p |-> closed(i)]
<1>1. base \in Nat /\ rem \in Nat /\ e - s = p * base + rem /\ rem < p
  BY DivFacts
<1>2. Split(s, e, w, p) = [i \in 1 .. p |-> Piece(n[i - 1], n[i], w)]
  BY DEF Split, Piece
<1> HIDE DEF base, rem
<1>3. \A i \in 0 .. p : closed(i) \in Nat
  BY <1>1
<1>4. closed(0) = s /\ closed(p) = e
  BY <1>1
<1>5. \A i \in 1 .. p : closed(i) = closed(i - 1) + size(i - 1)
  <2> SUFFICES ASSUME NEW i \in 1 .. p PROVE closed(i) = closed(i - 1) + size(i - 1)
    OBVIOUS
  <2>1. i * base = (i - 1) * base + base
    BY <1>1
  <2>2. i * base \in Nat /\ (i - 1) * base \in Nat
    BY <1>1
  <2> HIDE DEF n
  <2> QED BY <1>1, <2>1, <2>2
<1>6. G = [i \in 0 .. p |-> IF i = 0 THEN s ELSE G[i - 1] + size(i - 1)]
  <2>1. \A i \in 0 .. p : i # 0 => i \in 1 .. p /\ i - 1 \in 0 .. p
    OBVIOUS
  <2> HIDE DEF closed, size, n
  <2> QED BY <1>4, <1>5, <2>1
<1>7. n = [i \in 0 .. p |-> IF i = 0 THEN s ELSE n[i - 1] + size(i - 1)]
  <2> HIDE DEF G, size
  <2> QED BY <1>6
<1> HIDE DEF n
<1>8. \A i \in 0 .. p : n[i] = closed(i)
  <2> SUFFICES ASSUME NEW k \in 0 .. p, n[k] # closed(k) PROVE FALSE
    OBVIOUS
  <2> DEFINE Bad == {i \in 0 .. p : n[i] # closed(i)}
  <2>1. Bad \subseteq Nat /\ Bad # {}
    OBVIOUS
  <2> HIDE DEF closed, size
  <2>2. PICK x \in Bad : \A y \in Bad : x <= y
    BY <2>1, Least
  <2>3. CASE x = 0
    BY <1>4, <1>7, <2>3
  <2>4. CASE x # 0
    <3>1. x \in 1 .. p /\ x - 1 \in 0 .. p /\ ~ (x <= x - 1)
      BY <2>4
    <3>2. n[x - 1] = closed(x - 1)
      BY <2>2, <3>1
    <3>3. n[x] = n[x - 1] + size(x - 1)
      BY <1>7, <2>4, <3>1
    <3> QED BY <1>5, <3>1, <3>2, <3>3
  <2> QED BY <2>3, <2>4
<1>9. \A i \in 1 .. p : n[i - 1] <= n[i] /\ n[i] \in Nat /\ n[i - 1] \in Nat
  <2> SUFFICES ASSUME NEW i \in 1 .. p
               PROVE  n[i - 1] <= n[i] /\ n[i] \in Nat /\ n[i - 1] \in Nat
    OBVIOUS
  <2>1. i \in 0 .. p /\ i - 1 \in 0 .. p
    OBVIOUS
  <2>2. size(i - 1) \in Nat
    BY <1>1
  <2> HIDE DEF closed, size
  <2> QED BY <1>3, <1>5, <1>8, <2>1, <2>2
<1>10. \A i \in 0 .. p : n[i] \in s .. e
  <2> SUFFICES ASSUME NEW i \in 0 .. p PROVE closed(i) \in s .. e
    BY <1>8
  <2>1. i * base <= p * base /\ i * base \in Nat /\ p * base \in Nat
    BY <1>1
  <2> QED BY <1>1, <2>1
<1>11. n[0] = s /\ n[p] = e
  BY <1>4, <1>8
<1>12. Cuts(n, s, e, p)
  <2>1. n \in [0 .. p -> s .. e]
    <3> HIDE DEF size
    <3> QED BY <1>7, <1>10
  <2> QED BY <1>9, <1>11, <2>1 DEF Cuts
<1> QED BY <1>2, <1>12 DEF CutAt
-------------------------------------------------------------------------------
(* The runner.                                                              *)

(* Warmed: every worker has a slot to warm up in before its first one.      *)
(* Without it a worker does not record its first slot (run warmup_zero).    *)
Warmed == WarmupEpochs # 0 /\ StartEpoch # 0

(* SlotsOf: the slots an engine records for a chunk. *)
SlotsOf(k) == k.StartSlot .. k.EndSlot - 1

(* Smallest, Largest: what Min and Max name. *)
LEMMA Smallest ==
  ASSUME NEW S, S \subseteq Nat, S # {}
  PROVE  Min(S) \in S /\ Min(S) \in Nat /\ \A y \in S : Min(S) <= y
<1>1. PICK x \in S : \A y \in S : x <= y
  BY Least
<1> QED BY <1>1 DEF Min

LEMMA Largest ==
  ASSUME NEW S, S \subseteq Nat, S # {}, NEW b \in Nat, \A y \in S : y <= b
  PROVE  Max(S) \in S /\ Max(S) \in Nat /\ \A y \in S : y <= Max(S)
<1> DEFINE D == {b - y : y \in S}
<1>1. D \subseteq Nat /\ D # {}
  <2>1. \A y \in S : b - y \in Nat
    OBVIOUS
  <2> QED BY <2>1
<1>2. PICK d \in D : \A z \in D : d <= z
  BY <1>1, Least
<1>3. PICK x \in S : d = b - x
  OBVIOUS
<1>4. ASSUME NEW y \in S PROVE y <= x
  <2>1. d <= b - y
    BY <1>2
  <2> QED BY <1>3, <2>1
<1>5. \A y \in S : x >= y
  BY <1>4
<1>6. Max(S) \in S /\ \A y \in S : Max(S) >= y
  BY <1>5 DEF Max
<1> QED BY <1>6

(* ChunkRange: run.sh's chunks are not empty and lie in the range. *)
LEMMA ChunkRange ==
  ASSUME NEW c \in Chunks
  PROVE  /\ ChunkStart(c) \in Nat /\ ChunkEnd(c) \in Nat /\ ChunkStart(c) < ChunkEnd(c)
         /\ StartEpoch <= ChunkStart(c) /\ ChunkEnd(c) <= EndEpoch
<1> DEFINE len == EndEpoch - StartEpoch + ChunkSize - 1
<1>a. /\ StartEpoch \in Nat /\ EndEpoch \in Nat /\ StartEpoch < EndEpoch
      /\ ChunkSize \in Nat \ {0}
  BY OrchestratorAssumption
<1>1. len \in Nat
  BY <1>a
<1>2. /\ TotalChunks \in Nat /\ ChunkSize * TotalChunks <= len
  BY <1>1, <1>a, DivFacts DEF TotalChunks
<1>3. c \in Nat /\ 1 <= c /\ c <= TotalChunks
  BY <1>2 DEF Chunks
<1>4. c * ChunkSize <= ChunkSize * TotalChunks /\ c * ChunkSize \in Nat
      /\ ChunkSize * TotalChunks \in Nat
  BY <1>a, <1>2, <1>3
<1>5. (c - 1) * ChunkSize = c * ChunkSize - ChunkSize /\ (c - 1) * ChunkSize \in Nat
  BY <1>a, <1>3
<1>6. (c - 1) * ChunkSize < EndEpoch - StartEpoch
  BY <1>a, <1>2, <1>4, <1>5
<1>7. {StartEpoch + c * ChunkSize, EndEpoch} \subseteq Nat
  BY <1>a, <1>4
<1>8. /\ ChunkEnd(c) \in {StartEpoch + c * ChunkSize, EndEpoch} /\ ChunkEnd(c) <= EndEpoch
  BY <1>7, Smallest DEF ChunkEnd
<1> QED BY <1>a, <1>4, <1>5, <1>6, <1>8 DEF ChunkStart

(* SlotOfEpoch: within the range epochToSlot multiplies. *)
LEMMA SlotOfEpoch ==
  ASSUME NEW e \in Nat, e <= EndEpoch
  PROVE  /\ epochToSlot(e) = e * SlotsPerEpoch /\ epochToSlot(e) \in Nat
         /\ epochToSlot(e) <= EndEpoch * SlotsPerEpoch
<1>1. /\ SlotsPerEpoch \in Nat \ {0} /\ MaxSlot \in Nat /\ EndEpoch \in Nat
      /\ EndEpoch * SlotsPerEpoch < MaxSlot
  BY OrchestratorAssumption
<1>2. e * SlotsPerEpoch <= EndEpoch * SlotsPerEpoch
  BY <1>1
<1>3. e * SlotsPerEpoch \in Nat /\ EndEpoch * SlotsPerEpoch \in Nat
  BY <1>1
<1>4. e * SlotsPerEpoch <= MaxSlot
  BY <1>1, <1>2, <1>3
<1> QED BY <1>1, <1>2, <1>4, EpochSlots

(* SlotOrder: epochToSlot keeps the order of epochs. *)
LEMMA SlotOrder ==
  ASSUME NEW a \in Nat, NEW b \in Nat, a <= b, b <= EndEpoch
  PROVE  /\ epochToSlot(a) <= epochToSlot(b)
         /\ a < b => epochToSlot(a) < epochToSlot(b)
<1>1. SlotsPerEpoch \in Nat \ {0} /\ EndEpoch \in Nat
  BY OrchestratorAssumption
<1>2. epochToSlot(a) = a * SlotsPerEpoch /\ epochToSlot(b) = b * SlotsPerEpoch
  BY <1>1, SlotOfEpoch
<1>3. a * SlotsPerEpoch <= b * SlotsPerEpoch
  BY <1>1
<1>4. a < b => a * SlotsPerEpoch < b * SlotsPerEpoch
  BY <1>1
<1> QED BY <1>2, <1>3, <1>4

(* SlotCount: a chunk has as many slots as chunk_complete expects rows. *)
LEMMA SlotCount ==
  ASSUME NEW c \in Chunks
  PROVE  /\ ChunkSlots(c) \subseteq Nat /\ ChunkSlots(c) # {}
         /\ Cardinality(ChunkSlots(c)) = (ChunkEnd(c) - ChunkStart(c)) * SlotsPerEpoch
<1> DEFINE a == ChunkStart(c)
           b == ChunkEnd(c)
<1>1. a \in Nat /\ b \in Nat /\ a < b /\ b <= EndEpoch /\ a <= EndEpoch
      /\ SlotsPerEpoch \in Nat \ {0}
  BY ChunkRange, OrchestratorAssumption
<1> HIDE DEF a, b
<1>2. /\ epochToSlot(a) = a * SlotsPerEpoch /\ epochToSlot(b) = b * SlotsPerEpoch
      /\ epochToSlot(a) < epochToSlot(b) /\ epochToSlot(a) \in Nat /\ epochToSlot(b) \in Nat
  BY <1>1, SlotOfEpoch, SlotOrder
<1>3. ChunkSlots(c) = epochToSlot(a) .. (epochToSlot(b) - 1)
  BY DEF ChunkSlots, a, b
<1>4. Cardinality(epochToSlot(a) .. (epochToSlot(b) - 1)) = epochToSlot(b) - 1 - epochToSlot(a) + 1
  BY <1>2, FS_Interval
<1>5. (b - a) * SlotsPerEpoch = b * SlotsPerEpoch - a * SlotsPerEpoch
  BY <1>1
<1>6. Cardinality(ChunkSlots(c)) = (b - a) * SlotsPerEpoch
  BY <1>2, <1>3, <1>4, <1>5
<1> QED BY <1>2, <1>3, <1>6 DEF a, b

(* PlanCuts: the plan of a chunk is its range, cut. *)
LEMMA PlanCuts ==
  ASSUME NEW c \in Chunks
  PROVE  \E n : /\ Cuts(n, ChunkStart(c), ChunkEnd(c), Parallel)
                /\ PlanOf[c] = [i \in Workers |-> Piece(n[i - 1], n[i], WarmupEpochs)]
<1>1. /\ ChunkStart(c) \in Nat /\ ChunkEnd(c) \in Nat /\ ChunkStart(c) < ChunkEnd(c)
      /\ WarmupEpochs \in Nat /\ Parallel \in Nat \ {0}
  BY ChunkRange, OrchestratorAssumption
<1>2. PlanOf[c] = Split(ChunkStart(c), ChunkEnd(c), WarmupEpochs, Parallel)
  BY DEF PlanOf
<1>3. PICK n : CutAt(PlanOf[c], n, ChunkStart(c), ChunkEnd(c), WarmupEpochs, Parallel)
  BY <1>1, <1>2, SplitCuts
<1> QED BY <1>3 DEF Workers, CutAt

(* WorkerSlots: a worker's slots are slots of the chunk, after its warmup. *)
LEMMA WorkerSlots ==
  ASSUME NEW c \in Chunks, NEW i \in Workers
  PROVE  /\ PlanOf[c][i].WarmupStartSlot \in Nat
         /\ PlanOf[c][i].StartSlot \in Nat /\ PlanOf[c][i].EndSlot \in Nat
         /\ PlanOf[c][i].WarmupStartSlot <= PlanOf[c][i].StartSlot
         /\ PlanOf[c][i].StartSlot <= PlanOf[c][i].EndSlot
         /\ PlanOf[c][i].EndSlot <= EndEpoch * SlotsPerEpoch
         /\ Warmed => PlanOf[c][i].WarmupStartSlot < PlanOf[c][i].StartSlot
         /\ SlotsOf(PlanOf[c][i]) \subseteq ChunkSlots(c)
         /\ ~ IsActive(PlanOf[c][i]) => SlotsOf(PlanOf[c][i]) = {}
<1>1. PICK n : /\ Cuts(n, ChunkStart(c), ChunkEnd(c), Parallel)
               /\ PlanOf[c] = [j \in Workers |-> Piece(n[j - 1], n[j], WarmupEpochs)]
  BY PlanCuts
<1> DEFINE a == n[i - 1]
           b == n[i]
           u == IF a > WarmupEpochs THEN a - WarmupEpochs ELSE 0
<1>2. /\ ChunkStart(c) \in Nat /\ ChunkEnd(c) \in Nat /\ StartEpoch <= ChunkStart(c)
      /\ ChunkEnd(c) <= EndEpoch /\ EndEpoch \in Nat /\ StartEpoch \in Nat /\ WarmupEpochs \in Nat
  BY ChunkRange, OrchestratorAssumption
<1>3. i \in 1 .. Parallel /\ i - 1 \in 0 .. Parallel /\ i \in 0 .. Parallel
  BY OrchestratorAssumption DEF Workers
<1>4. a \in ChunkStart(c) .. ChunkEnd(c) /\ b \in ChunkStart(c) .. ChunkEnd(c) /\ a <= b
  BY <1>1, <1>3 DEF Cuts
<1>5. PlanOf[c][i] = Piece(a, b, WarmupEpochs)
  BY <1>1
<1> HIDE DEF a, b
<1>6. a \in Nat /\ b \in Nat /\ a <= EndEpoch /\ b <= EndEpoch /\ u \in Nat /\ u <= a
      /\ (Warmed => u < a)
  BY <1>2, <1>4 DEF Warmed
<1>7. /\ PlanOf[c][i].WarmupStartSlot = epochToSlot(u) /\ PlanOf[c][i].StartSlot = epochToSlot(a)
      /\ PlanOf[c][i].EndSlot = epochToSlot(b) /\ PlanOf[c][i].StartEpoch = a
      /\ PlanOf[c][i].EndEpoch = b
  BY <1>5 DEF Piece
<1> HIDE DEF u
<1>8. /\ epochToSlot(u) \in Nat /\ epochToSlot(a) \in Nat /\ epochToSlot(b) \in Nat
      /\ epochToSlot(u) <= epochToSlot(a) /\ epochToSlot(a) <= epochToSlot(b)
      /\ epochToSlot(b) <= EndEpoch * SlotsPerEpoch
      /\ (Warmed => epochToSlot(u) < epochToSlot(a))
  <2>1. u <= EndEpoch
    BY <1>2, <1>6
  <2> QED BY <1>2, <1>4, <1>6, <2>1, SlotOfEpoch, SlotOrder
<1>9. /\ epochToSlot(ChunkStart(c)) <= epochToSlot(a) /\ epochToSlot(b) <= epochToSlot(ChunkEnd(c))
      /\ epochToSlot(ChunkStart(c)) \in Nat /\ epochToSlot(ChunkEnd(c)) \in Nat
  <2>1. ChunkStart(c) <= a /\ b <= ChunkEnd(c) /\ ChunkStart(c) <= EndEpoch
    BY <1>2, <1>4
  <2> QED BY <1>2, <1>6, <2>1, SlotOfEpoch, SlotOrder
<1>10. SlotsOf(PlanOf[c][i]) \subseteq ChunkSlots(c)
  BY <1>7, <1>8, <1>9 DEF SlotsOf, ChunkSlots
<1>11. ~ IsActive(PlanOf[c][i]) => SlotsOf(PlanOf[c][i]) = {}
  <2> SUFFICES ASSUME ~ (a < b) PROVE epochToSlot(a) .. (epochToSlot(b) - 1) = {}
    BY <1>7 DEF IsActive, SlotsOf
  <2>1. a = b
    BY <1>4, <1>6
  <2> QED BY <1>8, <2>1
<1> QED BY <1>7, <1>8, <1>10, <1>11

(* Partition: every slot of the chunk is a slot of some worker. *)
LEMMA Partition ==
  ASSUME NEW c \in Chunks, NEW s \in ChunkSlots(c)
  PROVE  \E i \in Workers : IsActive(PlanOf[c][i]) /\ s \in SlotsOf(PlanOf[c][i])
<1>1. PICK n : /\ Cuts(n, ChunkStart(c), ChunkEnd(c), Parallel)
               /\ PlanOf[c] = [j \in Workers |-> Piece(n[j - 1], n[j], WarmupEpochs)]
  BY PlanCuts
<1>2. /\ ChunkStart(c) \in Nat /\ ChunkEnd(c) \in Nat /\ ChunkEnd(c) <= EndEpoch /\ EndEpoch \in Nat
      /\ Parallel \in Nat \ {0}
  BY ChunkRange, OrchestratorAssumption
<1>3. \A i \in 0 .. Parallel : n[i] \in Nat /\ n[i] <= EndEpoch
  BY <1>1, <1>2 DEF Cuts
<1>4. \A i \in 0 .. Parallel : epochToSlot(n[i]) \in Nat
  BY <1>3, SlotOfEpoch
<1>5. s \in Int /\ epochToSlot(n[0]) <= s /\ s < epochToSlot(n[Parallel])
  <2>1. n[0] = ChunkStart(c) /\ n[Parallel] = ChunkEnd(c)
    BY <1>1 DEF Cuts
  <2>2. epochToSlot(n[0]) \in Nat /\ epochToSlot(n[Parallel]) \in Nat
    BY <1>2, <1>4
  <2>3. s \in epochToSlot(n[0]) .. (epochToSlot(n[Parallel]) - 1)
    BY <2>1 DEF ChunkSlots
  <2> QED BY <2>2, <2>3
<1> DEFINE S == {i \in 0 .. Parallel : s < epochToSlot(n[i])}
<1>6. PICK x \in S : \A y \in S : x <= y
  <2>1. S \subseteq Nat /\ Parallel \in S
    BY <1>2, <1>5
  <2> HIDE DEF S
  <2> QED BY <2>1, Least
<1>7. x # 0
  BY <1>2, <1>4, <1>5
<1>8. x \in Workers /\ x - 1 \in 0 .. Parallel /\ ~ (x <= x - 1)
  BY <1>2, <1>7 DEF Workers
<1>9. epochToSlot(n[x - 1]) <= s /\ s < epochToSlot(n[x])
  BY <1>4, <1>5, <1>6, <1>8
<1>10. n[x - 1] <= n[x] /\ n[x - 1] # n[x] /\ n[x] \in Nat /\ n[x - 1] \in Nat
  <2>1. x \in 1 .. Parallel /\ x \in 0 .. Parallel
    BY <1>8 DEF Workers
  <2> QED BY <1>1, <1>3, <1>4, <1>5, <1>8, <1>9, <2>1 DEF Cuts
<1>11. /\ PlanOf[c][x].StartSlot = epochToSlot(n[x - 1]) /\ PlanOf[c][x].EndSlot = epochToSlot(n[x])
       /\ PlanOf[c][x].StartEpoch = n[x - 1] /\ PlanOf[c][x].EndEpoch = n[x]
  BY <1>1, <1>8 DEF Piece
<1>12. s \in SlotsOf(PlanOf[c][x])
  BY <1>4, <1>5, <1>8, <1>9, <1>11 DEF SlotsOf
<1> QED BY <1>8, <1>10, <1>11, <1>12 DEF IsActive

(* Active: the chunks an engine is started for, of which there is one. *)
LEMMA Active ==
  ASSUME NEW c \in Chunks
  PROVE  /\ ActiveOf[c] = {PlanOf[c][i] : i \in {j \in Workers : IsActive(PlanOf[c][j])}}
         /\ \E i \in Workers : IsActive(PlanOf[c][i])
<1>1. DOMAIN PlanOf[c] = Workers
  BY PlanCuts
<1>2. ChunkSlots(c) # {}
  BY SlotCount
<1> QED BY <1>1, <1>2, Partition DEF ActiveOf, filterActiveChunks

(* Expected: with a warmup, the merge expects exactly the chunk's slots. *)
LEMMA Expected ==
  ASSUME NEW c \in Chunks, Warmed
  PROVE  ExpectedOf[c] = ChunkSlots(c)
<1>1. ASSUME NEW i \in Workers
      PROVE  expectedSlots(PlanOf[c][i]) = SlotsOf(PlanOf[c][i])
  <2> DEFINE k == PlanOf[c][i]
             T == {k.StartSlot, k.WarmupStartSlot + 1}
  <2>1. /\ k.StartSlot \in Nat /\ k.WarmupStartSlot \in Nat
        /\ k.WarmupStartSlot < k.StartSlot
    BY WorkerSlots
  <2>2. \A y \in T : y <= k.StartSlot /\ y \in Nat
    BY <2>1
  <2>3. Max(T) \in T /\ k.StartSlot <= Max(T)
    <3>1. T \subseteq Nat /\ T # {} /\ k.StartSlot \in T
      BY <2>2
    <3> HIDE DEF T
    <3> QED BY <2>1, <2>2, <3>1, Largest
  <2>4. Max(T) = k.StartSlot
    BY <2>1, <2>2, <2>3
  <2> QED BY <2>4 DEF expectedSlots, SlotsOf
<1>2. ExpectedOf[c] = UNION {expectedSlots(k) : k \in ActiveOf[c]}
  BY DEF ExpectedOf
<1>3. ASSUME NEW s \in ExpectedOf[c] PROVE s \in ChunkSlots(c)
  <2>1. PICK i \in Workers : s \in expectedSlots(PlanOf[c][i])
    BY <1>2, Active
  <2> QED BY <1>1, <2>1, WorkerSlots
<1>4. ASSUME NEW s \in ChunkSlots(c) PROVE s \in ExpectedOf[c]
  <2>1. PICK i \in Workers : IsActive(PlanOf[c][i]) /\ s \in SlotsOf(PlanOf[c][i])
    BY Partition
  <2>2. PlanOf[c][i] \in ActiveOf[c]
    BY <2>1, Active
  <2> QED BY <1>1, <1>2, <2>1, <2>2
<1> QED BY <1>3, <1>4
-------------------------------------------------------------------------------
(* Control: which process runs when, and for which chunk. *)
Control ==
  /\ rpc \notin {"prepping", "running"} => phase = "off"
  /\ rpc \in {"preptry", "prepping", "try", "running"} => cursor \in Chunks
  /\ rpc \in {"prepping", "running"} => chunk = cursor /\ prepOnly = (rpc = "prepping")
  /\ phase # "off" => run # 0
  /\ phase = "predownload" => at = 1
  /\ phase = "prepare" => at \in Workers
  /\ prepOnly => phase \in {"off", "predownload", "prepare", "catchup", "warm"}
  /\ \A i \in Workers : worker[i] \in {"starting", "looping"} => phase = "run"

(* Past prepareWorkers. *)
Prepared(i) ==
  \/ phase \in {"catchup", "warm", "serve", "run", "merge", "csv", "manifest"}
  \/ phase = "prepare" /\ i < at

(* FreshFiles: the files of prepared workers hold records of this run, and  *)
(* of slots that belong to the worker.                                      *)
FreshFiles ==
  /\ \A i \in Workers : Prepared(i) /\ Exists(wfile[i]) =>
       wfile[i].slots \subseteq SlotsOf(Plan[i]) /\ wfile[i].runs \subseteq {run}
  /\ \A i \in Workers : worker[i] = "looping" => Exists(wfile[i])

OneRun(f) == \A r, s \in f.runs : r = s

(* Outputs: what the merge lets through. *)
Outputs ==
  /\ \A c \in Chunks : OneRun(jsonl[c]) /\ OneRun(csv[c])
  /\ phase = "csv" => MergeValid
  /\ phase = "manifest" => Exists(csv[chunk])
  /\ Warmed => OutputExact

(* CleanupComplete: a process that removes the workers' files has left a    *)
(* complete chunk.                                                          *)
CleanupComplete ==
  phase = "cleanup" => \A c \in Chunks : c = chunk => chunk_complete(c)

(* Accepted: what run.sh takes for done is done. *)
Accepted ==
  Warmed =>
    /\ rpc \in {"run", "try", "running"} /\ failedFile = {} =>
         \A c \in Chunks : c < cursor => chunk_complete(c)
    /\ CleanupComplete
    /\ ExitZeroComplete
    /\ SuccessIsWhole

(* LookaheadFits: the last slot is not within a look-ahead of the last      *)
(* uint64.                                                                  *)
LookaheadFits == EndEpoch * SlotsPerEpoch + LookaheadCap <= MaxSlot

(* Downloaded: the ERA files that are there. *)
Downloaded ==
  /\ phase \in {"prepare", "catchup"} =>
       erasFor(InitialEnvelope.StartSlot, InitialEnvelope.EndSlot) \subseteq eras
  /\ \A i \in Workers : Prepared(i) /\ IsActive(Plan[i]) => warmup[i] <= Plan[i].WarmupStartSlot
  /\ LookaheadFits => EraCovered

IInv == TypeOK /\ Control /\ FreshFiles /\ Outputs /\ Accepted /\ Downloaded
-------------------------------------------------------------------------------
Later == {"warm", "serve", "run", "merge"}

(* FilesFrame, OutputsFrame, DownloadedFrame, AcceptedFrame: steps that     *)
(* leave the files, the outputs, the downloads or the script alone.         *)
LEMMA FilesFrame ==
  ASSUME FreshFiles, wfile' = wfile, run' = run, chunk' = chunk,
         \A i \in Workers : Prepared(i)' => Prepared(i),
         \A i \in Workers : worker'[i] = "looping" => worker[i] = "looping"
  PROVE  FreshFiles'
BY DEF FreshFiles, Plan, Exists, NoFile

LEMMA OutputsFrame ==
  ASSUME Outputs, UNCHANGED outVars, phase' \notin {"csv", "manifest"}
  PROVE  Outputs'
BY DEF Outputs, outVars, OneRun, OutputExact, Exists, NoFile

LEMMA DownloadedFrame ==
  ASSUME Downloaded, chunk' = chunk, warmup' = warmup, eras \subseteq eras',
         \A i \in Workers : Prepared(i)' => Prepared(i),
         phase' \in {"prepare", "catchup"} => phase \in {"prepare", "catchup"},
         phase' \in Later => phase \in Later
  PROVE  Downloaded'
<1>1. Plan' = Plan /\ minWarmupSlot' = minWarmupSlot /\ InitialEnvelope' = InitialEnvelope
  BY DEF Plan, minWarmupSlot, maxEndSlot, InitialEnvelope
<1>2. EraCovered => EraCovered'
  BY <1>1 DEF EraCovered, Later
<1> QED BY <1>1, <1>2 DEF Downloaded

LEMMA AcceptedFrame ==
  ASSUME Accepted, UNCHANGED runnerVars,
         Warmed => \A c \in Chunks : chunk_complete(c) => chunk_complete(c)',
         Warmed => CleanupComplete',
         Warmed => ExitZeroComplete'
  PROVE  Accepted'
<1>1. SuccessIsWhole => SuccessIsWhole'
  BY DEF SuccessIsWhole, runnerVars
<1>2. rpc' = rpc /\ failedFile' = failedFile /\ cursor' = cursor
  BY DEF runnerVars
<1> QED BY <1>1, <1>2 DEF Accepted

(* CompleteFrame: a chunk is complete as long as its files stay. *)
LEMMA CompleteFrame ==
  ASSUME csv' = csv, manifest' = manifest
  PROVE  \A c \in Chunks : chunk_complete(c)' <=> chunk_complete(c)
BY DEF chunk_complete, Exists, NoFile, NoManifest

(* Ends: what follows when the process ends without having written. *)
LEMMA Ends ==
  ASSUME IInv, phase' = "off", exit' # 0 \/ rpc # "running",
         UNCHANGED outVars, UNCHANGED runnerVars,
         \A i \in Workers : worker'[i] \notin {"starting", "looping"}
  PROVE  FreshFiles' /\ Outputs' /\ Downloaded' /\ Accepted'
<1>1. Outputs /\ Accepted
  BY DEF IInv
<1>2. \A i \in Workers : ~ Prepared(i)'
  BY DEF Prepared
<1>3. FreshFiles'
  BY <1>2 DEF FreshFiles
<1>4. Outputs'
  BY <1>1, OutputsFrame
<1>5. Downloaded'
  BY <1>2 DEF Downloaded, EraCovered
<1>6. Accepted'
  <2>1. ExitZeroComplete' /\ CleanupComplete'
    BY DEF ExitZeroComplete, CleanupComplete, runnerVars
  <2>2. csv' = csv /\ manifest' = manifest
    BY DEF outVars
  <2> QED BY <1>1, <2>1, <2>2, CompleteFrame, AcceptedFrame
<1> QED BY <1>3, <1>4, <1>5, <1>6

(* Goes: what follows when the process goes on without having written. *)
LEMMA Goes ==
  ASSUME IInv, phase' \notin {"off", "csv", "manifest", "cleanup"}, UNCHANGED outVars, UNCHANGED runnerVars
  PROVE  Outputs' /\ Accepted'
<1>1. Outputs /\ Accepted
  BY DEF IInv
<1>2. Outputs'
  BY <1>1, OutputsFrame
<1>3. Accepted'
  <2>1. ExitZeroComplete' /\ CleanupComplete'
    BY DEF ExitZeroComplete, CleanupComplete, runnerVars
  <2>2. csv' = csv /\ manifest' = manifest
    BY DEF outVars
  <2> QED BY <1>1, <2>1, <2>2, CompleteFrame, AcceptedFrame
<1> QED BY <1>2, <1>3

(* ErasWithin: a smaller range of slots lies in fewer ERA files. *)
LEMMA ErasWithin ==
  ASSUME NEW a \in Nat, NEW b \in Nat
  PROVE  /\ erasFor(a, b) \subseteq Int
         /\ \A x, y \in Nat : a <= x /\ y <= b => erasFor(x, y) \subseteq erasFor(a, b)
<1>1. SlotsPerEra \in Nat \ {0}
  BY OrchestratorAssumption
<1>2. \A x \in Nat : x \div SlotsPerEra \in Nat
  BY <1>1, DivFacts
<1>3. \A x, y \in Nat : x <= y => x \div SlotsPerEra <= y \div SlotsPerEra
  BY <1>1, DivMono
<1> SUFFICES ASSUME NEW x \in Nat, NEW y \in Nat, a <= x, y <= b
             PROVE  erasFor(x, y) \subseteq erasFor(a, b)
  BY <1>2 DEF erasFor, EraNumberForSlot
<1>4. /\ a \div SlotsPerEra <= x \div SlotsPerEra /\ y \div SlotsPerEra <= b \div SlotsPerEra
      /\ a \div SlotsPerEra \in Nat /\ x \div SlotsPerEra \in Nat
      /\ b \div SlotsPerEra \in Nat /\ y \div SlotsPerEra \in Nat
  BY <1>2, <1>3
<1> QED BY <1>4 DEF erasFor, EraNumberForSlot

(* Envelope: the planned warmup slots and the last slot of a chunk. *)
LEMMA Envelope ==
  ASSUME chunk \in Chunks
  PROVE  /\ minWarmupSlot \in Nat /\ maxEndSlot \in Nat
         /\ maxEndSlot <= EndEpoch * SlotsPerEpoch
         /\ \E i \in Workers : IsActive(Plan[i]) /\ Plan[i].WarmupStartSlot = minWarmupSlot
         /\ \A i \in Workers : IsActive(Plan[i]) => Plan[i].EndSlot <= maxEndSlot
         /\ InitialEnvelope.StartSlot \in Nat /\ InitialEnvelope.EndSlot \in Nat
<1> DEFINE A == {j \in Workers : IsActive(PlanOf[chunk][j])}
           W == {k.WarmupStartSlot : k \in ActiveOf[chunk]}
           E == {k.EndSlot : k \in ActiveOf[chunk]}
           b == EndEpoch * SlotsPerEpoch
<1>1. ActiveOf[chunk] = {PlanOf[chunk][i] : i \in A} /\ A # {}
  BY Active
<1>2. \A i \in Workers : /\ PlanOf[chunk][i].WarmupStartSlot \in Nat
                         /\ PlanOf[chunk][i].EndSlot \in Nat
                         /\ PlanOf[chunk][i].EndSlot <= b
  BY WorkerSlots
<1>3. W \subseteq Nat /\ W # {} /\ E \subseteq Nat /\ E # {} /\ \A y \in E : y <= b
  BY <1>1, <1>2
<1>4. b \in Nat /\ MaxSlot \in Nat /\ PreDownloadLookaheadSlots \in Nat
  BY OrchestratorAssumption
<1>5. \A i \in A : PlanOf[chunk][i].EndSlot \in E
  BY <1>1
<1>6. \A w \in W : \E i \in A : PlanOf[chunk][i].WarmupStartSlot = w
  BY <1>1
<1>7. minWarmupSlot = Min(W) /\ maxEndSlot = Max(E)
  BY DEF minWarmupSlot, minWarmupSlotOf, maxEndSlot, maxEndSlotOf
<1> HIDE DEF W, E, b
<1>8. minWarmupSlot \in W /\ minWarmupSlot \in Nat
  BY <1>3, <1>7, Smallest
<1>9. maxEndSlot \in E /\ maxEndSlot \in Nat /\ \A y \in E : y <= maxEndSlot
  BY <1>3, <1>4, <1>7, Largest
<1>10. InitialEnvelope.StartSlot \in Nat /\ InitialEnvelope.EndSlot \in Nat
  <2>1. {maxEndSlot + PreDownloadLookaheadSlots, MaxSlot} \subseteq Nat
    BY <1>4, <1>9
  <2>2. Min({maxEndSlot + PreDownloadLookaheadSlots, MaxSlot}) \in Nat
    BY <2>1, Smallest
  <2> QED BY <1>8, <2>2 DEF InitialEnvelope
<1> QED BY <1>3, <1>5, <1>6, <1>8, <1>9, <1>10 DEF Plan, b

(* Counters: the bounds of the fault and kill counters. *)
LEMMA Counters ==
  ASSUME TypeOK
  PROVE  /\ Fault => faults' \in 0 .. MaxFaults
         /\ kills < MaxKills => kills + 1 \in 0 .. MaxKills
BY OrchestratorAssumption DEF TypeOK, Fault
-------------------------------------------------------------------------------
(* A failing step ends the process. *)
LEMMA StepErrStep ==
  ASSUME IInv, StepErr, UNCHANGED runnerVars
  PROVE  IInv'
<1>1. TypeOK /\ Control
  BY DEF IInv
<1>2. /\ phase # "off" /\ phase # "run" /\ phase' = "off" /\ exit' = 1 /\ worker' = worker
      /\ UNCHANGED <<chunk, prepOnly, run, at, eras, workVars, outVars, kills>>
      /\ faults' \in 0 .. MaxFaults
  BY <1>1, Counters DEF StepErr, ExitWith, workVars
<1>3. TypeOK'
  BY <1>1, <1>2 DEF TypeOK, workVars, outVars, runnerVars, Running
<1>4. Control'
  BY <1>1, <1>2 DEF Control, runnerVars
<1>5. \A i \in Workers : worker'[i] \notin {"starting", "looping"}
  BY <1>1, <1>2 DEF Control
<1> QED BY <1>2, <1>3, <1>4, <1>5, Ends DEF IInv

(* The process is killed. *)
LEMMA KillProcessStep ==
  ASSUME IInv, KillProcess, UNCHANGED runnerVars
  PROVE  IInv'
<1>1. TypeOK /\ Control
  BY DEF IInv
<1>2. /\ phase' = "off" /\ exit' = 137 /\ worker' = [i \in Workers |-> "idle"]
      /\ UNCHANGED <<chunk, prepOnly, run, at, eras, warmup, pos, wfile, outVars, faults>>
      /\ kills' \in 0 .. MaxKills
  BY <1>1, Counters DEF KillProcess, ExitWith
<1>3. TypeOK'
  BY <1>1, <1>2 DEF TypeOK, outVars, runnerVars, Running
<1>4. \A i \in Workers : worker'[i] \notin {"starting", "looping"}
  BY <1>2
<1>5. Control'
  BY <1>1, <1>2, <1>4 DEF Control, runnerVars
<1> QED BY <1>2, <1>3, <1>4, <1>5, Ends DEF IInv

(* The first download. *)
LEMMA PreDownloadStep ==
  ASSUME IInv, PreDownload, UNCHANGED runnerVars
  PROVE  IInv'
<1>1. TypeOK /\ Control /\ FreshFiles
  BY DEF IInv
<1>2. /\ phase = "predownload" /\ phase' = "prepare"
      /\ UNCHANGED <<chunk, prepOnly, exit, run, at, workVars, outVars, faults, kills>>
      /\ eras' = eras \cup erasFor(InitialEnvelope.StartSlot, InitialEnvelope.EndSlot)
  BY DEF PreDownload, GoTo
<1>3. TypeOK'
  <2>1. eras' \subseteq Int
    <3>1. chunk \in Chunks /\ eras \subseteq Int
      BY <1>1 DEF TypeOK
    <3>2. InitialEnvelope.StartSlot \in Nat /\ InitialEnvelope.EndSlot \in Nat
      BY <3>1, Envelope
    <3>3. erasFor(InitialEnvelope.StartSlot, InitialEnvelope.EndSlot) \subseteq Int
      BY <3>2, ErasWithin
    <3> QED BY <1>2, <3>1, <3>3
  <2> QED BY <1>1, <1>2, <2>1 DEF TypeOK, workVars, outVars, runnerVars, Running
<1>4. Control'
  <2>1. 1 \in Workers
    BY OrchestratorAssumption DEF Workers
  <2> QED BY <1>1, <1>2, <2>1 DEF Control, runnerVars, workVars
<1>5. \A i \in Workers : ~ Prepared(i)'
  BY <1>1, <1>2, OrchestratorAssumption DEF Control, Prepared, Workers
<1>6. FreshFiles'
  BY <1>1, <1>2, <1>5, FilesFrame DEF workVars
<1>7. Downloaded'
  <2>1. InitialEnvelope' = InitialEnvelope
    BY <1>2 DEF minWarmupSlot, maxEndSlot, InitialEnvelope
  <2> QED BY <1>2, <1>5, <2>1 DEF Downloaded, EraCovered
<1> QED BY <1>2, <1>3, <1>4, <1>6, <1>7, Goes DEF IInv

(* Checkpoint: a checkpoint is never after the planned warmup slot. *)
LEMMA Checkpoint ==
  ASSUME NEW slot \in Nat, CheckpointSlots(slot) # {}
  PROVE  Max(CheckpointSlots(slot)) \in Nat /\ Max(CheckpointSlots(slot)) <= slot
<1>1. /\ SlotsPerEpoch \in Nat /\ FallbackEpochs \in Nat
  BY OrchestratorAssumption
<1>2. ASSUME NEW s \in CheckpointSlots(slot) PROVE s \in Nat /\ s <= slot
  <2>1. PICK k \in 0 .. FallbackEpochs : s = slot - k * SlotsPerEpoch /\ s >= 0
    BY DEF CheckpointSlots
  <2>2. k * SlotsPerEpoch \in Nat
    BY <1>1
  <2> QED BY <2>1, <2>2
<1>3. CheckpointSlots(slot) \subseteq Nat
  BY <1>2
<1> QED BY <1>2, <1>3, Largest

(* A worker is prepared: the output of an earlier run is gone. *)
LEMMA PrepareWorkerStep ==
  ASSUME IInv, NEW i \in Workers, PrepareWorker(i), UNCHANGED runnerVars
  PROVE  IInv'
<1> DEFINE slot == Plan[i].WarmupStartSlot
           found == CheckpointSlots(slot)
           empty == ~ IsActive(Plan[i])
           file == IF empty THEN [slots |-> {}, runs |-> {}, torn |-> FALSE] ELSE NoFile
           w == IF empty THEN 0 ELSE Max(found)
<1>1. TypeOK /\ Control /\ FreshFiles /\ Downloaded
  BY DEF IInv
<1>2. /\ phase = "prepare" /\ at = i /\ wfile' = [wfile EXCEPT ![i] = file]
      /\ UNCHANGED <<eras, worker, pos, outVars, faults, kills, chunk, prepOnly, run>>
      /\ \/ /\ empty \/ found # {}
            /\ warmup' = [warmup EXCEPT ![i] = w] /\ at' = at + 1
            /\ phase' = IF i = Parallel THEN "catchup" ELSE phase
            /\ exit' = exit
         \/ phase' = "off" /\ exit' = 1 /\ at' = at /\ warmup' = warmup
  BY DEF PrepareWorker, ExitWith
<1>3. slot \in Nat /\ slot < MaxSlot
  <2>1. chunk \in Chunks
    BY <1>1 DEF TypeOK
  <2>2. /\ slot \in Nat /\ Plan[i].StartSlot \in Nat /\ Plan[i].EndSlot \in Nat
        /\ slot <= Plan[i].StartSlot /\ Plan[i].StartSlot <= Plan[i].EndSlot
        /\ Plan[i].EndSlot <= EndEpoch * SlotsPerEpoch
    BY <2>1, WorkerSlots DEF Plan
  <2>3. EndEpoch * SlotsPerEpoch < MaxSlot /\ EndEpoch * SlotsPerEpoch \in Nat /\ MaxSlot \in Nat
    BY OrchestratorAssumption
  <2> QED BY <2>2, <2>3
<1>4. empty \/ found # {} => w \in 0 .. MaxSlot /\ (~ empty => w <= slot)
  <2>1. MaxSlot \in Nat
    BY OrchestratorAssumption
  <2> QED BY <1>3, <2>1, Checkpoint
<1>5. file \in Files /\ (Exists(file) => file.slots = {} /\ file.runs = {})
  BY DEF Files, NoFile, Exists
<1> HIDE DEF file, w, empty, found, slot
<1>6. i \in 1 .. Parallel /\ Parallel \in Nat
  BY OrchestratorAssumption DEF Workers
<1>7. TypeOK'
  <2>1. at' \in 1 .. Parallel + 1
    BY <1>2, <1>6
  <2>2. warmup' \in [Workers -> 0 .. MaxSlot] /\ wfile' \in [Workers -> Files]
    BY <1>1, <1>2, <1>4, <1>5 DEF TypeOK
  <2>3. /\ phase' \in {"catchup", "prepare", "off"} /\ (exit' = Running <=> phase' # "off")
        /\ exit' \in {Running, 0, 1, 137}
    BY <1>1, <1>2 DEF TypeOK, Running
  <2> QED BY <1>1, <1>2, <2>1, <2>2, <2>3 DEF TypeOK, outVars, runnerVars
<1>8. Control'
  <2>1. phase' = "prepare" => at' \in Workers
    BY <1>2, <1>6 DEF Workers
  <2>2. phase' \in {"catchup", "prepare", "off"}
    BY <1>2
  <2> QED BY <1>1, <1>2, <2>1, <2>2 DEF Control, runnerVars
<1>9. CASE phase' = "off"
  <2>1. \A j \in Workers : worker'[j] \notin {"starting", "looping"}
    BY <1>1, <1>2 DEF Control
  <2> QED BY <1>2, <1>7, <1>8, <1>9, <2>1, Ends DEF IInv
<1>10. CASE phase' # "off"
  <2>1. /\ (empty \/ found # {}) /\ warmup' = [warmup EXCEPT ![i] = w] /\ at' = at + 1
        /\ phase' \in {"prepare", "catchup"} /\ (phase' = "catchup" => i = Parallel)
    BY <1>2, <1>10
  <2>2. \A j \in Workers : Prepared(j)' => Prepared(j) \/ j = i
    BY <1>2, <1>6, <2>1 DEF Prepared, Workers
  <2>3. /\ wfile'[i] = file /\ \A j \in Workers \ {i} : wfile'[j] = wfile[j]
        /\ warmup'[i] = w /\ \A j \in Workers \ {i} : warmup'[j] = warmup[j]
    BY <1>1, <1>2, <2>1 DEF TypeOK
  <2>4. Plan' = Plan /\ run' = run
    BY <1>2 DEF Plan
  <2>5. FreshFiles'
    <3>1. \A j \in Workers : worker'[j] # "looping"
      BY <1>1, <1>2 DEF Control
    <3>2. ASSUME NEW j \in Workers, Prepared(j)', Exists(wfile'[j])
          PROVE  wfile'[j].slots \subseteq SlotsOf(Plan[j]) /\ wfile'[j].runs \subseteq {run}
      <4>1. CASE j = i
        BY <1>5, <2>3, <3>2, <4>1
      <4>2. CASE j # i
        BY <1>1, <2>2, <2>3, <3>2, <4>2 DEF FreshFiles
      <4> QED BY <4>1, <4>2
    <3> QED BY <2>4, <3>1, <3>2 DEF FreshFiles, Exists, NoFile
  <2>6. Downloaded'
    <3>1. InitialEnvelope' = InitialEnvelope
      BY <1>2 DEF minWarmupSlot, maxEndSlot, InitialEnvelope
    <3>2. ASSUME NEW j \in Workers, Prepared(j)', IsActive(Plan[j])
          PROVE  warmup'[j] <= Plan[j].WarmupStartSlot
      <4>1. CASE j = i
        BY <1>4, <2>1, <2>3, <3>2, <4>1 DEF empty, slot
      <4>2. CASE j # i
        BY <1>1, <2>2, <2>3, <3>2, <4>2 DEF Downloaded
      <4> QED BY <4>1, <4>2
    <3>3. erasFor(InitialEnvelope.StartSlot, InitialEnvelope.EndSlot) \subseteq eras
      BY <1>1, <1>2 DEF Downloaded
    <3>4. EraCovered'
      BY <2>1 DEF EraCovered
    <3> QED BY <1>2, <2>4, <3>1, <3>2, <3>3, <3>4 DEF Downloaded
  <2>7. Outputs' /\ Accepted'
    BY <1>2, <2>1, Goes
  <2> QED BY <1>7, <1>8, <2>5, <2>6, <2>7 DEF IInv
<1> QED BY <1>9, <1>10

(* Catching up: the ERA files of the actual warmup slots. *)
LEMMA CatchUpStep ==
  ASSUME IInv, CatchUp, UNCHANGED runnerVars
  PROVE  IInv'
<1> DEFINE e == warmArchiveEraDownloadEnvelope
           ini == InitialEnvelope
<1>1. TypeOK /\ Control /\ FreshFiles /\ Downloaded
  BY DEF IInv
<1>2. /\ phase = "catchup" /\ phase' = "warm"
      /\ UNCHANGED <<chunk, prepOnly, exit, run, at, workVars, outVars, faults, kills>>
      /\ eras' = IF slotEnvelopeExtendsBeyond(e, ini)
                   THEN eras \cup erasFor(e.StartSlot, e.EndSlot) ELSE eras
  BY DEF CatchUp, GoTo
<1>3. chunk \in Chunks
  BY <1>1 DEF TypeOK
<1>4. /\ minWarmupSlot \in Nat /\ maxEndSlot \in Nat /\ ini.StartSlot \in Nat /\ ini.EndSlot \in Nat
      /\ maxEndSlot <= EndEpoch * SlotsPerEpoch
      /\ \A i \in Workers : IsActive(Plan[i]) => Plan[i].EndSlot <= maxEndSlot
  BY <1>3, Envelope
<1> DEFINE W == {warmup[i] : i \in {j \in Workers : IsActive(Plan[j])}}
           first == Min(W)
<1>5. /\ first \in Nat /\ \A i \in Workers : IsActive(Plan[i]) => first <= warmup[i]
      /\ first <= minWarmupSlot
  <2>1. PICK k \in Workers : IsActive(Plan[k]) /\ Plan[k].WarmupStartSlot = minWarmupSlot
    BY <1>3, Envelope
  <2>2. \A i \in Workers : warmup[i] \in Nat
    BY <1>1, OrchestratorAssumption DEF TypeOK
  <2>3. W \subseteq Nat /\ W # {} /\ \A i \in Workers : IsActive(Plan[i]) => warmup[i] \in W
    BY <2>1, <2>2
  <2> HIDE DEF W
  <2>4. first \in Nat /\ \A y \in W : first <= y
    BY <2>3, Smallest
  <2>5. warmup[k] <= minWarmupSlot
    BY <1>1, <1>2, <2>1 DEF Downloaded, Prepared
  <2> QED BY <1>4, <2>1, <2>2, <2>3, <2>4, <2>5
<1>6. /\ e.StartSlot \in Nat /\ e.StartSlot <= first
      /\ e.EndSlot \in Nat /\ e.EndSlot \in {maxEndSlot + LookaheadCap, MaxSlot}
      /\ e.EndSlot <= maxEndSlot + LookaheadCap
  <2>1. LookaheadCap \in Nat /\ MaxSlot \in Nat /\ SlotsPerEra \in Nat
    BY OrchestratorAssumption
  <2>2. {maxEndSlot + LookaheadCap, MaxSlot} \subseteq Nat
    BY <1>4, <2>1
  <2>3. /\ Min({maxEndSlot + LookaheadCap, MaxSlot}) \in {maxEndSlot + LookaheadCap, MaxSlot}
        /\ Min({maxEndSlot + LookaheadCap, MaxSlot}) <= maxEndSlot + LookaheadCap
    BY <2>2, Smallest
  <2>4. /\ e.EndSlot = Min({maxEndSlot + LookaheadCap, MaxSlot})
        /\ e.StartSlot = IF first <= SlotsPerEra THEN 0 ELSE first - SlotsPerEra
    BY DEF warmArchiveEraDownloadEnvelope
  <2> HIDE DEF first, e
  <2>5. e.StartSlot \in Nat /\ e.StartSlot <= first
    BY <1>5, <2>1, <2>4
  <2> QED BY <2>2, <2>3, <2>4, <2>5
<1>7. slotEnvelopeExtendsBeyond(e, ini) <=> (e.StartSlot < ini.StartSlot \/ e.EndSlot > ini.EndSlot)
  BY DEF slotEnvelopeExtendsBeyond
<1>i. erasFor(ini.StartSlot, ini.EndSlot) \subseteq eras
  BY <1>1, <1>2 DEF Downloaded
<1> HIDE DEF e, ini, first, W
<1>8. TypeOK'
  <2>1. eras' \subseteq Int
    <3>1. erasFor(e.StartSlot, e.EndSlot) \subseteq Int
      BY <1>6, ErasWithin
    <3>2. eras \subseteq Int
      BY <1>1 DEF TypeOK
    <3> QED BY <1>2, <3>1, <3>2
  <2> QED BY <1>1, <1>2, <2>1 DEF TypeOK, workVars, outVars, runnerVars, Running
<1>9. Control'
  BY <1>1, <1>2 DEF Control, runnerVars, workVars
<1>10. FreshFiles'
  <2>1. \A i \in Workers : Prepared(i)
    BY <1>2 DEF Prepared
  <2> QED BY <1>1, <1>2, <2>1, FilesFrame DEF workVars
<1>11. \A x, y \in Nat : e.StartSlot <= x /\ y <= e.EndSlot => erasFor(x, y) \subseteq eras'
  <2> SUFFICES ASSUME NEW x \in Nat, NEW y \in Nat, e.StartSlot <= x, y <= e.EndSlot
               PROVE  erasFor(x, y) \subseteq eras'
    OBVIOUS
  <2>1. CASE slotEnvelopeExtendsBeyond(e, ini)
    <3>1. erasFor(x, y) \subseteq erasFor(e.StartSlot, e.EndSlot)
      BY <1>6, ErasWithin
    <3> QED BY <1>2, <2>1, <3>1
  <2>2. CASE ~ slotEnvelopeExtendsBeyond(e, ini)
    <3>1. ini.StartSlot <= x /\ y <= ini.EndSlot
      BY <1>4, <1>6, <1>7, <2>2
    <3>2. erasFor(x, y) \subseteq erasFor(ini.StartSlot, ini.EndSlot)
      BY <1>4, <3>1, ErasWithin
    <3> QED BY <1>2, <1>i, <2>2, <3>2
  <2> QED BY <2>1, <2>2
<1>12. Downloaded'
  <2>1. Plan' = Plan /\ minWarmupSlot' = minWarmupSlot /\ warmup' = warmup
    BY <1>2 DEF Plan, minWarmupSlot, workVars
  <2>2. \A i \in Workers : IsActive(Plan[i]) => warmup[i] <= Plan[i].WarmupStartSlot
    BY <1>1, <1>2 DEF Downloaded, Prepared
  <2>3. ASSUME LookaheadFits, NEW i \in Workers, IsActive(Plan[i])
        PROVE  erasFor(Min({warmup[i] + 1, minWarmupSlot}), Plan[i].EndSlot + LookaheadCap)
                 \subseteq eras'
    <3> DEFINE x == Min({warmup[i] + 1, minWarmupSlot})
               y == Plan[i].EndSlot + LookaheadCap
    <3>1. warmup[i] \in Nat /\ first <= warmup[i]
      BY <1>1, <1>5, <2>3, OrchestratorAssumption DEF TypeOK
    <3>2. {warmup[i] + 1, minWarmupSlot} \subseteq Nat
      BY <1>4, <3>1
    <3>3. x \in Nat /\ x \in {warmup[i] + 1, minWarmupSlot}
      BY <3>2, Smallest
    <3>4. e.StartSlot <= x
      <4> HIDE DEF x
      <4> QED BY <1>4, <1>5, <1>6, <3>1, <3>3
    <3>5. Plan[i].EndSlot \in Nat /\ Plan[i].EndSlot <= maxEndSlot
      BY <1>3, <1>4, <2>3, WorkerSlots DEF Plan
    <3>6. LookaheadCap \in Nat /\ MaxSlot \in Nat /\ EndEpoch * SlotsPerEpoch \in Nat
      BY OrchestratorAssumption
    <3>7. maxEndSlot + LookaheadCap <= MaxSlot
      BY <1>4, <2>3, <3>6 DEF LookaheadFits
    <3>8. y \in Nat /\ y <= e.EndSlot
      BY <1>4, <1>6, <3>5, <3>6, <3>7
    <3> HIDE DEF x, y
    <3>9. erasFor(x, y) \subseteq eras'
      BY <1>11, <3>3, <3>4, <3>8
    <3> QED BY <3>9 DEF x, y
  <2>4. LookaheadFits => EraCovered'
    BY <2>1, <2>3 DEF EraCovered
  <2> QED BY <1>2, <2>1, <2>2, <2>4 DEF Downloaded
<1>13. Outputs' /\ Accepted'
  BY <1>2, Goes
<1> QED BY <1>8, <1>9, <1>10, <1>12, <1>13 DEF IInv

(* The archive warm-up; a prep-only process ends. *)
LEMMA WarmStep ==
  ASSUME IInv, Warm, UNCHANGED runnerVars
  PROVE  IInv'
<1>1. TypeOK /\ Control /\ FreshFiles /\ Downloaded
  BY DEF IInv
<1>2. /\ phase = "warm"
      /\ UNCHANGED <<chunk, prepOnly, run, at, eras, workVars, outVars, faults, kills>>
      /\ \/ prepOnly /\ phase' = "off" /\ exit' = 0
         \/ ~ prepOnly /\ phase' = "serve" /\ exit' = exit
  BY DEF Warm, ExitWith, GoTo
<1>3. TypeOK'
  BY <1>1, <1>2 DEF TypeOK, workVars, outVars, runnerVars, Running
<1>4. Control'
  BY <1>1, <1>2 DEF Control, runnerVars, workVars
<1>5. \A i \in Workers : worker'[i] \notin {"starting", "looping"}
  BY <1>1, <1>2 DEF Control, workVars
<1>6. CASE prepOnly
  <2>1. phase' = "off" /\ rpc # "running"
    BY <1>1, <1>2, <1>6 DEF Control
  <2> QED BY <1>2, <1>3, <1>4, <1>5, <2>1, Ends DEF IInv
<1>7. CASE ~ prepOnly
  <2>1. phase' = "serve"
    BY <1>2, <1>7
  <2>2. \A i \in Workers : Prepared(i)
    BY <1>2 DEF Prepared
  <2>3. FreshFiles'
    BY <1>1, <1>2, <2>2, FilesFrame DEF workVars
  <2>4. Downloaded'
    BY <1>1, <1>2, <2>1, <2>2, DownloadedFrame DEF workVars, Later
  <2> QED BY <1>2, <1>3, <1>4, <2>1, <2>3, <2>4, Goes DEF IInv
<1> QED BY <1>6, <1>7

(* The engines are started. *)
LEMMA ServeStep ==
  ASSUME IInv, Serve, UNCHANGED runnerVars
  PROVE  IInv'
<1>1. TypeOK /\ Control /\ FreshFiles /\ Downloaded
  BY DEF IInv
<1>2. /\ phase = "serve" /\ phase' = "run"
      /\ worker' = [i \in Workers |-> IF IsActive(Plan[i]) THEN "starting" ELSE "ok"]
      /\ pos' = [i \in Workers |-> warmup[i] + 1]
      /\ UNCHANGED <<chunk, prepOnly, exit, run, at, eras, warmup, wfile, outVars, faults, kills>>
  BY DEF Serve, GoTo
<1>3. TypeOK'
  <2>1. pos' \in [Workers -> 0 .. MaxSlot + 1]
    BY <1>1, <1>2, OrchestratorAssumption DEF TypeOK
  <2>2. worker' \in [Workers -> {"idle", "starting", "looping", "ok", "failed"}]
    BY <1>2
  <2> QED BY <1>1, <1>2, <2>1, <2>2 DEF TypeOK, outVars, runnerVars, Running
<1>4. Control'
  BY <1>1, <1>2 DEF Control, runnerVars
<1>5. \A i \in Workers : Prepared(i) /\ worker'[i] # "looping"
  BY <1>2 DEF Prepared
<1>6. FreshFiles'
  BY <1>1, <1>2, <1>5, FilesFrame
<1>7. Downloaded'
  BY <1>1, <1>2, <1>5, DownloadedFrame DEF Later
<1> QED BY <1>2, <1>3, <1>4, <1>6, <1>7, Goes DEF IInv

(* EngineStep: an engine's step changes its state, its position and its     *)
(* file; the file then holds records of this run and of the worker's slots. *)
LEMMA EngineStep ==
  ASSUME IInv, NEW i \in Workers, worker[i] \in {"starting", "looping"},
         UNCHANGED <<procVars, eras, warmup, outVars, runnerVars>>,
         faults' \in 0 .. MaxFaults, kills' = kills,
         NEW s \in {"starting", "looping", "ok", "failed"}, worker' = [worker EXCEPT ![i] = s],
         pos' \in [Workers -> 0 .. MaxSlot + 1],
         NEW f \in Files, wfile' = [wfile EXCEPT ![i] = f],
         s = "looping" => Exists(f),
         Exists(f) => f.slots \subseteq SlotsOf(Plan[i]) /\ f.runs \subseteq {run}
  PROVE  IInv'
<1>1. TypeOK /\ Control /\ FreshFiles /\ Downloaded
  BY DEF IInv
<1>2. phase = "run" /\ phase' = "run"
  BY <1>1 DEF Control, procVars
<1>3. UNCHANGED <<chunk, prepOnly, exit, run, at>>
  BY DEF procVars
<1>4. TypeOK'
  <2>1. /\ wfile' \in [Workers -> Files]
        /\ worker' \in [Workers -> {"idle", "starting", "looping", "ok", "failed"}]
    BY <1>1 DEF TypeOK
  <2> QED BY <1>1, <1>2, <1>3, <2>1 DEF TypeOK, outVars, runnerVars, Running
<1>5. Control'
  BY <1>1, <1>2, <1>3 DEF Control, runnerVars
<1>6. \A j \in Workers : Prepared(j)
  BY <1>2 DEF Prepared
<1>7. /\ wfile'[i] = f /\ worker'[i] = s
      /\ \A j \in Workers \ {i} : wfile'[j] = wfile[j] /\ worker'[j] = worker[j]
  BY <1>1 DEF TypeOK
<1>8. Plan' = Plan
  BY <1>3 DEF Plan
<1>9. FreshFiles'
  <2>1. ASSUME NEW j \in Workers
        PROVE  /\ Exists(wfile'[j]) =>
                    wfile'[j].slots \subseteq SlotsOf(Plan[j]) /\ wfile'[j].runs \subseteq {run}
               /\ worker'[j] = "looping" => Exists(wfile'[j])
    <3>1. CASE j = i
      BY <1>7, <3>1
    <3>2. CASE j # i
      BY <1>1, <1>6, <1>7, <3>2 DEF FreshFiles
    <3> QED BY <3>1, <3>2
  <2> QED BY <1>3, <1>8, <2>1 DEF FreshFiles, Exists, NoFile
<1>10. Downloaded'
  BY <1>1, <1>2, <1>3, <1>6, DownloadedFrame DEF Later
<1> QED BY <1>2, <1>4, <1>5, <1>9, <1>10, Goes DEF IInv

LEMMA EngineOpenStep ==
  ASSUME IInv, NEW i \in Workers, EngineOpen(i), UNCHANGED runnerVars
  PROVE  IInv'
<1> DEFINE f == [slots |-> {}, runs |-> {run}, torn |-> FALSE]
<1>1. TypeOK
  BY DEF IInv
<1>2. /\ worker[i] = "starting" /\ worker' = [worker EXCEPT ![i] = "looping"]
      /\ wfile' = [wfile EXCEPT ![i] = f]
      /\ UNCHANGED <<procVars, eras, warmup, pos, outVars, faults, kills>>
  BY DEF EngineOpen
<1>3. f \in Files /\ Exists(f) /\ f.slots = {} /\ f.runs = {run}
  <2>1. run \in Nat
    BY <1>1 DEF TypeOK
  <2>2. f \in Files
    BY <2>1 DEF Files
  <2>3. f.slots = {} /\ f.runs = {run}
    OBVIOUS
  <2>4. NoFile.runs = {}
    BY DEF NoFile
  <2> HIDE DEF f
  <2>5. Exists(f)
    BY <2>3, <2>4 DEF Exists
  <2> QED BY <2>2, <2>3, <2>5
<1>4. pos' \in [Workers -> 0 .. MaxSlot + 1] /\ faults' \in 0 .. MaxFaults
  BY <1>1, <1>2 DEF TypeOK
<1> HIDE DEF f
<1> QED BY <1>2, <1>3, <1>4, EngineStep

(* EngineKeeps: an engine's own file is of this run, once it is open. *)
LEMMA EngineKeeps ==
  ASSUME IInv, NEW i \in Workers, worker[i] \in {"starting", "looping"}
  PROVE  /\ wfile[i] \in Files
         /\ wfile = [wfile EXCEPT ![i] = wfile[i]]
         /\ worker[i] = "looping" => Exists(wfile[i])
         /\ Exists(wfile[i]) =>
              wfile[i].slots \subseteq SlotsOf(Plan[i]) /\ wfile[i].runs \subseteq {run}
<1>1. TypeOK /\ Control /\ FreshFiles
  BY DEF IInv
<1>2. Prepared(i)
  BY <1>1 DEF Control, Prepared
<1>3. wfile[i] \in Files /\ wfile = [wfile EXCEPT ![i] = wfile[i]]
  BY <1>1 DEF TypeOK
<1> QED BY <1>1, <1>2, <1>3 DEF FreshFiles

LEMMA EngineSlotStep ==
  ASSUME IInv, NEW i \in Workers, EngineSlot(i), UNCHANGED runnerVars
  PROVE  IInv'
<1> DEFINE g == wfile[i]
           f == [g EXCEPT !.slots = IF pos[i] >= Plan[i].StartSlot THEN @ \cup {pos[i]} ELSE @]
<1>1. TypeOK
  BY DEF IInv
<1>2. /\ worker[i] = "looping" /\ pos[i] < Plan[i].EndSlot
      /\ wfile' = [wfile EXCEPT ![i] = f]
      /\ pos' = [pos EXCEPT ![i] = @ + 1]
      /\ UNCHANGED <<procVars, eras, warmup, worker, outVars, faults, kills>>
  BY DEF EngineSlot
<1>3. /\ g \in Files /\ Exists(g)
      /\ g.slots \subseteq SlotsOf(Plan[i]) /\ g.runs \subseteq {run}
  BY <1>2, EngineKeeps
<1>4. /\ pos[i] \in Nat /\ Plan[i].StartSlot \in Nat /\ Plan[i].EndSlot \in Nat
      /\ Plan[i].EndSlot <= MaxSlot /\ MaxSlot \in Nat
  <2>1. chunk \in Chunks
    BY <1>1 DEF TypeOK
  <2>2. /\ Plan[i].StartSlot \in Nat /\ Plan[i].EndSlot \in Nat
        /\ Plan[i].EndSlot <= EndEpoch * SlotsPerEpoch
    BY <2>1, WorkerSlots DEF Plan
  <2>3. EndEpoch * SlotsPerEpoch < MaxSlot /\ EndEpoch * SlotsPerEpoch \in Nat /\ MaxSlot \in Nat
    BY OrchestratorAssumption
  <2>4. pos[i] \in 0 .. MaxSlot + 1
    BY <1>1 DEF TypeOK
  <2> QED BY <2>2, <2>3, <2>4
<1>5. pos[i] >= Plan[i].StartSlot => pos[i] \in SlotsOf(Plan[i])
  BY <1>2, <1>4 DEF SlotsOf
<1> HIDE DEF g
<1>6. f = [slots |-> IF pos[i] >= Plan[i].StartSlot THEN g.slots \cup {pos[i]} ELSE g.slots,
           runs |-> g.runs, torn |-> g.torn]
  BY <1>3 DEF Files
<1> HIDE DEF f
<1>7. f \in Files
  BY <1>3, <1>4, <1>6 DEF Files
<1>8. Exists(f)
  <2>1. CASE pos[i] >= Plan[i].StartSlot
    <3>1. pos[i] \in f.slots /\ pos[i] # -1
      BY <1>4, <1>6, <2>1
    <3> QED BY <3>1 DEF Exists, NoFile
  <2>2. CASE ~ (pos[i] >= Plan[i].StartSlot)
    <3>1. f = g
      BY <1>3, <1>6, <2>2 DEF Files
    <3> QED BY <1>3, <3>1
  <2> QED BY <2>1, <2>2
<1>9. f.slots \subseteq SlotsOf(Plan[i]) /\ f.runs \subseteq {run}
  BY <1>3, <1>5, <1>6
<1>10. pos' \in [Workers -> 0 .. MaxSlot + 1]
  <2>1. pos[i] + 1 \in 0 .. MaxSlot + 1
    BY <1>2, <1>4
  <2> QED BY <1>1, <1>2, <2>1 DEF TypeOK
<1>11. worker' = [worker EXCEPT ![i] = "looping"] /\ faults' \in 0 .. MaxFaults
  BY <1>1, <1>2 DEF TypeOK
<1> QED BY <1>2, <1>7, <1>8, <1>9, <1>10, <1>11, EngineStep

LEMMA EngineExitStep ==
  ASSUME IInv, NEW i \in Workers, EngineExit(i) \/ EngineTruncates(i), UNCHANGED runnerVars
  PROVE  IInv'
<1>1. TypeOK
  BY DEF IInv
<1>2. /\ worker[i] \in {"starting", "looping"} /\ worker' = [worker EXCEPT ![i] = "ok"]
      /\ UNCHANGED <<procVars, eras, warmup, pos, wfile, outVars, kills>>
      /\ faults' \in 0 .. MaxFaults
  <2>1. faults \in 0 .. MaxFaults
    BY <1>1 DEF TypeOK
  <2> QED BY <1>1, <2>1, Counters DEF EngineExit, EngineTruncates
<1>3. pos' \in [Workers -> 0 .. MaxSlot + 1]
  BY <1>1, <1>2 DEF TypeOK
<1>4. /\ wfile[i] \in Files /\ wfile' = [wfile EXCEPT ![i] = wfile[i]]
      /\ Exists(wfile[i]) =>
           wfile[i].slots \subseteq SlotsOf(Plan[i]) /\ wfile[i].runs \subseteq {run}
  BY <1>2, EngineKeeps
<1> QED BY <1>2, <1>3, <1>4, EngineStep

LEMMA EngineFailStep ==
  ASSUME IInv, NEW i \in Workers, EngineFail(i), UNCHANGED runnerVars
  PROVE  IInv'
<1> DEFINE g == wfile[i]
           f == [g EXCEPT !.torn = TRUE]
<1>1. TypeOK
  BY DEF IInv
<1>2. /\ worker[i] \in {"starting", "looping"} /\ worker' = [worker EXCEPT ![i] = "failed"]
      /\ UNCHANGED <<procVars, eras, warmup, pos, outVars, kills>>
      /\ faults' \in 0 .. MaxFaults
      /\ \/ wfile' = wfile
         \/ worker[i] = "looping" /\ wfile' = [wfile EXCEPT ![i] = f]
  BY <1>1, Counters DEF EngineFail
<1>3. pos' \in [Workers -> 0 .. MaxSlot + 1]
  BY <1>1, <1>2 DEF TypeOK
<1>4. /\ g \in Files /\ wfile = [wfile EXCEPT ![i] = g]
      /\ worker[i] = "looping" => Exists(g)
      /\ Exists(g) => g.slots \subseteq SlotsOf(Plan[i]) /\ g.runs \subseteq {run}
  BY <1>2, EngineKeeps
<1>5. CASE wfile' = wfile
  BY <1>2, <1>3, <1>4, <1>5, EngineStep
<1>6. CASE worker[i] = "looping" /\ wfile' = [wfile EXCEPT ![i] = f]
  <2> HIDE DEF g
  <2>1. f \in Files /\ f.slots = g.slots /\ f.runs = g.runs
    BY <1>4 DEF Files
  <2> HIDE DEF f
  <2> QED BY <1>2, <1>3, <1>4, <1>6, <2>1, EngineStep
<1> QED BY <1>2, <1>5, <1>6
-------------------------------------------------------------------------------
(* The workers have ended; one that succeeded must have left a file. *)
LEMMA CollectStep ==
  ASSUME IInv, Collect, UNCHANGED runnerVars
  PROVE  IInv'
<1>1. TypeOK /\ Control /\ FreshFiles /\ Downloaded
  BY DEF IInv
<1>2. /\ phase = "run" /\ \A i \in Workers : worker[i] \in {"ok", "failed"}
      /\ UNCHANGED <<chunk, prepOnly, run, at, eras, workVars, outVars, faults, kills>>
      /\ \/ phase' = "off" /\ exit' = 1
         \/ phase' = "merge" /\ exit' = exit
  BY DEF Collect, Joined, ExitWith, GoTo
<1>3. TypeOK'
  BY <1>1, <1>2 DEF TypeOK, workVars, outVars, runnerVars, Running
<1>4. \A i \in Workers : worker'[i] \notin {"starting", "looping"}
  BY <1>2 DEF workVars
<1>5. Control'
  BY <1>1, <1>2, <1>4 DEF Control, runnerVars
<1>6. CASE phase' = "off"
  <2>1. exit' # 0
    BY <1>2, <1>6
  <2> QED BY <1>2, <1>3, <1>4, <1>5, <1>6, <2>1, Ends DEF IInv
<1>7. CASE phase' = "merge"
  <2>1. \A i \in Workers : Prepared(i)
    BY <1>2 DEF Prepared
  <2>2. FreshFiles'
    BY <1>1, <1>2, <2>1, FilesFrame DEF workVars
  <2>3. Downloaded'
    BY <1>1, <1>2, <1>7, <2>1, DownloadedFrame DEF workVars, Later
  <2> QED BY <1>2, <1>3, <1>5, <1>7, <2>2, <2>3, Goes DEF IInv
<1> QED BY <1>2, <1>6, <1>7

(* MergedWhole: what passes the merge is of one run and, with a warmup,     *)
(* holds the slots of the chunk.                                            *)
LEMMA MergedWhole ==
  ASSUME TypeOK, FreshFiles, phase \in {"merge", "csv"}, MergeValid
  PROVE  /\ MergedFile \in Files /\ Exists(MergedFile) /\ OneRun(MergedFile)
         /\ ~ MergedFile.torn
         /\ Warmed => MergedFile.slots = ChunkSlots(chunk)
<1>1. /\ MergedFile.slots = Merged /\ MergedFile.torn = FALSE
      /\ MergedFile.runs = UNION {wfile[i].runs : i \in MergeFiles}
  BY DEF MergedFile
<1>2. chunk \in Chunks /\ run \in Nat
  BY DEF TypeOK
<1>3. \A i \in MergeFiles : wfile[i].slots \subseteq SlotsOf(Plan[i]) /\ wfile[i].runs \subseteq {run}
  BY DEF FreshFiles, Prepared, MergeFiles
<1>4. \A i \in MergeFiles : SlotsOf(Plan[i]) \subseteq ChunkSlots(chunk)
  BY <1>2, WorkerSlots DEF Plan, MergeFiles
<1>5. Merged \subseteq ChunkSlots(chunk) /\ ChunkSlots(chunk) \subseteq Nat
  BY <1>2, <1>3, <1>4, SlotCount DEF Merged
<1>6. MergedFile.runs \subseteq {run}
  BY <1>1, <1>3
<1>7. MergedFile \in Files
  <2>1. Merged \subseteq Int /\ UNION {wfile[i].runs : i \in MergeFiles} \subseteq Nat
    BY <1>1, <1>2, <1>5, <1>6
  <2> QED BY <2>1 DEF MergedFile, Files
<1>8. Exists(MergedFile)
  <2>1. -1 \notin MergedFile.slots
    BY <1>1, <1>5
  <2>2. -1 \in NoFile.slots
    BY DEF NoFile
  <2> QED BY <2>1, <2>2 DEF Exists
<1>9. OneRun(MergedFile)
  BY <1>6 DEF OneRun
<1>10. Warmed => Merged = ChunkSlots(chunk)
  BY <1>2, <1>5, Expected DEF MergeValid
<1> QED BY <1>1, <1>7, <1>8, <1>9, <1>10

(* The records are merged and the JSONL file is put in place. *)
LEMMA MergeStep ==
  ASSUME IInv, Merge, UNCHANGED runnerVars
  PROVE  IInv'
<1>1. TypeOK /\ Control /\ FreshFiles /\ Outputs /\ Accepted /\ Downloaded
  BY DEF IInv
<1>2. /\ phase = "merge"
      /\ UNCHANGED <<chunk, prepOnly, run, at, eras, workVars, csv, manifest, faults, kills>>
      /\ \/ MergeValid /\ jsonl' = [jsonl EXCEPT ![chunk] = MergedFile]
            /\ phase' = "csv" /\ exit' = exit
         \/ phase' = "off" /\ exit' = 1 /\ jsonl' = jsonl
  BY DEF Merge, ExitWith, GoTo
<1>3. UNCHANGED <<warmup, worker, pos, wfile>>
  BY <1>2 DEF workVars
<1>4. \A i \in Workers : worker'[i] \notin {"starting", "looping"}
  BY <1>1, <1>2, <1>3 DEF Control
<1>5. Control'
  BY <1>1, <1>2, <1>3, <1>4 DEF Control, runnerVars
<1>6. CASE phase' = "off"
  <2>1. exit' # 0 /\ jsonl' = jsonl
    BY <1>2, <1>6
  <2>2. TypeOK'
    BY <1>1, <1>2, <1>3, <1>6 DEF TypeOK, runnerVars, Running
  <2>3. UNCHANGED outVars
    BY <1>2, <2>1 DEF outVars
  <2> QED BY <1>2, <1>4, <1>5, <1>6, <2>1, <2>2, <2>3, Ends DEF IInv
<1>7. CASE phase' = "csv"
  <2>1. MergeValid /\ jsonl' = [jsonl EXCEPT ![chunk] = MergedFile] /\ exit' = exit
    BY <1>2, <1>7
  <2>2. /\ MergedFile \in Files /\ OneRun(MergedFile) /\ ~ MergedFile.torn
        /\ Warmed => MergedFile.slots = ChunkSlots(chunk)
    BY <1>1, <1>2, <2>1, MergedWhole
  <2> DEFINE m == MergedFile
  <2> HIDE DEF m
  <2>3. jsonl' \in [Chunks -> Files] /\ chunk \in Chunks
        /\ jsonl' = [jsonl EXCEPT ![chunk] = m]
    BY <1>1, <2>1, <2>2 DEF TypeOK, m
  <2>4. TypeOK'
    BY <1>1, <1>2, <1>3, <1>7, <2>1, <2>3 DEF TypeOK, runnerVars, Running
  <2>5. /\ jsonl'[chunk] = m /\ \A c \in Chunks \ {chunk} : jsonl'[c] = jsonl[c]
    BY <1>1, <2>3 DEF TypeOK
  <2>6. \A c \in Chunks : OneRun(jsonl'[c])
    BY <1>1, <2>2, <2>5 DEF Outputs, m
  <2>7. MergeValid'
    BY <1>2, <1>3, <2>1 DEF MergeValid, MergeFiles, Merged, Exists, NoFile
  <2>8. Warmed => OutputExact'
    <3> SUFFICES ASSUME Warmed, NEW c \in Chunks
                 PROVE  /\ jsonl'[c] # NoFile =>
                             jsonl'[c].slots = ChunkSlots(c) /\ ~ jsonl'[c].torn
                        /\ csv[c] # NoFile => csv[c].slots = ChunkSlots(c) /\ ~ csv[c].torn
      BY <1>2 DEF OutputExact, Exists, NoFile
    <3>1. OutputExact
      BY <1>1 DEF Outputs
    <3> QED BY <2>2, <2>5, <3>1 DEF OutputExact, Exists, m
  <2>9. Outputs'
    BY <1>1, <1>2, <1>7, <2>6, <2>7, <2>8 DEF Outputs, OneRun
  <2>10. Accepted'
    <3>1. ExitZeroComplete' /\ CleanupComplete'
      BY <1>7 DEF ExitZeroComplete, CleanupComplete
    <3> QED BY <1>1, <1>2, <3>1, CompleteFrame, AcceptedFrame
  <2>11. \A i \in Workers : Prepared(i)
    BY <1>2 DEF Prepared
  <2>12. FreshFiles'
    BY <1>1, <1>2, <1>3, <2>11, FilesFrame
  <2>13. Downloaded'
    BY <1>1, <1>2, <1>3, <1>7, <2>11, DownloadedFrame DEF Later
  <2> QED BY <1>5, <2>4, <2>9, <2>10, <2>12, <2>13 DEF IInv
<1> QED BY <1>2, <1>6, <1>7

(* The CSV file is put in place: a complete chunk stays complete. *)
LEMMA WriteCSVStep ==
  ASSUME IInv, WriteCSV, UNCHANGED runnerVars
  PROVE  IInv' /\ (Warmed => \A c \in Chunks : chunk_complete(c) => chunk_complete(c)')
<1> DEFINE m == MergedFile
<1>1. TypeOK /\ Control /\ FreshFiles /\ Outputs /\ Accepted /\ Downloaded
  BY DEF IInv
<1>2. /\ phase = "csv" /\ phase' = "manifest" /\ csv' = [csv EXCEPT ![chunk] = m]
      /\ UNCHANGED <<chunk, prepOnly, exit, run, at, eras, workVars, jsonl, manifest, faults, kills>>
  BY DEF WriteCSV, GoTo
<1>3. UNCHANGED <<warmup, worker, pos, wfile>>
  BY <1>2 DEF workVars
<1>4. Control'
  BY <1>1, <1>2, <1>3 DEF Control, runnerVars
<1>5. /\ m \in Files /\ OneRun(m) /\ Exists(m) /\ ~ m.torn
      /\ Warmed => m.slots = ChunkSlots(chunk)
  <2>1. MergeValid
    BY <1>1, <1>2 DEF Outputs
  <2> QED BY <1>1, <1>2, <2>1, MergedWhole
<1> HIDE DEF m
<1>6. csv' \in [Chunks -> Files] /\ chunk \in Chunks
  BY <1>1, <1>2, <1>5 DEF TypeOK
<1>7. TypeOK'
  BY <1>1, <1>2, <1>3, <1>6 DEF TypeOK, runnerVars, Running
<1>8. csv'[chunk] = m /\ \A c \in Chunks \ {chunk} : csv'[c] = csv[c]
  BY <1>1, <1>2 DEF TypeOK
<1>9. \A c \in Chunks : OneRun(csv'[c])
  BY <1>1, <1>5, <1>8 DEF Outputs
<1>10. Warmed => OutputExact'
  <2> SUFFICES ASSUME Warmed, NEW c \in Chunks
               PROVE  /\ csv'[c] # NoFile =>
                           csv'[c].slots = ChunkSlots(c) /\ ~ csv'[c].torn
                      /\ jsonl[c] # NoFile => jsonl[c].slots = ChunkSlots(c) /\ ~ jsonl[c].torn
    BY <1>2 DEF OutputExact, Exists, NoFile
  <2>1. OutputExact
    BY <1>1 DEF Outputs
  <2> QED BY <1>5, <1>8, <2>1 DEF OutputExact, Exists
<1>11. Outputs'
  BY <1>1, <1>2, <1>5, <1>6, <1>8, <1>9, <1>10 DEF Outputs, OneRun, Exists, NoFile
<1>12. ASSUME Warmed, NEW c \in Chunks, chunk_complete(c)
       PROVE  chunk_complete(c)'
  <2>1. CASE c = chunk
    <3>1. Cardinality(csv'[c].slots) = (ChunkEnd(c) - ChunkStart(c)) * SlotsPerEpoch
      BY <1>5, <1>8, <1>12, <2>1, SlotCount
    <3>2. csv'[c] # NoFile /\ manifest'[c] # NoManifest
      BY <1>2, <1>5, <1>8, <1>12, <2>1 DEF chunk_complete, Exists
    <3> QED BY <3>1, <3>2 DEF chunk_complete, Exists, NoFile, NoManifest
  <2>2. CASE c # chunk
    BY <1>2, <1>8, <1>12, <2>2 DEF chunk_complete, Exists, NoFile, NoManifest
  <2> QED BY <2>1, <2>2
<1>13. Accepted'
  <2>1. ExitZeroComplete' /\ CleanupComplete'
    BY <1>2 DEF ExitZeroComplete, CleanupComplete
  <2> QED BY <1>1, <1>12, <2>1, AcceptedFrame
<1>14. \A i \in Workers : Prepared(i)
  BY <1>2 DEF Prepared
<1>15. FreshFiles'
  BY <1>1, <1>2, <1>3, <1>14, FilesFrame
<1>16. Downloaded'
  BY <1>1, <1>2, <1>3, <1>14, DownloadedFrame DEF Later
<1> QED BY <1>4, <1>7, <1>11, <1>12, <1>13, <1>15, <1>16 DEF IInv

(* The manifest is put in place, and the chunk is complete; the process     *)
(* ends if a worker failed.                                                 *)
LEMMA WriteManifestStep ==
  ASSUME IInv, WriteManifest, UNCHANGED runnerVars
  PROVE  IInv' /\ (Warmed => \A c \in Chunks : chunk_complete(c) => chunk_complete(c)')
<1> DEFINE h == [jsonl |-> run, csv |-> run]
<1>1. TypeOK /\ Control /\ Outputs /\ Accepted
  BY DEF IInv
<1>2. /\ phase = "manifest" /\ manifest' = [manifest EXCEPT ![chunk] = h]
      /\ UNCHANGED <<chunk, prepOnly, run, at, eras, warmup, worker, pos, wfile>>
      /\ UNCHANGED <<jsonl, csv, faults, kills>>
      /\ \/ phase' = "off" /\ exit' = 1
         \/ phase' = "cleanup" /\ exit' = exit
  BY DEF WriteManifest, ExitWith, GoTo, workVars
<1>3. h \in [jsonl : Nat, csv : Nat] /\ h # NoManifest
  <2>1. run \in Nat /\ run # 0
    BY <1>1, <1>2 DEF TypeOK, Control
  <2> QED BY <2>1 DEF NoManifest
<1> HIDE DEF h
<1>4. chunk \in Chunks /\ manifest' \in [Chunks -> [jsonl : Nat, csv : Nat]]
  BY <1>1, <1>2, <1>3 DEF TypeOK
<1>5. TypeOK'
  <2>1. exit' \in {Running, 1} /\ (exit' = Running <=> phase' # "off")
    BY <1>1, <1>2 DEF TypeOK, Running
  <2> QED BY <1>1, <1>2, <1>4, <2>1 DEF TypeOK, runnerVars, Running
<1>6. \A i \in Workers : worker'[i] \notin {"starting", "looping"}
  BY <1>1, <1>2 DEF Control
<1>7. Control'
  BY <1>1, <1>2, <1>6 DEF Control, runnerVars
<1>8. \A i \in Workers : ~ Prepared(i)'
  BY <1>2 DEF Prepared
<1>9. FreshFiles'
  BY <1>6, <1>8 DEF FreshFiles
<1>10. Downloaded'
  BY <1>2, <1>8 DEF Downloaded, EraCovered
<1>11. Outputs'
  BY <1>1, <1>2 DEF Outputs, OneRun, OutputExact, Exists, NoFile
<1>12. manifest'[chunk] = h /\ \A c \in Chunks \ {chunk} : manifest'[c] = manifest[c]
  BY <1>1, <1>2 DEF TypeOK
<1>13. ASSUME Warmed PROVE chunk_complete(chunk)'
  <2>1. csv[chunk] # NoFile /\ csv[chunk].slots = ChunkSlots(chunk)
    BY <1>1, <1>2, <1>4, <1>13 DEF Outputs, OutputExact, Exists
  <2>2. Cardinality(csv[chunk].slots) = (ChunkEnd(chunk) - ChunkStart(chunk)) * SlotsPerEpoch
    BY <1>4, <2>1, SlotCount
  <2> QED BY <1>2, <1>3, <1>12, <2>1, <2>2
          DEF chunk_complete, Exists, NoFile, NoManifest, ChunkEnd, ChunkStart
<1>14. ASSUME Warmed, NEW c \in Chunks, chunk_complete(c)
       PROVE  chunk_complete(c)'
  <2>1. CASE c = chunk
    <3>1. c = chunk'
      BY <1>2, <2>1
    <3> QED BY <1>13, <1>14, <2>1, <3>1
            DEF chunk_complete, Exists, NoFile, NoManifest, ChunkEnd, ChunkStart
  <2>2. CASE c # chunk
    BY <1>2, <1>12, <1>14, <2>2 DEF chunk_complete, Exists, NoFile, NoManifest
  <2> QED BY <2>1, <2>2
<1>15. Warmed => CleanupComplete' /\ ExitZeroComplete'
  <2> SUFFICES ASSUME Warmed, NEW c \in Chunks, c = chunk' PROVE chunk_complete(c)'
    BY <1>2 DEF CleanupComplete, ExitZeroComplete
  <2> QED BY <1>13 DEF chunk_complete, Exists, NoFile, NoManifest, ChunkEnd, ChunkStart
<1>16. Accepted'
  BY <1>1, <1>14, <1>15, AcceptedFrame
<1> QED BY <1>5, <1>7, <1>9, <1>10, <1>11, <1>14, <1>16 DEF IInv

(* The workers' files are removed, or not, and the process exits 0: the     *)
(* chunk it leaves is complete.                                             *)
LEMMA CleanupStep ==
  ASSUME IInv, Cleanup, UNCHANGED runnerVars
  PROVE  IInv'
<1>1. TypeOK /\ Control /\ Outputs /\ Accepted
  BY DEF IInv
<1>2. /\ phase = "cleanup" /\ phase' = "off" /\ exit' = 0 /\ wfile' \in [Workers -> Files]
      /\ UNCHANGED <<chunk, prepOnly, run, at, eras, warmup, worker, pos, outVars, faults, kills>>
  <2>1. NoFile \in Files
    BY DEF NoFile, Files
  <2> QED BY <1>1, <2>1 DEF Cleanup, ExitWith, TypeOK
<1>3. TypeOK'
  BY <1>1, <1>2 DEF TypeOK, outVars, runnerVars, Running
<1>4. \A i \in Workers : worker'[i] \notin {"starting", "looping"}
  BY <1>1, <1>2 DEF Control
<1>5. Control'
  BY <1>1, <1>2, <1>4 DEF Control, runnerVars
<1>6. \A i \in Workers : ~ Prepared(i)'
  BY <1>2 DEF Prepared
<1>7. FreshFiles'
  BY <1>4, <1>6 DEF FreshFiles
<1>8. Downloaded'
  BY <1>2, <1>6 DEF Downloaded, EraCovered
<1>9. Outputs'
  BY <1>1, <1>2, OutputsFrame
<1>10. \A c \in Chunks : chunk_complete(c)' <=> chunk_complete(c)
  BY <1>2, CompleteFrame DEF outVars
<1>11. Warmed => ExitZeroComplete'
  <2> SUFFICES ASSUME Warmed, rpc' = "running" PROVE chunk_complete(cursor)'
    BY DEF ExitZeroComplete
  <2>1. cursor' = chunk /\ cursor = chunk /\ chunk \in Chunks
    BY <1>1 DEF Control, runnerVars, TypeOK
  <2>2. chunk_complete(chunk)
    BY <1>1, <1>2, <2>1 DEF Accepted, CleanupComplete
  <2>3. csv' = csv /\ manifest' = manifest
    BY <1>2 DEF outVars
  <2> QED BY <2>1, <2>2, <2>3 DEF chunk_complete, Exists, NoFile, NoManifest, ChunkEnd, ChunkStart
<1>12. CleanupComplete'
  BY <1>2 DEF CleanupComplete
<1>13. Accepted'
  BY <1>1, <1>10, <1>11, <1>12, AcceptedFrame
<1> QED BY <1>3, <1>5, <1>7, <1>8, <1>9, <1>13 DEF IInv
-------------------------------------------------------------------------------
(* ScriptStep: a step of the script alone, while no process runs. *)
LEMMA ScriptStep ==
  ASSUME IInv, UNCHANGED orchVars, phase = "off",
         /\ rpc' \in {"off", "prep", "preptry", "prepping", "run", "try", "running", "exit0", "exit1"}
         /\ cursor' \in 1 .. TotalChunks + 1 /\ attempt' \in 1 .. CHUNK_RETRIES
         /\ prepFailed' \in BOOLEAN /\ failedFile' \subseteq {"prep", "run"} \X Chunks
         /\ merged' \in [Chunks -> Files] /\ invocations' \in 0 .. MaxInvocations,
         rpc' \notin {"prepping", "running"},
         rpc' \in {"preptry", "try"} => cursor' \in Chunks,
         Warmed => /\ rpc' \in {"run", "try"} /\ failedFile' = {} =>
                        \A c \in Chunks : c < cursor' => chunk_complete(c)
                   /\ rpc' = "exit0" => \A c \in Chunks : merged'[c].slots = ChunkSlots(c)
  PROVE  IInv' /\ \A c \in Chunks : chunk_complete(c)' <=> chunk_complete(c)
<1>1. TypeOK /\ Control /\ FreshFiles /\ Outputs /\ Accepted /\ Downloaded
  BY DEF IInv
<1>2. /\ UNCHANGED <<phase, chunk, prepOnly, exit, run, at, eras, warmup, worker, pos, wfile>>
      /\ UNCHANGED <<jsonl, csv, manifest, faults, kills>>
  BY DEF orchVars, procVars, workVars, outVars
<1>3. TypeOK'
  BY <1>1, <1>2 DEF TypeOK, Running
<1>4. Control'
  BY <1>1, <1>2 DEF Control
<1>5. \A i \in Workers : ~ Prepared(i)'
  BY <1>2 DEF Prepared
<1>6. FreshFiles'
  BY <1>1, <1>2, <1>5, FilesFrame
<1>7. Outputs'
  BY <1>1, <1>2, OutputsFrame DEF outVars
<1>8. Downloaded'
  BY <1>2, <1>5 DEF Downloaded, EraCovered
<1>9. \A c \in Chunks : chunk_complete(c)' <=> chunk_complete(c)
  BY <1>2, CompleteFrame
<1>10. Accepted'
  <2>1. ExitZeroComplete' /\ CleanupComplete'
    BY <1>2 DEF ExitZeroComplete, CleanupComplete
  <2>2. Warmed => SuccessIsWhole'
    BY DEF SuccessIsWhole
  <2> QED BY <1>9, <2>1, <2>2 DEF Accepted
<1> QED BY <1>3, <1>4, <1>6, <1>7, <1>8, <1>9, <1>10 DEF IInv

(* Launching: the process starts from its first step. *)
LEMMA LaunchStep ==
  ASSUME IInv, NEW prep \in BOOLEAN, Launch(cursor, prep),
         \/ rpc = "preptry" /\ rpc' = "prepping" /\ prep
         \/ rpc = "try" /\ rpc' = "running" /\ ~ prep,
         UNCHANGED <<cursor, attempt, prepFailed, failedFile, merged, invocations>>
  PROVE  IInv' /\ \A c \in Chunks : chunk_complete(c)' <=> chunk_complete(c)
<1>1. TypeOK /\ Control /\ FreshFiles /\ Outputs /\ Accepted
  BY DEF IInv
<1>2. /\ phase = "off" /\ phase' = "predownload" /\ chunk' = cursor /\ prepOnly' = prep
      /\ exit' = Running /\ run' = run + 1 /\ at' = 1
      /\ UNCHANGED <<eras, warmup, worker, pos, wfile, jsonl, csv, manifest, faults, kills>>
  BY DEF Launch, workVars, outVars
<1>3. cursor \in Chunks
  BY <1>1 DEF Control
<1>4. TypeOK'
  <2>1. run' \in Nat /\ at' \in 1 .. Parallel + 1
    BY <1>1, <1>2, OrchestratorAssumption DEF TypeOK
  <2> QED BY <1>1, <1>2, <1>3, <2>1 DEF TypeOK, Running
<1>5. Control'
  <2>1. run' # 0
    BY <1>1, <1>2 DEF TypeOK
  <2> QED BY <1>1, <1>2, <1>3, <2>1 DEF Control
<1>6. \A i \in Workers : ~ Prepared(i)' /\ worker'[i] # "looping"
  BY <1>1, <1>2 DEF Prepared, Control
<1>7. FreshFiles'
  BY <1>6 DEF FreshFiles
<1>8. Outputs'
  BY <1>1, <1>2, OutputsFrame DEF outVars
<1>9. Downloaded'
  BY <1>2, <1>6 DEF Downloaded, EraCovered
<1>10. \A c \in Chunks : chunk_complete(c)' <=> chunk_complete(c)
  BY <1>2, CompleteFrame
<1>11. Accepted'
  <2>1. ExitZeroComplete' /\ CleanupComplete' /\ SuccessIsWhole'
    BY <1>2 DEF ExitZeroComplete, CleanupComplete, SuccessIsWhole
  <2> QED BY <1>1, <1>10, <2>1 DEF Accepted
<1> QED BY <1>4, <1>5, <1>7, <1>8, <1>9, <1>10, <1>11 DEF IInv

(* The machine goes down. *)
LEMMA KillAllStep ==
  ASSUME IInv, KillAll
  PROVE  IInv' /\ \A c \in Chunks : chunk_complete(c)' <=> chunk_complete(c)
<1>1. TypeOK /\ Control /\ Outputs
  BY DEF IInv
<1>2. /\ rpc' = "off" /\ phase' = "off" /\ exit' = 137 /\ worker' = [i \in Workers |-> "idle"]
      /\ UNCHANGED <<chunk, prepOnly, run, at, eras, warmup, pos, wfile, jsonl, csv, manifest, faults>>
      /\ UNCHANGED <<cursor, attempt, prepFailed, failedFile, merged, invocations>>
      /\ kills' \in 0 .. MaxKills
  BY <1>1, Counters DEF KillAll, outVars
<1>3. TypeOK'
  BY <1>1, <1>2 DEF TypeOK, Running
<1>4. \A i \in Workers : worker'[i] \notin {"starting", "looping"} /\ ~ Prepared(i)'
  BY <1>2 DEF Prepared
<1>5. Control'
  BY <1>1, <1>2, <1>4 DEF Control
<1>6. FreshFiles'
  BY <1>4 DEF FreshFiles
<1>7. Outputs'
  BY <1>1, <1>2, OutputsFrame DEF outVars
<1>8. Downloaded'
  BY <1>2, <1>4 DEF Downloaded, EraCovered
<1>9. \A c \in Chunks : chunk_complete(c)' <=> chunk_complete(c)
  BY <1>2, CompleteFrame
<1>10. Accepted'
  BY <1>2 DEF Accepted, ExitZeroComplete, CleanupComplete, SuccessIsWhole
<1> QED BY <1>3, <1>5, <1>6, <1>7, <1>8, <1>9, <1>10 DEF IInv

(* ChunkCount: there is a chunk. *)
LEMMA ChunkCount == TotalChunks \in Nat /\ 1 \in Chunks
<1> DEFINE len == EndEpoch - StartEpoch + ChunkSize - 1
<1>1. /\ StartEpoch \in Nat /\ EndEpoch \in Nat /\ StartEpoch < EndEpoch
      /\ ChunkSize \in Nat \ {0}
  BY OrchestratorAssumption
<1>2. len \in Nat /\ ChunkSize <= len
  BY <1>1
<1>3. TotalChunks \in Nat /\ ChunkSize \div ChunkSize <= TotalChunks
  BY <1>1, <1>2, DivFacts, DivMono DEF TotalChunks
<1>4. ChunkSize \div ChunkSize = 1
  BY <1>1
<1> QED BY <1>3, <1>4 DEF Chunks

LEMMA InvokeStep ==
  ASSUME IInv, Invoke
  PROVE  IInv' /\ \A c \in Chunks : chunk_complete(c)' <=> chunk_complete(c)
<1>1. TypeOK /\ Control
  BY DEF IInv
<1>2. /\ rpc \in {"off", "exit1"} /\ invocations < MaxInvocations
      /\ invocations' = invocations + 1 /\ rpc' = "prep" /\ cursor' = 1 /\ attempt' = 1
      /\ prepFailed' = FALSE /\ failedFile' = {} /\ merged' = merged /\ UNCHANGED orchVars
  BY DEF Invoke
<1>3. phase = "off" /\ merged' \in [Chunks -> Files]
  BY <1>1, <1>2 DEF Control, TypeOK
<1>4. invocations' \in 0 .. MaxInvocations
  BY <1>1, <1>2, RunnerAssumption DEF TypeOK
<1>5. cursor' \in 1 .. TotalChunks + 1 /\ attempt' \in 1 .. CHUNK_RETRIES
  BY <1>2, ChunkCount, RunnerAssumption
<1>6. failedFile' \subseteq {"prep", "run"} \X Chunks
  BY <1>2
<1> QED BY <1>2, <1>3, <1>4, <1>5, <1>6, ScriptStep

LEMMA PrepHeadStep ==
  ASSUME IInv, PrepHead
  PROVE  IInv' /\ \A c \in Chunks : chunk_complete(c)' <=> chunk_complete(c)
<1>1. TypeOK /\ Control
  BY DEF IInv
<1>2. /\ rpc = "prep" /\ cursor <= TotalChunks /\ attempt' = 1
      /\ \/ cursor' = cursor + 1 /\ rpc' = "prep"
         \/ cursor' = cursor /\ rpc' = "preptry"
      /\ UNCHANGED <<prepFailed, failedFile, merged, invocations>> /\ UNCHANGED orchVars
  BY DEF PrepHead
<1>3. /\ cursor \in Chunks /\ cursor' \in 1 .. TotalChunks + 1 /\ attempt' \in 1 .. CHUNK_RETRIES
      /\ rpc' = "preptry" => cursor' \in Chunks
  BY <1>1, <1>2, ChunkCount, RunnerAssumption DEF TypeOK, Chunks
<1>4. /\ phase = "off" /\ merged' \in [Chunks -> Files] /\ invocations' \in 0 .. MaxInvocations
      /\ prepFailed' \in BOOLEAN /\ failedFile' \subseteq {"prep", "run"} \X Chunks
  BY <1>1, <1>2 DEF Control, TypeOK
<1> QED BY <1>2, <1>3, <1>4, ScriptStep

LEMMA PrepResultStep ==
  ASSUME IInv, PrepResult
  PROVE  IInv' /\ \A c \in Chunks : chunk_complete(c)' <=> chunk_complete(c)
<1>1. TypeOK /\ Control
  BY DEF IInv
<1>2. /\ rpc = "prepping" /\ phase = "off"
      /\ \/ /\ attempt < CHUNK_RETRIES
            /\ rpc' = "preptry" /\ attempt' = attempt + 1
            /\ UNCHANGED <<cursor, prepFailed, failedFile>>
         \/ /\ rpc' = "prep" /\ cursor' = cursor + 1 /\ attempt' = attempt
            /\ prepFailed' = (prepFailed \/ exit # 0)
            /\ failedFile' = IF exit = 0 THEN failedFile
                             ELSE failedFile \cup {<<"prep", cursor>>}
      /\ UNCHANGED <<merged, invocations>> /\ UNCHANGED orchVars
  BY DEF PrepResult
<1>3. cursor \in Chunks
  BY <1>1, <1>2 DEF Control
<1>4. cursor' \in 1 .. TotalChunks + 1 /\ attempt' \in 1 .. CHUNK_RETRIES
  <2>1. cursor' \in {cursor, cursor + 1} /\ (attempt' = attempt
             \/ (attempt < CHUNK_RETRIES /\ attempt' = attempt + 1))
    BY <1>2
  <2>2. attempt \in 1 .. CHUNK_RETRIES /\ CHUNK_RETRIES \in Nat
    BY <1>1, RunnerAssumption DEF TypeOK
  <2>3. cursor \in 1 .. TotalChunks /\ TotalChunks \in Nat
    BY <1>3, ChunkCount DEF Chunks
  <2>4. cursor' \in 1 .. TotalChunks + 1
    BY <2>1, <2>3
  <2>5. attempt' \in 1 .. CHUNK_RETRIES
    BY <2>1, <2>2
  <2> QED BY <2>4, <2>5
<1>5. /\ merged' \in [Chunks -> Files] /\ invocations' \in 0 .. MaxInvocations
      /\ prepFailed' \in BOOLEAN /\ failedFile' \subseteq {"prep", "run"} \X Chunks
  <2>1. merged' \in [Chunks -> Files] /\ invocations' \in 0 .. MaxInvocations
    BY <1>1, <1>2 DEF TypeOK
  <2>2. prepFailed \in BOOLEAN /\ prepFailed' \in {prepFailed, prepFailed \/ exit # 0}
    BY <1>1, <1>2, Zenon DEF TypeOK
  <2>3. prepFailed' \in BOOLEAN
    BY <2>2, Zenon
  <2>4. failedFile' \subseteq {"prep", "run"} \X Chunks
    BY <1>1, <1>2, <1>3 DEF TypeOK
  <2> QED BY <2>1, <2>3, <2>4
<1>6. rpc' = "preptry" => cursor' \in Chunks
  BY <1>2, <1>3
<1> QED BY <1>2, <1>4, <1>5, <1>6, ScriptStep

LEMMA PrepEndStep ==
  ASSUME IInv, PrepEnd
  PROVE  IInv' /\ \A c \in Chunks : chunk_complete(c)' <=> chunk_complete(c)
<1>1. TypeOK /\ Control
  BY DEF IInv
<1>2. /\ rpc = "prep"
      /\ \/ rpc' = "exit1" /\ cursor' = cursor
         \/ rpc' = "run" /\ cursor' = 1
      /\ UNCHANGED <<attempt, prepFailed, failedFile, merged, invocations>> /\ UNCHANGED orchVars
  BY DEF PrepEnd
<1>3. cursor' \in 1 .. TotalChunks + 1
  BY <1>1, <1>2, ChunkCount DEF TypeOK
<1>4. /\ phase = "off" /\ merged' \in [Chunks -> Files] /\ invocations' \in 0 .. MaxInvocations
      /\ prepFailed' \in BOOLEAN /\ failedFile' \subseteq {"prep", "run"} \X Chunks
      /\ attempt' \in 1 .. CHUNK_RETRIES
  BY <1>1, <1>2 DEF Control, TypeOK
<1>5. rpc' = "run" => \A c \in Chunks : ~ (c < cursor')
  BY <1>2, ChunkCount DEF Chunks
<1> QED BY <1>2, <1>3, <1>4, <1>5, ScriptStep

LEMMA RunHeadStep ==
  ASSUME IInv, RunHead
  PROVE  IInv' /\ \A c \in Chunks : chunk_complete(c)' <=> chunk_complete(c)
<1>1. TypeOK /\ Control /\ Accepted
  BY DEF IInv
<1>2. /\ rpc = "run" /\ cursor <= TotalChunks /\ attempt' = 1
      /\ \/ chunk_complete(cursor) /\ cursor' = cursor + 1 /\ rpc' = "run"
         \/ cursor' = cursor /\ rpc' = "try"
      /\ UNCHANGED <<prepFailed, failedFile, merged, invocations>> /\ UNCHANGED orchVars
  BY DEF RunHead
<1>3. /\ cursor \in Chunks /\ cursor' \in 1 .. TotalChunks + 1 /\ attempt' \in 1 .. CHUNK_RETRIES
      /\ rpc' = "try" => cursor' \in Chunks
  BY <1>1, <1>2, ChunkCount, RunnerAssumption DEF TypeOK, Chunks
<1>4. /\ phase = "off" /\ merged' \in [Chunks -> Files] /\ invocations' \in 0 .. MaxInvocations
      /\ prepFailed' \in BOOLEAN /\ failedFile' \subseteq {"prep", "run"} \X Chunks
  BY <1>1, <1>2 DEF Control, TypeOK
<1>5. ASSUME Warmed, failedFile' = {}, NEW c \in Chunks, c < cursor'
      PROVE  chunk_complete(c)
  <2>1. c < cursor => chunk_complete(c)
    BY <1>1, <1>2, <1>5 DEF Accepted
  <2>2. c < cursor \/ (c = cursor /\ cursor' = cursor + 1)
    BY <1>2, <1>3, <1>5, ChunkCount DEF Chunks
  <2>3. cursor' = cursor + 1 => chunk_complete(cursor)
    BY <1>2, <1>3, ChunkCount DEF Chunks
  <2> QED BY <2>1, <2>2, <2>3
<1> QED BY <1>2, <1>3, <1>4, <1>5, ScriptStep

(* Attempts: a chunk the script goes past is complete, or is recorded. *)
LEMMA RunResultStep ==
  ASSUME IInv, RunResult
  PROVE  IInv' /\ \A c \in Chunks : chunk_complete(c)' <=> chunk_complete(c)
<1>1. TypeOK /\ Control /\ Accepted
  BY DEF IInv
<1> DEFINE ok == exit = 0 /\ chunk_complete(cursor)
<1>2. /\ rpc = "running" /\ phase = "off"
      /\ \/ /\ attempt < CHUNK_RETRIES
            /\ rpc' = "try" /\ attempt' = attempt + 1
            /\ UNCHANGED <<cursor, failedFile, merged>>
         \/ /\ rpc' = "run" /\ cursor' = cursor + 1 /\ attempt' = attempt
            /\ failedFile' = IF ok THEN failedFile ELSE failedFile \cup {<<"run", cursor>>}
            /\ merged' \in {csv, merged}
      /\ UNCHANGED <<prepFailed, invocations>> /\ UNCHANGED orchVars
  <2>1. merge_chunks => merged' \in {csv, merged}
    BY DEF merge_chunks
  <2>2. ok <=> (exit = 0 /\ chunk_complete(cursor))
    OBVIOUS
  <2> HIDE DEF ok
  <2> QED BY <2>1, <2>2 DEF RunResult
<1>3. cursor \in Chunks
  BY <1>1, <1>2 DEF Control
<1>4. cursor' \in 1 .. TotalChunks + 1 /\ attempt' \in 1 .. CHUNK_RETRIES
  <2>1. cursor' \in {cursor, cursor + 1} /\ (attempt' = attempt
             \/ (attempt < CHUNK_RETRIES /\ attempt' = attempt + 1))
    BY <1>2
  <2>2. attempt \in 1 .. CHUNK_RETRIES /\ CHUNK_RETRIES \in Nat
    BY <1>1, RunnerAssumption DEF TypeOK
  <2>3. cursor \in 1 .. TotalChunks /\ TotalChunks \in Nat
    BY <1>3, ChunkCount DEF Chunks
  <2>4. cursor' \in 1 .. TotalChunks + 1
    BY <2>1, <2>3
  <2>5. attempt' \in 1 .. CHUNK_RETRIES
    BY <2>1, <2>2
  <2> QED BY <2>4, <2>5
<1>5. /\ merged' \in [Chunks -> Files] /\ invocations' \in 0 .. MaxInvocations
      /\ prepFailed' \in BOOLEAN
  BY <1>1, <1>2 DEF TypeOK
<1>6. failedFile' \subseteq {"prep", "run"} \X Chunks
  BY <1>1, <1>2, <1>3 DEF TypeOK
<1>7. rpc' = "try" => cursor' \in Chunks
  BY <1>2, <1>3
<1>8. ASSUME Warmed, failedFile' = {}, NEW c \in Chunks, c < cursor'
      PROVE  chunk_complete(c)
  <2>1. failedFile = {} /\ (cursor' = cursor \/ chunk_complete(cursor))
    BY <1>2, <1>8
  <2>2. c < cursor => chunk_complete(c)
    BY <1>1, <1>2, <1>8, <2>1 DEF Accepted
  <2>3. c < cursor \/ (c = cursor /\ cursor' = cursor + 1 /\ cursor' # cursor)
    BY <1>2, <1>3, <1>8, ChunkCount DEF Chunks
  <2> QED BY <2>1, <2>2, <2>3
<1> HIDE DEF ok
<1> QED BY <1>2, <1>4, <1>5, <1>6, <1>7, <1>8, ScriptStep

(* The end: with no failed chunk merged.csv holds the whole range. *)
LEMMA RunEndStep ==
  ASSUME IInv, RunEnd
  PROVE  IInv' /\ \A c \in Chunks : chunk_complete(c)' <=> chunk_complete(c)
<1>1. TypeOK /\ Control /\ Accepted /\ Outputs
  BY DEF IInv
<1>2. /\ rpc = "run" /\ cursor > TotalChunks
      /\ merged' = IF \E c \in Chunks : Exists(csv[c]) THEN csv ELSE merged
      /\ rpc' = IF failedFile = {} THEN "exit0" ELSE "exit1"
      /\ UNCHANGED <<cursor, attempt, prepFailed, failedFile, invocations>> /\ UNCHANGED orchVars
  BY DEF RunEnd, merge_chunks
<1>3. /\ phase = "off" /\ invocations' \in 0 .. MaxInvocations /\ merged' \in [Chunks -> Files]
      /\ prepFailed' \in BOOLEAN /\ failedFile' \subseteq {"prep", "run"} \X Chunks
      /\ attempt' \in 1 .. CHUNK_RETRIES /\ cursor' \in 1 .. TotalChunks + 1
  BY <1>1, <1>2 DEF Control, TypeOK
<1>4. ASSUME Warmed, rpc' = "exit0", NEW c \in Chunks
      PROVE  merged'[c].slots = ChunkSlots(c)
  <2>1. failedFile = {}
    BY <1>2, <1>4
  <2>2. c < cursor
    BY <1>1, <1>2, ChunkCount DEF Chunks, TypeOK
  <2>3. chunk_complete(c)
    BY <1>1, <1>2, <1>4, <2>1, <2>2 DEF Accepted
  <2>4. Exists(csv[c]) /\ merged' = csv
    BY <1>2, <2>3 DEF chunk_complete
  <2> QED BY <1>1, <1>4, <2>4 DEF Outputs, OutputExact
<1> QED BY <1>2, <1>3, <1>4, ScriptStep
-------------------------------------------------------------------------------
LEMMA InitHolds == Init => IInv
<1> SUFFICES ASSUME Init PROVE IInv
  OBVIOUS
<1>1. NoFile \in Files /\ NoManifest \in [jsonl : Nat, csv : Nat]
  BY DEF NoFile, NoManifest, Files
<1>2. /\ TotalChunks \in Nat /\ 1 \in Chunks /\ MaxSlot \in Nat /\ Parallel \in Nat \ {0}
      /\ MaxFaults \in Nat /\ MaxKills \in Nat /\ CHUNK_RETRIES \in Nat \ {0} /\ MaxInvocations \in Nat
  BY ChunkCount, OrchestratorAssumption, RunnerAssumption
<1>3. TypeOK
  <2>1. /\ warmup \in [Workers -> 0 .. MaxSlot] /\ pos \in [Workers -> 0 .. MaxSlot + 1]
        /\ worker \in [Workers -> {"idle", "starting", "looping", "ok", "failed"}]
    BY <1>2 DEF Init, OrchInit
  <2>2. /\ wfile \in [Workers -> Files] /\ jsonl \in [Chunks -> Files] /\ csv \in [Chunks -> Files]
        /\ merged \in [Chunks -> Files] /\ manifest \in [Chunks -> [jsonl : Nat, csv : Nat]]
    BY <1>1 DEF Init, OrchInit
  <2>3. /\ phase = "off" /\ chunk = 1 /\ prepOnly = FALSE /\ exit = 0 /\ run = 0 /\ at = 1
        /\ eras = {} /\ faults = 0 /\ kills = 0 /\ rpc = "off" /\ cursor = 1 /\ attempt = 1
        /\ prepFailed = FALSE /\ failedFile = {} /\ invocations = 0
    BY DEF Init, OrchInit
  <2>4. /\ at \in 1 .. Parallel + 1 /\ cursor \in 1 .. TotalChunks + 1 /\ attempt \in 1 .. CHUNK_RETRIES
        /\ faults \in 0 .. MaxFaults /\ kills \in 0 .. MaxKills /\ invocations \in 0 .. MaxInvocations
    BY <1>2, <2>3
  <2>5. /\ exit \in {Running, 0, 1, 137} /\ (exit = Running <=> phase # "off")
    BY <2>3 DEF Running
  <2>6. prepOnly \in BOOLEAN /\ prepFailed \in BOOLEAN
    BY <2>3, Zenon
  <2>7. run \in Nat
    BY <2>3
  <2>8. eras \subseteq Int /\ failedFile \subseteq {"prep", "run"} \X Chunks
    BY <2>3, Zenon
  <2>9. chunk \in Chunks
    BY <1>2, <2>3
  <2> QED BY <2>1, <2>2, <2>3, <2>4, <2>5, <2>6, <2>7, <2>8, <2>9 DEF TypeOK
<1>4. Control
  BY DEF Init, OrchInit, Control
<1>5. FreshFiles
  BY DEF Init, OrchInit, FreshFiles, Prepared
<1>6. Outputs
  <2>1. \A c \in Chunks : jsonl[c] = NoFile /\ csv[c] = NoFile
    BY DEF Init, OrchInit
  <2>2. OneRun(NoFile)
    BY DEF OneRun, NoFile
  <2> QED BY <2>1, <2>2 DEF Init, OrchInit, Outputs, OutputExact, Exists
<1>7. Accepted
  BY DEF Init, OrchInit, Accepted, ExitZeroComplete, CleanupComplete, SuccessIsWhole
<1>8. Downloaded
  BY DEF Init, OrchInit, Downloaded, Prepared, EraCovered
<1> QED BY <1>3, <1>4, <1>5, <1>6, <1>7, <1>8 DEF IInv

(* Persists: a complete chunk stays complete. *)
Persists == \A c \in Chunks : chunk_complete(c) => chunk_complete(c)'

(* The steps of the process and of its engines. *)
LEMMA OrchStep ==
  ASSUME IInv, OrchNext, UNCHANGED runnerVars
  PROVE  IInv' /\ (Warmed => Persists)
<1> USE DEF Persists
<1>1. CASE WriteCSV
  BY <1>1, WriteCSVStep
<1>2. CASE WriteManifest
  BY <1>2, WriteManifestStep
<1>3. CASE ~ WriteCSV /\ ~ WriteManifest
  <2> DEFINE E(i) == \/ PrepareWorker(i) \/ EngineOpen(i) \/ EngineSlot(i) \/ EngineExit(i)
                     \/ EngineTruncates(i) \/ EngineFail(i)
  <2>1. PICK i : \/ StepErr \/ PreDownload \/ CatchUp \/ Warm \/ Serve \/ Collect \/ Merge
                 \/ Cleanup \/ KillProcess
                 \/ i \in Workers /\ E(i)
    BY <1>3 DEF OrchNext
  <2>2. IInv'
    BY <2>1, StepErrStep, PreDownloadStep, PrepareWorkerStep, CatchUpStep, WarmStep, ServeStep,
       EngineOpenStep, EngineSlotStep, EngineExitStep, EngineFailStep, CollectStep, MergeStep,
       CleanupStep, KillProcessStep
  <2>3. csv' = csv /\ manifest' = manifest
    BY <2>1 DEF StepErr, PreDownload, CatchUp, Warm, Serve, Collect, Merge, Cleanup, KillProcess,
                outVars,
                PrepareWorker, EngineOpen, EngineSlot, EngineExit, EngineTruncates, EngineFail
  <2> QED BY <2>2, <2>3, CompleteFrame
<1> QED BY <1>1, <1>2, <1>3

(* Every step keeps the invariant, and the complete chunks. *)
LEMMA NextStep ==
  ASSUME IInv, [Next]_vars
  PROVE  IInv' /\ (Warmed => [Persists]_vars)
<1>1. CASE OrchNext /\ UNCHANGED runnerVars
  BY <1>1, OrchStep
<1>2. CASE PrepLaunch \/ RunLaunch
  BY <1>2, LaunchStep DEF PrepLaunch, RunLaunch, Persists
<1>3. CASE \/ Invoke \/ PrepHead \/ PrepResult \/ PrepEnd \/ RunHead \/ RunResult \/ RunEnd
           \/ KillAll
  BY <1>3, InvokeStep, PrepHeadStep, PrepResultStep, PrepEndStep, RunHeadStep, RunResultStep,
     RunEndStep, KillAllStep DEF Persists
<1>4. CASE UNCHANGED vars
  <2>1. UNCHANGED orchVars /\ UNCHANGED runnerVars
    BY <1>4 DEF vars
  <2>2. TypeOK /\ Control /\ FreshFiles /\ Outputs /\ Accepted /\ Downloaded
    BY DEF IInv
  <2>3. TypeOK' /\ Control'
    BY <2>1, <2>2 DEF orchVars, procVars, workVars, outVars, runnerVars, TypeOK, Control, Running
  <2>4. FreshFiles' /\ Downloaded'
    BY <2>1, <2>2, FilesFrame, DownloadedFrame
       DEF orchVars, procVars, workVars, Prepared, Later
  <2>5. Outputs'
    BY <2>1, <2>2 DEF orchVars, procVars, workVars, outVars, Outputs, OneRun, OutputExact,
                      MergeValid, MergeFiles, Merged, Exists, NoFile
  <2>6. Accepted'
    <3>1. csv' = csv /\ manifest' = manifest /\ phase' = phase /\ exit' = exit
      BY <2>1 DEF orchVars, procVars, outVars
    <3>2. rpc' = rpc /\ cursor' = cursor
      BY <2>1 DEF runnerVars
    <3>3. \A c : chunk_complete(c)' <=> chunk_complete(c)
      BY <3>1 DEF chunk_complete, Exists, NoFile, NoManifest
    <3>4. Warmed => ExitZeroComplete'
      <4>1. Warmed => ExitZeroComplete
        BY <2>2 DEF Accepted
      <4>2. chunk_complete(cursor)' <=> chunk_complete(cursor)
        BY <3>1, <3>2 DEF chunk_complete, Exists, NoFile, NoManifest, ChunkEnd, ChunkStart
      <4> QED BY <3>1, <3>2, <4>1, <4>2 DEF ExitZeroComplete
    <3>5. Warmed => CleanupComplete'
      BY <2>1, <2>2, <3>1, <3>3 DEF Accepted, CleanupComplete, orchVars, procVars
    <3> QED BY <2>1, <2>2, <3>3, <3>4, <3>5, AcceptedFrame
  <2> QED BY <1>4, <2>3, <2>4, <2>5, <2>6 DEF IInv
<1> QED BY <1>1, <1>2, <1>3, <1>4 DEF Next
-------------------------------------------------------------------------------
(* The inductive invariant holds in every reachable state, for every range, *)
(* chunk size and number of workers, and however often steps fail and       *)
(* processes are killed.                                                    *)
THEOREM Inductive == SafeSpec => []IInv
<1>1. IInv /\ [Next]_vars => IInv'
  BY NextStep
<1> QED BY <1>1, InitHolds, PTL DEF SafeSpec

(* TypesHold: the variables keep their types; in particular no cursor,      *)
(* attempt or slot position leaves its range.                               *)
THEOREM TypesHold == SafeSpec => []TypeOK
<1>1. IInv => TypeOK
  BY DEF IInv
<1> QED BY <1>1, Inductive, PTL

(* NoStaleRecords: an output file never mixes the records of two            *)
(* orchestrator runs, whatever earlier attempts left in workers/.           *)
THEOREM NoStaleRecords == SafeSpec => []OutputFresh
<1>1. IInv => OutputFresh
  <2> SUFFICES ASSUME IInv, NEW c \in Chunks, NEW f \in {jsonl[c], csv[c]}
               PROVE  Cardinality(f.runs) <= 1
    BY DEF OutputFresh
  <2>1. OneRun(f)
    BY DEF IInv, Outputs
  <2>2. CASE f.runs = {}
    BY <2>2, FS_EmptySet
  <2>3. CASE f.runs # {}
    <3>1. PICK r : r \in f.runs
      BY <2>3
    <3>2. f.runs = {r}
      BY <2>1, <3>1 DEF OneRun
    <3>3. Cardinality(f.runs) = 1
      BY <3>2, FS_Singleton, Zenon
    <3> QED BY <3>3
  <2> QED BY <2>2, <2>3
<1> QED BY <1>1, Inductive, PTL

(* FilesExact: with a warmup, an output file that exists holds each slot of *)
(* its chunk and no other.                                                  *)
THEOREM FilesExact ==
  ASSUME Warmed
  PROVE  SafeSpec => []OutputExact
<1>1. IInv => OutputExact
  BY DEF IInv, Outputs
<1> QED BY <1>1, Inductive, PTL

(* ZeroIsComplete: with a warmup, an orchestrator run that exits 0 has left *)
(* a complete chunk.                                                        *)
THEOREM ZeroIsComplete ==
  ASSUME Warmed
  PROVE  SafeSpec => []ExitZeroComplete
<1>1. IInv => ExitZeroComplete
  BY DEF IInv, Accepted
<1> QED BY <1>1, Inductive, PTL

(* SuccessWhole: with a warmup, merged.csv holds the whole range when       *)
(* run.sh exits 0.                                                          *)
THEOREM SuccessWhole ==
  ASSUME Warmed
  PROVE  SafeSpec => []SuccessIsWhole
<1>1. IInv => SuccessIsWhole
  BY DEF IInv, Accepted
<1> QED BY <1>1, Inductive, PTL

(* NeverUndone: with a warmup, no step of the script, the process, an       *)
(* engine or a crash makes a complete chunk incomplete.                     *)
THEOREM NeverUndone ==
  ASSUME Warmed
  PROVE  SafeSpec => CompletePersists
<1>1. IInv /\ [Next]_vars => [\A c \in Chunks : chunk_complete(c) => chunk_complete(c)']_vars
  BY NextStep DEF Persists
<1> QED BY <1>1, Inductive, PTL DEF SafeSpec, CompletePersists

(* ErasThere: when the last slot is a look-ahead away from the end of       *)
(* uint64, every slot the warm-up, the planner and the merge read lies in a *)
(* downloaded ERA file.                                                     *)
THEOREM ErasThere ==
  ASSUME LookaheadFits
  PROVE  SafeSpec => []EraCovered
<1>1. IInv => EraCovered
  BY DEF IInv, Downloaded
<1> QED BY <1>1, Inductive, PTL
=============================================================================
