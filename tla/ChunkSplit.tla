------------------------------ MODULE ChunkSplit ------------------------------
(***************************************************************************)
(* pkg/chunk/chunk.go: how an orchestrator run divides its epochs among    *)
(* the workers.  Slots are uint64; MaxSlot stands for math.MaxUint64.      *)
(***************************************************************************)
EXTENDS Integers, FiniteSetsExt

CONSTANTS SlotsPerEpoch, MaxSlot

(* epochToSlot saturates. *)
epochToSlot(epoch) ==
  IF epoch > MaxSlot \div SlotsPerEpoch THEN MaxSlot ELSE epoch * SlotsPerEpoch

(* Bug: one worker too many gets an epoch of the remainder. *)
SplitOffByOne(startEpoch, endEpoch, warmupEpochs, parallel) ==
  LET base == (endEpoch - startEpoch) \div parallel
      remainder == (endEpoch - startEpoch) % parallel
      from(i) == startEpoch + i * base + Min({i, remainder + 1})
  IN  [i \in 1 .. parallel |->
         [StartEpoch |-> from(i - 1),
          EndEpoch |-> from(i),
          WarmupStartSlot |-> epochToSlot(Max({0, from(i - 1) - warmupEpochs})),
          StartSlot |-> epochToSlot(from(i - 1)),
          EndSlot |-> epochToSlot(from(i))]]

(* parallel chunks of [startEpoch, endEpoch), the first ones one epoch      *)
(* larger; with more workers than epochs the last ones are empty.  The      *)
(* warmup of a chunk is clamped to slot 0.                                  *)
Split(startEpoch, endEpoch, warmupEpochs, parallel) ==
  LET base == (endEpoch - startEpoch) \div parallel
      remainder == (endEpoch - startEpoch) % parallel
      size(i) == IF i < remainder THEN base + 1 ELSE base
      nextStart[i \in 0 .. parallel] ==
        IF i = 0 THEN startEpoch ELSE nextStart[i - 1] + size(i - 1)
  IN  IF parallel <= 0 \/ startEpoch >= endEpoch THEN <<>>
      ELSE [i \in 1 .. parallel |->
              LET from == nextStart[i - 1]
                  warmup == IF from > warmupEpochs THEN from - warmupEpochs ELSE 0
              IN  [StartEpoch |-> from,
                   EndEpoch |-> nextStart[i],
                   WarmupStartSlot |-> epochToSlot(warmup),
                   StartSlot |-> epochToSlot(from),
                   EndSlot |-> epochToSlot(nextStart[i])]]

(* filterActiveChunks of cmd/fcr-orchestrator/main.go; nothing depends on   *)
(* the order of the chunks it keeps.                                        *)
IsActive(c) == c.StartEpoch < c.EndEpoch

filterActiveChunks(chunks) == {chunks[i] : i \in {j \in DOMAIN chunks : IsActive(chunks[j])}}

(* The slots the orchestrator expects a worker to record: from its first    *)
(* slot on, but never its checkpoint's slot.                                *)
expectedSlots(c) ==
  Max({c.StartSlot, c.WarmupStartSlot + 1}) .. c.EndSlot - 1

=============================================================================
