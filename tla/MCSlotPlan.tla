----------------------------- MODULE MCSlotPlan -----------------------------
(* Two workers.  The second one's checkpoint lies in the first one's range,  *)
(* as it does whenever a chunk is warmed up in the chunk before it.          *)
EXTENDS RangePlan

MCWarmupSlot == [w \in {1, 2} |-> w]
MCEndSlot == [w \in {1, 2} |-> w + 3]
=============================================================================
