--------------------------- MODULE MCCanonicalIndex ---------------------------
(* Model values for checking CanonicalIndex and its slices with TLC. *)
EXTENDS CanonicalSlices

\* Slots 0 and 2 have a block, slot 1 is missed, the last slot has a block.
MCBlocks == {0, 2, MaxSlot}

\* Overlapping planner windows, one of them inverted (empty).
MCWindows == {[from |-> 0, to |-> 2], [from |-> 1, to |-> MaxSlot],
              [from |-> 3, to |-> MaxSlot], [from |-> 2, to |-> 1]}

=============================================================================
