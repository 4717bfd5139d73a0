------------------------------ MODULE MCEraCache ------------------------------
(* An instance of EraCache: one ERA directory and one range for all          *)
(* processes.                                                                *)
EXTENDS EraCache

CONSTANT d1

MCOneDir == [p \in Procs |-> d1]

MCOneRange == [p \in Procs |-> Eras]

=============================================================================
