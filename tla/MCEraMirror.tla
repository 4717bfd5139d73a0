----------------------------- MODULE MCEraMirror -----------------------------
(* An instance of EraMirror: one directory for the orchestrators and one for *)
(* the mirror.  The orchestrators' range begins after the mirror's first era. *)
EXTENDS EraMirror

CONSTANTS d1, d2

MCDirOf == [p \in Procs |-> d1]

MCRangeOf == [p \in Procs |-> Eras \ {Min(Eras)}]

=============================================================================
