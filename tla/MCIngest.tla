------------------------------ MODULE MCIngest ------------------------------
(***************************************************************************)
(* Ingest with a queue of three slots (two usable), device 1, and device 0 *)
(* that the SQL thread discards.  The measurements are interchangeable.    *)
(***************************************************************************)
EXTENDS Ingest, TLC

MCDeviceID == {0, 1}

Symmetry == Permutations(Value) \cup Permutations(Readers)

=============================================================================
