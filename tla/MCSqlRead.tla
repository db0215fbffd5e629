------------------------------ MODULE MCSqlRead ------------------------------
(***************************************************************************)
(* SqlRead with arrays of two rows and days of two seconds.  Devices are   *)
(* interchangeable.                                                        *)
(***************************************************************************)
EXTENDS SqlRead, TLC

Symmetry == Permutations(Device)

=============================================================================
