----------------------------- MODULE MCWatchdog -----------------------------
(***************************************************************************)
(* Watchdog with a few components and one second between two checks.       *)
(***************************************************************************)
EXTENDS Watchdog

MCStored == [n \in Name |-> n]

=============================================================================
