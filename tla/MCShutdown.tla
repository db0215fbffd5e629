----------------------------- MODULE MCShutdown -----------------------------
(* Instances of Shutdown.                                                  *)
EXTENDS Shutdown, TLC

=============================================================================
