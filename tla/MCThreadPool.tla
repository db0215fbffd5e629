---------------------------- MODULE MCThreadPool ----------------------------
(***************************************************************************)
(* ThreadPool with two workers and a ring of two slots.  No symmetry: the  *)
(* runs check liveness too.                                                *)
(***************************************************************************)
EXTENDS ThreadPool
=============================================================================
