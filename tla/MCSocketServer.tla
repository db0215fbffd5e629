--------------------------- MODULE MCSocketServer ---------------------------
(***************************************************************************)
(* SocketServer with a few connections, descriptors, slots and workers.    *)
(* Connections are interchangeable, and so are workers.                    *)
(***************************************************************************)
EXTENDS SocketServer, TLC

Symmetry == Permutations(Client) \cup Permutations(Workers)

=============================================================================
