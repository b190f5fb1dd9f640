---------------------------- MODULE MCCtrConnect ----------------------------
(* CtrConnect with interchangeable clients. *)
EXTENDS CtrConnect, TLC

Symmetry == Permutations(Clients)
=============================================================================
