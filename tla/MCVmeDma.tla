------------------------------ MODULE MCVmeDma ------------------------------
(***************************************************************************)
(* VmeDma on small instances.                                              *)
(***************************************************************************)
EXTENDS VmeDma, TLC

CONSTANTS t1, t2, t3

TaskSymmetry == Permutations(Tasks \ Kernel)
=============================================================================
