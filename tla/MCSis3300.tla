----------------------------- MODULE MCSis3300 -----------------------------
\* Sis3300 on small instances.
EXTENDS Sis3300, TLC

CONSTANTS p1, p2, s0, s1

CallerSymmetry == Permutations(Callers)
=============================================================================
