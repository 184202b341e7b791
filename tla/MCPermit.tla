------------------------------ MODULE MCPermit ------------------------------
(* PermitMpsc with interchangeable threads.                                *)
EXTENDS PermitMpsc, TLC

CONSTANTS p, q, r

Symmetry == Permutations(Threads)
=============================================================================
