---------------------------- MODULE MCReserving -----------------------------
(* ReservingMpsc with interchangeable threads.                             *)
EXTENDS ReservingMpsc, TLC

CONSTANTS p, q

Symmetry == Permutations(Producers)
=============================================================================
