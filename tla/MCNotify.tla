------------------------------ MODULE MCNotify ------------------------------
(* NotificationQueue with interchangeable threads.                         *)
EXTENDS NotificationQueue, TLC

CONSTANTS t, u

Symmetry == Permutations(Threads)
=============================================================================
