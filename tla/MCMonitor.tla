----------------------------- MODULE MCMonitor ------------------------------
(* The instance of Monitor that TLC checks: its subscriptions, paths and directories. *)
EXTENDS Monitor, TLC

CONSTANTS a, b, p, q, s1, s2, x1, x2

MCPathOf == [i \in Watches |-> IF i = s1 THEN p ELSE q]
Sym == Permutations(Watchers)
=============================================================================
