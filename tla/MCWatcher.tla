----------------------------- MODULE MCWatcher ------------------------------
(* The instance of DirectoryWatcher that TLC checks: its subscriptions and its threads. *)
EXTENDS DirectoryWatcher

CONSTANTS a, b, c, k
=============================================================================
