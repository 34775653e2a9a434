----------------------------- MODULE MCScheduler -----------------------------
(* TLC instances of the scheduler. *)
EXTENDS Scheduler, TLC

CONSTANTS j1, j2, r1, r2, r3

Interchangeable == Permutations(RunIds)
=============================================================================
