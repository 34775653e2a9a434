------------------------------ MODULE MCRWLock ------------------------------
(* The lock with a handful of callers, each calling again and again.       *)
EXTENDS RWLock
=============================================================================
