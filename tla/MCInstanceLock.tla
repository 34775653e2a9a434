--------------------------- MODULE MCInstanceLock ---------------------------
(* TLC instances of the instance lock. *)
EXTENDS InstanceLock

CONSTANTS p1, p2, p3, p4, a, b

\* p1 and p2 share a host, the others are on another.
TwoHosts == [p \in Procs |-> IF p \in {p1, p2} THEN a ELSE b]
=============================================================================
