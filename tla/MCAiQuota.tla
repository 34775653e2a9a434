------------------------------ MODULE MCAiQuota ------------------------------
(* TLC instances of the AI budget. *)
EXTENDS AiQuota

CONSTANTS q1, q2

\* A multi request is three calls.
Estimates == [k \in Kind |-> IF k = "single" THEN 1 ELSE 3]
=============================================================================
