------------------------------ MODULE AtomicMove ------------------------------
(***************************************************************************)
(* What the one-time RNPM split promises: the rows of all users move from  *)
(* the monolith to the per-user files in one step, nothing changes on the  *)
(* way, and rows are added only once they live in the files.               *)
(***************************************************************************)
CONSTANTS Owners, Rows

VARIABLES home, data

Init == home = "monolith" /\ data \in [Owners -> SUBSET Rows]

Move == home = "monolith" /\ home' = "files" /\ UNCHANGED data

Save == /\ home = "files"
        /\ \E o \in Owners, r \in Rows :
             data' = [data EXCEPT ![o] = @ \cup {r}]
        /\ UNCHANGED home

Next == Move \/ Save

Spec == Init /\ [][Next]_<<home, data>>
=============================================================================
