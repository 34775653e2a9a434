----------------------------- MODULE FifoRWLock -----------------------------
(***************************************************************************)
(* What a caller of the maintenance lock is promised, without counters,    *)
(* flags or a drain loop: requests line up in arrival order, and after     *)
(* every event the longest prefix of the line that is compatible with the  *)
(* callers already inside is admitted, at once and completely.             *)
(***************************************************************************)
EXTENDS Naturals, Sequences

CONSTANT Caller

VARIABLES inside,  \* requests that hold the lock, a set of [caller, kind]
          line     \* requests that wait, in arrival order

vars == <<inside, line>>

Kind == {"read", "write"}
Request == [caller : Caller, kind : Kind]

\* A set of requests may hold the lock together: all readers, or one writer.
Compatible(S) == \A r \in S, s \in S : r # s => r.kind = "read" /\ s.kind = "read"

Prefix(l, n) == {l[i] : i \in 1..n}

\* The events leave the holders h and the line l; then everyone who can enter
\* does, and the first one who cannot enter stops all those behind.
Admit(h, l) ==
  LET fits == {n \in 0..Len(l) : Compatible(h \cup Prefix(l, n))}
      most == CHOOSE n \in fits : \A m \in fits : m <= n
  IN  /\ inside' = h \cup Prefix(l, most)
      /\ line' = SubSeq(l, most + 1, Len(l))

Known(c) == \/ \E r \in inside : r.caller = c
            \/ \E i \in 1..Len(line) : line[i].caller = c

Init == inside = {} /\ line = <<>>

Arrive(c, k) ==
  /\ ~Known(c)
  /\ Admit(inside, Append(line, [caller |-> c, kind |-> k]))

Leave(c) ==
  \E r \in inside : r.caller = c /\ Admit(inside \ {r}, line)

Next == \E c \in Caller : Leave(c) \/ \E k \in Kind : Arrive(c, k)

Spec == Init /\ [][Next]_vars
=============================================================================
