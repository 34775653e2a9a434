------------------------------- MODULE RWLock -------------------------------
(***************************************************************************)
(* The writer-preference reader/writer lock of                             *)
(* backend/src/util/rwlock.ts, which serialises backup, restore and        *)
(* compaction (writers) with the monitoring scheduler (readers).           *)
(*                                                                         *)
(* A caller is one withRead/withWrite call chain.  JavaScript runs one     *)
(* synchronous stretch at a time, so an action is such a stretch: the call *)
(* up to its first await, or the settling of the body together with the    *)
(* release and the drain that run in its finally clause.  A waiter that    *)
(* drain has resolved is inside from that moment on: the state of the lock *)
(* already counts it, only its continuation runs later.                    *)
(***************************************************************************)
EXTENDS Naturals, Sequences, FiniteSets

CONSTANT Caller

ASSUME CallerAssumption == IsFiniteSet(Caller)

VARIABLES activeReaders,  \* the counter of readers inside
          writerActive,   \* the flag of a writer inside
          queue,          \* waiters, oldest first: [caller, kind]
          pc              \* where each caller is

lockVars == <<activeReaders, writerActive, queue, pc>>

Kind   == {"read", "write"}
Waiter == [caller : Caller, kind : Kind]

HasQueuedWriter == \E i \in 1..Len(queue) : queue[i].kind = "write"

\* How many waiters drain's loop shifts when the head of the queue is a reader.
ReaderPrefix ==
  Cardinality({i \in 1..Len(queue) : \A j \in 1..i : queue[j].kind = "read"})

\* The callers among the first n waiters that asked for the given kind.
Granted(n, kind) == {queue[i].caller : i \in {j \in 1..n : queue[j].kind = kind}}

-----------------------------------------------------------------------------
Init ==
  /\ activeReaders = 0
  /\ writerActive = FALSE
  /\ queue = <<>>
  /\ pc = [c \in Caller |-> "idle"]

\* The caller parks on a promise kept in the queue.
Enqueue(c, k) ==
  /\ queue' = Append(queue, [caller |-> c, kind |-> k])
  /\ pc' = [pc EXCEPT ![c] = "waiting"]
  /\ UNCHANGED <<activeReaders, writerActive>>

\* Mutant: a reader looks at the active writer only and overtakes queued ones.
AcquireReadBarging(c) ==
  /\ pc[c] = "idle"
  /\ IF writerActive
     THEN Enqueue(c, "read")
     ELSE /\ activeReaders' = activeReaders + 1
          /\ pc' = [pc EXCEPT ![c] = "reading"]
          /\ UNCHANGED <<writerActive, queue>>

\* withRead up to its first await: acquireRead.
AcquireRead(c) ==
  /\ pc[c] = "idle"
  /\ IF writerActive \/ HasQueuedWriter
     THEN Enqueue(c, "read")
     ELSE /\ activeReaders' = activeReaders + 1
          /\ pc' = [pc EXCEPT ![c] = "reading"]
          /\ UNCHANGED <<writerActive, queue>>

\* withWrite up to its first await: acquireWrite.
AcquireWrite(c) ==
  /\ pc[c] = "idle"
  /\ IF writerActive \/ activeReaders > 0
     THEN Enqueue(c, "write")
     ELSE /\ writerActive' = TRUE
          /\ pc' = [pc EXCEPT ![c] = "writing"]
          /\ UNCHANGED <<activeReaders, queue>>

\* Caller c is done, and the first n waiters leave the queue with the lock.
Wake(c, n) ==
  /\ queue' = SubSeq(queue, n + 1, Len(queue))
  /\ pc' = [x \in Caller |-> IF x = c THEN "idle"
                              ELSE IF x \in Granted(n, "read") THEN "reading"
                              ELSE IF x \in Granted(n, "write") THEN "writing"
                              ELSE pc[x]]

\* drain, run by c with the counters its release has left.
Drain(c, readers, writer) ==
  \/ /\ writer \/ readers > 0 \/ queue = <<>>
     /\ activeReaders' = readers
     /\ writerActive' = writer
     /\ Wake(c, 0)
  \/ /\ ~writer /\ readers = 0 /\ queue # <<>>
     /\ queue[1].kind = "write"
     /\ activeReaders' = readers
     /\ writerActive' = TRUE
     /\ Wake(c, 1)
  \/ /\ ~writer /\ readers = 0 /\ queue # <<>>
     /\ queue[1].kind = "read"
     /\ activeReaders' = readers + ReaderPrefix
     /\ writerActive' = writer
     /\ Wake(c, ReaderPrefix)

\* The body given to withRead settles, by returning or by throwing.
ReleaseRead(c) ==
  /\ pc[c] = "reading"
  /\ Drain(c, activeReaders - 1, writerActive)

\* The body given to withWrite settles, by returning or by throwing.
ReleaseWrite(c) ==
  /\ pc[c] = "writing"
  /\ Drain(c, activeReaders, FALSE)

Next ==
  \E c \in Caller :
    AcquireRead(c) \/ AcquireWrite(c) \/ ReleaseRead(c) \/ ReleaseWrite(c)

Spec == Init /\ [][Next]_lockVars

\* Bodies settle: every critical section of the program is a bounded piece of
\* file or database work.  Nothing is assumed of when calls are made.
Fairness == \A c \in Caller : WF_lockVars(ReleaseRead(c) \/ ReleaseWrite(c))

FairSpec == Spec /\ Fairness

-----------------------------------------------------------------------------
Readers == {c \in Caller : pc[c] = "reading"}
Writers == {c \in Caller : pc[c] = "writing"}

TypeOK ==
  /\ activeReaders \in Nat
  /\ writerActive \in BOOLEAN
  /\ queue \in Seq(Waiter)
  /\ pc \in [Caller -> {"idle", "waiting", "reading", "writing"}]

\* A writer is alone inside: backup, restore and compaction never overlap each
\* other or a reader (rwlock.ts, first invariant of the header).
MutualExclusion ==
  \A w \in Writers : Readers = {} /\ Writers = {w}

\* The counter, the flag and the queue say exactly who is inside and who waits,
\* also while woken waiters have not resumed yet: no slot is counted twice, none
\* is kept for ever, nobody waits twice (drain changes the state before it
\* resolves anyone, and acquireRead does not count again after its await).
BookkeepingExact ==
  /\ activeReaders = Cardinality(Readers)
  /\ writerActive <=> Writers # {}
  /\ \A i, j \in 1..Len(queue) : queue[i].caller = queue[j].caller => i = j
  /\ \A c \in Caller :
       pc[c] = "waiting" <=> \E i \in 1..Len(queue) : queue[i].caller = c

\* No wake-up is lost: while anyone waits, the head of the queue is blocked by
\* someone inside whose release will run drain.
NoLostWakeup ==
  queue # <<>> =>
    IF queue[1].kind = "write" THEN writerActive \/ activeReaders > 0
                               ELSE writerActive

\* The lock with its counters and its two wake-up rules is the plain FIFO
\* reader/writer line: no caller overtakes one that came before it, and a run
\* of readers at the head enters together.
Fifo == INSTANCE FifoRWLock
          WITH inside <- [caller : Readers, kind : {"read"}]
                            \cup [caller : Writers, kind : {"write"}],
               line <- queue
ImplementsFifo == Fifo!Spec

\* Nobody starves: under writer preference readers get in, and a steady stream
\* of scheduler ticks does not keep a backup out.
NoStarvation ==
  \A c \in Caller : pc[c] = "waiting" ~> pc[c] \in {"reading", "writing"}
=============================================================================
