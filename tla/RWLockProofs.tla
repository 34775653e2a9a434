---------------------------- MODULE RWLockProofs ----------------------------
(***************************************************************************)
(* The maintenance lock is safe, and a plain FIFO line, for every finite   *)
(* set of callers.                                                         *)
(***************************************************************************)
EXTENDS RWLock, TLAPS, FiniteSetTheorems, SequenceTheorems

\* The inductive invariant: exclusion needs the exact books (a counter of zero
\* means nobody reads), and the books need an arrival that is let in directly to
\* find no waiter of its own kind, which is what NoLostWakeup says.
LockInv == TypeOK /\ MutualExclusion /\ BookkeepingExact /\ NoLostWakeup

-----------------------------------------------------------------------------
\* The first k places of a queue are k places.
LEMMA Places ==
  ASSUME NEW k \in Nat
  PROVE  IsFiniteSet(1..k) /\ Cardinality(1..k) = k
<1>1. 1 \in Int /\ k \in Int /\ (IF 1 > k THEN 0 ELSE k - 1 + 1) = k
  OBVIOUS
<1>2. /\ IsFiniteSet(1..k)
      /\ Cardinality(1..k) = IF 1 > k THEN 0 ELSE k - 1 + 1
  BY <1>1, FS_Interval
<1> QED BY <1>1, <1>2

\* What drain's reader loop shifts: readers only, and all of them up to the
\* first writer.
LEMMA ReaderPrefixProperties ==
  ASSUME TypeOK
  PROVE  /\ ReaderPrefix \in 0..Len(queue)
         /\ \A i \in 1..ReaderPrefix : queue[i].kind = "read"
         /\ ReaderPrefix < Len(queue) => queue[ReaderPrefix + 1].kind = "write"
<1> DEFINE S == {i \in 1..Len(queue) : \A j \in 1..i : queue[j].kind = "read"}
           n == ReaderPrefix
<1>1. Len(queue) \in Nat
  BY LenProperties DEF TypeOK
<1>2. S \in SUBSET (1..Len(queue)) /\ n = Cardinality(S)
  BY DEF ReaderPrefix
<1>3. IsFiniteSet(1..Len(queue)) /\ Cardinality(1..Len(queue)) = Len(queue)
  BY <1>1, Places
<1>4. IsFiniteSet(S) /\ n \in Nat /\ n <= Len(queue)
  BY <1>2, <1>3, FS_Subset, FS_CardinalityType
<1>5. ASSUME NEW i \in S PROVE i <= n
  <2>1. 1..i \in SUBSET S
    BY <1>1, <1>2
  <2>2. Cardinality(1..i) = i
    BY <1>1, <1>2, Places
  <2>3. Cardinality(1..i) <= Cardinality(S)
    BY <2>1, <1>4, FS_Subset
  <2> QED BY <2>2, <2>3, <1>2
<1>6. S = 1..n
  <2>1. S \in SUBSET (1..n)
    BY <1>1, <1>2, <1>4, <1>5
  <2>2. IsFiniteSet(1..n) /\ Cardinality(1..n) = n
    BY <1>4, Places
  <2> QED BY <2>1, <2>2, <1>2, FS_Subset
<1>7. \A i \in 1..n : queue[i].kind = "read"
  BY <1>4, <1>6
<1>8. ASSUME n < Len(queue) PROVE queue[n + 1].kind = "write"
  <2>1. n + 1 \in 1..Len(queue) /\ n + 1 \notin S
    BY <1>1, <1>4, <1>5, <1>8
  <2>2. \E j \in 1..(n + 1) : queue[j].kind # "read"
    BY <2>1
  <2>3. queue[n + 1].kind # "read"
    BY <2>2, <1>4, <1>7
  <2>4. queue[n + 1] \in Waiter
    BY <2>1, ElementOfSeq DEF TypeOK
  <2> QED BY <2>3, <2>4 DEF Waiter, Kind
<1> QED BY <1>1, <1>4, <1>7, <1>8

\* Shifting n waiters off the queue.
LEMMA ShiftedQueue ==
  ASSUME TypeOK, NEW n \in 0..Len(queue),
         queue' = SubSeq(queue, n + 1, Len(queue))
  PROVE  /\ queue' \in Seq(Waiter)
         /\ Len(queue') = Len(queue) - n
         /\ \A i \in 1..Len(queue') : queue'[i] = queue[n + i]
<1>1. Len(queue) \in Nat /\ \A i \in 1..Len(queue) : queue[i] \in Waiter
  BY LenProperties, ElementOfSeq DEF TypeOK
<1>2. \A i \in n + 1..Len(queue) : queue[i] \in Waiter
  BY <1>1
<1>3. /\ queue' \in Seq(Waiter)
      /\ Len(queue') = IF n + 1 <= Len(queue) THEN Len(queue) - (n + 1) + 1 ELSE 0
      /\ \A i \in 1..Len(queue) - (n + 1) + 1 : queue'[i] = queue[n + 1 + i - 1]
  BY <1>1, <1>2, SubSeqProperties
<1> QED BY <1>1, <1>3

\* n readers at the head of the queue are n different callers.
LEMMA GrantedReaders ==
  ASSUME TypeOK, BookkeepingExact, NEW n \in 0..Len(queue),
         \A i \in 1..n : queue[i].kind = "read"
  PROVE  /\ IsFiniteSet(Granted(n, "read"))
         /\ Cardinality(Granted(n, "read")) = n
         /\ Granted(n, "write") = {}
<1> DEFINE f == [i \in 1..n |-> queue[i].caller]
<1>1. Len(queue) \in Nat /\ n \in Nat
  BY LenProperties DEF TypeOK
<1>2. {i \in 1..n : queue[i].kind = "read"} = 1..n
  OBVIOUS
<1>3. Granted(n, "read") = {queue[i].caller : i \in 1..n}
  BY <1>2 DEF Granted
<1>4. f \in Bijection(1..n, Granted(n, "read"))
  <2>1. f \in Surjection(1..n, Granted(n, "read"))
    BY <1>3 DEF Surjection
  <2>2. f \in Injection(1..n, Granted(n, "read"))
    BY <1>1, <1>3 DEF Injection, IsInjective, BookkeepingExact
  <2> QED BY <2>1, <2>2 DEF Bijection
<1>5. IsFiniteSet(1..n) /\ Cardinality(1..n) = n
  BY <1>1, Places
<1>6. IsFiniteSet(Granted(n, "read")) /\ Cardinality(Granted(n, "read")) = n
  BY <1>4, <1>5, FS_Bijection DEF ExistsBijection
<1>7. Granted(n, "write") = {}
  BY DEF Granted
<1> QED BY <1>6, <1>7

\* What Wake does to the books: c is out, the first n waiters are in, and the
\* rest of the queue still names exactly those who wait.
LEMMA WakeEffect ==
  ASSUME TypeOK, BookkeepingExact, NEW c \in Caller,
         pc[c] \in {"reading", "writing"}, NEW n \in 0..Len(queue), Wake(c, n)
  PROVE  /\ queue' \in Seq(Waiter)
         /\ pc' \in [Caller -> {"idle", "waiting", "reading", "writing"}]
         /\ Readers' = (Readers \ {c}) \cup Granted(n, "read")
         /\ Writers' = (Writers \ {c}) \cup Granted(n, "write")
         /\ \A i, j \in 1..Len(queue') : queue'[i].caller = queue'[j].caller => i = j
         /\ \A x \in Caller :
              pc'[x] = "waiting" <=> \E i \in 1..Len(queue') : queue'[i].caller = x
<1>1. /\ Len(queue) \in Nat
      /\ \A i \in 1..Len(queue) : queue[i].caller \in Caller /\ queue[i].kind \in Kind
  <2>1. Len(queue) \in Nat /\ \A i \in 1..Len(queue) : queue[i] \in Waiter
    BY LenProperties, ElementOfSeq DEF TypeOK
  <2> QED BY <2>1 DEF Waiter
<1>2. /\ queue' \in Seq(Waiter)
      /\ Len(queue') = Len(queue) - n
      /\ \A i \in 1..Len(queue') : queue'[i] = queue[n + i]
  BY ShiftedQueue DEF Wake
<1>3. \A k : \A x \in Granted(n, k) :
        \E i \in 1..n : queue[i].caller = x /\ queue[i].kind = k
  BY DEF Granted
<1>4. \A k : \A x \in Granted(n, k) : x \in Caller /\ pc[x] = "waiting" /\ x # c
  BY <1>1, <1>3 DEF BookkeepingExact
<1>5. \A i \in 1..n : \/ queue[i].caller \in Granted(n, "read")
                      \/ queue[i].caller \in Granted(n, "write")
  BY <1>1 DEF Granted, Kind
<1>6. Granted(n, "read") \cap Granted(n, "write") = {}
  <2> SUFFICES ASSUME NEW x \in Granted(n, "read"), x \in Granted(n, "write")
               PROVE  FALSE
    OBVIOUS
  <2>1. PICK i \in 1..n : queue[i].caller = x /\ queue[i].kind = "read"
    BY <1>3
  <2>2. PICK j \in 1..n : queue[j].caller = x /\ queue[j].kind = "write"
    BY <1>3
  <2> QED BY <1>1, <2>1, <2>2 DEF BookkeepingExact
<1>7. pc' \in [Caller -> {"idle", "waiting", "reading", "writing"}]
  BY DEF Wake, TypeOK
<1>8. \A x \in Caller : pc'[x] = IF x = c THEN "idle"
                                ELSE IF x \in Granted(n, "read") THEN "reading"
                                ELSE IF x \in Granted(n, "write") THEN "writing"
                                ELSE pc[x]
  BY DEF Wake
<1>9. Readers' = (Readers \ {c}) \cup Granted(n, "read")
  BY <1>4, <1>6, <1>8 DEF Readers
<1>10. Writers' = (Writers \ {c}) \cup Granted(n, "write")
  BY <1>4, <1>6, <1>8 DEF Writers
<1>11. \A i, j \in 1..Len(queue') : queue'[i].caller = queue'[j].caller => i = j
  <2> SUFFICES ASSUME NEW i \in 1..Len(queue'), NEW j \in 1..Len(queue'),
                      queue'[i].caller = queue'[j].caller
               PROVE  i = j
    OBVIOUS
  <2>1. n + i \in 1..Len(queue) /\ n + j \in 1..Len(queue)
    BY <1>1, <1>2
  <2>2. queue[n + i].caller = queue[n + j].caller
    BY <1>2
  <2>3. n + i = n + j
    BY <2>1, <2>2 DEF BookkeepingExact
  <2> QED BY <1>1, <2>3
<1>12. ASSUME NEW x \in Caller
       PROVE  pc'[x] = "waiting" <=> \E i \in 1..Len(queue') : queue'[i].caller = x
  <2>1. ASSUME pc'[x] = "waiting"
        PROVE  \E i \in 1..Len(queue') : queue'[i].caller = x
    <3>1. pc[x] = "waiting" /\ x \notin Granted(n, "read") /\ x \notin Granted(n, "write")
      BY <1>8, <2>1
    <3>2. PICK i \in 1..Len(queue) : queue[i].caller = x
      BY <3>1 DEF BookkeepingExact
    <3>3. i \notin 1..n
      BY <1>5, <3>1, <3>2
    <3>4. i - n \in 1..Len(queue') /\ queue'[i - n] = queue[i]
      BY <1>1, <1>2, <3>3
    <3> QED BY <3>2, <3>4
  <2>2. ASSUME NEW i \in 1..Len(queue'), queue'[i].caller = x
        PROVE  pc'[x] = "waiting"
    <3>1. n + i \in 1..Len(queue) /\ queue[n + i].caller = x
      BY <1>1, <1>2, <2>2
    <3>2. pc[x] = "waiting" /\ x # c
      BY <3>1 DEF BookkeepingExact
    <3>3. ASSUME NEW k, x \in Granted(n, k) PROVE FALSE
      <4>1. PICK j \in 1..n : queue[j].caller = x
        BY <1>3, <3>3
      <4>2. j \in 1..Len(queue) /\ n + i # j
        BY <1>1, <4>1
      <4> QED BY <3>1, <4>1, <4>2 DEF BookkeepingExact
    <3> QED BY <1>8, <3>2, <3>3
  <2> QED BY <2>1, <2>2
<1> QED BY <1>2, <1>7, <1>9, <1>10, <1>11, <1>12

-----------------------------------------------------------------------------
LEMMA FiniteReaders == IsFiniteSet(Readers)
  BY CallerAssumption, FS_Subset DEF Readers

LEMMA InitLockInv == Init => LockInv
<1> SUFFICES ASSUME Init PROVE LockInv
  OBVIOUS
<1>1. Readers = {} /\ Writers = {} /\ Len(queue) = 0
  BY DEF Init, Readers, Writers
<1>2. Cardinality(Readers) = 0
  BY <1>1, FS_EmptySet
<1>3. TypeOK
  BY EmptySeq DEF Init, TypeOK
<1>4. MutualExclusion /\ NoLostWakeup
  BY <1>1 DEF Init, MutualExclusion, NoLostWakeup
<1>5. BookkeepingExact
  BY <1>1, <1>2 DEF Init, BookkeepingExact
<1> QED BY <1>3, <1>4, <1>5 DEF LockInv

\* A caller that cannot enter joins the end of the queue; the head must be
\* blocked, which the two callers of Enqueue see to.
LEMMA EnqueueKeepsLockInv ==
  ASSUME LockInv, NEW c \in Caller, pc[c] = "idle", NEW k \in Kind, Enqueue(c, k),
         IF k = "write" THEN writerActive \/ activeReaders > 0
                        ELSE writerActive \/ queue # <<>>
  PROVE  LockInv'
<1> DEFINE w == [caller |-> c, kind |-> k]
<1>1. w \in Waiter /\ Len(queue) \in Nat
  BY LenProperties DEF LockInv, TypeOK, Waiter
<1>2. /\ queue' \in Seq(Waiter)
      /\ Len(queue') = Len(queue) + 1
      /\ \A i \in 1..Len(queue) : queue'[i] = queue[i]
      /\ queue'[Len(queue) + 1] = w
  BY <1>1 DEF Enqueue, LockInv, TypeOK
<1>3. Readers' = Readers /\ Writers' = Writers
  BY DEF Enqueue, Readers, Writers, LockInv, TypeOK
<1>4. TypeOK'
  BY <1>2 DEF Enqueue, LockInv, TypeOK
<1>5. MutualExclusion'
  BY <1>3 DEF LockInv, MutualExclusion
<1>6. BookkeepingExact'
  <2>1. activeReaders' = Cardinality(Readers') /\ (writerActive' <=> Writers' # {})
    BY <1>3 DEF LockInv, BookkeepingExact, Enqueue
  <2>2. \A i \in 1..Len(queue) : queue[i].caller # c
    BY DEF LockInv, BookkeepingExact
  <2>3. \A i, j \in 1..Len(queue') : queue'[i].caller = queue'[j].caller => i = j
    BY <1>1, <1>2, <2>2 DEF LockInv, BookkeepingExact
  <2>4. ASSUME NEW x \in Caller
        PROVE  pc'[x] = "waiting" <=> \E i \in 1..Len(queue') : queue'[i].caller = x
    <3>1. CASE x = c
      BY <1>1, <1>2, <3>1 DEF Enqueue, LockInv, TypeOK
    <3>2. CASE x # c
      <4>1. pc'[x] = pc[x]
        BY <3>2 DEF Enqueue, LockInv, TypeOK
      <4>2. (\E i \in 1..Len(queue') : queue'[i].caller = x)
              <=> \E i \in 1..Len(queue) : queue[i].caller = x
        BY <1>1, <1>2, <3>2
      <4> QED BY <4>1, <4>2 DEF LockInv, BookkeepingExact
    <3> QED BY <3>1, <3>2
  <2> QED BY <2>1, <2>3, <2>4 DEF BookkeepingExact
<1>7. NoLostWakeup'
  <2>1. CASE queue = <<>>
    <3>1. queue'[1] = w
      BY <1>2, <2>1
    <3> QED BY <3>1, <2>1 DEF NoLostWakeup, Enqueue, Kind
  <2>2. CASE queue # <<>>
    <3>1. queue'[1] = queue[1]
      BY <1>1, <1>2, <2>2, EmptySeq DEF LockInv, TypeOK
    <3> QED BY <3>1, <2>2 DEF NoLostWakeup, Enqueue, LockInv
  <2> QED BY <2>1, <2>2
<1> QED BY <1>4, <1>5, <1>6, <1>7 DEF LockInv

\* With no writer active and none queued, NoLostWakeup leaves the queue empty:
\* a reader let in directly overtakes nobody.
LEMMA FreeLockHasNoQueue ==
  ASSUME LockInv, ~writerActive, ~HasQueuedWriter \/ activeReaders = 0
  PROVE  queue = <<>>
<1> SUFFICES ASSUME queue # <<>> PROVE FALSE
  OBVIOUS
<1>1. 1 \in 1..Len(queue) /\ queue[1] \in Waiter
  BY EmptySeq, ElementOfSeq DEF LockInv, TypeOK
<1>2. CASE queue[1].kind = "write"
  BY <1>1, <1>2 DEF HasQueuedWriter, LockInv, NoLostWakeup
<1>3. CASE queue[1].kind # "write"
  BY <1>3 DEF LockInv, NoLostWakeup
<1> QED BY <1>2, <1>3

LEMMA AcquireReadKeepsLockInv ==
  ASSUME LockInv, NEW c \in Caller, AcquireRead(c)
  PROVE  LockInv'
<1>1. CASE writerActive \/ HasQueuedWriter
  <2>1. Enqueue(c, "read") /\ "read" \in Kind /\ pc[c] = "idle"
    BY <1>1 DEF AcquireRead, Kind
  <2>2. writerActive \/ queue # <<>>
    BY <1>1 DEF HasQueuedWriter
  <2> QED BY <2>1, <2>2, EnqueueKeepsLockInv
<1>2. CASE ~(writerActive \/ HasQueuedWriter)
  <2>1. /\ pc[c] = "idle" /\ activeReaders' = activeReaders + 1
        /\ pc' = [pc EXCEPT ![c] = "reading"]
        /\ UNCHANGED <<writerActive, queue>>
    BY <1>2 DEF AcquireRead
  <2>2. queue = <<>> /\ Writers = {}
    BY <1>2, FreeLockHasNoQueue DEF LockInv, BookkeepingExact
  <2>3. Readers' = Readers \cup {c} /\ c \notin Readers /\ Writers' = Writers
    BY <2>1 DEF Readers, Writers, LockInv, TypeOK
  <2>4. Cardinality(Readers') = Cardinality(Readers) + 1
    BY <2>3, FiniteReaders, FS_AddElement
  <2>5. \A x \in Caller : pc'[x] = "waiting" <=> pc[x] = "waiting"
    BY <2>1 DEF LockInv, TypeOK
  <2>6. TypeOK'
    BY <2>1 DEF LockInv, TypeOK
  <2>7. MutualExclusion'
    BY <2>2, <2>3 DEF MutualExclusion
  <2>8. BookkeepingExact'
    BY <2>1, <2>3, <2>4, <2>5 DEF LockInv, BookkeepingExact
  <2>9. NoLostWakeup'
    BY <2>1, <2>2 DEF NoLostWakeup
  <2> QED BY <2>6, <2>7, <2>8, <2>9 DEF LockInv
<1> QED BY <1>1, <1>2

LEMMA AcquireWriteKeepsLockInv ==
  ASSUME LockInv, NEW c \in Caller, AcquireWrite(c)
  PROVE  LockInv'
<1>1. CASE writerActive \/ activeReaders > 0
  <2>1. Enqueue(c, "write") /\ "write" \in Kind /\ pc[c] = "idle"
    BY <1>1 DEF AcquireWrite, Kind
  <2> QED BY <1>1, <2>1, EnqueueKeepsLockInv
<1>2. CASE ~(writerActive \/ activeReaders > 0)
  <2>1. /\ pc[c] = "idle" /\ writerActive' = TRUE
        /\ pc' = [pc EXCEPT ![c] = "writing"]
        /\ UNCHANGED <<activeReaders, queue>>
    BY <1>2 DEF AcquireWrite
  <2>2. activeReaders = 0
    BY <1>2 DEF LockInv, TypeOK
  <2>3. queue = <<>> /\ Writers = {} /\ Readers = {}
    BY <1>2, <2>2, FreeLockHasNoQueue, FiniteReaders, FS_EmptySet
    DEF LockInv, BookkeepingExact
  <2>4. Readers' = Readers /\ Writers' = {c}
    BY <2>1, <2>3 DEF Readers, Writers, LockInv, TypeOK
  <2>5. \A x \in Caller : pc'[x] = "waiting" <=> pc[x] = "waiting"
    BY <2>1 DEF LockInv, TypeOK
  <2>6. TypeOK'
    BY <2>1 DEF LockInv, TypeOK
  <2>7. MutualExclusion'
    BY <2>3, <2>4 DEF MutualExclusion
  <2>8. BookkeepingExact'
    BY <2>1, <2>4, <2>5 DEF LockInv, BookkeepingExact
  <2>9. NoLostWakeup'
    BY <2>1, <2>3 DEF NoLostWakeup
  <2> QED BY <2>6, <2>7, <2>8, <2>9 DEF LockInv
<1> QED BY <1>1, <1>2

\* drain after a release: c has left, so nobody writes, and the counter it was
\* handed is the number of the readers that remain.
LEMMA DrainKeepsLockInv ==
  ASSUME LockInv, NEW c \in Caller, pc[c] \in {"reading", "writing"},
         NEW readers, readers = Cardinality(Readers \ {c}),
         Writers \ {c} = {},
         pc[c] = "reading" => ~writerActive,
         Drain(c, readers, FALSE)
  PROVE  LockInv'
<1>1. /\ IsFiniteSet(Readers \ {c}) /\ readers \in Nat
      /\ readers = 0 => Readers \ {c} = {}
  BY FiniteReaders, FS_RemoveElement, FS_CardinalityType, FS_EmptySet
<1>2. Len(queue) \in Nat /\ (queue # <<>> => 1 \in 1..Len(queue))
  BY LenProperties, EmptySeq DEF LockInv, TypeOK
<1>3. CASE readers > 0 \/ queue = <<>>
  <2>1. activeReaders' = readers /\ writerActive' = FALSE /\ Wake(c, 0)
    BY <1>1, <1>3 DEF Drain
  <2>2. \A k : Granted(0, k) = {}
    BY DEF Granted
  <2>3. 0 \in 0..Len(queue)
    BY <1>2
  <2>4. queue' = queue
    BY <2>1, SubSeqFull DEF Wake, LockInv, TypeOK
  <2>5. Readers' = Readers \ {c} /\ Writers' = {}
    BY <2>1, <2>2, <2>3, WakeEffect DEF LockInv
  <2>6. TypeOK'
    BY <2>1, <2>3, <1>1, WakeEffect DEF LockInv, TypeOK
  <2>7. MutualExclusion'
    BY <2>5 DEF MutualExclusion
  <2>8. BookkeepingExact'
    BY <2>1, <2>3, <2>5, WakeEffect DEF LockInv, BookkeepingExact
  <2>9. NoLostWakeup'
    <3>1. CASE queue = <<>>
      BY <2>4, <3>1 DEF NoLostWakeup
    <3>2. CASE queue # <<>>
      <4>1. Readers \ {c} # {}
        BY <1>3, <3>2, FS_EmptySet
      <4>2. ~writerActive
        BY <4>1 DEF LockInv, BookkeepingExact, MutualExclusion
      <4>3. queue[1].kind = "write"
        BY <3>2, <4>2 DEF LockInv, NoLostWakeup
      <4> QED BY <1>3, <2>1, <2>4, <3>2, <4>3 DEF NoLostWakeup
    <3> QED BY <3>1, <3>2
  <2> QED BY <2>6, <2>7, <2>8, <2>9 DEF LockInv
<1>4. CASE readers = 0 /\ queue # <<>> /\ queue[1].kind = "write"
  <2>1. activeReaders' = 0 /\ writerActive' = TRUE /\ Wake(c, 1)
    BY <1>4 DEF Drain
  <2>2. Granted(1, "read") = {} /\ Granted(1, "write") = {queue[1].caller}
    BY <1>4 DEF Granted
  <2>3. 1 \in 0..Len(queue)
    BY <1>2, <1>4
  <2>4. Readers' = {} /\ Writers' = {queue[1].caller}
    BY <1>1, <1>4, <2>1, <2>2, <2>3, WakeEffect DEF LockInv
  <2>5. TypeOK'
    BY <2>1, <2>3, WakeEffect DEF LockInv, TypeOK
  <2>6. MutualExclusion'
    BY <2>4 DEF MutualExclusion
  <2>7. BookkeepingExact'
    BY <2>1, <2>3, <2>4, WakeEffect, FS_EmptySet DEF LockInv, BookkeepingExact
  <2>8. NoLostWakeup'
    BY <2>1 DEF NoLostWakeup
  <2> QED BY <2>5, <2>6, <2>7, <2>8 DEF LockInv
<1>5. CASE readers = 0 /\ queue # <<>> /\ queue[1].kind = "read"
  <2>2. PICK n \in 0..Len(queue) :
               /\ n = ReaderPrefix
               /\ \A i \in 1..n : queue[i].kind = "read"
               /\ n < Len(queue) => queue[n + 1].kind = "write"
    BY ReaderPrefixProperties DEF LockInv
  <2>1. activeReaders' = n /\ writerActive' = FALSE /\ Wake(c, n)
    BY <1>2, <1>5, <2>2 DEF Drain
  <2>3. /\ Cardinality(Granted(n, "read")) = n
        /\ Granted(n, "write") = {}
    BY <2>2, GrantedReaders DEF LockInv
  <2>4. Readers' = Granted(n, "read") /\ Writers' = {}
    <3>1. /\ Readers' = (Readers \ {c}) \cup Granted(n, "read")
          /\ Writers' = (Writers \ {c}) \cup Granted(n, "write")
      BY <2>1, WakeEffect DEF LockInv
    <3> QED BY <3>1, <1>1, <1>5, <2>3
  <2>5. n > 0
    BY <1>2, <1>5, <2>2
  <2>6. TypeOK'
    <3>1. /\ queue' \in Seq(Waiter)
          /\ pc' \in [Caller -> {"idle", "waiting", "reading", "writing"}]
      BY <2>1, WakeEffect DEF LockInv
    <3>2. n \in Nat
      BY <1>2
    <3> QED BY <3>1, <3>2, <2>1 DEF TypeOK
  <2>7. MutualExclusion'
    BY <2>4 DEF MutualExclusion
  <2>8. BookkeepingExact'
    BY <2>1, <2>2, <2>3, <2>4, WakeEffect DEF LockInv, BookkeepingExact
  <2>9. NoLostWakeup'
    <3>1. queue' # <<>> => n < Len(queue) /\ queue'[1] = queue[n + 1]
      <4>1. /\ queue' \in Seq(Waiter) /\ Len(queue') = Len(queue) - n
            /\ \A i \in 1..Len(queue') : queue'[i] = queue[n + i]
        BY <2>1, <2>2, ShiftedQueue DEF Wake, LockInv
      <4> QED BY <4>1, <1>2, <2>2, EmptySeq
    <3> QED BY <3>1, <2>1, <2>2, <2>5 DEF NoLostWakeup
  <2> QED BY <2>6, <2>7, <2>8, <2>9 DEF LockInv
<1>6. queue # <<>> => queue[1].kind \in {"read", "write"}
  <2>1. queue # <<>> => queue[1] \in Waiter
    BY <1>2, ElementOfSeq DEF LockInv, TypeOK
  <2> QED BY <2>1 DEF Waiter, Kind
<1> QED BY <1>1, <1>3, <1>4, <1>5, <1>6

LEMMA ReleaseReadKeepsLockInv ==
  ASSUME LockInv, NEW c \in Caller, ReleaseRead(c)
  PROVE  LockInv'
<1>1. pc[c] = "reading" /\ c \in Readers /\ Writers = {} /\ writerActive = FALSE
  BY DEF ReleaseRead, Readers, LockInv, MutualExclusion, BookkeepingExact, TypeOK
<1>2. activeReaders - 1 = Cardinality(Readers \ {c})
  BY <1>1, FiniteReaders, FS_RemoveElement DEF LockInv, BookkeepingExact
<1>3. Drain(c, activeReaders - 1, FALSE)
  BY <1>1 DEF ReleaseRead
<1> QED BY <1>1, <1>2, <1>3, DrainKeepsLockInv

LEMMA ReleaseWriteKeepsLockInv ==
  ASSUME LockInv, NEW c \in Caller, ReleaseWrite(c)
  PROVE  LockInv'
<1>1. pc[c] = "writing" /\ Readers = {} /\ Writers \ {c} = {}
  BY DEF ReleaseWrite, Writers, LockInv, MutualExclusion
<1>2. activeReaders = Cardinality(Readers \ {c})
  BY <1>1, FS_EmptySet DEF LockInv, BookkeepingExact
<1>3. Drain(c, activeReaders, FALSE)
  BY DEF ReleaseWrite
<1> QED BY <1>1, <1>2, <1>3, DrainKeepsLockInv

-----------------------------------------------------------------------------
\* The books of the lock stay exact and no wake-up is lost, whatever the callers
\* of withRead and withWrite do and in whatever order their bodies settle.
THEOREM LockInvariant == Spec => []LockInv
<1>1. LockInv /\ [Next]_lockVars => LockInv'
  <2> SUFFICES ASSUME LockInv, [Next]_lockVars PROVE LockInv'
    OBVIOUS
  <2>1. CASE Next
    <3>1. PICK c \in Caller :
            AcquireRead(c) \/ AcquireWrite(c) \/ ReleaseRead(c) \/ ReleaseWrite(c)
      BY <2>1 DEF Next
    <3>2. CASE AcquireRead(c)
      BY <3>2, AcquireReadKeepsLockInv
    <3>3. CASE AcquireWrite(c)
      BY <3>3, AcquireWriteKeepsLockInv
    <3>4. CASE ReleaseRead(c)
      BY <3>4, ReleaseReadKeepsLockInv
    <3>5. CASE ReleaseWrite(c)
      BY <3>5, ReleaseWriteKeepsLockInv
    <3> QED BY <3>1, <3>2, <3>3, <3>4, <3>5
  <2>2. CASE UNCHANGED lockVars
    BY <2>2 DEF lockVars, LockInv, TypeOK, MutualExclusion, BookkeepingExact,
                NoLostWakeup, Readers, Writers
  <2> QED BY <2>1, <2>2
<1> QED BY <1>1, InitLockInv, PTL DEF Spec

\* A backup, restore or compaction is alone behind the gate (rwlock.ts, first
\* invariant of the header), for every finite set of callers.
THEOREM MutualExclusionHolds == Spec => []MutualExclusion
<1>1. LockInv => MutualExclusion
  BY DEF LockInv
<1> QED BY <1>1, LockInvariant, PTL

\* While anyone waits, someone inside blocks the head of the queue and will run
\* drain when it leaves.
THEOREM NoLostWakeupHolds == Spec => []NoLostWakeup
<1>1. LockInv => NoLostWakeup
  BY DEF LockInv
<1> QED BY <1>1, LockInvariant, PTL

\* The counter, the flag and the queue tell exactly who is inside and who waits.
THEOREM BookkeepingExactHolds == Spec => []BookkeepingExact
<1>1. LockInv => BookkeepingExact
  BY DEF LockInv
<1> QED BY <1>1, LockInvariant, PTL

-----------------------------------------------------------------------------
(* The refinement.  AdmitsPrefix says what FifoRWLock's choice of the longest *)
(* prefix comes to; an arrival admits all or none of the line, a departure    *)
(* what drain's loop shifts.                                                  *)

\* The two halves of what the line calls inside.
Inside == [caller : Readers, kind : {"read"}] \cup [caller : Writers, kind : {"write"}]

\* The line admits the longest prefix that fits: one that fits and cannot be
\* extended by one more.
LEMMA AdmitsPrefix ==
  ASSUME NEW h, NEW l \in Seq(Waiter), NEW n \in 0..Len(l),
         Fifo!Compatible(h \cup Fifo!Prefix(l, n)),
         n < Len(l) => ~Fifo!Compatible(h \cup Fifo!Prefix(l, n + 1)),
         Inside' = h \cup Fifo!Prefix(l, n),
         queue' = SubSeq(l, n + 1, Len(l))
  PROVE  Fifo!Admit(h, l)
<1> DEFINE fits == {m \in 0..Len(l) : Fifo!Compatible(h \cup Fifo!Prefix(l, m))}
<1>1. Len(l) \in Nat
  BY LenProperties
<1>2. ASSUME NEW m \in fits PROVE m <= n
  <2> SUFFICES ASSUME m > n PROVE FALSE
    BY <1>1
  <2>1. n < Len(l) /\ n + 1 <= m
    BY <1>1
  <2>2. h \cup Fifo!Prefix(l, n + 1) \subseteq h \cup Fifo!Prefix(l, m)
    BY <1>1, <2>1 DEF Fifo!Prefix
  <2>3. Fifo!Compatible(h \cup Fifo!Prefix(l, n + 1))
    BY <2>2 DEF Fifo!Compatible
  <2> QED BY <2>1, <2>3
<1>3. n \in fits
  OBVIOUS
<1>4. (CHOOSE m \in fits : \A k \in fits : k <= m) = n
  <2>1. \A m \in fits : (\A k \in fits : k <= m) => m = n
    BY <1>1, <1>2, <1>3
  <2>2. n \in fits /\ \A k \in fits : k <= n
    BY <1>2, <1>3
  <2> HIDE DEF fits
  <2> QED BY <2>1, <2>2
<1> QED BY <1>4 DEF Fifo!Admit, Inside

\* Somebody inside and a waiter one of whom writes cannot be inside together.
LEMMA Blocked ==
  ASSUME NEW S, NEW r \in S, NEW s \in S, r # s, r.kind = "write" \/ s.kind = "write"
  PROVE  ~Fifo!Compatible(S)
BY DEF Fifo!Compatible

\* Those inside are compatible, are where the books say, and are not in line.
LEMMA InsideFits ==
  ASSUME LockInv
  PROVE  /\ Fifo!Compatible(Inside)
         /\ \A r \in Inside : r.caller \in Caller /\ pc[r.caller] \in {"reading", "writing"}
         /\ \A c \in Readers : [caller |-> c, kind |-> "read"] \in Inside
         /\ \A c \in Writers : [caller |-> c, kind |-> "write"] \in Inside
         /\ \A i \in 1..Len(queue) : queue[i] \notin Inside
<1>1. \A r \in Inside : \/ r = [caller |-> r.caller, kind |-> "read"] /\ r.caller \in Readers
                        \/ r = [caller |-> r.caller, kind |-> "write"] /\ r.caller \in Writers
  BY DEF Inside
<1>2. Fifo!Compatible(Inside)
  BY <1>1 DEF Fifo!Compatible, LockInv, MutualExclusion
<1>3. \A r \in Inside : r.caller \in Caller /\ pc[r.caller] \in {"reading", "writing"}
  BY <1>1 DEF Readers, Writers
<1>4. \A i \in 1..Len(queue) : queue[i].caller \in Caller /\ pc[queue[i].caller] = "waiting"
  <2>1. \A i \in 1..Len(queue) : queue[i] \in Waiter
    BY ElementOfSeq DEF LockInv, TypeOK
  <2> QED BY <2>1 DEF LockInv, BookkeepingExact, Waiter
<1> QED BY <1>2, <1>3, <1>4 DEF Inside

\* A caller that is idle is neither inside nor in line.
LEMMA IdleIsUnknown ==
  ASSUME LockInv, NEW c \in Caller, pc[c] = "idle"
  PROVE  ~Fifo!Known(c)
<1>1. ~\E r \in Inside : r.caller = c
  BY InsideFits
<1>2. ~\E i \in 1..Len(queue) : queue[i].caller = c
  BY DEF LockInv, BookkeepingExact
<1> QED BY <1>1, <1>2 DEF Fifo!Known, Inside

\* Who must wait is behind a line whose head cannot enter.
LEMMA EnqueueArrives ==
  ASSUME LockInv, NEW c \in Caller, pc[c] = "idle", NEW k \in Kind, Enqueue(c, k),
         IF k = "write" THEN writerActive \/ activeReaders > 0
                        ELSE writerActive \/ queue # <<>>
  PROVE  Fifo!Arrive(c, k)
<1> DEFINE w == [caller |-> c, kind |-> k]
           l == Append(queue, w)
<1>1. w \in Waiter /\ queue \in Seq(Waiter) /\ Len(queue) \in Nat
  BY LenProperties DEF LockInv, TypeOK, Waiter
<1>2. /\ l \in Seq(Waiter) /\ Len(l) = Len(queue) + 1
      /\ \A i \in 1..Len(queue) : l[i] = queue[i]
      /\ l[Len(queue) + 1] = w
  BY <1>1
<1>3. Inside' = Inside /\ queue' = l
  <2>1. Readers' = Readers /\ Writers' = Writers
    BY DEF Enqueue, Readers, Writers, LockInv, TypeOK
  <2> QED BY <2>1 DEF Enqueue, Inside
<1> HIDE DEF l
<1>4. Fifo!Prefix(l, 0) = {} /\ Fifo!Prefix(l, 1) = {l[1]} /\ 0 + 1 = 1
  BY DEF Fifo!Prefix
<1>5. l = SubSeq(l, 1, Len(l))
  BY <1>2, SubSeqFull
<1>6. l[1] \notin Inside /\ l[1].caller \in Caller
  <2>1. CASE queue = <<>>
    <3>1. l[1] = w
      BY <1>2, <2>1
    <3> QED BY <3>1, InsideFits
  <2>2. CASE queue # <<>>
    <3>1. 1 \in 1..Len(queue) /\ queue[1] \in Waiter
      BY <1>1, <2>2, EmptySeq, ElementOfSeq
    <3> QED BY <1>2, <3>1, InsideFits DEF Waiter
  <2> QED BY <2>1, <2>2
<1>7. \E r \in Inside : r.kind = "write" \/ l[1].kind = "write"
  <2>1. writerActive => \E r \in Inside : r.kind = "write"
    <3> SUFFICES ASSUME writerActive PROVE \E r \in Inside : r.kind = "write"
      OBVIOUS
    <3>1. PICK v \in Writers : TRUE
      BY DEF LockInv, BookkeepingExact
    <3>2. [caller |-> v, kind |-> "write"] \in Inside
      BY InsideFits
    <3> QED BY <3>2
  <2>2. activeReaders > 0 => Inside # {}
    <3>1. activeReaders > 0 => Readers # {}
      BY FiniteReaders, FS_EmptySet DEF LockInv, BookkeepingExact
    <3> QED BY <3>1, InsideFits
  <2>3. CASE queue = <<>>
    <3>1. l[1] = w
      BY <1>2, <2>3
    <3> QED BY <3>1, <2>1, <2>2, <2>3 DEF Kind
  <2>4. CASE queue # <<>>
    <3>1. l[1] = queue[1]
      BY <1>1, <1>2, <2>4, EmptySeq
    <3> QED BY <3>1, <2>1, <2>2, <2>4 DEF LockInv, NoLostWakeup
  <2> QED BY <2>3, <2>4
<1>8. ~Fifo!Compatible(Inside \cup Fifo!Prefix(l, 0 + 1))
  <2>1. PICK r \in Inside : r.kind = "write" \/ l[1].kind = "write"
    BY <1>7
  <2>2. {r, l[1]} \subseteq Inside \cup Fifo!Prefix(l, 0 + 1) /\ r # l[1]
    BY <1>4, <1>6, <2>1
  <2> QED BY <2>1, <2>2, Blocked
<1>9. Fifo!Compatible(Inside \cup Fifo!Prefix(l, 0))
  BY <1>4, InsideFits
<1>10. Fifo!Admit(Inside, l)
  <2>1. /\ 0 \in 0..Len(l) /\ queue' = SubSeq(l, 0 + 1, Len(l))
        /\ Inside' = Inside \cup Fifo!Prefix(l, 0)
    BY <1>2, <1>3, <1>4, <1>5
  <2> QED BY <1>2, <1>8, <1>9, <2>1, AdmitsPrefix
<1> QED BY <1>10, IdleIsUnknown DEF Fifo!Arrive, Inside, l

\* With nobody in line, a caller that may join those inside is admitted.
LEMMA EntersAlone ==
  ASSUME LockInv, NEW c \in Caller, pc[c] = "idle", NEW k \in Kind,
         queue = <<>>, queue' = queue,
         Inside' = Inside \cup {[caller |-> c, kind |-> k]},
         \/ Inside = {}
         \/ \A r \in Inside' : r.kind = "read"
  PROVE  Fifo!Arrive(c, k)
<1> DEFINE w == [caller |-> c, kind |-> k]
           l == Append(queue, w)
<1>1. w \in Waiter
  BY DEF Waiter
<1>2. l = <<w>> /\ l \in Seq(Waiter) /\ Len(l) = 1 /\ l[1] = w
  BY <1>1
<1>3. SubSeq(l, 1 + 1, Len(l)) = <<>>
  BY <1>2, SubSeqEmpty
<1> HIDE DEF l
<1>4. Fifo!Prefix(l, 1) = {w}
  BY <1>2 DEF Fifo!Prefix
<1> HIDE DEF w
<1>5. Inside' = Inside \cup Fifo!Prefix(l, 1)
  BY <1>4 DEF w
<1>6. Fifo!Compatible(Inside \cup Fifo!Prefix(l, 1))
  <2>1. CASE Inside = {}
    BY <1>4, <2>1 DEF Fifo!Compatible
  <2>2. CASE \A r \in Inside' : r.kind = "read"
    BY <1>5, <2>2 DEF Fifo!Compatible
  <2> QED BY <2>1, <2>2
<1>7. Fifo!Admit(Inside, l)
  <2>1. 1 \in 0..Len(l) /\ ~(1 < Len(l))
    BY <1>2
  <2> QED BY <1>2, <1>3, <1>5, <1>6, <2>1, AdmitsPrefix
<1> QED BY <1>7, IdleIsUnknown DEF Fifo!Arrive, Inside, l, w

\* Who enters at once finds no line.
LEMMA AcquireReadArrives ==
  ASSUME LockInv, NEW c \in Caller, AcquireRead(c)
  PROVE  Fifo!Arrive(c, "read")
<1>1. CASE writerActive \/ HasQueuedWriter
  <2>1. Enqueue(c, "read") /\ "read" \in Kind /\ pc[c] = "idle"
    BY <1>1 DEF AcquireRead, Kind
  <2>2. writerActive \/ queue # <<>>
    BY <1>1 DEF HasQueuedWriter
  <2> QED BY <2>1, <2>2, EnqueueArrives
<1>2. CASE ~(writerActive \/ HasQueuedWriter)
  <2>1. /\ pc[c] = "idle" /\ pc' = [pc EXCEPT ![c] = "reading"] /\ queue' = queue
    BY <1>2 DEF AcquireRead
  <2>2. queue = <<>> /\ Writers = {}
    BY <1>2, FreeLockHasNoQueue DEF LockInv, BookkeepingExact
  <2>3. Readers' = Readers \cup {c} /\ Writers' = {}
    BY <2>1, <2>2 DEF Readers, Writers, LockInv, TypeOK
  <2>4. Inside' = Inside \cup {[caller |-> c, kind |-> "read"]}
    BY <2>2, <2>3 DEF Inside
  <2>5. \A r \in Inside' : r.kind = "read"
    BY <2>3 DEF Inside
  <2> QED BY <2>1, <2>2, <2>4, <2>5, EntersAlone DEF Kind
<1> QED BY <1>1, <1>2

LEMMA AcquireWriteArrives ==
  ASSUME LockInv, NEW c \in Caller, AcquireWrite(c)
  PROVE  Fifo!Arrive(c, "write")
<1>1. CASE writerActive \/ activeReaders > 0
  <2>1. Enqueue(c, "write") /\ "write" \in Kind /\ pc[c] = "idle"
    BY <1>1 DEF AcquireWrite, Kind
  <2> QED BY <1>1, <2>1, EnqueueArrives
<1>2. CASE ~(writerActive \/ activeReaders > 0)
  <2>1. /\ pc[c] = "idle" /\ pc' = [pc EXCEPT ![c] = "writing"] /\ queue' = queue
    BY <1>2 DEF AcquireWrite
  <2>2. activeReaders = 0
    BY <1>2 DEF LockInv, TypeOK
  <2>3. queue = <<>> /\ Writers = {} /\ Readers = {}
    BY <1>2, <2>2, FreeLockHasNoQueue, FiniteReaders, FS_EmptySet
    DEF LockInv, BookkeepingExact
  <2>4. Readers' = {} /\ Writers' = {c}
    BY <2>1, <2>3 DEF Readers, Writers, LockInv, TypeOK
  <2>5. Inside = {} /\ Inside' = {[caller |-> c, kind |-> "write"]}
    BY <2>3, <2>4 DEF Inside
  <2> QED BY <2>1, <2>3, <2>5, EntersAlone DEF Kind
<1> QED BY <1>1, <1>2

\* Readers, held by the callers of S.
ReadersOf(S) == [caller : S, kind : {"read"}]

LEMMA ReadersBut ==
  ASSUME NEW S, NEW c
  PROVE  [caller : S, kind : {"read"}] \ {[caller |-> c, kind |-> "read"]} = ReadersOf(S \ {c})
<1>1. ASSUME NEW r \in [caller : S, kind : {"read"}], r # [caller |-> c, kind |-> "read"]
      PROVE  r \in ReadersOf(S \ {c})
  <2>1. r = [caller |-> r.caller, kind |-> "read"] /\ r.caller \in S
    OBVIOUS
  <2>2. r.caller # c
    BY <1>1, <2>1
  <2> QED BY <2>1, <2>2 DEF ReadersOf
<1>2. ASSUME NEW r \in ReadersOf(S \ {c})
      PROVE  r \in [caller : S, kind : {"read"}] /\ r # [caller |-> c, kind |-> "read"]
  BY DEF ReadersOf
<1> QED BY <1>1, <1>2

\* drain after a release lets in the longest prefix that fits.
LEMMA DrainAdmits ==
  ASSUME LockInv, NEW c \in Caller, pc[c] \in {"reading", "writing"},
         NEW readers, readers = Cardinality(Readers \ {c}),
         Writers \ {c} = {},
         pc[c] = "reading" => ~writerActive,
         Drain(c, readers, FALSE)
  PROVE  Fifo!Admit(ReadersOf(Readers \ {c}), queue)
<1> DEFINE h == ReadersOf(Readers \ {c})
<1>1. /\ IsFiniteSet(Readers \ {c}) /\ readers \in Nat
      /\ readers = 0 => Readers \ {c} = {}
      /\ readers > 0 => Readers \ {c} # {}
  <2>1. IsFiniteSet(Readers \ {c})
    BY FiniteReaders, FS_Subset
  <2>2. readers \in Nat
    BY <2>1, FS_CardinalityType
  <2>3. readers = 0 <=> Readers \ {c} = {}
    BY <2>1, FS_EmptySet
  <2> QED BY <2>1, <2>2, <2>3
<1>2. Len(queue) \in Nat /\ (queue # <<>> => 1 \in 1..Len(queue)) /\ queue \in Seq(Waiter)
      /\ (queue = <<>> => Len(queue) = 0)
  BY LenProperties, EmptySeq DEF LockInv, TypeOK
<1>3. \A i \in 1..Len(queue) : /\ queue[i].kind \in Kind
                               /\ queue[i] = [caller |-> queue[i].caller, kind |-> queue[i].kind]
                               /\ pc[queue[i].caller] = "waiting"
  <2>1. \A i \in 1..Len(queue) : queue[i] \in Waiter
    BY <1>2, ElementOfSeq
  <2> QED BY <2>1 DEF Waiter, LockInv, BookkeepingExact
<1>4. ASSUME NEW r \in h PROVE r.kind = "read" /\ r.caller \in Readers \ {c}
  BY DEF ReadersOf
<1>5. \A i \in 1..Len(queue) : queue[i] \notin h
  BY <1>3, <1>4 DEF Readers
<1>6. ASSUME NEW n \in 0..Len(queue), Wake(c, n),
             Fifo!Compatible(h \cup Fifo!Prefix(queue, n)),
             n < Len(queue) => \E r \in h \cup Fifo!Prefix(queue, n) :
                                 r.kind = "write" \/ queue[n + 1].kind = "write"
      PROVE  Fifo!Admit(h, queue)
  <2>1. /\ Readers' = (Readers \ {c}) \cup Granted(n, "read")
        /\ Writers' = Granted(n, "write")
    <3>1. /\ Readers' = (Readers \ {c}) \cup Granted(n, "read")
          /\ Writers' = (Writers \ {c}) \cup Granted(n, "write")
      BY <1>6, WakeEffect DEF LockInv
    <3> QED BY <3>1
  <2>2. Fifo!Prefix(queue, n) = [caller : Granted(n, "read"), kind : {"read"}]
                                  \cup [caller : Granted(n, "write"), kind : {"write"}]
    <3>1. ASSUME NEW r \in Fifo!Prefix(queue, n)
          PROVE  r \in [caller : Granted(n, "read"), kind : {"read"}]
                         \cup [caller : Granted(n, "write"), kind : {"write"}]
      <4>1. PICK i \in 1..n : r = queue[i]
        BY DEF Fifo!Prefix
      <4>2. i \in 1..Len(queue)
        BY <1>2
      <4>3. queue[i].caller \in Granted(n, queue[i].kind)
        BY DEF Granted
      <4>4. CASE queue[i].kind = "read"
        <5>1. /\ r = [caller |-> queue[i].caller, kind |-> "read"]
              /\ queue[i].caller \in Granted(n, "read")
          BY <1>3, <4>1, <4>2, <4>3, <4>4
        <5> QED BY <5>1
      <4>5. CASE queue[i].kind = "write"
        <5>1. /\ r = [caller |-> queue[i].caller, kind |-> "write"]
              /\ queue[i].caller \in Granted(n, "write")
          BY <1>3, <4>1, <4>2, <4>3, <4>5
        <5> QED BY <5>1
      <4> QED BY <1>3, <4>2, <4>4, <4>5 DEF Kind
    <3>2. ASSUME NEW k \in Kind, NEW x \in Granted(n, k)
          PROVE  [caller |-> x, kind |-> k] \in Fifo!Prefix(queue, n)
      <4>1. PICK i \in 1..n : queue[i].caller = x /\ queue[i].kind = k
        BY DEF Granted
      <4>2. i \in 1..Len(queue)
        BY <1>2
      <4> QED BY <1>3, <4>1, <4>2 DEF Fifo!Prefix
    <3> QED BY <3>1, <3>2 DEF Kind
  <2>3. Inside' = h \cup Fifo!Prefix(queue, n)
    BY <2>1, <2>2 DEF Inside, ReadersOf
  <2>4. ASSUME n < Len(queue) PROVE ~Fifo!Compatible(h \cup Fifo!Prefix(queue, n + 1))
    <3>1. PICK r \in h \cup Fifo!Prefix(queue, n) :
            r.kind = "write" \/ queue[n + 1].kind = "write"
      BY <1>6, <2>4
    <3>2. n + 1 \in 1..Len(queue)
      BY <1>2, <2>4
    <3>3. {r, queue[n + 1]} \subseteq h \cup Fifo!Prefix(queue, n + 1)
      BY <3>2 DEF Fifo!Prefix
    <3>4. r # queue[n + 1]
      <4>1. CASE r \in h
        BY <1>5, <3>2, <4>1
      <4>2. CASE r \in Fifo!Prefix(queue, n)
        <5>1. PICK i \in 1..n : r = queue[i]
          BY <4>2 DEF Fifo!Prefix
        <5>2. i \in 1..Len(queue) /\ i # n + 1
          BY <1>2
        <5> QED BY <3>2, <5>1, <5>2 DEF LockInv, BookkeepingExact
      <4> QED BY <4>1, <4>2
    <3> QED BY <3>1, <3>3, <3>4, Blocked
  <2>5. queue' = SubSeq(queue, n + 1, Len(queue))
    BY <1>6 DEF Wake
  <2> HIDE DEF h
  <2> QED BY <1>2, <1>6, <2>3, <2>4, <2>5, AdmitsPrefix
<1>7. CASE readers > 0 \/ queue = <<>>
  <2>1. Wake(c, 0) /\ 0 \in 0..Len(queue)
    BY <1>1, <1>2, <1>7 DEF Drain
  <2>2. Fifo!Prefix(queue, 0) = {} /\ Granted(0, "read") = {}
    BY DEF Fifo!Prefix, Granted
  <2>3. Fifo!Compatible(h \cup Fifo!Prefix(queue, 0))
    BY <1>4, <2>2 DEF Fifo!Compatible
  <2>4. ASSUME 0 < Len(queue)
        PROVE  \E r \in h \cup Fifo!Prefix(queue, 0) : queue[0 + 1].kind = "write"
    <3>1. queue # <<>> /\ Readers \ {c} # {}
      BY <1>1, <1>2, <1>7, <2>4
    <3>2. ~writerActive
      BY <3>1 DEF LockInv, BookkeepingExact, MutualExclusion
    <3>3. queue[1].kind = "write"
      BY <3>1, <3>2 DEF LockInv, NoLostWakeup
    <3>4. PICK x \in Readers \ {c} : TRUE
      BY <3>1
    <3>5. [caller |-> x, kind |-> "read"] \in h
      BY <3>4 DEF ReadersOf
    <3> QED BY <3>3, <3>5
  <2>5. 0 < Len(queue) => \E r \in h \cup Fifo!Prefix(queue, 0) :
                            r.kind = "write" \/ queue[0 + 1].kind = "write"
    BY <2>4
  <2> QED BY <1>6, <2>1, <2>2, <2>3, <2>5
<1>8. CASE readers = 0 /\ queue # <<>> /\ queue[1].kind = "write"
  <2>1. Wake(c, 1) /\ 1 \in 0..Len(queue) /\ h = {}
    BY <1>1, <1>2, <1>8 DEF Drain, ReadersOf
  <2>2. Fifo!Prefix(queue, 1) = {queue[1]} /\ Granted(1, "read") = {}
    BY <1>8 DEF Fifo!Prefix, Granted
  <2>3. Fifo!Compatible(h \cup Fifo!Prefix(queue, 1))
    BY <2>1, <2>2 DEF Fifo!Compatible
  <2>4. \E r \in h \cup Fifo!Prefix(queue, 1) : r.kind = "write"
    BY <1>8, <2>2
  <2>5. 1 < Len(queue) => \E r \in h \cup Fifo!Prefix(queue, 1) :
                            r.kind = "write" \/ queue[1 + 1].kind = "write"
    BY <2>4
  <2> QED BY <1>6, <2>1, <2>2, <2>3, <2>5
<1>9. CASE readers = 0 /\ queue # <<>> /\ queue[1].kind = "read"
  <2>1. PICK n \in 0..Len(queue) :
               /\ n = ReaderPrefix
               /\ \A i \in 1..n : queue[i].kind = "read"
               /\ n < Len(queue) => queue[n + 1].kind = "write"
    BY ReaderPrefixProperties DEF LockInv
  <2>2. Wake(c, n) /\ h = {}
    BY <1>1, <1>2, <1>9, <2>1 DEF Drain, ReadersOf
  <2>3. Granted(n, "write") = {}
    BY <2>1, GrantedReaders DEF LockInv
  <2>4. Fifo!Compatible(h \cup Fifo!Prefix(queue, n))
    BY <2>1, <2>2 DEF Fifo!Compatible, Fifo!Prefix
  <2>5. ASSUME n < Len(queue)
        PROVE  \E r \in h \cup Fifo!Prefix(queue, n) : queue[n + 1].kind = "write"
    <3>1. n >= 1
      BY <1>2, <1>9, <2>1
    <3>2. queue[1] \in Fifo!Prefix(queue, n)
      BY <3>1 DEF Fifo!Prefix
    <3> QED BY <2>1, <2>5, <3>2
  <2>6. n < Len(queue) => \E r \in h \cup Fifo!Prefix(queue, n) :
                            r.kind = "write" \/ queue[n + 1].kind = "write"
    BY <2>5
  <2> QED BY <1>6, <2>2, <2>3, <2>4, <2>6
<1>10. queue # <<>> => queue[1].kind \in {"read", "write"}
  BY <1>2, <1>3 DEF Kind
<1> QED BY <1>1, <1>7, <1>8, <1>9, <1>10

LEMMA ReleaseReadLeaves ==
  ASSUME LockInv, NEW c \in Caller, ReleaseRead(c)
  PROVE  Fifo!Leave(c)
<1>1. pc[c] = "reading" /\ c \in Readers /\ Writers = {} /\ writerActive = FALSE
  BY DEF ReleaseRead, Readers, LockInv, MutualExclusion, BookkeepingExact, TypeOK
<1>2. activeReaders - 1 = Cardinality(Readers \ {c})
  BY <1>1, FiniteReaders, FS_RemoveElement DEF LockInv, BookkeepingExact
<1>3. Drain(c, activeReaders - 1, FALSE)
  BY <1>1 DEF ReleaseRead
<1>4. Fifo!Admit(ReadersOf(Readers \ {c}), queue)
  BY <1>1, <1>2, <1>3, DrainAdmits
<1>5. /\ [caller |-> c, kind |-> "read"] \in Inside
      /\ Inside \ {[caller |-> c, kind |-> "read"]} = ReadersOf(Readers \ {c})
  BY <1>1, ReadersBut DEF Inside, ReadersOf
<1> QED BY <1>4, <1>5 DEF Fifo!Leave, Inside

LEMMA ReleaseWriteLeaves ==
  ASSUME LockInv, NEW c \in Caller, ReleaseWrite(c)
  PROVE  Fifo!Leave(c)
<1>1. pc[c] = "writing" /\ Readers = {} /\ Writers = {c}
  BY DEF ReleaseWrite, Writers, LockInv, MutualExclusion
<1>2. activeReaders = Cardinality(Readers \ {c})
  BY <1>1, FS_EmptySet DEF LockInv, BookkeepingExact
<1>3. Drain(c, activeReaders, FALSE)
  BY DEF ReleaseWrite
<1>4. Fifo!Admit(ReadersOf(Readers \ {c}), queue)
  BY <1>1, <1>2, <1>3, DrainAdmits
<1>5. /\ [caller |-> c, kind |-> "write"] \in Inside
      /\ Inside \ {[caller |-> c, kind |-> "write"]} = ReadersOf(Readers \ {c})
  BY <1>1 DEF Inside, ReadersOf
<1> QED BY <1>4, <1>5 DEF Fifo!Leave, Inside

\* The lock, with its counters and its two rules for waking, is the plain line
\* in which nobody overtakes (rwlock.ts:1-32), for every finite set of callers.
THEOREM ImplementsFifoHolds == Spec => ImplementsFifo
<1>1. Init => Fifo!Init
  BY DEF Init, Fifo!Init, Readers, Writers
<1>2. LockInv /\ [Next]_lockVars => [Fifo!Next]_(Fifo!vars)
  <2> SUFFICES ASSUME LockInv, [Next]_lockVars PROVE [Fifo!Next]_(Fifo!vars)
    OBVIOUS
  <2>1. CASE UNCHANGED lockVars
    BY <2>1 DEF lockVars, Fifo!vars, Readers, Writers
  <2>2. ASSUME NEW c \in Caller, AcquireRead(c) PROVE Fifo!Next
    BY <2>2, AcquireReadArrives DEF Fifo!Next, Fifo!Kind
  <2>3. ASSUME NEW c \in Caller, AcquireWrite(c) PROVE Fifo!Next
    BY <2>3, AcquireWriteArrives DEF Fifo!Next, Fifo!Kind
  <2>4. ASSUME NEW c \in Caller, ReleaseRead(c) PROVE Fifo!Next
    BY <2>4, ReleaseReadLeaves DEF Fifo!Next
  <2>5. ASSUME NEW c \in Caller, ReleaseWrite(c) PROVE Fifo!Next
    BY <2>5, ReleaseWriteLeaves DEF Fifo!Next
  <2> QED BY <2>1, <2>2, <2>3, <2>4, <2>5 DEF Next
<1> QED BY <1>1, <1>2, LockInvariant, PTL DEF Spec, ImplementsFifo, Fifo!Spec
=============================================================================
