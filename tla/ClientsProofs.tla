------------------------------ MODULE ClientsProofs -------------------------------
(***************************************************************************)
(* The instance lock keeps its promises for any number of processes and    *)
(* hosts.  A browser that has signed out stays so, for any number of tabs. *)
(* An active administrator remains, however many accounts and requests.    *)
(* The caps of a shutdown's stages fit into the shell's, and the lock goes *)
(* back to a quiet directory.  The caps of captchas and the entries of     *)
(* clientRequestId hold for any number of requests, and every court of a   *)
(* search is accounted for, however many are asked.  The list of alerts    *)
(* catches up with the table, and "load more" names every range it misses. *)
(***************************************************************************)
EXTENDS InstanceLock, WebSession, AlertStream, Accounts, Shutdown, RnpmIntake, DosareSearch,
        DosareMore, FiniteSums, SequenceTheorems

-----------------------------------------------------------------------------
(* The instance lock: processes may crash and heartbeats may be missed; no    *)
(* process looks between the creation of a lock file and its writing, nobody  *)
(* forces a boot, and the shutdown after the last miss ends before the lock   *)
(* is stale.                                                                  *)

\* From the creation of its lock file on, until it is dead.
Own == {"write", "reclaim", "leave", "holding", "beat", "stopping"}

\* At most one process is behind the gate, the one that made it.
GateHeld ==
    /\ \A p \in Procs : pc[p] \in InGate => gate = p
    /\ gate # None => pc[gate] \in InGate

\* The lock file is of whoever has created it last, who lives or is dead.
Owned ==
    /\ \A p \in Procs : pc[p] \in Own => lock # None /\ lock.by = p /\ lock.written
    /\ lock # None => pc[lock.by] \in Own \cup {"dead"}

\* The file is missing at first, and while the reclaimer is about to make it:
\* who has seen a lock and gets behind the gate finds one.
Missing ==
    lock = None => \/ \A p \in Procs : pc[p] = "new"
                   \/ \E p \in Procs : pc[p] = "claim"

\* Only the lock of a dead process is renamed away.
RenamesDead == \A p \in Procs : pc[p] = "rename" => lock # None /\ pc[lock.by] = "dead"

\* A lock ages by the heartbeats its process has missed, the one that is due,
\* and the periods of its shutdown.
AgeIsMisses ==
    lock # None =>
      /\ pc[lock.by] \in {"write", "reclaim", "leave"} => lock.age = 0 /\ misses[lock.by] = 0
      /\ pc[lock.by] \in {"holding", "beat"} =>
           lock.age <= misses[lock.by] + (IF lock.by \in due THEN 1 ELSE 0)
      /\ pc[lock.by] = "stopping" =>
           /\ lock.age <= MaxMisses + misses[lock.by]
           /\ misses[lock.by] = 0 \/ misses[lock.by] < Drain

\* A beat belongs to a timer; a process that has not held yet has missed none.
Timers ==
    /\ \A p \in Procs : pc[p] = "beat" => p \in due
    /\ \A p \in Procs : pc[p] \notin {"holding", "beat", "stopping", "dead"} => misses[p] = 0
    /\ \A p \in Procs : pc[p] \notin {"forced", "release", "orphan"}

LockInv ==
    TypeOK /\ GateHeld /\ Owned /\ Missing /\ RenamesDead /\ AgeIsMisses /\ Timers

\* The faults for which the promises are made, and the timing of the code:
\* three misses and ten seconds of shutdown are less than six periods.
Sound ==
    /\ Env \subseteq {"miss", "crash"}
    /\ MaxMisses < StaleAge /\ MaxMisses + Drain <= StaleAge
-----------------------------------------------------------------------------
\* The steps

\* A lock that is not stale to other hosts is what a living process has.
LEMMA LivingIsFresh ==
  ASSUME TypeOK, Owned, AgeIsMisses, Sound, lock # None, pc[lock.by] # "dead"
  PROVE  lock.written /\ lock.age < StaleAge
<1>1. pc[lock.by] \in Own /\ lock.by \in Procs /\ lock.written
  BY LockAssumption DEF TypeOK, Owned
<1>2. CASE pc[lock.by] \in {"write", "reclaim", "leave"}
  BY <1>1, <1>2, LockAssumption DEF AgeIsMisses, Sound
<1>3. CASE pc[lock.by] \in {"holding", "beat"}
  <2>1. lock.age \in Nat /\ misses[lock.by] \in Nat /\ misses[lock.by] < MaxMisses
    BY <1>1, <1>3 DEF TypeOK
  <2> QED
    BY <1>1, <1>3, <2>1, LockAssumption DEF AgeIsMisses, Sound
<1>4. CASE pc[lock.by] = "stopping"
  <2>1. lock.age \in Nat /\ misses[lock.by] \in Nat
    BY <1>1 DEF TypeOK
  <2> QED
    BY <1>1, <1>4, <2>1, LockAssumption DEF AgeIsMisses, Sound
<1> QED
  BY <1>1, <1>2, <1>3, <1>4 DEF Own

\* A new record is a lock file.
LEMMA NewRecord ==
  ASSUME NEW p \in Procs
  PROVE  /\ [by |-> p, written |-> TRUE, age |-> 0]
              \in [by : Procs, written : BOOLEAN, age : 0..(StaleAge + 1)]
         /\ [by |-> p, written |-> TRUE, age |-> 0] # None
<1>1. 0 \in 0..(StaleAge + 1) /\ TRUE \in BOOLEAN
  BY LockAssumption
<1>2. [by |-> p, written |-> TRUE, age |-> 0]
        \in [by : Procs, written : BOOLEAN, age : 0..(StaleAge + 1)]
  BY <1>1
<1> QED
  BY <1>2, LockAssumption

\* The write goes to one's own file, which counted as written before: without
\* "torn" nobody looks in between.
LEMMA WriteIsOwn ==
  ASSUME LockInv, NEW p \in Procs, WriteClaim(p) \/ WriteReclaim(p)
  PROVE  UNCHANGED lock
<1>1. pc[p] \in Own
  BY DEF WriteClaim, WriteReclaim, Write, Own
<1>2. lock # None /\ lock.by = p /\ lock.written = TRUE
  BY <1>1 DEF LockInv, TypeOK, Owned
<1>3. [lock EXCEPT !.written = TRUE] = lock
  BY <1>2 DEF LockInv, TypeOK
<1> QED
  BY <1>2, <1>3 DEF WriteClaim, WriteReclaim, Write

\* A period makes the lock older by one, up to the bound.
LEMMA TickAges ==
  ASSUME TypeOK, Tick
  PROVE  /\ lock = None => lock' = None
         /\ lock # None => /\ lock' # None /\ lock'.by = lock.by /\ lock'.written = lock.written
                           /\ lock'.age \in {lock.age, lock.age + 1}
<1>1. lock # None => /\ lock.age \in 0..(StaleAge + 1) /\ lock.by \in Procs
                     /\ lock.written \in BOOLEAN
                     /\ lock = [by |-> lock.by, written |-> lock.written, age |-> lock.age]
  BY DEF TypeOK
<1>2. lock # None /\ lock.age <= StaleAge =>
        /\ [lock EXCEPT !.age = lock.age + 1]
              = [by |-> lock.by, written |-> lock.written, age |-> lock.age + 1]
        /\ [lock EXCEPT !.age = lock.age + 1] # None
  BY <1>1, LockAssumption
<1> QED
  BY <1>1, <1>2, LockAssumption DEF Tick, Older

\* Behind the gate one finds a lock, unless one is about to make it.
LEMMA GateFindsLock ==
  ASSUME GateHeld, Missing, NEW p \in Procs, pc[p] \in InGate \ {"claim"}
  PROVE  lock # None
BY DEF GateHeld, Missing, InGate

\* A boot is not forced.
LEMMA ForceBootKeeps ==
  ASSUME LockInv, Sound, NEW p \in Procs, ForceBoot(p)
  PROVE  LockInv'
BY DEF LockInv, Sound, Timers, ForceBoot

\* A claim creates the file or sees that there is one.
LEMMA ClaimKeeps ==
  ASSUME LockInv, Sound, NEW p \in Procs, Claim(p)
  PROVE  LockInv'
<1> USE DEF LockInv
<1>0. /\ pc[p] \in {"new", "forced"} /\ UNCHANGED <<gate, seen, misses, due>>
      /\ \/ /\ lock = None /\ lock' # None /\ lock' = [by |-> p, written |-> TRUE, age |-> 0]
            /\ pc' = [pc EXCEPT ![p] = "write"]
         \/ lock # None /\ UNCHANGED lock /\ pc' = [pc EXCEPT ![p] = "read"]
  BY NewRecord DEF Claim, Create, Goto, Record, Sound, Timers
<1>1. TypeOK'
  <2>1. lock' \in [by : Procs, written : BOOLEAN, age : 0..(StaleAge + 1)] \cup {None}
    BY <1>0, NewRecord DEF TypeOK
  <2>2. /\ gate' \in Procs \cup {None}
        /\ seen' \in [Procs -> Procs \cup {None}]
    BY <1>0, LockAssumption DEF TypeOK, Claim, Create
  <2>3. pc' \in [Procs -> InGate \cup {"new", "forced", "write", "read", "gate", "orphan", "holding",
                                      "beat", "stopping", "release", "dead"}]
    BY <1>0, NewRecord DEF TypeOK, InGate, Goto, Record, Claim, Create
  <2>4. misses' \in [Procs -> 0..(MaxMisses + Drain)]
    BY <1>0, LockAssumption DEF TypeOK, Claim, Create
  <2>5. /\ \A q \in Procs : pc'[q] \in {"holding", "beat"} => misses'[q] < MaxMisses
        /\ due' \subseteq {q \in Procs : pc'[q] \in {"holding", "beat"}}
    BY <1>0, LockAssumption DEF TypeOK, InGate, Goto, Record, Timers, Claim, Create
  <2> QED
    BY <2>1, <2>2, <2>3, <2>4, <2>5 DEF TypeOK
<1>2. GateHeld'
  BY <1>0, LockAssumption DEF TypeOK, GateHeld, InGate, Goto, Claim, Create
<1>3. Owned'
  BY <1>0, LockAssumption DEF TypeOK, Owned, Own, Goto, Claim, Create
<1>4. Missing'
  BY <1>0, LockAssumption DEF TypeOK, Missing, Goto, Claim, Create
<1>5. RenamesDead'
  BY <1>0, LockAssumption DEF TypeOK, RenamesDead, GateHeld, InGate, Goto, Claim, Create
<1>6. AgeIsMisses'
  BY <1>0, LockAssumption DEF TypeOK, AgeIsMisses, Owned, Own, Timers, Goto, Claim, Create
<1>7. Timers'
  BY <1>0, LockAssumption DEF TypeOK, Timers, Goto, Claim, Create
<1> QED
  BY <1>1, <1>2, <1>3, <1>4, <1>5, <1>6, <1>7

\* The claimed file gets its record.
LEMMA WriteClaimKeeps ==
  ASSUME LockInv, Sound, NEW p \in Procs, WriteClaim(p)
  PROVE  LockInv'
<1> USE DEF LockInv
<1>0. pc[p] = "write" /\ pc' = [pc EXCEPT ![p] = "holding"] /\ UNCHANGED <<lock, gate, seen, misses, due>>
  BY WriteIsOwn DEF WriteClaim, Write, Goto
<1>1. TypeOK'
  <2>1. lock' \in [by : Procs, written : BOOLEAN, age : 0..(StaleAge + 1)] \cup {None}
    BY <1>0, NewRecord DEF TypeOK
  <2>2. /\ gate' \in Procs \cup {None}
        /\ seen' \in [Procs -> Procs \cup {None}]
    BY <1>0, LockAssumption DEF TypeOK, WriteClaim, Write
  <2>3. pc' \in [Procs -> InGate \cup {"new", "forced", "write", "read", "gate", "orphan", "holding",
                                      "beat", "stopping", "release", "dead"}]
    BY <1>0, NewRecord DEF TypeOK, InGate, Goto, Record, WriteClaim, Write
  <2>4. misses' \in [Procs -> 0..(MaxMisses + Drain)]
    BY <1>0, LockAssumption DEF TypeOK, WriteClaim, Write
  <2>5. /\ \A q \in Procs : pc'[q] \in {"holding", "beat"} => misses'[q] < MaxMisses
        /\ due' \subseteq {q \in Procs : pc'[q] \in {"holding", "beat"}}
    BY <1>0, LockAssumption DEF TypeOK, InGate, Goto, Record, Timers, WriteClaim, Write
  <2> QED
    BY <2>1, <2>2, <2>3, <2>4, <2>5 DEF TypeOK
<1>2. GateHeld'
  BY <1>0, LockAssumption DEF TypeOK, GateHeld, Own, InGate, Timers
<1>3. Owned'
  BY <1>0, LockAssumption DEF TypeOK, Owned, Own, InGate, Timers
<1>4. Missing'
  BY <1>0, LockAssumption DEF TypeOK, Missing, Own, InGate, Timers
<1>5. RenamesDead'
  BY <1>0, LockAssumption DEF TypeOK, RenamesDead, Own, InGate, Timers
<1>6. AgeIsMisses'
  BY <1>0, LockAssumption DEF TypeOK, AgeIsMisses, Own, InGate, Timers
<1>7. Timers'
  BY <1>0, LockAssumption DEF TypeOK, Timers, Own, InGate, Timers
<1> QED
  BY <1>1, <1>2, <1>3, <1>4, <1>5, <1>6, <1>7

\* A boot that meets a lock refuses or goes to the gate.
LEMMA ReadKeeps ==
  ASSUME LockInv, Sound, NEW p \in Procs, Read(p)
  PROVE  LockInv'
<1> USE DEF LockInv
<1>1. TypeOK'
  BY LockAssumption DEF TypeOK, InGate, Goto, Valid, Read, Refuse
<1>2. GateHeld'
  BY LockAssumption DEF TypeOK, GateHeld, InGate, Goto, Read, Refuse
<1>3. Owned'
  BY LockAssumption DEF TypeOK, Owned, Own, Goto, Read, Refuse
<1>4. Missing'
  BY LockAssumption DEF TypeOK, Missing, Goto, Read, Refuse
<1>5. RenamesDead'
  BY LockAssumption DEF TypeOK, RenamesDead, GateHeld, InGate, Goto, Read, Refuse
<1>6. AgeIsMisses'
  BY LockAssumption DEF TypeOK, AgeIsMisses, Owned, Own, Timers, Goto, Read, Refuse
<1>7. Timers'
  BY LockAssumption DEF TypeOK, Timers, Goto, Read, Refuse
<1> QED
  BY <1>1, <1>2, <1>3, <1>4, <1>5, <1>6, <1>7

\* One boot enters the gate, and an entered gate is of a living process.
LEMMA EnterGateKeeps ==
  ASSUME LockInv, Sound, NEW p \in Procs, EnterGate(p)
  PROVE  LockInv'
<1> USE DEF LockInv
<1>1. TypeOK'
  BY LockAssumption DEF TypeOK, InGate, Goto, EnterGate, Refuse, Alive
<1>2. GateHeld'
  BY LockAssumption DEF TypeOK, GateHeld, InGate, Goto, EnterGate, Refuse, Alive
<1>3. Owned'
  BY LockAssumption DEF TypeOK, Owned, Own, Goto, EnterGate, Refuse, Alive
<1>4. Missing'
  BY LockAssumption DEF TypeOK, Missing, Goto, EnterGate, Refuse, Alive
<1>5. RenamesDead'
  BY LockAssumption DEF TypeOK, RenamesDead, GateHeld, InGate, Goto, EnterGate, Refuse, Alive
<1>6. AgeIsMisses'
  BY LockAssumption DEF TypeOK, AgeIsMisses, Owned, Own, Timers, Goto, EnterGate, Refuse, Alive
<1>7. Timers'
  BY LockAssumption DEF TypeOK, Timers, Goto, GateHeld, InGate, EnterGate, Refuse, Alive
<1> QED
  BY <1>1, <1>2, <1>3, <1>4, <1>5, <1>6, <1>7

\* There are no orphan gates.
LEMMA UnlinkOrphanKeeps ==
  ASSUME LockInv, Sound, NEW p \in Procs, UnlinkOrphan(p)
  PROVE  LockInv'
BY DEF LockInv, Sound, Timers, UnlinkOrphan, Refuse

\* The second look goes on to the rename only if whoever made the lock is dead:
\* a living process has written it, and it is young.
LEMMA RecheckKeeps ==
  ASSUME LockInv, Sound, NEW p \in Procs, Recheck(p)
  PROVE  LockInv'
<1> USE DEF LockInv
<1>1. lock # None
  BY GateFindsLock DEF Recheck, InGate
<1>2. pc'[p] = "rename" => pc[lock.by] = "dead"
  <2> SUFFICES ASSUME pc'[p] = "rename", pc[lock.by] # "dead" PROVE FALSE
    OBVIOUS
  <2>1. lock.written /\ lock.age < StaleAge /\ lock.age \in Nat /\ pc[lock.by] \in Own
    BY <1>1, LivingIsFresh DEF TypeOK, Owned
  <2>2. Valid /\ Blocked(p, lock)
    BY <1>1, <2>1, LockAssumption DEF Valid, Blocked, Alive, Own
  <2> QED
    BY <2>2 DEF Recheck, Goto, TypeOK
<1>3. TypeOK'
  BY LockAssumption DEF TypeOK, InGate, Goto, Recheck
<1>4. GateHeld'
  BY LockAssumption DEF TypeOK, GateHeld, InGate, Goto, Recheck
<1>5. Owned'
  BY LockAssumption DEF TypeOK, Owned, Own, Goto, Recheck
<1>6. Missing'
  BY <1>1, LockAssumption DEF TypeOK, Missing, Goto, Recheck
<1>7. RenamesDead'
  BY <1>1, <1>2, LockAssumption DEF TypeOK, RenamesDead, GateHeld, InGate, Goto, Recheck
<1>8. AgeIsMisses'
  BY LockAssumption DEF TypeOK, AgeIsMisses, Owned, Own, Timers, Goto, Recheck
<1>9. Timers'
  BY LockAssumption DEF TypeOK, Timers, Goto, Recheck
<1> QED
  BY <1>3, <1>4, <1>5, <1>6, <1>7, <1>8, <1>9

\* The dead lock goes, and nobody's else.
LEMMA RenameKeeps ==
  ASSUME LockInv, Sound, NEW p \in Procs, Rename(p)
  PROVE  LockInv'
<1> USE DEF LockInv
<1>1. TypeOK'
  BY LockAssumption DEF TypeOK, InGate, Goto, Rename
<1>2. GateHeld'
  BY LockAssumption DEF TypeOK, GateHeld, InGate, Goto, Rename
<1>3. Owned'
  BY LockAssumption DEF TypeOK, Owned, Own, Goto, RenamesDead, InGate, Rename
<1>4. Missing'
  BY LockAssumption DEF TypeOK, Missing, Goto, Rename
<1>5. RenamesDead'
  BY LockAssumption DEF TypeOK, RenamesDead, GateHeld, InGate, Goto, Rename
<1>6. AgeIsMisses'
  BY LockAssumption DEF TypeOK, AgeIsMisses, Owned, Own, Timers, Goto, Rename
<1>7. Timers'
  BY LockAssumption DEF TypeOK, Timers, Goto, Rename
<1> QED
  BY <1>1, <1>2, <1>3, <1>4, <1>5, <1>6, <1>7

\* Behind the gate a new file is made, unless a claim was faster.
LEMMA ReclaimKeeps ==
  ASSUME LockInv, Sound, NEW p \in Procs, Reclaim(p)
  PROVE  LockInv'
<1> USE DEF LockInv
<1>0. /\ pc[p] = "claim" /\ UNCHANGED <<gate, seen, misses, due>>
      /\ \/ /\ lock = None /\ lock' # None /\ lock' = [by |-> p, written |-> TRUE, age |-> 0]
            /\ pc' = [pc EXCEPT ![p] = "reclaim"]
         \/ lock # None /\ UNCHANGED lock /\ pc' = [pc EXCEPT ![p] = "giveUp"]
  BY NewRecord DEF Reclaim, Create, Goto, Record, Sound, Timers
<1>1. TypeOK'
  <2>1. lock' \in [by : Procs, written : BOOLEAN, age : 0..(StaleAge + 1)] \cup {None}
    BY <1>0, NewRecord DEF TypeOK
  <2>2. /\ gate' \in Procs \cup {None}
        /\ seen' \in [Procs -> Procs \cup {None}]
    BY <1>0, LockAssumption DEF TypeOK, Reclaim, Create
  <2>3. pc' \in [Procs -> InGate \cup {"new", "forced", "write", "read", "gate", "orphan", "holding",
                                      "beat", "stopping", "release", "dead"}]
    BY <1>0, NewRecord DEF TypeOK, InGate, Goto, Record, Reclaim, Create
  <2>4. misses' \in [Procs -> 0..(MaxMisses + Drain)]
    BY <1>0, LockAssumption DEF TypeOK, Reclaim, Create
  <2>5. /\ \A q \in Procs : pc'[q] \in {"holding", "beat"} => misses'[q] < MaxMisses
        /\ due' \subseteq {q \in Procs : pc'[q] \in {"holding", "beat"}}
    BY <1>0, LockAssumption DEF TypeOK, InGate, Goto, Record, Timers, Reclaim, Create
  <2> QED
    BY <2>1, <2>2, <2>3, <2>4, <2>5 DEF TypeOK
<1>2. GateHeld'
  BY <1>0, LockAssumption DEF TypeOK, GateHeld, InGate, Goto, Reclaim, Create
<1>3. Owned'
  BY <1>0, LockAssumption DEF TypeOK, Owned, Own, Goto, Reclaim, Create
<1>4. Missing'
  BY <1>0, LockAssumption DEF TypeOK, Missing, Goto, Reclaim, Create
<1>5. RenamesDead'
  BY <1>0, LockAssumption DEF TypeOK, RenamesDead, GateHeld, InGate, Goto, Reclaim, Create
<1>6. AgeIsMisses'
  BY <1>0, LockAssumption DEF TypeOK, AgeIsMisses, Owned, Own, Timers, Goto, Reclaim, Create
<1>7. Timers'
  BY <1>0, LockAssumption DEF TypeOK, Timers, Goto, Reclaim, Create
<1> QED
  BY <1>1, <1>2, <1>3, <1>4, <1>5, <1>6, <1>7

\* The reclaimed file gets its record.
LEMMA WriteReclaimKeeps ==
  ASSUME LockInv, Sound, NEW p \in Procs, WriteReclaim(p)
  PROVE  LockInv'
<1> USE DEF LockInv
<1>0. pc[p] = "reclaim" /\ pc' = [pc EXCEPT ![p] = "leave"] /\ UNCHANGED <<lock, gate, seen, misses, due>>
  BY WriteIsOwn DEF WriteReclaim, Write, Goto
<1>1. TypeOK'
  <2>1. lock' \in [by : Procs, written : BOOLEAN, age : 0..(StaleAge + 1)] \cup {None}
    BY <1>0, NewRecord DEF TypeOK
  <2>2. /\ gate' \in Procs \cup {None}
        /\ seen' \in [Procs -> Procs \cup {None}]
    BY <1>0, LockAssumption DEF TypeOK, WriteReclaim, Write
  <2>3. pc' \in [Procs -> InGate \cup {"new", "forced", "write", "read", "gate", "orphan", "holding",
                                      "beat", "stopping", "release", "dead"}]
    BY <1>0, NewRecord DEF TypeOK, InGate, Goto, Record, WriteReclaim, Write
  <2>4. misses' \in [Procs -> 0..(MaxMisses + Drain)]
    BY <1>0, LockAssumption DEF TypeOK, WriteReclaim, Write
  <2>5. /\ \A q \in Procs : pc'[q] \in {"holding", "beat"} => misses'[q] < MaxMisses
        /\ due' \subseteq {q \in Procs : pc'[q] \in {"holding", "beat"}}
    BY <1>0, LockAssumption DEF TypeOK, InGate, Goto, Record, Timers, WriteReclaim, Write
  <2> QED
    BY <2>1, <2>2, <2>3, <2>4, <2>5 DEF TypeOK
<1>2. GateHeld'
  BY <1>0, LockAssumption DEF TypeOK, GateHeld, Own, InGate, Timers
<1>3. Owned'
  BY <1>0, LockAssumption DEF TypeOK, Owned, Own, InGate, Timers
<1>4. Missing'
  BY <1>0, LockAssumption DEF TypeOK, Missing, Own, InGate, Timers
<1>5. RenamesDead'
  BY <1>0, LockAssumption DEF TypeOK, RenamesDead, Own, InGate, Timers
<1>6. AgeIsMisses'
  BY <1>0, LockAssumption DEF TypeOK, AgeIsMisses, Own, InGate, Timers
<1>7. Timers'
  BY <1>0, LockAssumption DEF TypeOK, Timers, Own, InGate, Timers
<1> QED
  BY <1>1, <1>2, <1>3, <1>4, <1>5, <1>6, <1>7

\* The gate is free again, and its maker holds the lock or is gone.
LEMMA LeaveGateKeeps ==
  ASSUME LockInv, Sound, NEW p \in Procs, LeaveGate(p)
  PROVE  LockInv'
<1> USE DEF LockInv
<1>1. TypeOK'
  BY LockAssumption DEF TypeOK, InGate, Goto, Timers, LeaveGate
<1>2. GateHeld'
  BY LockAssumption DEF TypeOK, GateHeld, InGate, Goto, LeaveGate
<1>3. Owned'
  BY LockAssumption DEF TypeOK, Owned, Own, Goto, LeaveGate
<1>4. Missing'
  BY LockAssumption DEF TypeOK, Missing, Goto, LeaveGate
<1>5. RenamesDead'
  BY LockAssumption DEF TypeOK, RenamesDead, GateHeld, InGate, Goto, LeaveGate
<1>6. AgeIsMisses'
  BY LockAssumption DEF TypeOK, AgeIsMisses, Owned, Own, Timers, Goto, LeaveGate
<1>7. Timers'
  BY LockAssumption DEF TypeOK, Timers, Goto, LeaveGate
<1> QED
  BY <1>1, <1>2, <1>3, <1>4, <1>5, <1>6, <1>7

\* A beat finds its own record, or is missed.
LEMMA HeartbeatKeeps ==
  ASSUME LockInv, Sound, NEW p \in Procs, Heartbeat(p)
  PROVE  LockInv'
<1> USE DEF LockInv
<1>1. TypeOK'
  BY LockAssumption DEF TypeOK, InGate, Goto, Heartbeat, Miss, Fatal
<1>2. GateHeld'
  BY LockAssumption DEF TypeOK, GateHeld, InGate, Goto, Heartbeat, Miss, Fatal
<1>3. Owned'
  BY LockAssumption DEF TypeOK, Owned, Own, Goto, Heartbeat, Miss, Fatal
<1>4. Missing'
  BY LockAssumption DEF TypeOK, Missing, Goto, Heartbeat, Miss, Fatal
<1>5. RenamesDead'
  BY LockAssumption DEF TypeOK, RenamesDead, GateHeld, InGate, Goto, Heartbeat, Miss, Fatal
<1>6. AgeIsMisses'
  BY LockAssumption DEF TypeOK, AgeIsMisses, Owned, Own, Timers, Goto, Heartbeat, Miss, Fatal
<1>7. Timers'
  BY LockAssumption DEF TypeOK, Timers, Goto, Heartbeat, Miss, Fatal
<1> QED
  BY <1>1, <1>2, <1>3, <1>4, <1>5, <1>6, <1>7

\* A beat makes the lock young.
LEMMA BeatKeeps ==
  ASSUME LockInv, Sound, NEW p \in Procs, Beat(p)
  PROVE  LockInv'
<1> USE DEF LockInv
<1>0. lock # None /\ Record(p, TRUE, 0) # None
  BY NewRecord DEF Beat, Owned, Own, Record
<1>1. TypeOK'
  <2>1. lock' \in [by : Procs, written : BOOLEAN, age : 0..(StaleAge + 1)] \cup {None}
    BY <1>0, NewRecord DEF TypeOK, Beat, Miss, Record
  <2>2. /\ gate' \in Procs \cup {None}
        /\ seen' \in [Procs -> Procs \cup {None}]
    BY <1>0, LockAssumption DEF TypeOK, Beat, Miss, Fatal
  <2>3. pc' \in [Procs -> InGate \cup {"new", "forced", "write", "read", "gate", "orphan", "holding",
                                      "beat", "stopping", "release", "dead"}]
    BY <1>0, NewRecord DEF TypeOK, InGate, Goto, Record, Beat, Miss, Fatal
  <2>4. misses' \in [Procs -> 0..(MaxMisses + Drain)]
    <3>1. misses[p] \in Nat /\ misses[p] < MaxMisses
      BY DEF Beat, TypeOK
    <3>2. {0, misses[p] + 1} \subseteq 0..(MaxMisses + Drain)
      BY <3>1, LockAssumption
    <3>3. PICK n \in {0, misses[p] + 1} : misses' = [misses EXCEPT ![p] = n]
      BY DEF Beat, Miss, Fatal, TypeOK
    <3> QED
      BY <3>2, <3>3 DEF TypeOK
  <2>5. /\ \A q \in Procs : pc'[q] \in {"holding", "beat"} => misses'[q] < MaxMisses
        /\ due' \subseteq {q \in Procs : pc'[q] \in {"holding", "beat"}}
    BY <1>0, LockAssumption DEF TypeOK, InGate, Goto, Record, Timers, Beat, Miss, Fatal
  <2> QED
    BY <2>1, <2>2, <2>3, <2>4, <2>5 DEF TypeOK
<1>2. GateHeld'
  BY <1>0, LockAssumption DEF TypeOK, GateHeld, InGate, Goto, Beat, Miss, Fatal
<1>3. Owned'
  BY <1>0, LockAssumption DEF TypeOK, Owned, Own, Goto, Record, Timers, Beat, Miss, Fatal
<1>4. Missing'
  BY <1>0, LockAssumption DEF TypeOK, Missing, Goto, Beat, Miss, Fatal
<1>5. RenamesDead'
  BY <1>0, LockAssumption DEF TypeOK, RenamesDead, GateHeld, InGate, Goto, Owned, Own, Record, Beat, Miss, Fatal
<1>6. AgeIsMisses'
  BY <1>0, LockAssumption DEF TypeOK, AgeIsMisses, Owned, Own, Timers, Goto, Record, Beat, Miss, Fatal
<1>7. Timers'
  BY <1>0, LockAssumption DEF TypeOK, Timers, Goto, Beat, Miss, Fatal
<1> QED
  BY <1>1, <1>2, <1>3, <1>4, <1>5, <1>6, <1>7

\* The shutdown ends.
LEMMA StopKeeps ==
  ASSUME LockInv, Sound, NEW p \in Procs, Stop(p)
  PROVE  LockInv'
<1> USE DEF LockInv
<1>1. TypeOK'
  BY LockAssumption DEF TypeOK, InGate, Goto, Stop
<1>2. GateHeld'
  BY LockAssumption DEF TypeOK, GateHeld, InGate, Goto, Stop
<1>3. Owned'
  BY LockAssumption DEF TypeOK, Owned, Own, Goto, Stop
<1>4. Missing'
  BY LockAssumption DEF TypeOK, Missing, Goto, Stop
<1>5. RenamesDead'
  BY LockAssumption DEF TypeOK, RenamesDead, GateHeld, InGate, Goto, Stop
<1>6. AgeIsMisses'
  BY LockAssumption DEF TypeOK, AgeIsMisses, Owned, Own, Timers, Goto, Stop
<1>7. Timers'
  BY LockAssumption DEF TypeOK, Timers, Goto, Stop
<1> QED
  BY <1>1, <1>2, <1>3, <1>4, <1>5, <1>6, <1>7

\* Releases are not looked at here.
LEMMA ReleaseKeeps ==
  ASSUME LockInv, Sound, NEW p \in Procs, Release(p)
  PROVE  LockInv'
BY DEF LockInv, Sound, Timers, Release

\* Nor is their second half.
LEMMA UnlinkKeeps ==
  ASSUME LockInv, Sound, NEW p \in Procs, Unlink(p)
  PROVE  LockInv'
BY DEF LockInv, Sound, Timers, Unlink

\* A crash spares the gate.
LEMMA CrashKeeps ==
  ASSUME LockInv, Sound, NEW p \in Procs, Crash(p)
  PROVE  LockInv'
<1> USE DEF LockInv
<1>1. TypeOK'
  BY LockAssumption DEF TypeOK, InGate, Goto, Crash, Alive
<1>2. GateHeld'
  BY LockAssumption DEF TypeOK, GateHeld, InGate, Goto, Sound, Crash, Alive
<1>3. Owned'
  BY LockAssumption DEF TypeOK, Owned, Own, Goto, Crash, Alive
<1>4. Missing'
  BY LockAssumption DEF TypeOK, Missing, Goto, InGate, Sound, Crash, Alive
<1>5. RenamesDead'
  BY LockAssumption DEF TypeOK, RenamesDead, GateHeld, InGate, Goto, Crash, Alive
<1>6. AgeIsMisses'
  BY LockAssumption DEF TypeOK, AgeIsMisses, Owned, Own, Timers, Goto, Crash, Alive
<1>7. Timers'
  BY LockAssumption DEF TypeOK, Timers, Goto, Crash, Alive
<1> QED
  BY <1>1, <1>2, <1>3, <1>4, <1>5, <1>6, <1>7

\* A period makes the lock older by one, and the heartbeat is due.
LEMMA TickKeeps ==
  ASSUME LockInv, Sound, Tick
  PROVE  LockInv'
<1> USE DEF LockInv
<1>0. /\ due = {} /\ UNCHANGED <<gate, pc, seen>>
      /\ \A p \in Procs : pc[p] \in {"new", "holding", "stopping", "dead"}
      /\ lock = None => lock' = None
      /\ lock # None => /\ lock' # None /\ lock'.by = lock.by /\ lock'.written = lock.written
                        /\ lock'.age \in {lock.age, lock.age + 1}
  BY TickAges DEF Tick, Sound
<1>1. TypeOK'
  BY <1>0, LockAssumption DEF TypeOK, InGate, Goto, Older, Tick
<1>2. GateHeld'
  BY <1>0, LockAssumption DEF TypeOK, GateHeld, InGate, Goto, Tick
<1>3. Owned'
  BY <1>0, LockAssumption DEF TypeOK, Owned, Own, Goto, Tick
<1>4. Missing'
  BY <1>0, LockAssumption DEF TypeOK, Missing, Goto, Tick
<1>5. RenamesDead'
  BY <1>0, LockAssumption DEF TypeOK, RenamesDead, GateHeld, InGate, Goto, Tick
<1>6. AgeIsMisses'
  BY <1>0, LockAssumption DEF TypeOK, AgeIsMisses, Owned, Own, Timers, Goto, Tick
<1>7. Timers'
  BY <1>0, LockAssumption DEF TypeOK, Timers, Goto, Tick
<1> QED
  BY <1>1, <1>2, <1>3, <1>4, <1>5, <1>6, <1>7

-----------------------------------------------------------------------------
\* The theorems

LEMMA InitHolds ==
  ASSUME Sound, Init
  PROVE  LockInv
<1>1. TypeOK
  BY LockAssumption DEF Init, TypeOK, Record, InGate, Sound
<1>2. GateHeld /\ Owned /\ Missing /\ RenamesDead
  BY <1>1, LockAssumption DEF TypeOK, Init, GateHeld, Owned, Missing, RenamesDead, Own, InGate, Record, Sound
<1>3. AgeIsMisses /\ Timers
  BY LockAssumption DEF Init, AgeIsMisses, Timers, Record, Sound
<1> QED
  BY <1>1, <1>2, <1>3 DEF LockInv

LEMMA NextKeeps ==
  ASSUME LockInv, Sound, [Next]_vars
  PROVE  LockInv'
<1>1. CASE Tick
  BY <1>1, TickKeeps
<1>2. ASSUME NEW p \in Procs, Run(p) PROVE LockInv'
  BY <1>2, WriteClaimKeeps, ReadKeeps, EnterGateKeeps, UnlinkOrphanKeeps, RecheckKeeps,
     RenameKeeps, ReclaimKeeps, WriteReclaimKeeps, LeaveGateKeeps, HeartbeatKeeps,
     BeatKeeps, StopKeeps, UnlinkKeeps DEF Run
<1>3. ASSUME NEW p \in Procs, ForceBoot(p) \/ Claim(p) \/ Release(p) \/ Crash(p)
      PROVE  LockInv'
  BY <1>3, ForceBootKeeps, ClaimKeeps, ReleaseKeeps, CrashKeeps
<1>4. CASE UNCHANGED vars
  BY <1>4 DEF vars, LockInv, TypeOK, GateHeld, Owned, Missing, RenamesDead, AgeIsMisses, Timers
<1> QED
  BY <1>1, <1>2, <1>3, <1>4 DEF Next

\* The inductive invariant of the lock: who is behind the gate, of whom the
\* file is, who may rename it away and how old it can have become.
THEOREM LockInvariant ==
  ASSUME Sound
  PROVE  Spec => []LockInv
<1>1. Init => LockInv
  BY InitHolds
<1>2. LockInv /\ [Next]_vars => LockInv'
  BY NextKeeps
<1> QED
  BY <1>1, <1>2, PTL DEF Spec

\* Never two processes on the same SQLite files (instanceLock.ts:73-77).
THEOREM OneHolderHolds ==
  ASSUME Sound
  PROVE  Spec => []OneHolder
<1>1. LockInv => OneHolder
  BY DEF LockInv, Owned, Own, OneHolder, Holders
<1> QED
  BY <1>1, LockInvariant, PTL

\* Whoever cannot refresh its heartbeat is gone before its lock is stale
\* (instanceLock.ts:268-270).
THEOREM DeadBeforeStaleHolds ==
  ASSUME Sound
  PROVE  Spec => []DeadBeforeStale
<1>1. LockInv => DeadBeforeStale
  BY LivingIsFresh DEF LockInv, DeadBeforeStale, Valid, Alive
<1> QED
  BY <1>1, LockInvariant, PTL

\* The record of a living process is not taken from the file
\* (instanceLock.ts:184-189).
THEOREM LiveLockIsKeptHolds ==
  ASSUME Sound
  PROVE  Spec => LiveLockIsKept
<1> DEFINE Kept(p) == Valid /\ lock.by = p /\ Alive(p) => lock' # None /\ lock'.by = p
<1>1. ASSUME LockInv, Next, NEW p \in Procs PROVE Kept(p)
  <2>1. CASE Tick
    BY <1>1, <2>1, TickAges DEF Valid, LockInv
  <2>2. ASSUME NEW q \in Procs, Rename(q) PROVE Kept(p)
    BY <1>1, <2>2 DEF Rename, Alive, LockInv, RenamesDead
  <2>3. ASSUME NEW q \in Procs, Claim(q) \/ Reclaim(q) PROVE Kept(p)
    BY <1>1, <2>3 DEF Claim, Reclaim, Create, Valid
  <2>4. ASSUME NEW q \in Procs, WriteClaim(q) \/ WriteReclaim(q) PROVE Kept(p)
    BY <1>1, <2>4, WriteIsOwn DEF Valid
  <2>5. ASSUME NEW q \in Procs, Beat(q) PROVE Kept(p)
    BY <1>1, <2>5, NewRecord DEF Beat, Valid, LockInv, Owned, Own, Record
  <2>6. ASSUME NEW q \in Procs, Unlink(q) \/ ForceBoot(q) PROVE Kept(p)
    BY <1>1, <2>6 DEF Unlink, ForceBoot, LockInv, Timers, Sound
  <2>7. ASSUME NEW q \in Procs,
               Read(q) \/ EnterGate(q) \/ UnlinkOrphan(q) \/ Recheck(q) \/ LeaveGate(q)
                 \/ Heartbeat(q) \/ Stop(q) \/ Release(q) \/ Crash(q)
        PROVE  Kept(p)
    BY <1>1, <2>7 DEF Read, EnterGate, UnlinkOrphan, Recheck, LeaveGate, Heartbeat, Stop, Release,
                Crash, Valid
  <2> QED
    BY <1>1, <2>1, <2>2, <2>3, <2>4, <2>5, <2>6, <2>7 DEF Next, Run
<1>2. ASSUME LockInv, [Next]_vars
      PROVE  [\A p \in Procs : Valid /\ lock.by = p /\ Alive(p)
                => \/ lock' # None /\ lock'.by = p
                   \/ pc[p] = "release" /\ pc'[p] = "dead"]_vars
  BY <1>1, <1>2
<1> QED
  BY <1>2, LockInvariant, PTL DEF Spec, LiveLockIsKept

-----------------------------------------------------------------------------
(* The session of a browser. *)

Minting == [phase : {"none", "sent", "answered", "landed"}, token : Nat,
            result : {"ok", "error", "definite"}, upset : BOOLEAN]
Posting == [phase : {"none", "sent", "answered"}, cookie : Nat]
Asking == [tab : Tabs \cup {0}, cookie : Nat, upset : BOOLEAN,
           phase : {"idle", "held", "sent", "401", "wait", "again", "ok", "denied", "blocked"}]
Minted == [by : Tabs, is : {"live", "revoked", "expired"}]

SessTyped ==
    /\ stage \in [Tabs -> {"new", "closed", "boot", "open", "leave", "post", "signout",
                           "landing", "out"}]
    /\ sync \in [Tabs -> Minting] /\ post \in [Tabs -> Posting]
    /\ req \in [Reqs -> Asking] /\ tokens \in Seq(Minted)
    /\ cookie \in 0..Len(tokens) /\ active \in BOOLEAN
    /\ \A r \in Reqs : req[r].phase # "idle" => req[r].tab \in Tabs

Answer(t) == sync[t].phase = "answered" /\ sync[t].result = "ok"

\* A token on its way to the jar is live: neither the jar nor a logout has it.
OnItsWay(t) == Answer(t) =>
    /\ sync[t].token \in 1..Len(tokens)
    /\ tokens[sync[t].token] = [by |-> t, is |-> "live"]
    /\ cookie # sync[t].token
    /\ \A u \in Tabs : post[u].cookie # sync[t].token

\* A re-mint that nothing has upset counts: the page may go by it.
Counts(t) == sync[t].result = "ok" /\ ~sync[t].upset =>
    /\ sync[t].phase \in {"answered", "landed"} => active
    /\ sync[t].phase = "landed" => Usable(cookie)

\* From its POST /logout on, a page mints nothing; signed out, it asks nothing.
Gone(t) ==
    /\ stage[t] \in {"post", "signout", "landing", "out"} => sync[t] = NoSync
    /\ stage[t] = "out" => /\ ~(Honoured(cookie) /\ tokens[cookie].by = t)
                           /\ \A r \in Reqs : req[r].tab = t => req[r].phase = "idle"

\* The one retry is with a cookie that serves.
RetryServes(r) ==
    /\ req[r].phase = "again" /\ ~req[r].upset => Usable(req[r].cookie)
    /\ req[r].phase = "blocked" => req[r].upset

\* What a logout or a request has sent was in the jar once.
WasInJar ==
    /\ \A t \in Tabs : post[t].cookie <= Len(tokens)
    /\ \A r \in Reqs : req[r].cookie <= Len(tokens)

SessInv ==
    /\ SessTyped /\ WasInJar
    /\ \A t \in Tabs : OnItsWay(t) /\ Counts(t) /\ Gone(t)
    /\ \A r \in Reqs : RetryServes(r)

\* A step that mints nothing and lands nothing.
LEMMA PageStep ==
  ASSUME SessInv, SessTyped', UNCHANGED <<tokens, cookie, active>>,
         \A t \in Tabs : sync'[t] = sync[t] \/ sync'[t].result # "ok",
         \A t \in Tabs : post'[t].cookie \in {post[t].cookie, cookie, 0},
         \A t \in Tabs : stage'[t] \in {"post", "signout", "landing", "out"} =>
            /\ sync'[t] = NoSync
            /\ stage'[t] = "out" => stage[t] = "out",
         \A r \in Reqs : req'[r] = req[r] \/
            /\ req'[r].phase = "again" /\ ~req'[r].upset => Usable(req'[r].cookie)
            /\ req'[r].phase = "blocked" => req'[r].upset
            /\ req'[r].cookie \in {req[r].cookie, cookie, 0}
            /\ req'[r].phase = "idle" \/ req'[r].tab = req[r].tab \/ Running(req'[r].tab)
            /\ req[r].phase = "idle" => req'[r].phase = "idle" \/ Running(req'[r].tab)
  PROVE  SessInv'
<1>1. ASSUME NEW t \in Tabs PROVE OnItsWay(t)'
  <2>1. CASE sync'[t] = sync[t]
    <3> SUFFICES ASSUME Answer(t)
                 PROVE  /\ sync[t].token \in 1..Len(tokens)
                        /\ tokens[sync[t].token] = [by |-> t, is |-> "live"]
                        /\ cookie # sync[t].token
                        /\ \A u \in Tabs : post'[u].cookie # sync[t].token
      BY <2>1 DEF OnItsWay, Answer
    <3>1. /\ sync[t].token \in 1..Len(tokens)
          /\ tokens[sync[t].token] = [by |-> t, is |-> "live"]
          /\ cookie # sync[t].token
          /\ \A u \in Tabs : post[u].cookie # sync[t].token
      BY DEF SessInv, OnItsWay
    <3>2. cookie \in Nat /\ sync[t].token \in Nat /\ sync[t].token # 0
      BY <3>1 DEF SessInv, SessTyped
    <3> QED BY <3>1, <3>2
  <2>2. CASE sync'[t].result # "ok"
    BY <2>2 DEF OnItsWay, Answer
  <2> QED BY <2>1, <2>2
<1>2. ASSUME NEW t \in Tabs PROVE Counts(t)'
  BY DEF SessInv, Counts, Usable, Honoured
<1>3. ASSUME NEW t \in Tabs PROVE Gone(t)'
  <2>1. stage'[t] \in {"post", "signout", "landing", "out"} => sync'[t] = NoSync
    OBVIOUS
  <2> SUFFICES ASSUME stage'[t] = "out"
               PROVE  /\ ~(Honoured(cookie) /\ tokens[cookie].by = t)
                      /\ \A r \in Reqs : req'[r].tab = t => req'[r].phase = "idle"
    BY <2>1 DEF Gone, Honoured
  <2>2. stage[t] = "out" /\ ~Running(t)
    BY DEF Running, Leaving
  <2>3. /\ ~(Honoured(cookie) /\ tokens[cookie].by = t)
        /\ \A r \in Reqs : req[r].tab = t => req[r].phase = "idle"
    BY <2>2 DEF SessInv, Gone
  <2> QED BY <2>2, <2>3
<1>4. ASSUME NEW r \in Reqs PROVE RetryServes(r)'
  BY DEF SessInv, RetryServes, Usable, Honoured
<1>5. WasInJar'
  <2>1. cookie <= Len(tokens) /\ 0 <= Len(tokens)
    BY DEF SessInv, SessTyped
  <2> QED BY <2>1 DEF SessInv, WasInJar
<1> QED BY <1>1, <1>2, <1>3, <1>4, <1>5 DEF SessInv

\* A cookie or what it stands for is taken away: what counted on it is excused.
LEMMA UpsetStep ==
  ASSUME SessInv, SessTyped', Len(tokens') = Len(tokens),
         \A n \in 1..Len(tokens) : tokens'[n].by = tokens[n].by
                                   /\ (tokens'[n].is = "live" => tokens[n].is = "live"),
         \A t \in Tabs : Answer(t) => tokens'[sync[t].token] = tokens[sync[t].token],
         cookie' \in {cookie, 0},
         \A t \in Tabs : post'[t].cookie \in {post[t].cookie, 0},
         \A t \in Tabs : stage'[t] \in {"post", "signout", "landing", "out"} =>
            /\ stage[t] \in {"post", "signout", "landing", "out"}
            /\ stage'[t] = "out" => stage[t] = "out" \/
                 (cookie' = 0 /\ \A r \in Reqs : req[r].tab = t => req'[r] = NoReq),
         \A t \in Tabs : sync'[t] = [sync[t] EXCEPT !.upset = sync[t].phase # "none"],
         \A r \in Reqs : req'[r] = NoReq \/
            req'[r] = [req[r] EXCEPT !.upset = @ \/ req[r].phase \in {"wait", "again"}]
  PROVE  SessInv'
<1>1. /\ sync \in [Tabs -> Minting] /\ req \in [Reqs -> Asking] /\ cookie \in Nat
      /\ Len(tokens) \in Nat /\ cookie <= Len(tokens)
  BY DEF SessInv, SessTyped
<1>2. ASSUME NEW t \in Tabs
      PROVE  /\ sync'[t].phase = sync[t].phase /\ sync'[t].token = sync[t].token
             /\ sync'[t].result = sync[t].result
             /\ sync'[t].upset <=> sync[t].phase # "none"
             /\ sync[t] = NoSync => sync'[t] = NoSync
  <2>1. sync[t] \in Minting /\ sync'[t] = [sync[t] EXCEPT !.upset = sync[t].phase # "none"]
    BY <1>1
  <2>2. /\ sync'[t].phase = sync[t].phase /\ sync'[t].token = sync[t].token
        /\ sync'[t].result = sync[t].result
        /\ sync'[t].upset = (sync[t].phase # "none")
    BY <2>1 DEF Minting
  <2>3. sync[t] = NoSync => sync'[t] = NoSync
    <3> SUFFICES ASSUME sync[t] = NoSync PROVE sync'[t] = NoSync
      OBVIOUS
    <3>1. (sync[t].phase # "none") = FALSE
      BY DEF NoSync
    <3>2. sync'[t] = [NoSync EXCEPT !.upset = FALSE]
      BY <2>1, <3>1
    <3> QED BY <3>2 DEF NoSync
  <2> QED BY <2>2, <2>3
<1>3. ASSUME NEW r \in Reqs
      PROVE  \/ req'[r].phase = "idle"
             \/ /\ req'[r].tab = req[r].tab /\ req'[r].phase = req[r].phase
                /\ req'[r].upset <=> req[r].upset \/ req[r].phase \in {"wait", "again"}
  <2>1. CASE req'[r] = NoReq
    BY <2>1 DEF NoReq
  <2>2. CASE req'[r] = [req[r] EXCEPT !.upset = @ \/ req[r].phase \in {"wait", "again"}]
    <3>1. req[r] \in Asking
      BY <1>1
    <3> QED BY <2>2, <3>1 DEF Asking
  <2> QED BY <2>1, <2>2
<1>4. ASSUME NEW t \in Tabs PROVE OnItsWay(t)'
  <2> SUFFICES ASSUME Answer(t)
               PROVE  /\ sync[t].token \in 1..Len(tokens)
                      /\ tokens'[sync[t].token] = [by |-> t, is |-> "live"]
                      /\ cookie' # sync[t].token
                      /\ \A u \in Tabs : post'[u].cookie # sync[t].token
    BY <1>2 DEF OnItsWay, Answer
  <2>1. /\ sync[t].token \in 1..Len(tokens)
        /\ tokens[sync[t].token] = [by |-> t, is |-> "live"]
        /\ cookie # sync[t].token
        /\ \A u \in Tabs : post[u].cookie # sync[t].token
    BY DEF SessInv, OnItsWay
  <2> QED BY <1>1, <2>1
<1>5. ASSUME NEW t \in Tabs PROVE Counts(t)'
  BY <1>2 DEF Counts
<1>6. ASSUME NEW t \in Tabs PROVE Gone(t)'
  <2>1. stage'[t] \in {"post", "signout", "landing", "out"} => sync'[t] = NoSync
    BY <1>2 DEF SessInv, Gone
  <2> SUFFICES ASSUME stage'[t] = "out"
               PROVE  /\ ~(Honoured(cookie)' /\ tokens'[cookie'].by = t)
                      /\ \A r \in Reqs : req'[r].tab = t => req'[r].phase = "idle"
    BY <2>1 DEF Gone
  <2>2. CASE cookie' = 0 /\ \A r \in Reqs : req[r].tab = t => req'[r] = NoReq
    <3>1. ~Honoured(cookie)'
      BY <2>2 DEF Honoured
    <3>2. ASSUME NEW r \in Reqs, req'[r].tab = t PROVE req'[r].phase = "idle"
      BY <1>3, <2>2, <3>2 DEF NoReq
    <3> QED BY <3>1, <3>2
  <2>3. CASE stage[t] = "out"
    <3>1. /\ ~(Honoured(cookie) /\ tokens[cookie].by = t)
          /\ \A r \in Reqs : req[r].tab = t => req[r].phase = "idle"
      BY <2>3 DEF SessInv, Gone
    <3>2. ~(Honoured(cookie)' /\ tokens'[cookie'].by = t)
      BY <1>1, <3>1 DEF Honoured
    <3>3. ASSUME NEW r \in Reqs, req'[r].tab = t PROVE req'[r].phase = "idle"
      BY <1>3, <3>1, <3>3
    <3> QED BY <3>2, <3>3
  <2> QED BY <2>2, <2>3
<1>7. ASSUME NEW r \in Reqs PROVE RetryServes(r)'
  <2>1. req[r].phase = "blocked" => req[r].upset
    BY DEF SessInv, RetryServes
  <2> QED BY <1>3, <2>1 DEF RetryServes
<1>8. WasInJar'
  <2>1. \A r \in Reqs : req'[r].cookie \in {req[r].cookie, 0}
    <3> SUFFICES ASSUME NEW r \in Reqs PROVE req'[r].cookie \in {req[r].cookie, 0}
      OBVIOUS
    <3>1. CASE req'[r] = NoReq
      BY <3>1 DEF NoReq
    <3>2. CASE req'[r] = [req[r] EXCEPT !.upset = @ \/ req[r].phase \in {"wait", "again"}]
      <4>1. req[r] \in Asking
        BY <1>1
      <4> QED BY <3>2, <4>1 DEF Asking
    <3> QED BY <3>1, <3>2
  <2> QED BY <1>1, <2>1 DEF SessInv, WasInJar
<1> QED BY <1>4, <1>5, <1>6, <1>7, <1>8 DEF SessInv

\* What the values of a page's syncs, posts and requests are.
LEMMA SessValues ==
  /\ NoSync \in Minting /\ Sent \in Minting /\ [NoSync EXCEPT !.phase = "landed"] \in Minting
  /\ NoSync.result # "ok" /\ Sent.result # "ok" /\ NoSync.phase = "none"
  /\ [NoSync EXCEPT !.phase = "landed"].result # "ok"
  /\ NoReq \in Asking /\ NoReq.phase = "idle" /\ NoReq.cookie = 0
  /\ NoPost \in Posting /\ NoPost.cookie = 0
BY DEF NoSync, Sent, NoReq, NoPost, Minting, Asking, Posting

\* Pages that open, begin to mint, fail to, begin to leave or are closed.
LEMMA OpeningSteps ==
  ASSUME SessInv, NEW t \in Tabs,
         OpenTab(t) \/ BootSync(t) \/ KeepAlive(t) \/ SyncFails(t) \/ BeginLogout(t)
  PROVE  SessInv'
<1>1. SessTyped
  BY DEF SessInv
<1>2. /\ tokens' = tokens /\ cookie' = cookie /\ active' = active /\ post' = post /\ req' = req
  BY DEF OpenTab, BootSync, KeepAlive, SyncFails, BeginLogout
<1>3. /\ sync' = sync \/ \E v \in Minting : v.result # "ok" /\ sync' = [sync EXCEPT ![t] = v]
      /\ stage' = stage \/ \E v \in {"boot", "leave"} : stage' = [stage EXCEPT ![t] = v]
      /\ sync' # sync => stage' = stage /\ (stage[t] \in {"boot", "open"} \/ sync[t] # NoSync)
  BY SessValues DEF OpenTab, BootSync, KeepAlive, SyncFails, BeginLogout
<1>4. SessTyped'
  BY <1>1, <1>2, <1>3 DEF SessTyped
<1>5. ASSUME NEW u \in Tabs, stage'[u] \in {"post", "signout", "landing", "out"}
      PROVE  sync'[u] = NoSync /\ stage[u] = stage'[u]
  <2>1. stage[u] = stage'[u]
    BY <1>1, <1>3, <1>5 DEF SessTyped
  <2>2. sync[u] = NoSync
    BY <1>5, <2>1 DEF SessInv, Gone
  <2>3. sync'[u] = sync[u]
    BY <1>1, <1>3, <1>5, <2>1, <2>2 DEF SessTyped
  <2> QED BY <2>1, <2>2, <2>3
<1>6. \A u \in Tabs : sync'[u] = sync[u] \/ sync'[u].result # "ok"
  BY <1>1, <1>3 DEF SessTyped
<1> QED BY <1>2, <1>4, <1>5, <1>6, PageStep

\* POST /auth/logout goes out, with what the jar has, when no sync is in flight.
LEMMA PostLogoutKeeps == ASSUME SessInv, NEW t \in Tabs, PostLogout(t) PROVE SessInv'
<1>1. /\ SessTyped /\ sync[t] = NoSync
      /\ tokens' = tokens /\ cookie' = cookie /\ active' = active /\ sync' = sync /\ req' = req
      /\ stage' = [stage EXCEPT ![t] = "post"]
      /\ post' = [post EXCEPT ![t] = [phase |-> "sent", cookie |-> cookie]]
  BY DEF PostLogout, SessInv
<1>2. [phase |-> "sent", cookie |-> cookie] \in Posting
  BY <1>1 DEF SessTyped, Posting
<1>3. SessTyped'
  BY <1>1, <1>2 DEF SessTyped
<1>4. \A u \in Tabs : post'[u].cookie \in {post[u].cookie, cookie, 0}
  BY <1>1 DEF SessTyped
<1>5. \A u \in Tabs : u # t => stage'[u] = stage[u]
  BY <1>1 DEF SessTyped
<1>6. stage'[t] = "post"
  BY <1>1 DEF SessTyped
<1>7. \A u \in Tabs : stage[u] \in {"post", "signout", "landing", "out"} => sync[u] = NoSync
  BY DEF SessInv, Gone
<1> QED BY <1>1, <1>3, <1>4, <1>5, <1>6, <1>7, PageStep

LEMMA SignOutKeeps == ASSUME SessInv, NEW t \in Tabs, SignOut(t) PROVE SessInv'
<1>1. /\ SessTyped /\ stage[t] = "signout"
      /\ tokens' = tokens /\ cookie' = cookie /\ active' = active /\ sync' = sync /\ req' = req
      /\ stage' = [stage EXCEPT ![t] = "landing"] /\ post' = post
  BY DEF SignOut, SessInv
<1>2. SessTyped'
  BY <1>1 DEF SessTyped
<1>3. (\A u \in Tabs : u # t => stage'[u] = stage[u]) /\ stage'[t] = "landing"
  BY <1>1 DEF SessTyped
<1>4. \A u \in Tabs : stage[u] \in {"post", "signout", "landing", "out"} => sync[u] = NoSync
  BY DEF SessInv, Gone
<1> QED BY <1>1, <1>2, <1>3, <1>4, PageStep

LEMMA CloseKeeps == ASSUME SessInv, NEW t \in Tabs, CloseTab(t) PROVE SessInv'
<1>1. /\ SessTyped
      /\ tokens' = tokens /\ cookie' = cookie /\ active' = active
      /\ sync' = [sync EXCEPT ![t] = NoSync] /\ post' = [post EXCEPT ![t] = NoPost]
      /\ stage' = [stage EXCEPT ![t] = "closed"]
      /\ req' = [r \in Reqs |-> IF req[r].tab = t THEN NoReq ELSE req[r]]
  BY DEF CloseTab, SessInv
<1>2. SessTyped'
  BY <1>1, SessValues DEF SessTyped
<1>3. /\ \A u \in Tabs : u # t => stage'[u] = stage[u] /\ sync'[u] = sync[u] /\ post'[u] = post[u]
      /\ stage'[t] = "closed" /\ sync'[t] = NoSync /\ post'[t] = NoPost
      /\ \A r \in Reqs : req'[r] = req[r] \/ (req'[r].phase = "idle" /\ req'[r].cookie = 0)
  BY <1>1, SessValues DEF SessTyped
<1>4. \A u \in Tabs : stage[u] \in {"post", "signout", "landing", "out"} => sync[u] = NoSync
  BY DEF SessInv, Gone
<1>5. \A u \in Tabs : post'[u].cookie \in {post[u].cookie, cookie, 0}
  BY <1>3, SessValues
<1>6. \A u \in Tabs : sync'[u] = sync[u] \/ sync'[u].result # "ok"
  BY <1>3, SessValues
<1> QED BY <1>1, <1>2, <1>3, <1>4, <1>5, <1>6, PageStep

\* A request is asked, or answered, or meets a 401.
LEMMA AskKeeps == ASSUME SessInv, NEW r \in Reqs, NEW t \in Tabs, Ask(r, t) PROVE SessInv'
<1>1. /\ SessTyped /\ Running(t) /\ sync' = sync /\ post' = post /\ stage' = stage
      /\ tokens' = tokens /\ cookie' = cookie /\ active' = active
  BY DEF Ask, SessInv
<1>2. PICK n \in {0, cookie}, v \in {"sent", "held"} :
        req' = [req EXCEPT ![r] = [tab |-> t, upset |-> FALSE, phase |-> v, cookie |-> n]]
  BY DEF Ask
<1>3. [tab |-> t, upset |-> FALSE, phase |-> v, cookie |-> n] \in Asking
  BY <1>1 DEF SessTyped, Asking
<1>4. SessTyped'
  BY <1>1, <1>2, <1>3 DEF SessTyped
<1>5. /\ req'[r].tab = t /\ req'[r].phase \notin {"again", "blocked"}
      /\ req'[r].cookie \in {0, cookie}
      /\ \A q \in Reqs : q # r => req'[q] = req[q]
  BY <1>1, <1>2 DEF SessTyped
<1>6. \A u \in Tabs : stage[u] \in {"post", "signout", "landing", "out"} => sync[u] = NoSync
  BY DEF SessInv, Gone
<1> QED BY <1>1, <1>4, <1>5, <1>6, PageStep

LEMMA AnsweredKeeps == ASSUME SessInv, NEW r \in Reqs, Answered(r) PROVE SessInv'
<1>1. /\ SessTyped /\ sync' = sync /\ post' = post /\ stage' = stage
      /\ tokens' = tokens /\ cookie' = cookie /\ active' = active
      /\ req[r].phase \in {"sent", "again"}
  BY DEF Answered, SessInv
<1>2. PICK v \in {"ok", "401", "blocked"} :
        /\ req' = [req EXCEPT ![r].phase = v]
        /\ v = "blocked" => req[r].phase = "again" /\ ~Usable(req[r].cookie)
  BY DEF Answered
<1>3. req[r] \in Asking /\ req[r].tab \in Tabs
  BY <1>1 DEF SessTyped
<1>4. /\ [req[r] EXCEPT !.phase = v] \in Asking
      /\ [req[r] EXCEPT !.phase = v].phase = v
      /\ [req[r] EXCEPT !.phase = v].tab = req[r].tab
      /\ [req[r] EXCEPT !.phase = v].cookie = req[r].cookie
      /\ [req[r] EXCEPT !.phase = v].upset = req[r].upset
  BY <1>3 DEF Asking
<1>5. /\ req'[r] = [req[r] EXCEPT !.phase = v]
      /\ req' \in [Reqs -> Asking]
      /\ \A q \in Reqs : q # r => req'[q] = req[q]
  BY <1>1, <1>2, <1>4 DEF SessTyped
<1>6. SessTyped'
  BY <1>1, <1>3, <1>4, <1>5 DEF SessTyped
<1>7. v = "blocked" => req[r].upset
  BY <1>2 DEF SessInv, RetryServes
<1>8. \A u \in Tabs : stage[u] \in {"post", "signout", "landing", "out"} => sync[u] = NoSync
  BY DEF SessInv, Gone
<1> QED BY <1>1, <1>4, <1>5, <1>6, <1>7, <1>8, PageStep

LEMMA RecoverKeeps == ASSUME SessInv, NEW r \in Reqs, Recover(r) PROVE SessInv'
<1> DEFINE t == req[r].tab
<1>1. /\ SessTyped /\ post' = post /\ stage' = stage
      /\ tokens' = tokens /\ cookie' = cookie /\ active' = active
      /\ req[r].phase = "401"
      /\ sync' = sync \/ (~Leaving(t) /\ sync[t] = NoSync /\ sync' = [sync EXCEPT ![t] = Sent])
  BY DEF Recover, SessInv
<1>2. PICK v \in {"denied", "wait"} : req' = [req EXCEPT ![r].phase = v]
  BY DEF Recover
<1>3. req[r] \in Asking /\ t \in Tabs
  BY <1>1 DEF SessTyped
<1>4. /\ [req[r] EXCEPT !.phase = v] \in Asking
      /\ [req[r] EXCEPT !.phase = v].phase = v
      /\ [req[r] EXCEPT !.phase = v].tab = t
      /\ [req[r] EXCEPT !.phase = v].cookie = req[r].cookie
  BY <1>3 DEF Asking
<1>5. /\ req'[r] = [req[r] EXCEPT !.phase = v]
      /\ req' \in [Reqs -> Asking]
      /\ \A q \in Reqs : q # r => req'[q] = req[q]
  BY <1>1, <1>2, <1>4 DEF SessTyped
<1>6. sync' \in [Tabs -> Minting] /\ \A u \in Tabs : sync'[u] = sync[u] \/ sync'[u].result # "ok"
  BY <1>1, <1>3, SessValues DEF SessTyped
<1>7. SessTyped'
  BY <1>1, <1>3, <1>4, <1>5, <1>6 DEF SessTyped
<1>8. ASSUME NEW u \in Tabs, stage[u] \in {"post", "signout", "landing", "out"}
      PROVE  sync'[u] = NoSync
  <2>1. sync[u] = NoSync
    BY <1>8 DEF SessInv, Gone
  <2>2. CASE u = t
    <3>1. stage[t] # "out"
      BY <1>1, <1>3, <2>2 DEF SessInv, Gone
    <3>2. Leaving(t)
      BY <1>8, <2>2, <3>1 DEF Leaving
    <3> QED BY <1>1, <2>1, <2>2, <3>2
  <2>3. CASE u # t
    BY <1>1, <2>1, <2>3 DEF SessTyped
  <2> QED BY <2>2, <2>3
<1> QED BY <1>1, <1>4, <1>5, <1>6, <1>7, <1>8, PageStep

\* The promise settles; what waits for a re-mint that counts goes with the jar's
\* cookie, and that one serves.
LEMMA ResumeFacts ==
  ASSUME SessInv, NEW t \in Tabs, sync[t].phase = "landed", NEW r \in Reqs,
         NEW q, q = Resume(t, sync[t])[r]
  PROVE  q \in Asking /\ (q = req[r] \/
           /\ q.phase = "again" /\ ~q.upset => Usable(q.cookie)
           /\ q.phase \notin {"blocked", "idle"} /\ q.tab = req[r].tab
           /\ q.cookie \in {req[r].cookie, cookie} /\ req[r].phase # "idle")
<1>1. /\ SessTyped /\ req[r] \in Asking /\ cookie \in Nat /\ sync[t] \in Minting
  BY DEF SessInv, SessTyped
<1>2. CASE req[r].tab # t \/ req[r].phase \notin {"held", "wait"}
  <2>1. q = req[r]
    BY <1>2 DEF Resume
  <2> QED BY <1>1, <2>1
<1>3. CASE req[r].tab = t /\ req[r].phase = "held"
  <2>1. q = [req[r] EXCEPT !.phase = "sent", !.cookie = cookie]
    BY <1>3 DEF Resume
  <2> QED BY <1>1, <1>3, <2>1 DEF Asking
<1>4. CASE req[r].tab = t /\ req[r].phase = "wait" /\ sync[t].result # "ok"
  <2>1. q = [req[r] EXCEPT !.phase = "denied"]
    BY <1>4 DEF Resume
  <2> QED BY <1>1, <1>4, <2>1 DEF Asking
<1>5. CASE req[r].tab = t /\ req[r].phase = "wait" /\ sync[t].result = "ok"
  <2>1. q = [req[r] EXCEPT !.phase = "again", !.cookie = cookie, !.upset = @ \/ sync[t].upset]
    BY <1>5 DEF Resume
  <2>2. (req[r].upset \/ sync[t].upset) \in BOOLEAN
    OBVIOUS
  <2>3. /\ q \in Asking /\ q.phase = "again" /\ q.cookie = cookie /\ q.tab = req[r].tab
        /\ q.upset <=> (req[r].upset \/ sync[t].upset)
    BY <1>1, <2>1, <2>2 DEF Asking
  <2>4. ~sync[t].upset => Usable(cookie)
    BY <1>5 DEF SessInv, Counts
  <2> QED BY <1>5, <2>3, <2>4
<1> QED BY <1>2, <1>3, <1>4, <1>5

LEMMA SettlesKeeps == ASSUME SessInv, NEW t \in Tabs, Settles(t) PROVE SessInv'
<1>1. /\ SessTyped /\ sync[t].phase = "landed" /\ (Running(t) \/ stage[t] = "boot")
      /\ tokens' = tokens /\ cookie' = cookie /\ active' = active /\ post' = post
      /\ sync' = [sync EXCEPT ![t] = NoSync]
      /\ stage' = stage \/ stage' = [stage EXCEPT ![t] = "open"]
      /\ req' = req \/ req' = Resume(t, sync[t])
  BY DEF Settles, SessInv
<1>2. ASSUME NEW r \in Reqs
      PROVE  req'[r] \in Asking /\ (req'[r] = req[r] \/
               /\ req'[r].phase = "again" /\ ~req'[r].upset => Usable(req'[r].cookie)
               /\ req'[r].phase \notin {"blocked", "idle"} /\ req'[r].tab = req[r].tab
               /\ req'[r].cookie \in {req[r].cookie, cookie} /\ req[r].phase # "idle")
  <2>1. CASE req' = req
    BY <1>1, <2>1 DEF SessTyped
  <2>2. CASE req' = Resume(t, sync[t])
    BY <1>1, <2>2, ResumeFacts
  <2> QED BY <1>1, <2>1, <2>2
<1>3. req' \in [Reqs -> Asking]
  <2>1. req' = [r \in Reqs |-> req'[r]]
    BY <1>1 DEF SessTyped, Resume
  <2> QED BY <1>2, <2>1
<1>4. SessTyped'
  <2>1. \A r \in Reqs : req'[r].phase # "idle" => req'[r].tab \in Tabs
    BY <1>1, <1>2 DEF SessTyped
  <2> QED BY <1>1, <1>3, <2>1, SessValues DEF SessTyped
<1>5. /\ \A u \in Tabs : u # t => stage'[u] = stage[u] /\ sync'[u] = sync[u]
      /\ sync'[t] = NoSync /\ stage'[t] \in {stage[t], "open"}
  BY <1>1 DEF SessTyped
<1>6. \A u \in Tabs : stage[u] \in {"post", "signout", "landing", "out"} => sync[u] = NoSync
  BY DEF SessInv, Gone
<1>7. \A u \in Tabs : sync'[u] = sync[u] \/ sync'[u].result # "ok"
  BY <1>5, SessValues
<1>8. ASSUME NEW u \in Tabs, stage'[u] \in {"post", "signout", "landing", "out"}
      PROVE  sync'[u] = NoSync /\ stage[u] = stage'[u]
  BY <1>5, <1>6, <1>8
<1>9. ASSUME NEW r \in Reqs, req'[r] # req[r]
      PROVE  /\ req'[r].phase = "again" /\ ~req'[r].upset => Usable(req'[r].cookie)
             /\ req'[r].phase # "blocked" /\ req'[r].tab = req[r].tab
             /\ req'[r].cookie \in {req[r].cookie, cookie, 0} /\ req[r].phase # "idle"
  BY <1>2, <1>9
<1> QED BY <1>1, <1>4, <1>7, <1>8, <1>9, PageStep

\* A token is revoked or expires: the others are as they were.
LEMMA TokenEnds ==
  ASSUME SessTyped, NEW c \in Nat, NEW v \in {"revoked", "expired"},
         tokens' = [tokens EXCEPT ![c].is = v]
  PROVE  /\ tokens' \in Seq(Minted) /\ Len(tokens') = Len(tokens)
         /\ \A n \in 1..Len(tokens) :
              /\ tokens'[n].by = tokens[n].by
              /\ tokens'[n].is = "live" => tokens[n].is = "live"
              /\ n # c => tokens'[n] = tokens[n]
<1>1. /\ tokens \in Seq(Minted) /\ DOMAIN tokens = 1..Len(tokens) /\ Len(tokens) \in Nat
      /\ tokens \in [1..Len(tokens) -> Minted]
  BY LenProperties DEF SessTyped
<1>2. CASE c \in 1..Len(tokens)
  <2>1. tokens[c] \in Minted
    BY <1>1, <1>2
  <2>2. /\ [tokens[c] EXCEPT !.is = v] \in Minted
        /\ [tokens[c] EXCEPT !.is = v].is = v
        /\ [tokens[c] EXCEPT !.is = v].by = tokens[c].by
    BY <2>1 DEF Minted
  <2>3. tokens' = [tokens EXCEPT ![c] = [tokens[c] EXCEPT !.is = v]]
    OBVIOUS
  <2>4. /\ tokens' \in Seq(Minted) /\ Len(tokens') = Len(tokens)
        /\ \A n \in 1..Len(tokens) :
             tokens'[n] = IF n = c THEN [tokens[c] EXCEPT !.is = v] ELSE tokens[n]
    BY <1>1, <1>2, <2>2, <2>3, ExceptSeq
  <2> QED BY <2>2, <2>4
<1>3. CASE c \notin 1..Len(tokens)
  <2>1. tokens' = tokens
    <3>1. DOMAIN tokens' = DOMAIN tokens /\ \A n \in DOMAIN tokens : tokens'[n] = tokens[n]
      BY <1>1, <1>3
    <3>2. tokens = [n \in DOMAIN tokens |-> tokens[n]] /\ tokens' = [n \in DOMAIN tokens |-> tokens'[n]]
      BY <1>1
    <3> QED BY <3>1, <3>2
  <2> QED BY <1>1, <2>1
<1> QED BY <1>2, <1>3

\* Upset keeps the types.
LEMMA UpsetTyped ==
  ASSUME SessTyped,
         \A t \in Tabs : sync'[t] = [sync[t] EXCEPT !.upset = sync[t].phase # "none"],
         sync' = [t \in Tabs |-> sync'[t]], req' = [r \in Reqs |-> req'[r]],
         \A r \in Reqs : req'[r] = NoReq \/
            req'[r] = [req[r] EXCEPT !.upset = @ \/ req[r].phase \in {"wait", "again"}]
  PROVE  /\ sync' \in [Tabs -> Minting] /\ req' \in [Reqs -> Asking]
         /\ \A r \in Reqs : req'[r].phase # "idle" => req'[r].tab \in Tabs
<1>1. ASSUME NEW t \in Tabs PROVE sync'[t] \in Minting
  <2>1. sync[t] \in Minting /\ (sync[t].phase # "none") \in BOOLEAN
    BY DEF SessTyped
  <2> QED BY <2>1 DEF Minting
<1>2. ASSUME NEW r \in Reqs
      PROVE  req'[r] \in Asking /\ (req'[r].phase # "idle" => req'[r].tab \in Tabs)
  <2>1. req[r] \in Asking /\ (req[r].phase # "idle" => req[r].tab \in Tabs)
    BY DEF SessTyped
  <2>2. CASE req'[r] = NoReq
    BY <2>2, SessValues
  <2>3. CASE req'[r] = [req[r] EXCEPT !.upset = @ \/ req[r].phase \in {"wait", "again"}]
    <3>1. (req[r].upset \/ req[r].phase \in {"wait", "again"}) \in BOOLEAN
      OBVIOUS
    <3> QED BY <2>1, <2>3, <3>1 DEF Asking
  <2> QED BY <2>2, <2>3
<1> QED BY <1>1, <1>2

LEMMA UpsetFacts ==
  ASSUME SessTyped, Upset
  PROVE  /\ \A t \in Tabs : sync'[t] = [sync[t] EXCEPT !.upset = sync[t].phase # "none"]
         /\ \A r \in Reqs :
              req'[r] = [req[r] EXCEPT !.upset = @ \/ req[r].phase \in {"wait", "again"}]
         /\ sync' \in [Tabs -> Minting] /\ req' \in [Reqs -> Asking]
         /\ \A r \in Reqs : req'[r].phase # "idle" => req'[r].tab \in Tabs
<1>1. /\ \A t \in Tabs : sync'[t] = [sync[t] EXCEPT !.upset = sync[t].phase # "none"]
      /\ \A r \in Reqs :
           req'[r] = [req[r] EXCEPT !.upset = @ \/ req[r].phase \in {"wait", "again"}]
      /\ sync' = [t \in Tabs |-> sync'[t]] /\ req' = [r \in Reqs |-> req'[r]]
  BY DEF Upset
<1> QED BY <1>1, UpsetTyped

LEMMA RevokeKeeps == ASSUME SessInv, NEW t \in Tabs, Revoke(t) PROVE SessInv'
<1>1. /\ SessTyped /\ Upset /\ stage' = stage /\ cookie' = cookie /\ active' = active
      /\ post' = [post EXCEPT ![t].phase = "answered"]
      /\ \/ tokens' = tokens
         \/ /\ Usable(post[t].cookie)
            /\ tokens' = [tokens EXCEPT ![post[t].cookie].is = "revoked"]
  BY DEF Revoke, SessInv
<1>2. post[t] \in Posting /\ post[t].cookie \in Nat
  BY <1>1 DEF SessTyped, Posting
<1>3. /\ post' \in [Tabs -> Posting] /\ \A u \in Tabs : post'[u].cookie = post[u].cookie
  <2>1. /\ [post[t] EXCEPT !.phase = "answered"] \in Posting
        /\ [post[t] EXCEPT !.phase = "answered"].cookie = post[t].cookie
    BY <1>2 DEF Posting
  <2>2. post' = [post EXCEPT ![t] = [post[t] EXCEPT !.phase = "answered"]]
    BY <1>1
  <2> QED BY <1>1, <2>1, <2>2 DEF SessTyped
<1>4. /\ tokens' \in Seq(Minted) /\ Len(tokens') = Len(tokens)
      /\ \A n \in 1..Len(tokens) :
           /\ tokens'[n].by = tokens[n].by
           /\ tokens'[n].is = "live" => tokens[n].is = "live"
           /\ n # post[t].cookie => tokens'[n] = tokens[n]
  <2>1. CASE tokens' = tokens
    BY <1>1, <2>1 DEF SessTyped
  <2>2. CASE tokens' = [tokens EXCEPT ![post[t].cookie].is = "revoked"]
    BY <1>1, <1>2, <2>2, TokenEnds
  <2> QED BY <1>1, <2>1, <2>2
<1>5. ASSUME NEW u \in Tabs, Answer(u) PROVE tokens'[sync[u].token] = tokens[sync[u].token]
  <2>1. /\ sync[u].token \in 1..Len(tokens)
        /\ post[t].cookie # sync[u].token
    BY <1>5 DEF SessInv, OnItsWay
  <2>2. sync[u].token \in Nat
    BY <2>1 DEF SessInv, SessTyped
  <2>3. sync[u].token # post[t].cookie
    BY <1>2, <2>1, <2>2
  <2> QED BY <1>4, <2>1, <2>3
<1>6. SessTyped'
  BY <1>1, <1>3, <1>4, UpsetFacts DEF SessTyped
<1> QED BY <1>1, <1>3, <1>4, <1>5, <1>6, UpsetFacts, UpsetStep

LEMMA LogoutEndsKeeps == ASSUME SessInv, NEW t \in Tabs, LogoutEnds(t) PROVE SessInv'
<1>1. /\ SessTyped /\ Upset /\ stage[t] = "post" /\ stage' = [stage EXCEPT ![t] = "signout"]
      /\ cookie' \in {cookie, 0} /\ active' = active /\ tokens' = tokens
      /\ post' = [post EXCEPT ![t] = NoPost]
  BY DEF LogoutEnds, SessInv
<1>2. /\ post' \in [Tabs -> Posting]
      /\ \A u \in Tabs : post'[u].cookie \in {post[u].cookie, 0}
      /\ cookie' \in 0..Len(tokens)
  BY <1>1, SessValues DEF SessTyped
<1>3. (\A u \in Tabs : u # t => stage'[u] = stage[u]) /\ stage'[t] = "signout"
  BY <1>1 DEF SessTyped
<1>4. SessTyped'
  BY <1>1, <1>2, UpsetFacts DEF SessTyped
<1> QED BY <1>1, <1>2, <1>3, <1>4, UpsetFacts, UpsetStep

LEMMA LandKeeps == ASSUME SessInv, NEW t \in Tabs, Land(t) PROVE SessInv'
<1>1. /\ SessTyped /\ stage[t] = "landing" /\ stage' = [stage EXCEPT ![t] = "out"]
      /\ cookie' = 0 /\ active' = active /\ tokens' = tokens /\ post' = post
      /\ sync' = [u \in Tabs |-> [sync[u] EXCEPT !.upset = sync[u].phase # "none"]]
      /\ req' = [r \in Reqs |-> IF req[r].tab = t THEN NoReq
                   ELSE [req[r] EXCEPT !.upset = @ \/ req[r].phase \in {"wait", "again"}]]
  BY DEF Land, SessInv
<1>2. /\ \A u \in Tabs : sync'[u] = [sync[u] EXCEPT !.upset = sync[u].phase # "none"]
      /\ \A r \in Reqs : req'[r] = NoReq \/
           req'[r] = [req[r] EXCEPT !.upset = @ \/ req[r].phase \in {"wait", "again"}]
      /\ \A r \in Reqs : req[r].tab = t => req'[r] = NoReq
      /\ sync' = [u \in Tabs |-> sync'[u]] /\ req' = [r \in Reqs |-> req'[r]]
  BY <1>1
<1>3. (\A u \in Tabs : u # t => stage'[u] = stage[u]) /\ stage'[t] = "out"
  BY <1>1 DEF SessTyped
<1>4. SessTyped'
  <2>1. /\ sync' \in [Tabs -> Minting] /\ req' \in [Reqs -> Asking]
        /\ \A r \in Reqs : req'[r].phase # "idle" => req'[r].tab \in Tabs
    BY <1>1, <1>2, UpsetTyped
  <2> QED BY <1>1, <2>1 DEF SessTyped
<1> QED BY <1>1, <1>2, <1>3, <1>4, UpsetStep

LEMMA WorldKeeps ==
  ASSUME SessInv, (\E n \in 1..MaxTokens : Expires(n)) \/ ClearCookies \/ Suspend
  PROVE  SessInv'
<1>1. /\ SessTyped /\ Upset /\ stage' = stage /\ cookie' \in {cookie, 0} /\ active' \in BOOLEAN
      /\ post' = post
      /\ \/ tokens' = tokens
         \/ \E n \in 1..MaxTokens :
              /\ \A u \in Tabs : sync[u].phase = "answered" => sync[u].token # n
              /\ tokens' = [tokens EXCEPT ![n].is = "expired"]
  BY DEF Expires, ClearCookies, Suspend, SessInv, SessTyped
<1>2. /\ tokens' \in Seq(Minted) /\ Len(tokens') = Len(tokens)
      /\ \A n \in 1..Len(tokens) : /\ tokens'[n].by = tokens[n].by
                                   /\ tokens'[n].is = "live" => tokens[n].is = "live"
      /\ \A u \in Tabs : Answer(u) => tokens'[sync[u].token] = tokens[sync[u].token]
  <2>1. CASE tokens' = tokens
    BY <1>1, <2>1 DEF SessTyped
  <2>2. ASSUME NEW n \in 1..MaxTokens,
               \A u \in Tabs : sync[u].phase = "answered" => sync[u].token # n,
               tokens' = [tokens EXCEPT ![n].is = "expired"]
        PROVE  <1>2
    <3>1. n \in Nat
      BY SessionAssumption
    <3>2. /\ tokens' \in Seq(Minted) /\ Len(tokens') = Len(tokens)
          /\ \A m \in 1..Len(tokens) :
               /\ tokens'[m].by = tokens[m].by
               /\ tokens'[m].is = "live" => tokens[m].is = "live"
               /\ m # n => tokens'[m] = tokens[m]
      BY <1>1, <2>2, <3>1, TokenEnds
    <3>3. ASSUME NEW u \in Tabs, Answer(u)
          PROVE  sync[u].token \in 1..Len(tokens) /\ sync[u].token # n
      BY <2>2, <3>3 DEF SessInv, OnItsWay, Answer
    <3> QED BY <3>2, <3>3
  <2> QED BY <1>1, <2>1, <2>2
<1>3. SessTyped'
  <2>1. cookie' \in 0..Len(tokens')
    BY <1>1, <1>2 DEF SessTyped
  <2> QED BY <1>1, <1>2, <2>1, UpsetFacts DEF SessTyped
<1>4. \A u \in Tabs : post'[u].cookie \in {post[u].cookie, 0}
  BY <1>1
<1> QED BY <1>1, <1>2, <1>3, <1>4, UpsetFacts, UpsetStep

\* The bridge mints a token that nobody has, or refuses.
LEMMA BridgeKeeps == ASSUME SessInv, NEW t \in Tabs, Bridge(t) PROVE SessInv'
<1>1. /\ SessTyped /\ sync[t].phase = "sent" /\ sync[t] \in Minting
      /\ stage' = stage /\ post' = post /\ req' = req /\ cookie' = cookie /\ active' = active
      /\ tokens \in Seq(Minted) /\ Len(tokens) \in Nat /\ cookie \in 0..Len(tokens)
  BY LenProperties DEF Bridge, SessInv, SessTyped
<1>2. \A u \in Tabs : stage[u] \in {"post", "signout", "landing", "out"} =>
                        sync[u] = NoSync /\ u # t
  BY <1>1, SessValues DEF SessInv, Gone
<1>3. CASE /\ ~active /\ tokens' = tokens
           /\ sync' = [sync EXCEPT ![t].phase = "answered", ![t].result = "definite"]
  <2>1. /\ [sync[t] EXCEPT !.phase = "answered", !.result = "definite"] \in Minting
        /\ [sync[t] EXCEPT !.phase = "answered", !.result = "definite"].result # "ok"
    BY <1>1 DEF Minting
  <2>2. sync' = [sync EXCEPT ![t] = [sync[t] EXCEPT !.phase = "answered", !.result = "definite"]]
    BY <1>1, <1>3 DEF SessTyped
  <2>3. /\ sync' \in [Tabs -> Minting] /\ sync'[t].result # "ok"
        /\ \A u \in Tabs : u # t => sync'[u] = sync[u]
    BY <1>1, <2>1, <2>2 DEF SessTyped
  <2>4. SessTyped'
    BY <1>1, <1>3, <2>3 DEF SessTyped
  <2> QED BY <1>1, <1>2, <1>3, <2>3, <2>4, PageStep
<1>4. CASE /\ active /\ tokens' = Append(tokens, [by |-> t, is |-> "live"])
           /\ sync' = [sync EXCEPT ![t].phase = "answered", ![t].result = "ok",
                                   ![t].token = Len(tokens')]
  <2> DEFINE m == Len(tokens) + 1
             v == [sync[t] EXCEPT !.phase = "answered", !.result = "ok", !.token = Len(tokens')]
  <2>1. [by |-> t, is |-> "live"] \in Minted
    BY DEF Minted
  <2>2. /\ tokens' \in Seq(Minted) /\ Len(tokens') = m /\ m \in Nat
        /\ \A n \in 1..Len(tokens) : tokens'[n] = tokens[n]
        /\ tokens'[m] = [by |-> t, is |-> "live"]
    BY <1>1, <1>4, <2>1, AppendProperties
  <2>3. /\ v \in Minting /\ v.phase = "answered" /\ v.result = "ok" /\ v.token = m
        /\ v.upset = sync[t].upset
    BY <1>1, <2>2 DEF Minting
  <2>4. sync' = [sync EXCEPT ![t] = v]
    BY <1>1, <1>4 DEF SessTyped
  <2> HIDE DEF v, m
  <2>5. /\ sync' \in [Tabs -> Minting] /\ sync'[t] = v
        /\ \A u \in Tabs : u # t => sync'[u] = sync[u]
    BY <1>1, <2>3, <2>4 DEF SessTyped
  <2>6. SessTyped'
    <3>1. cookie' \in 0..Len(tokens')
      BY <1>1, <2>2 DEF m
    <3> QED BY <1>1, <2>2, <2>5, <3>1 DEF SessTyped
  <2>7. \A n \in Nat : Honoured(n) /\ n \in 1..Len(tokens) => Honoured(n)'
    BY <2>2 DEF Honoured
  <2>8. \A n \in 0..Len(tokens) : Honoured(n)' => n \in 1..Len(tokens) /\ Honoured(n)
    BY <1>1, <2>2 DEF Honoured
  <2>9. ASSUME NEW u \in Tabs PROVE OnItsWay(u)'
    <3>1. CASE u = t
      <4>1. \A w \in Tabs : post[w].cookie < m
        <5>1. \A w \in Tabs : post[w].cookie \in Nat
          BY <1>1 DEF SessTyped, Posting
        <5> QED BY <1>1, <5>1 DEF SessInv, WasInJar, m
      <4> QED BY <1>1, <2>2, <2>3, <2>5, <3>1, <4>1 DEF OnItsWay, m
    <3>2. CASE u # t
      BY <1>1, <2>2, <2>5, <3>2 DEF SessInv, OnItsWay, Answer, m
    <3> QED BY <3>1, <3>2
  <2>10. ASSUME NEW u \in Tabs PROVE Counts(u)'
    <3>1. CASE u = t
      BY <1>1, <1>4, <2>3, <2>5, <3>1 DEF Counts
    <3>2. CASE u # t
      <4>1. Usable(cookie) => Usable(cookie)'
        BY <1>1, <2>7 DEF Usable, Honoured
      <4> QED BY <1>1, <2>5, <3>2, <4>1 DEF SessInv, Counts
    <3> QED BY <3>1, <3>2
  <2>11. ASSUME NEW u \in Tabs PROVE Gone(u)'
    <3>1. Honoured(cookie)' => Honoured(cookie) /\ tokens'[cookie] = tokens[cookie]
      BY <1>1, <2>2, <2>8
    <3> QED BY <1>1, <1>2, <2>5, <3>1 DEF SessInv, Gone
  <2>12. ASSUME NEW r \in Reqs PROVE RetryServes(r)'
    <3>1. req[r].cookie \in Nat /\ req[r].cookie <= Len(tokens)
      BY <1>1 DEF SessTyped, Asking, SessInv, WasInJar
    <3>2. Usable(req[r].cookie) => Usable(req[r].cookie)'
      BY <1>1, <2>7, <3>1 DEF Usable, Honoured
    <3> QED BY <1>1, <3>2 DEF SessInv, RetryServes
  <2>13. WasInJar'
    <3>1. /\ \A w \in Tabs : post[w].cookie \in Nat
          /\ \A r \in Reqs : req[r].cookie \in Nat
      BY <1>1 DEF SessTyped, Posting, Asking
    <3> QED BY <1>1, <2>2, <3>1 DEF SessInv, WasInJar, m
  <2> QED BY <2>6, <2>9, <2>10, <2>11, <2>12, <2>13 DEF SessInv
<1> QED BY <1>3, <1>4 DEF Bridge

\* The answer lands: its token is live, so that what another page counts on is too.
LEMMA LandsKeeps == ASSUME SessInv, NEW t \in Tabs, SyncLands(t) PROVE SessInv'
<1>1. /\ SessTyped /\ sync[t].phase = "answered" /\ sync[t] \in Minting
      /\ cookie' = IF sync[t].result = "ok" THEN sync[t].token ELSE cookie
      /\ sync' = [sync EXCEPT ![t].phase = "landed"]
      /\ stage' = stage /\ post' = post /\ req' = req /\ tokens' = tokens /\ active' = active
  BY DEF SyncLands, SessInv, SessTyped
<1>2. \A u \in Tabs : stage[u] \in {"post", "signout", "landing", "out"} =>
                        sync[u] = NoSync /\ u # t
  BY <1>1, SessValues DEF SessInv, Gone
<1>3. /\ sync' \in [Tabs -> Minting]
      /\ sync'[t].phase = "landed" /\ sync'[t].result = sync[t].result
      /\ sync'[t].upset = sync[t].upset
      /\ \A u \in Tabs : u # t => sync'[u] = sync[u]
  <2> DEFINE v == [sync[t] EXCEPT !.phase = "landed"]
  <2>1. /\ v \in Minting /\ v.phase = "landed" /\ v.result = sync[t].result
        /\ v.upset = sync[t].upset
    BY <1>1 DEF Minting
  <2>2. sync' = [sync EXCEPT ![t] = v]
    BY <1>1
  <2> HIDE DEF v
  <2> QED BY <1>1, <2>1, <2>2 DEF SessTyped
<1>4. CASE sync[t].result # "ok"
  <2>1. cookie' = cookie
    BY <1>1, <1>4
  <2>2. SessTyped'
    BY <1>1, <1>3, <2>1 DEF SessTyped
  <2> QED BY <1>1, <1>2, <1>3, <1>4, <2>1, <2>2, PageStep
<1>5. CASE sync[t].result = "ok"
  <2> DEFINE n == sync[t].token
  <2>1. /\ n \in 1..Len(tokens) /\ tokens[n] = [by |-> t, is |-> "live"]
        /\ cookie' = n
    BY <1>1, <1>5 DEF SessInv, OnItsWay, Answer
  <2> HIDE DEF n
  <2>2. SessTyped'
    <3>1. cookie' \in 0..Len(tokens')
      BY <1>1, <2>1 DEF SessTyped
    <3> QED BY <1>1, <1>3, <3>1 DEF SessTyped
  <2>3. ASSUME NEW u \in Tabs PROVE OnItsWay(u)'
    <3>1. CASE u = t
      BY <1>3, <3>1 DEF OnItsWay, Answer
    <3>2. CASE u # t
      <4> SUFFICES ASSUME Answer(u)
                   PROVE  /\ sync[u].token \in 1..Len(tokens)
                          /\ tokens[sync[u].token] = [by |-> u, is |-> "live"]
                          /\ n # sync[u].token
                          /\ \A w \in Tabs : post[w].cookie # sync[u].token
        BY <1>1, <1>3, <2>1, <3>2 DEF OnItsWay, Answer
      <4>1. /\ sync[u].token \in 1..Len(tokens)
            /\ tokens[sync[u].token] = [by |-> u, is |-> "live"]
            /\ \A w \in Tabs : post[w].cookie # sync[u].token
        BY DEF SessInv, OnItsWay
      <4>2. tokens[n].by = t /\ tokens[sync[u].token].by = u
        BY <2>1, <4>1
      <4> QED BY <3>2, <4>1, <4>2
    <3> QED BY <3>1, <3>2
  <2>4. n # 0 /\ tokens[n].is = "live"
    BY <2>1
  <2>5. ASSUME NEW u \in Tabs PROVE Counts(u)'
    <3>1. active => Usable(cookie)'
      BY <1>1, <2>1, <2>4 DEF Usable, Honoured
    <3>2. CASE u = t
      BY <1>1, <1>3, <1>5, <3>1, <3>2 DEF SessInv, Counts
    <3>3. CASE u # t
      BY <1>1, <1>3, <3>1, <3>3 DEF SessInv, Counts
    <3> QED BY <3>2, <3>3
  <2>6. ASSUME NEW u \in Tabs PROVE Gone(u)'
    <3>1. tokens'[cookie'].by = t
      BY <1>1, <2>1
    <3> QED BY <1>1, <1>2, <1>3, <3>1 DEF SessInv, Gone
  <2>7. ASSUME NEW r \in Reqs PROVE RetryServes(r)'
    BY <1>1 DEF SessInv, RetryServes, Usable, Honoured
  <2>8. WasInJar'
    BY <1>1 DEF SessInv, WasInJar
  <2> QED BY <2>2, <2>3, <2>5, <2>6, <2>7, <2>8 DEF SessInv
<1> QED BY <1>4, <1>5

LEMMA SessStarts == SessInit => SessInv
<1> SUFFICES ASSUME SessInit PROVE SessInv
  OBVIOUS
<1>1. tokens \in Seq(Minted) /\ Len(tokens) = 0 /\ cookie \in 0..Len(tokens)
  BY DEF SessInit
<1>2. SessTyped
  BY <1>1, SessValues DEF SessInit, SessTyped
<1>3. ASSUME NEW t \in Tabs PROVE OnItsWay(t) /\ Counts(t) /\ Gone(t)
  BY SessValues DEF SessInit, OnItsWay, Answer, Counts, Gone
<1>4. ASSUME NEW r \in Reqs PROVE RetryServes(r)
  BY SessValues DEF SessInit, RetryServes
<1>5. WasInJar
  BY <1>1, SessValues DEF SessInit, WasInJar
<1> QED BY <1>2, <1>3, <1>4, <1>5 DEF SessInv

\* The inductive invariant: a token on its way to the jar is in no logout's
\* hands, and a re-mint that nothing has upset may be gone by.
THEOREM SessInvariant == SessSpec => []SessInv
<1>1. SessInv /\ [SessNext]_sessVars => SessInv'
  <2> SUFFICES ASSUME SessInv, [SessNext]_sessVars PROVE SessInv'
    OBVIOUS
  <2>1. ASSUME NEW t \in Tabs,
               OpenTab(t) \/ BootSync(t) \/ KeepAlive(t) \/ SyncFails(t) \/ BeginLogout(t)
        PROVE  SessInv'
    BY <2>1, OpeningSteps
  <2>2. ASSUME NEW t \in Tabs, Bridge(t) \/ SyncLands(t) \/ Settles(t) PROVE SessInv'
    BY <2>2, BridgeKeeps, LandsKeeps, SettlesKeeps
  <2>3. ASSUME NEW t \in Tabs, PostLogout(t) \/ Revoke(t) \/ LogoutEnds(t) PROVE SessInv'
    BY <2>3, PostLogoutKeeps, RevokeKeeps, LogoutEndsKeeps
  <2>4. ASSUME NEW t \in Tabs, SignOut(t) \/ Land(t) \/ CloseTab(t) PROVE SessInv'
    BY <2>4, SignOutKeeps, LandKeeps, CloseKeeps
  <2>5. ASSUME NEW r \in Reqs, (\E t \in Tabs : Ask(r, t)) \/ Answered(r) \/ Recover(r)
        PROVE  SessInv'
    BY <2>5, AskKeeps, AnsweredKeeps, RecoverKeeps
  <2>6. CASE (\E n \in 1..MaxTokens : Expires(n)) \/ ClearCookies \/ Suspend
    BY <2>6, WorldKeeps
  <2>7. CASE UNCHANGED sessVars
    <3>1. /\ UNCHANGED <<stage, sync, post, req, tokens, cookie, active>> /\ SessTyped'
      BY <2>7 DEF sessVars, SessInv, SessTyped
    <3>2. \A t \in Tabs : stage[t] \in {"post", "signout", "landing", "out"} => sync[t] = NoSync
      BY DEF SessInv, Gone
    <3> QED BY <3>1, <3>2, PageStep
  <2> QED BY <2>1, <2>2, <2>3, <2>4, <2>5, <2>6, <2>7 DEF SessNext
<1> QED BY SessStarts, <1>1, PTL DEF SessSpec

\* A browser that has signed out stays signed out, for any number of tabs,
\* requests and tokens, whatever was in flight (api.ts:82-99).
THEOREM SignedOutStaysHolds == SessSpec => []SignedOutStays
<1>1. SessInv => SignedOutStays
  BY DEF SessInv, Gone, SignedOutStays
<1> QED BY <1>1, SessInvariant, PTL

\* A 401 is healed by the one retry unless the session was refused or taken
\* away meanwhile (api.ts:124-142).
THEOREM RetryIsServedHolds == SessSpec => []RetryIsServed
<1>1. SessInv => RetryIsServed
  BY DEF SessInv, RetryServes, RetryIsServed
<1> QED BY <1>1, SessInvariant, PTL

-----------------------------------------------------------------------------
(* The alerts in the windows. *)

Inboxes == [Alerts -> [version : 0..2, mark : Windows \cup {Nobody}]]
Pages == [view : Views, dirty : BOOLEAN, error : BOOLEAN, rows : Inboxes, of : Views]
Loads == [phase : {"none"}] \cup [phase : {"sent"}, view : Views]
         \cup [phase : {"answered"}, view : Views, rows : Inboxes]
Acts == [phase : {"none"}] \cup [phase : {"sent", "answered"}, alert : Alerts, view : Views]

StreamTyped ==
    /\ inbox \in Inboxes
    /\ link \in [Windows -> {"wait", "asked", "up", "capped", "broken"}]
    /\ events \in [Windows -> Seq({"open", "alert", "error"})]
    /\ page \in [Windows -> Pages] /\ load \in [Windows -> Loads]
    /\ act \in [Windows -> Acts] /\ stale \in Nat

\* Rows as they are in the inbox, with the marks of this window.
Current(rows, w) ==
    \A a \in Alerts : /\ rows[a].version = inbox[a].version
                      /\ inbox[a].mark = w => rows[a].mark = w

\* A window that is connected shows the inbox, or has it on its way, or has
\* still something to do after which it asks again.
CatchingUp(w) ==
    \/ link[w] # "up" \/ events[w] # <<>> \/ page[w].dirty \/ page[w].error
    \/ act[w] # NoAct \/ load[w].phase = "sent"
    \/ load[w].phase = "answered" /\ Current(load[w].rows, w)
    \/ load[w] = NoLoad /\ Current(page[w].rows, w)

StreamInv == StreamTyped /\ \A w \in Windows : CatchingUp(w)

LEMMA StreamBegins == StreamInit => StreamInv
<1> SUFFICES ASSUME StreamInit PROVE StreamInv
  OBVIOUS
<1>1. Empty \in Inboxes /\ Unfiltered \in Views
  BY StreamAssumption DEF Empty, Inboxes, Unfiltered
<1>2. Fresh \in Pages
  BY <1>1 DEF Fresh, Pages
<1> QED BY <1>1, <1>2, StreamAssumption
        DEF StreamInit, StreamInv, StreamTyped, CatchingUp, NoLoad, NoAct, Loads, Acts

\* A window that leaves a variable alone.
LEMMA WindowStays ==
  ASSUME StreamInv, NEW w \in Windows
  PROVE  /\ link[w] \in {"wait", "asked", "up", "capped", "broken"}
         /\ link = [link EXCEPT ![w] = link[w]]
         /\ events[w] \in Seq({"open", "alert", "error"})
         /\ events = [events EXCEPT ![w] = events[w]]
         /\ page[w] \in Pages /\ page = [page EXCEPT ![w] = page[w]]
         /\ load[w] \in Loads /\ load = [load EXCEPT ![w] = load[w]]
         /\ act[w] \in Acts /\ act = [act EXCEPT ![w] = act[w]]
         /\ stale \in Nat /\ inbox \in Inboxes /\ CatchingUp(w)
         /\ NoLoad \in Loads /\ NoAct \in Acts
BY DEF StreamInv, StreamTyped, NoLoad, NoAct, Loads, Acts

\* One window moves on to this ...
Moves(w, l, e, p, d, c) ==
    /\ link' = [link EXCEPT ![w] = l] /\ events' = [events EXCEPT ![w] = e]
    /\ page' = [page EXCEPT ![w] = p] /\ load' = [load EXCEPT ![w] = d]
    /\ act' = [act EXCEPT ![w] = c] /\ UNCHANGED inbox

\* ... which is of its types ...
Fits(l, e, p, d, c) ==
    /\ l \in {"wait", "asked", "up", "capped", "broken"}
    /\ e \in Seq({"open", "alert", "error"}) /\ p \in Pages /\ d \in Loads /\ c \in Acts

\* ... and with which it is catching up.
Catches(w, l, e, p, d, c) ==
    \/ l # "up" \/ e # <<>> \/ p.dirty \/ p.error \/ c # NoAct \/ d.phase = "sent"
    \/ d.phase = "answered" /\ Current(d.rows, w)
    \/ d = NoLoad /\ Current(p.rows, w)

LEMMA OneWindowMoves ==
  ASSUME StreamInv, NEW w \in Windows, stale' \in Nat,
         NEW l, NEW e, NEW p, NEW d, NEW c, Moves(w, l, e, p, d, c),
         Fits(l, e, p, d, c), Catches(w, l, e, p, d, c)
  PROVE  StreamInv'
<1> USE DEF Moves, Fits, Catches
<1>1. StreamTyped'
  BY DEF StreamInv, StreamTyped
<1>2. /\ link'[w] = l /\ events'[w] = e /\ page'[w] = p /\ load'[w] = d /\ act'[w] = c
      /\ \A v \in Windows : v # w =>
           /\ link'[v] = link[v] /\ events'[v] = events[v] /\ page'[v] = page[v]
           /\ load'[v] = load[v] /\ act'[v] = act[v]
  BY DEF StreamInv, StreamTyped
<1>4. ASSUME NEW v \in Windows PROVE CatchingUp(v)'
  <2>1. CASE v = w
    BY <1>2, <2>1 DEF CatchingUp, Current
  <2>2. CASE v # w
    BY <1>2, <2>2 DEF StreamInv, CatchingUp, Current
  <2> QED BY <2>1, <2>2
<1> QED BY <1>1, <1>4 DEF StreamInv

\* What changes in the inbox is announced to whoever is connected.
LEMMA RaiseKeepsUp == ASSUME StreamInv, NEW a \in Alerts, Raise(a) PROVE StreamInv'
<1>1. inbox' \in Inboxes
  <2>1. CASE inbox' = inbox
    BY <2>1 DEF StreamInv, StreamTyped
  <2>2. CASE inbox' = [inbox EXCEPT ![a].version = @ + 1]
    <3>1. /\ inbox \in Inboxes /\ inbox[a].version + 1 \in 0..2
          /\ inbox[a].mark \in Windows \cup {Nobody}
      <4>1. inbox \in Inboxes /\ inbox[a].version < 2
        BY DEF Raise, StreamInv, StreamTyped
      <4>2. inbox[a].version \in 0..2 /\ inbox[a].mark \in Windows \cup {Nobody}
        BY <4>1 DEF Inboxes
      <4> QED BY <4>1, <4>2
    <3>2. [inbox[a] EXCEPT !.version = @ + 1] \in [version : 0..2, mark : Windows \cup {Nobody}]
      BY <3>1 DEF Inboxes
    <3>3. inbox' = [inbox EXCEPT ![a] = [inbox[a] EXCEPT !.version = @ + 1]]
      BY <2>2, <3>1 DEF Inboxes
    <3> QED BY <3>1, <3>2, <3>3 DEF Inboxes
  <2> QED BY <2>1, <2>2 DEF Raise
<1>2. ASSUME NEW w \in Windows
      PROVE  /\ events[w] \in Seq({"open", "alert", "error"})
             /\ Append(events[w], "alert") \in Seq({"open", "alert", "error"})
             /\ Append(events[w], "alert") # <<>>
  <2>1. events[w] \in Seq({"open", "alert", "error"})
    BY WindowStays
  <2> QED BY <2>1, AppendProperties
<1>3. /\ link' = link /\ page' = page /\ load' = load /\ act' = act /\ stale' = stale
      /\ events' = [w \in Windows |-> IF link[w] = "up" THEN Append(events[w], "alert")
                                      ELSE events[w]]
  BY DEF Raise, Subscribed
<1>4. StreamTyped'
  <2>1. events' \in [Windows -> Seq({"open", "alert", "error"})]
    BY <1>2, <1>3
  <2> QED BY <1>1, <1>3, <2>1 DEF StreamInv, StreamTyped
<1>5. ASSUME NEW w \in Windows PROVE link'[w] # "up" \/ events'[w] # <<>>
  BY <1>2, <1>3
<1> QED BY <1>4, <1>5 DEF StreamInv, CatchingUp

\* Its stream: what a window hears makes its page dirty, and what it does not
\* hear has broken its stream.
LEMMA StreamKeepsUp ==
  ASSUME StreamInv, NEW w \in Windows,
         \/ Accept(w) \/ Connect(w) \/ Disconnected(w) \/ Hear(w) \/ Break(w) \/ Reopen(w)
  PROVE  StreamInv'
<1> DEFINE Events == {"open", "alert", "error"}
<1>1. /\ <<>> \in Seq(Events) /\ <<"open">> \in Seq(Events) /\ <<"open", "error">> \in Seq(Events)
      /\ <<"open">> # <<>> /\ <<"open", "error">> # <<>>
  OBVIOUS
<1>2. CASE Accept(w)
  <2>1. PICK l \in {"up", "capped"}, e \in {<<"open">>, <<"open", "error">>} :
          link' = [link EXCEPT ![w] = l] /\ events' = [events EXCEPT ![w] = e]
    BY <1>2 DEF Accept
  <2>7. Moves(w, l, e, page[w], load[w], act[w])
    BY <1>2, <2>1, WindowStays DEF Accept, Moves
  <2>8. Fits(l, e, page[w], load[w], act[w])
    BY <1>1, <2>1, WindowStays DEF Fits
  <2>9. Catches(w, l, e, page[w], load[w], act[w]) /\ stale' \in Nat
    BY <1>1, <1>2, WindowStays DEF Catches, Accept
  <2> QED BY <2>7, <2>8, <2>9, OneWindowMoves
<1>3. CASE Connect(w)
  <2>7. Moves(w, "asked", events[w], page[w], load[w], act[w])
    BY <1>3, WindowStays DEF Connect, Moves
  <2>8. Fits("asked", events[w], page[w], load[w], act[w])
    BY WindowStays DEF Fits
  <2>9. Catches(w, "asked", events[w], page[w], load[w], act[w]) /\ stale' \in Nat
    BY <1>3, WindowStays DEF Catches, Connect
  <2> QED BY <2>7, <2>8, <2>9, OneWindowMoves
<1>4. CASE Disconnected(w)
  <2>7. Moves(w, "wait", <<>>, page[w], load[w], act[w])
    BY <1>4, WindowStays DEF Disconnected, Moves
  <2>8. Fits("wait", <<>>, page[w], load[w], act[w])
    BY <1>1, WindowStays DEF Fits
  <2>9. Catches(w, "wait", <<>>, page[w], load[w], act[w]) /\ stale' \in Nat
    BY <1>4, WindowStays DEF Catches, Disconnected
  <2> QED BY <2>7, <2>8, <2>9, OneWindowMoves
<1>5. CASE Hear(w)
  <2>1. CASE Head(events[w]) = "error"
    <3>7. Moves(w, "wait", <<>>, page[w], load[w], act[w])
      BY <1>5, <2>1, WindowStays DEF Hear, Moves
    <3>8. Fits("wait", <<>>, page[w], load[w], act[w])
      BY <1>1, WindowStays DEF Fits
    <3>9. Catches(w, "wait", <<>>, page[w], load[w], act[w]) /\ stale' \in Nat
      BY <1>5, WindowStays DEF Catches, Hear
    <3> QED BY <3>7, <3>8, <3>9, OneWindowMoves
  <2>2. CASE Head(events[w]) # "error"
    <3> DEFINE p == [page[w] EXCEPT !.dirty = TRUE]
    <3>1. p \in Pages /\ p.dirty
      BY WindowStays DEF Pages
    <3>2. page' = [page EXCEPT ![w] = p] /\ events' = [events EXCEPT ![w] = Tail(events[w])]
      BY <1>5, <2>2 DEF Hear
    <3>3. Tail(events[w]) \in Seq(Events)
      BY <1>5, WindowStays DEF Hear
    <3> HIDE DEF p
    <3>7. Moves(w, link[w], Tail(events[w]), p, load[w], act[w])
      BY <1>5, <2>2, <3>2, WindowStays DEF Hear, Moves
    <3>8. Fits(link[w], Tail(events[w]), p, load[w], act[w])
      BY <3>1, <3>3, WindowStays DEF Fits
    <3>9. Catches(w, link[w], Tail(events[w]), p, load[w], act[w]) /\ stale' \in Nat
      BY <1>5, <3>1, WindowStays DEF Catches, Hear
    <3> QED BY <3>7, <3>8, <3>9, OneWindowMoves
  <2> QED BY <2>1, <2>2
<1>6. CASE Break(w)
  <2>1. PICK n \in 0..Len(events[w]) : events' = [events EXCEPT ![w] = SubSeq(events[w], 1, n)]
    BY <1>6 DEF Break
  <2>2. SubSeq(events[w], 1, n) \in Seq(Events)
    BY WindowStays
  <2>3. stale' \in Nat
    BY <1>6, WindowStays DEF Break
  <2>7. Moves(w, "broken", SubSeq(events[w], 1, n), page[w], load[w], act[w])
    BY <1>6, <2>1, WindowStays DEF Break, Moves
  <2>8. Fits("broken", SubSeq(events[w], 1, n), page[w], load[w], act[w])
    BY <2>2, WindowStays DEF Fits
  <2>9. Catches(w, "broken", SubSeq(events[w], 1, n), page[w], load[w], act[w]) /\ stale' \in Nat
    BY <1>6, <2>3, WindowStays DEF Catches, Break
  <2> QED BY <2>7, <2>8, <2>9, OneWindowMoves
<1>7. CASE Reopen(w)
  <2>1. Fresh \in Pages
    BY StreamAssumption DEF Fresh, Pages, Empty, Inboxes, Unfiltered
  <2>2. NoLoad \in Loads /\ NoAct \in Acts
    BY DEF NoLoad, NoAct, Loads, Acts
  <2>3. stale' \in Nat
    BY <1>7, WindowStays DEF Reopen
  <2>7. Moves(w, "wait", <<>>, Fresh, NoLoad, NoAct)
    BY <1>7, WindowStays DEF Reopen, Moves
  <2>8. Fits("wait", <<>>, Fresh, NoLoad, NoAct)
    BY <1>1, <2>1, <2>2, WindowStays DEF Fits
  <2>9. Catches(w, "wait", <<>>, Fresh, NoLoad, NoAct) /\ stale' \in Nat
    BY <1>7, <2>3, WindowStays DEF Catches, Reopen
  <2> QED BY <2>7, <2>8, <2>9, OneWindowMoves
<1> QED BY <1>2, <1>3, <1>4, <1>5, <1>6, <1>7

\* Its page: every load that is given up gives way to another, to an error, or
\* to a view still to be rendered.
LEMMA PageKeepsUp ==
  ASSUME StreamInv, NEW w \in Windows,
         \/ Render(w) \/ Listed(w) \/ Shown(w) \/ ListFails(w)
         \/ \E v \in Views : ChangeView(w, v)
         \/ \E a \in Alerts : Mark(w, a)
         \/ Patched(w) \/ Marked(w) \/ MarkFails(w)
  PROVE  StreamInv'
<1>1. /\ page[w].view \in Views /\ page[w].rows \in Inboxes
      /\ [page[w] EXCEPT !.dirty = FALSE, !.error = FALSE] \in Pages
      /\ [page[w] EXCEPT !.error = TRUE] \in Pages
      /\ [page[w] EXCEPT !.error = FALSE] \in Pages
      /\ NoLoad \in Loads /\ NoAct \in Acts
  BY WindowStays DEF Pages, NoLoad, NoAct, Loads, Acts
<1>2. ASSUME NEW v \in Views
      PROVE  [phase |-> "sent", view |-> v] \in Loads
  BY DEF Loads
<1>3. CASE Render(w)
  <2> DEFINE d == [phase |-> "sent", view |-> page[w].view]
             p == [page[w] EXCEPT !.dirty = FALSE, !.error = FALSE]
  <2>1. load' = [load EXCEPT ![w] = d] /\ page' = [page EXCEPT ![w] = p]
    BY <1>3, WindowStays DEF Render, Load, StreamInv, StreamTyped, Pages
  <2>2. d \in Loads /\ d.phase = "sent" /\ p \in Pages
    BY <1>1, <1>2
  <2> HIDE DEF d, p
  <2>7. Moves(w, link[w], events[w], p, d, act[w])
    BY <1>3, <2>1, WindowStays DEF Render, Moves
  <2>8. Fits(link[w], events[w], p, d, act[w])
    BY <2>2, WindowStays DEF Fits
  <2>9. Catches(w, link[w], events[w], p, d, act[w]) /\ stale' \in Nat
    BY <1>3, <2>2, WindowStays DEF Catches, Render
  <2> QED BY <2>7, <2>8, <2>9, OneWindowMoves
<1>4. CASE Listed(w)
  <2> DEFINE d == [phase |-> "answered", view |-> load[w].view, rows |-> inbox]
  <2>1. load' = [load EXCEPT ![w] = d]
    BY <1>4 DEF Listed
  <2>2. d \in Loads /\ d.phase = "answered" /\ Current(d.rows, w)
    BY <1>4, WindowStays DEF Listed, Loads, Current
  <2> HIDE DEF d
  <2>7. Moves(w, link[w], events[w], page[w], d, act[w])
    BY <1>4, <2>1, WindowStays DEF Listed, Moves
  <2>8. Fits(link[w], events[w], page[w], d, act[w])
    BY <2>2, WindowStays DEF Fits
  <2>9. Catches(w, link[w], events[w], page[w], d, act[w]) /\ stale' \in Nat
    BY <1>4, <2>2, WindowStays DEF Catches, Listed
  <2> QED BY <2>7, <2>8, <2>9, OneWindowMoves
<1>5. CASE Shown(w)
  <2> DEFINE p == [page[w] EXCEPT !.rows = load[w].rows, !.of = load[w].view]
  <2>1. page' = [page EXCEPT ![w] = p]
    BY <1>5, WindowStays DEF Shown, StreamInv, StreamTyped, Pages
  <2>2. load[w].rows \in Inboxes /\ load[w].view \in Views /\ load[w] # NoLoad
    BY <1>5, WindowStays DEF Shown, Loads, NoLoad
  <2>3. /\ p \in Pages /\ p.rows = load[w].rows
        /\ p.dirty = page[w].dirty /\ p.error = page[w].error
    BY <2>2, WindowStays DEF Pages
  <2>4. load' = [load EXCEPT ![w] = NoLoad] /\ load[w].phase = "answered"
    BY <1>5 DEF Shown
  <2> HIDE DEF p
  <2>5. \/ link[w] # "up" \/ events[w] # <<>> \/ p.dirty \/ p.error \/ act[w] # NoAct
        \/ Current(p.rows, w)
    BY <2>2, <2>3, <2>4, WindowStays DEF CatchingUp
  <2>7. Moves(w, link[w], events[w], p, NoLoad, act[w])
    BY <1>5, <2>1, <2>4, WindowStays DEF Shown, Moves
  <2>8. Fits(link[w], events[w], p, NoLoad, act[w])
    BY <1>1, <2>3, WindowStays DEF Fits
  <2>9. Catches(w, link[w], events[w], p, NoLoad, act[w]) /\ stale' \in Nat
    BY <1>5, <2>3, <2>5, WindowStays DEF Catches, Shown
  <2> QED BY <2>7, <2>8, <2>9, OneWindowMoves
<1>6. CASE ListFails(w) \/ MarkFails(w)
  <2> DEFINE p == [page[w] EXCEPT !.error = TRUE]
  <2>1. page' = [page EXCEPT ![w] = p]
    BY <1>6, WindowStays DEF ListFails, MarkFails, StreamInv, StreamTyped, Pages
  <2>2. p \in Pages /\ p.error
    BY <1>1, WindowStays DEF Pages
  <2> HIDE DEF p
  <2>3. CASE ListFails(w)
    <3>7. Moves(w, link[w], events[w], p, NoLoad, act[w])
      BY <2>1, <2>3, WindowStays DEF ListFails, Moves
    <3>8. Fits(link[w], events[w], p, NoLoad, act[w])
      BY <1>1, <2>2, WindowStays DEF Fits
    <3>9. Catches(w, link[w], events[w], p, NoLoad, act[w]) /\ stale' \in Nat
      BY <2>2, <2>3, WindowStays DEF Catches, ListFails
    <3> QED BY <3>7, <3>8, <3>9, OneWindowMoves
  <2>4. CASE MarkFails(w)
    <3>7. Moves(w, link[w], events[w], p, load[w], NoAct)
      BY <2>1, <2>4, WindowStays DEF MarkFails, Moves
    <3>8. Fits(link[w], events[w], p, load[w], NoAct)
      BY <1>1, <2>2, WindowStays DEF Fits
    <3>9. Catches(w, link[w], events[w], p, load[w], NoAct) /\ stale' \in Nat
      BY <2>2, <2>4, WindowStays DEF Catches, MarkFails
    <3> QED BY <3>7, <3>8, <3>9, OneWindowMoves
  <2> QED BY <1>6, <2>3, <2>4
<1>7. ASSUME NEW v \in Views, ChangeView(w, v) PROVE StreamInv'
  <2> DEFINE p == [page[w] EXCEPT !.view = v, !.dirty = TRUE]
  <2>1. page' = [page EXCEPT ![w] = p]
    BY <1>7, WindowStays DEF ChangeView, StreamInv, StreamTyped, Pages
  <2>2. p \in Pages /\ p.dirty
    BY WindowStays DEF Pages
  <2> HIDE DEF p
  <2>7. Moves(w, link[w], events[w], p, load[w], act[w])
    BY <1>7, <2>1, WindowStays DEF ChangeView, Moves
  <2>8. Fits(link[w], events[w], p, load[w], act[w])
    BY <2>2, WindowStays DEF Fits
  <2>9. Catches(w, link[w], events[w], p, load[w], act[w]) /\ stale' \in Nat
    BY <1>7, <2>2, WindowStays DEF Catches, ChangeView
  <2> QED BY <2>7, <2>8, <2>9, OneWindowMoves
<1>8. ASSUME NEW a \in Alerts, Mark(w, a) PROVE StreamInv'
  <2> DEFINE p == [page[w] EXCEPT !.error = FALSE]
             c == [phase |-> "sent", alert |-> a, view |-> page[w].view]
  <2>1. page' = [page EXCEPT ![w] = p] /\ act' = [act EXCEPT ![w] = c]
    BY <1>8, WindowStays DEF Mark, StreamInv, StreamTyped, Pages
  <2>2. p \in Pages /\ c \in Acts /\ c # NoAct
    BY <1>1, WindowStays DEF Acts, NoAct
  <2> HIDE DEF p, c
  <2>7. Moves(w, link[w], events[w], p, load[w], c)
    BY <1>8, <2>1, WindowStays DEF Mark, Moves
  <2>8. Fits(link[w], events[w], p, load[w], c)
    BY <2>2, WindowStays DEF Fits
  <2>9. Catches(w, link[w], events[w], p, load[w], c) /\ stale' \in Nat
    BY <1>8, <2>2, WindowStays DEF Catches, Mark
  <2> QED BY <2>7, <2>8, <2>9, OneWindowMoves
<1>9. CASE Patched(w)
  <2>1. act[w].phase = "sent" /\ act[w] \in Acts
    BY <1>9, WindowStays DEF Patched
  <2>2. act[w].alert \in Alerts /\ [act[w] EXCEPT !.phase = "answered"] \in Acts \ {NoAct}
    BY <2>1 DEF Acts, NoAct
  <2>3. inbox' = [inbox EXCEPT ![act[w].alert].mark = w]
    BY <1>9 DEF Patched
  <2>4. inbox' \in Inboxes
    BY <2>2, <2>3, WindowStays DEF Inboxes
  <2>5. act' = [act EXCEPT ![w] = [act[w] EXCEPT !.phase = "answered"]]
    BY <1>9 DEF Patched
  <2>6. StreamTyped' /\ act'[w] # NoAct
    BY <1>9, <2>2, <2>4, <2>5 DEF Patched, StreamInv, StreamTyped
  <2>7. ASSUME NEW v \in Windows, v # w, NEW rows, Current(rows, v) PROVE Current(rows, v)'
    BY <2>2, <2>3, <2>7, WindowStays DEF Current, Inboxes
  <2>8. ASSUME NEW v \in Windows, v # w PROVE CatchingUp(v)'
    <3>1. /\ link'[v] = link[v] /\ events'[v] = events[v] /\ page'[v] = page[v]
          /\ load'[v] = load[v] /\ act'[v] = act[v]
      BY <1>9, <2>5, <2>8 DEF Patched, StreamInv, StreamTyped
    <3>2. CatchingUp(v)
      BY DEF StreamInv
    <3> QED BY <2>7, <2>8, <3>1, <3>2 DEF CatchingUp
  <2> QED BY <2>6, <2>8 DEF StreamInv, CatchingUp
<1>10. CASE Marked(w)
  <2> DEFINE d == [phase |-> "sent", view |-> act[w].view]
             p == [page[w] EXCEPT !.error = FALSE]
  <2>1. load' = [load EXCEPT ![w] = d] /\ page' = [page EXCEPT ![w] = p]
    BY <1>10, WindowStays DEF Marked, StreamInv, StreamTyped, Pages
  <2>2. act[w].view \in Views
    BY <1>10, WindowStays DEF Marked, Acts
  <2>3. d \in Loads /\ d.phase = "sent" /\ p \in Pages
    BY <1>1, <1>2, <2>2
  <2> HIDE DEF d, p
  <2>7. Moves(w, link[w], events[w], p, d, NoAct)
    BY <1>10, <2>1, WindowStays DEF Marked, Moves
  <2>8. Fits(link[w], events[w], p, d, NoAct)
    BY <1>1, <2>3, WindowStays DEF Fits
  <2>9. Catches(w, link[w], events[w], p, d, NoAct) /\ stale' \in Nat
    BY <1>10, <2>3, WindowStays DEF Catches, Marked
  <2> QED BY <2>7, <2>8, <2>9, OneWindowMoves
<1> QED BY <1>3, <1>4, <1>5, <1>6, <1>7, <1>8, <1>9, <1>10

\* A connected window shows the inbox, or has an answer on its way that does, or
\* has yet to ask for one, whatever breaks and however streams, answers and
\* clicks interleave.
THEOREM StreamInvariant == StreamSpec => []StreamInv
<1>1. StreamInv /\ [StreamNext]_streamVars => StreamInv'
  <2> SUFFICES ASSUME StreamInv, [StreamNext]_streamVars PROVE StreamInv'
    OBVIOUS
  <2>1. CASE UNCHANGED streamVars
    BY <2>1 DEF streamVars, StreamInv, StreamTyped, CatchingUp, Current
  <2>2. CASE CleanUp
    BY <2>2 DEF CleanUp, StreamInv, StreamTyped, CatchingUp, Current
  <2> QED BY <2>1, <2>2, RaiseKeepsUp, StreamKeepsUp, PageKeepsUp DEF StreamNext
<1> QED BY <1>1, StreamBegins, PTL DEF StreamSpec

\* A connected window in which nothing is under way shows every alert there is
\* (routes/alerts.ts:687-689, useAlertsStream.ts:190-192, Alerts.tsx:154-157).
THEOREM ListCatchesUpHolds == StreamSpec => []ListCatchesUp
<1>1. StreamInv => ListCatchesUp
  BY DEF StreamInv, CatchingUp, Current, ListCatchesUp, Settled, NoLoad
<1> QED BY <1>1, StreamInvariant, PTL

-----------------------------------------------------------------------------
(* The accounts. *)

AcctInv == AcctTypeOK /\ AdminRemains

\* A change that assertNotLastActiveAdmin has let through leaves one: the
\* account itself or another.
LEMMA CheckedChange ==
    ASSUME AcctInv, NEW u \in Users,
           NEW row \in [status : Statuses, role : Roles], MayBecome(u, row),
           users' = [users EXCEPT ![u] = row]
    PROVE  AdminRemains'
<1> USE DEF AcctInv, AcctTypeOK
<1>1. CASE MayAdminister(u) /\ row # users[u]
  <2>1. PICK v \in Users \ {u} : MayAdminister(v)
    BY <1>1 DEF MayBecome, OthersRemain
  <2>2. users'[v] = users[v]
    BY <2>1
  <2> QED BY <2>1, <2>2 DEF MayAdminister, AdminRemains
<1>2. CASE MayAdminister(u) /\ row = users[u]
  <2>1. users'[u] = users[u]
    BY <1>2
  <2> QED BY <1>2, <2>1 DEF MayAdminister, AdminRemains
<1>3. CASE ~MayAdminister(u)
  <2>1. PICK v \in Users : MayAdminister(v)
    BY DEF AdminRemains
  <2>2. v # u
    BY <1>3, <2>1
  <2>3. users'[v] = users[v]
    BY <2>2
  <2> QED BY <2>1, <2>3 DEF MayAdminister, AdminRemains
<1> QED BY <1>1, <1>2, <1>3

\* What is provisioned was free, so it was no administrator's.
LEMMA AdministratorsStay ==
    ASSUME AcctInv,
           \A v \in Users : ~Free(v) => users'[v] = users[v]
    PROVE  AdminRemains'
<1>1. PICK v \in Users : MayAdminister(v)
  BY DEF AcctInv, AdminRemains
<1>2. ~Free(v)
  BY <1>1 DEF MayAdminister, Row, Free
<1>3. users'[v] = users[v]
  BY <1>2
<1> QED BY <1>1, <1>3 DEF MayAdminister, AdminRemains

\* A request holds what requireRole and the schemas have let in.
LEMMA BodyTyped ==
    ASSUME AcctTypeOK, NEW c \in Calls, calls[c] # NoCallYet
    PROVE  calls[c] \in [by : Users, body : Bodies]
BY DEF AcctTypeOK

LEMMA Provisioned == \A v \in Roles : Row("active", v) \in [status : Statuses, role : Roles]
BY DEF Row, Roles, Statuses

\* Each request and the seeding script keep the invariant.
LEMMA AcctStep == AcctInv /\ [AcctNext]_acctVars => AcctInv'
<1> SUFFICES ASSUME AcctInv, [AcctNext]_acctVars PROVE AcctInv'
  OBVIOUS
<1> USE DEF AcctInv
<1> DEFINE Known == {NoRow} \cup [status : Statuses, role : Roles]
<1>0. ASSUME NEW c \in Calls, Done(c)
      PROVE  calls' \in [Calls -> {NoCallYet} \cup [by : Users, body : Bodies]]
  BY <1>0 DEF Done, AcctTypeOK
<1>1. ASSUME NEW c \in Calls, Authorize(c) PROVE AcctInv'
  <2>1. PICK u \in Users, b \in Bodies : calls' = [calls EXCEPT ![c] = [by |-> u, body |-> b]]
    BY <1>1 DEF Authorize
  <2>2. calls' \in [Calls -> {NoCallYet} \cup [by : Users, body : Bodies]]
    BY <2>1 DEF AcctTypeOK
  <2>3. users' = users
    BY <1>1 DEF Authorize
  <2> QED BY <2>2, <2>3 DEF AcctTypeOK, AdminRemains, MayAdminister
<1>2. ASSUME NEW c \in Calls, Refused(c) PROVE AcctInv'
  BY <1>0, <1>2 DEF Refused, AcctTypeOK, AdminRemains, MayAdminister
<1>3. ASSUME NEW c \in Calls, PatchRole(c) PROVE AcctInv'
  <2> DEFINE b == calls[c].body
  <2> DEFINE row == [users[b.of] EXCEPT !.role = b.value]
  <2>1. b \in Bodies /\ b.kind = "role"
    BY <1>3, BodyTyped DEF PatchRole
  <2>2. b.of \in Users /\ b.value \in Roles
    BY <2>1 DEF Bodies
  <2>3. users[b.of] \in [status : Statuses, role : Roles]
    BY <1>3, <2>2 DEF PatchRole, MayBecome, AcctTypeOK, NoRow, Row
  <2>4. row \in [status : Statuses, role : Roles]
    BY <2>2, <2>3
  <2>5. MayBecome(b.of, row) /\ users' = [users EXCEPT ![b.of] = row]
    BY <1>3 DEF PatchRole
  <2>6. AdminRemains'
    BY <2>2, <2>4, <2>5, CheckedChange
  <2>7. users' \in [Users -> Known]
    BY <2>2, <2>4, <2>5 DEF AcctTypeOK
  <2> QED BY <1>0, <1>3, <2>6, <2>7 DEF PatchRole, AcctTypeOK
<1>4. ASSUME NEW c \in Calls, PatchStatus(c) PROVE AcctInv'
  <2> DEFINE b == calls[c].body
  <2> DEFINE row == [users[b.of] EXCEPT !.status = b.value]
  <2>1. b \in Bodies /\ b.kind = "status"
    BY <1>4, BodyTyped DEF PatchStatus
  <2>2. b.of \in Users /\ b.value \in Statuses
    BY <2>1 DEF Bodies
  <2>3. users[b.of] \in [status : Statuses, role : Roles]
    BY <1>4, <2>2 DEF PatchStatus, MayBecome, AcctTypeOK, NoRow, Row
  <2>4. row \in [status : Statuses, role : Roles]
    BY <2>2, <2>3
  <2>5. MayBecome(b.of, row) /\ users' = [users EXCEPT ![b.of] = row]
    BY <1>4 DEF PatchStatus
  <2>6. AdminRemains'
    BY <2>2, <2>4, <2>5, CheckedChange
  <2>7. users' \in [Users -> Known]
    BY <2>2, <2>4, <2>5 DEF AcctTypeOK
  <2> QED BY <1>0, <1>4, <2>6, <2>7 DEF PatchStatus, AcctTypeOK
<1>5. ASSUME NEW c \in Calls, CreateUser(c) PROVE AcctInv'
  <2> DEFINE b == calls[c].body
  <2>1. b \in Bodies /\ b.kind = "create"
    BY <1>5, BodyTyped DEF CreateUser
  <2>2. b.of \in Users /\ b.value \in Roles
    BY <2>1 DEF Bodies
  <2>3. users' = [users EXCEPT ![b.of] = Row("active", b.value)] /\ Free(b.of)
    BY <1>5 DEF CreateUser
  <2>4. AdminRemains'
    <3>1. \A v \in Users : ~Free(v) => users'[v] = users[v]
      BY <2>3 DEF AcctTypeOK
    <3> QED BY <3>1, AdministratorsStay
  <2>5. users' \in [Users -> Known]
    BY <2>2, <2>3, Provisioned DEF AcctTypeOK
  <2> QED BY <1>0, <1>5, <2>4, <2>5 DEF CreateUser, AcctTypeOK
<1>6. ASSUME NEW c \in Calls, Import(c) PROVE AcctInv'
  <2> DEFINE b == calls[c].body
  <2>1. b \in Bodies /\ b.kind = "import"
    BY <1>6, BodyTyped DEF Import
  <2>2. b.value \in Roles
    BY <2>1 DEF Bodies
  <2>3. users' = [u \in Users |-> IF u \in b.of /\ Free(u) THEN Row("active", b.value) ELSE users[u]]
    BY <1>6 DEF Import
  <2>4. AdminRemains'
    <3>1. \A v \in Users : ~Free(v) => users'[v] = users[v]
      BY <2>3
    <3> QED BY <3>1, AdministratorsStay
  <2>5. users' \in [Users -> Known]
    BY <2>2, <2>3, Provisioned DEF AcctTypeOK
  <2> QED BY <1>0, <1>6, <2>4, <2>5 DEF Import, AcctTypeOK
<1>7. ASSUME NEW u \in Users, SeedAdmin(u) PROVE AcctInv'
  <2>1. users' = [users EXCEPT ![u] = Row("active", "admin")] /\ calls' = calls /\ Free(u)
    BY <1>7 DEF SeedAdmin, Free, NoRow, Row
  <2>2. \A v \in Users : ~Free(v) => users'[v] = users[v]
    BY <2>1 DEF AcctTypeOK
  <2>3. users' \in [Users -> Known]
    BY <2>1, Provisioned DEF AcctTypeOK, Roles
  <2> QED BY <2>1, <2>2, <2>3, AdministratorsStay DEF AcctTypeOK
<1>8. ASSUME UNCHANGED acctVars PROVE AcctInv'
  BY <1>8 DEF acctVars, AcctTypeOK, AdminRemains, MayAdminister
<1> QED BY <1>1, <1>2, <1>3, <1>4, <1>5, <1>6, <1>7, <1>8 DEF AcctNext

\* The table has the form of its CHECK constraints, a request that of its schema.
THEOREM AcctInvariant == AcctSpec => []AcctInv
<1>1. AcctInit => AcctInv
  BY DEF AcctInit, AcctInv, AcctTypeOK, AdminRemains
<1> QED BY <1>1, AcctStep, PTL DEF AcctSpec

\* An active administrator remains, of any number of accounts and with any
\* number of requests under way (db/userRepository.ts:172-180).
THEOREM AdminRemainsHolds == AcctSpec => []AdminRemains
<1>1. AcctInv => AdminRemains
  BY DEF AcctInv
<1> QED BY <1>1, AcctInvariant, PTL
-----------------------------------------------------------------------------
(* The end of the process: what holds of each phase, and the time spent.     *)

\* Each phase is left at its cap, but for the wait for the daily report.
TimeIsAccounted ==
    /\ phase \in {"up", "drain", "mails", "report", "settle", "done"}
    /\ since \in Nat /\ time \in Nat /\ waited \in Nat
    /\ phase = "up" => time = 0 /\ since = 0
    /\ phase \in {"up", "drain", "mails"} => waited = 0
    /\ phase = "drain" => since <= DrainCap /\ time <= since
    /\ phase = "mails" => since <= MailCap /\ time <= DrainCap + since
    /\ phase = "report" => time <= DrainCap + MailCap + waited
    /\ phase = "settle" => since <= SettleCap /\ time <= DrainCap + MailCap + waited + since
    /\ phase = "done" => time <= DrainCap + MailCap + SettleCap + waited

\* From the settling on writes are refused, and the lock goes back with the
\* databases closed.
LateIsRefused ==
    /\ asked \in [Writers -> {"no", "queued", "works", "over"}]
    /\ phase \in {"settle", "done"} => refusing
    /\ ~lockFile => phase = "done"
    /\ ReleasedMeansQuiet

DownInv == TimeIsAccounted /\ LateIsRefused /\ ForcedOnlyByReport

\* A step that takes no time and stays in its phase leaves the account alone.
LEMMA SamePhase ==
    ASSUME TimeIsAccounted, UNCHANGED <<phase, since, time, waited>>
    PROVE  TimeIsAccounted'
BY DEF TimeIsAccounted

LEMMA SameEnd ==
    ASSUME ForcedOnlyByReport, UNCHANGED <<over, waited>>
    PROVE  ForcedOnlyByReport'
BY DEF ForcedOnlyByReport

LEMMA SameWrites ==
    ASSUME LateIsRefused,
           UNCHANGED <<phase, asked, refusing, lockFile>>,
           handles' = handles \/ (handles # "latched" /\ phase' = phase)
    PROVE  LateIsRefused'
BY DEF LateIsRefused, ReleasedMeansQuiet, InFlight

\* Every step keeps the three.
LEMMA DownStep == DownInv /\ [DownNext]_downVars => DownInv'
<1> SUFFICES ASSUME DownInv, [DownNext]_downVars PROVE DownInv'
  OBVIOUS
<1> USE ShutdownAssumption DEF DownInv
<1>1. CASE WorkBegins \/ WorkEnds \/ MailsSent \/ ReportBegins \/ ReportEnds
  BY <1>1, SamePhase, SameEnd, SameWrites
     DEF WorkBegins, WorkEnds, MailsSent, ReportBegins, ReportEnds
<1>2. CASE OpenAgain \/ WriterCloses
  BY <1>2, SamePhase, SameEnd, SameWrites DEF OpenAgain, WriterCloses
<1>3. ASSUME NEW w \in Writers, AskWrite(w) \/ Granted(w) \/ WriteEnds(w) PROVE DownInv'
  <2>1. UNCHANGED <<phase, since, time, waited, over, refusing, lockFile, handles>>
    BY <1>3 DEF AskWrite, Granted, WriteEnds
  <2>2. \E v \in {"queued", "works", "over"} : asked' = [asked EXCEPT ![w] = v]
    BY <1>3 DEF AskWrite, Granted, WriteEnds
  <2>3. lockFile \/ (asked' = [asked EXCEPT ![w] = "over"])
    BY <1>3 DEF AskWrite, Granted, WriteEnds, LateIsRefused
  <2>4. LateIsRefused'
    BY <2>1, <2>2, <2>3 DEF LateIsRefused, ReleasedMeansQuiet, InFlight
  <2> QED BY <2>1, <2>4, SamePhase, SameEnd
<1>4. CASE BeginDrain \/ Drained \/ MailsDrained \/ ReportStopped
  <2>1. TimeIsAccounted'
    BY <1>4 DEF BeginDrain, Drained, MailsDrained, ReportStopped, NowIn, TimeIsAccounted
  <2>2. LateIsRefused'
    BY <1>4 DEF BeginDrain, Drained, MailsDrained, ReportStopped, NowIn, LateIsRefused,
                ReleasedMeansQuiet, InFlight
  <2>3. UNCHANGED <<over, waited>>
    BY <1>4 DEF BeginDrain, Drained, MailsDrained, ReportStopped
  <2> QED BY <2>1, <2>2, <2>3, SameEnd
<1>5. CASE Close
  <2>1. TimeIsAccounted'
    BY <1>5 DEF Close, NowIn, TimeIsAccounted
  <2>2. LateIsRefused'
    BY <1>5 DEF Close, NowIn, LateIsRefused, ReleasedMeansQuiet, InFlight
  <2> QED BY <1>5, <2>1, <2>2, SameEnd DEF Close
<1>6. CASE Exit \/ ShellTimesOut
  <2>1. UNCHANGED <<phase, since, time, waited, asked, refusing, handles, lockFile>>
    BY <1>6 DEF Exit, ShellTimesOut
  <2>2. TimeIsAccounted' /\ LateIsRefused'
    BY <2>1, SamePhase, SameWrites
  <2>3. ForcedOnlyByReport'
    BY <1>6, <2>1 DEF Exit, ShellTimesOut, ForcedOnlyByReport, TimeIsAccounted
  <2> QED BY <2>2, <2>3
<1>7. CASE Pass
  <2>1. TimeIsAccounted'
    BY <1>7 DEF Pass, TimerDue, TimeIsAccounted
  <2>2. LateIsRefused'
    BY <1>7, SameWrites DEF Pass
  <2>3. ForcedOnlyByReport'
    BY <1>7 DEF Pass, Lives, ForcedOnlyByReport
  <2> QED BY <2>1, <2>2, <2>3
<1>8. CASE UNCHANGED downVars
  BY <1>8, SamePhase, SameEnd, SameWrites DEF downVars
<1> QED BY <1>1, <1>2, <1>3, <1>4, <1>5, <1>6, <1>7, <1>8 DEF DownNext

\* The account of the time and the refusals, of any caps that fit and any
\* number of writes.
THEOREM DownInvariant == DownSpec => []DownInv
<1>1. DownInit => DownInv
  BY ShutdownAssumption DEF DownInit, DownInv, TimeIsAccounted, LateIsRefused,
     ReleasedMeansQuiet, ForcedOnlyByReport
<1> QED BY <1>1, DownStep, PTL DEF DownSpec

\* The lock is given back only when nothing writes or will (index.ts:1079-1134).
THEOREM ReleasedMeansQuietHolds == DownSpec => []ReleasedMeansQuiet
<1>1. DownInv => ReleasedMeansQuiet
  BY DEF DownInv, LateIsRefused
<1> QED BY <1>1, DownInvariant, PTL

\* The shell quits over the drain for the daily report only
\* (electron/main.js:80-91).
THEOREM ForcedOnlyByReportHolds == DownSpec => []ForcedOnlyByReport
<1>1. DownInv => ForcedOnlyByReport
  BY DEF DownInv
<1> QED BY <1>1, DownInvariant, PTL
-----------------------------------------------------------------------------
(* The intake of searches: the books of charges, and the entries of ids.     *)

Kinds == {"json", "stream", "bulk"}
Asks == [kind : Kinds, id : Ids \cup {NoId}, by : {"token", "none"},
         pc : {"storage", "admitted"}]
Runs == [kind : Kinds, id : Ids \cup {NoId}, pc : {"run", "held"}, late : BOOLEAN]
Quiet == {NoQuery, [pc |-> "done"]}
QueryTyped == query \in [Queries -> Quiet \cup Asks \cup Runs]

\* What was let in is what was charged, but for the records that failed.
ChargesMatch ==
    /\ charged \in [{"token", "none"} -> Nat]
    /\ let \in [{"token", "all", "free"} -> Nat]
    /\ let.token = charged.token /\ charged.token <= TokenCap
    /\ let.all = charged.token + charged.none + let.free
    /\ charged.token + charged.none <= OwnerCap

IntakeInv ==
    /\ QueryTyped /\ key \in [Ids -> SUBSET Queries]
    /\ ChargesMatch /\ KeyMeansOneRun

\* A request by what it is about to do.
LEMMA AskOf ==
    ASSUME QueryTyped, NEW q \in Queries, query[q].pc \in {"storage", "admitted"}
    PROVE  query[q] \in Asks
BY DEF QueryTyped, Quiet, NoQuery, Runs

LEMMA RunOf ==
    ASSUME QueryTyped, NEW q \in Queries, AtWork(q)
    PROVE  query[q] \in Runs
BY DEF QueryTyped, Quiet, NoQuery, Asks, AtWork

\* Nobody begins or ends.
LEMMA SameRuns ==
    ASSUME KeyMeansOneRun, UNCHANGED <<key, outlived>>,
           \A q \in Queries : AtWork(q)' = AtWork(q)
                              /\ (AtWork(q) => query'[q].id = query[q].id)
    PROVE  KeyMeansOneRun'
<1>1. \A i \in Ids : OfId(i)' = OfId(i)
  BY DEF OfId
<1> QED BY <1>1 DEF KeyMeansOneRun

LEMMA SettledTyped ==
    ASSUME QueryTyped, NEW q \in Queries, Settle(q)
    PROVE  /\ QueryTyped'
           /\ \A p \in Queries : AtWork(p)' = (AtWork(p) /\ p # q)
           /\ \A p \in Queries \ {q} : query'[p] = query[p]
BY DEF QueryTyped, Settle, Quiet, AtWork

\* A request that is not at work is answered, or goes on.
LEMMA AnsweredEarly ==
    ASSUME IntakeInv, NEW q \in Queries, ~AtWork(q), Settle(q),
           UNCHANGED <<key, outlived, charged, let>>
    PROVE  IntakeInv'
<1>1. QueryTyped' /\ \A p \in Queries : AtWork(p)' = (AtWork(p) /\ p # q)
  BY SettledTyped DEF IntakeInv
<1>2. \A p \in Queries \ {q} : query'[p] = query[p]
  BY SettledTyped DEF IntakeInv
<1>3. \A p \in Queries : AtWork(p)' = AtWork(p)
                         /\ (AtWork(p) => query'[p].id = query[p].id)
  BY <1>1, <1>2 DEF AtWork
<1>4. KeyMeansOneRun'
  BY <1>3, SameRuns DEF IntakeInv
<1> QED BY <1>1, <1>4 DEF IntakeInv, ChargesMatch

\* A run ends, and takes the entry of its id along.
LEMMA Ended ==
    ASSUME IntakeInv, NEW q \in Queries, AtWork(q), Ends(q),
           UNCHANGED <<outlived, charged, let>>
    PROVE  IntakeInv'
<1>1. query[q].id \in Ids \cup {NoId}
  BY RunOf DEF IntakeInv, Runs
<1>2. QueryTyped' /\ key' \in [Ids -> SUBSET Queries]
  BY <1>1, SettledTyped DEF IntakeInv, Ends, SetKey
<1>3. \A i \in Ids : OfId(i)' = OfId(i) \ {q}
  BY SettledTyped DEF IntakeInv, Ends, OfId
<1>4. \A i \in Ids : i = query[q].id => key'[i] = {}
  BY <1>1, IntakeAssumption DEF IntakeInv, Ends, SetKey
<1>5. \A i \in Ids : i # query[q].id => key'[i] = key[i] /\ q \notin OfId(i)
  BY <1>1 DEF IntakeInv, Ends, SetKey, OfId
<1>6. KeyMeansOneRun'
  <2> SUFFICES ASSUME NEW i \in Ids
               PROVE  /\ key'[i] \subseteq OfId(i)'
                      /\ i \notin outlived => /\ OfId(i)' = key'[i]
                                              /\ \A p1, p2 \in OfId(i)' : p1 = p2
    BY DEF KeyMeansOneRun
  <2>1. CASE i = query[q].id
    <3>1. q \in OfId(i)
      BY <2>1 DEF OfId
    <3>2. key'[i] \subseteq OfId(i)'
      BY <1>4, <2>1
    <3>3. i \notin outlived => OfId(i) = {q}
      BY <3>1 DEF IntakeInv, KeyMeansOneRun
    <3>4. i \notin outlived => OfId(i)' = {}
      BY <1>3, <3>3
    <3> QED BY <1>4, <2>1, <3>2, <3>4
  <2>2. CASE i # query[q].id
    BY <1>3, <1>5, <2>2 DEF IntakeInv, KeyMeansOneRun
  <2> QED BY <2>1, <2>2
<1> QED BY <1>2, <1>6 DEF IntakeInv, ChargesMatch

\* The entry of a run expires.
LEMMA Expired ==
    ASSUME IntakeInv, NEW q \in Queries, AtWork(q), KeyExpires(q),
           UNCHANGED <<charged, let>>, QueryTyped',
           \A p \in Queries : AtWork(p)' = AtWork(p)
                              /\ (AtWork(p) => query'[p].id = query[p].id)
    PROVE  IntakeInv'
<1>1. key' \in [Ids -> SUBSET Queries]
  BY DEF IntakeInv, KeyExpires
<1>2. \A i \in Ids : OfId(i)' = OfId(i)
  BY DEF OfId
<1>3. \A i \in Ids : i = query[q].id => i \in outlived' /\ key'[i] \subseteq key[i]
  BY DEF IntakeInv, KeyExpires
<1>4. \A i \in Ids : i # query[q].id => key'[i] = key[i] /\ (i \in outlived' <=> i \in outlived)
  BY DEF IntakeInv, KeyExpires, KeyMeansOneRun, OfId
<1>5. KeyMeansOneRun'
  BY <1>2, <1>3, <1>4 DEF IntakeInv, KeyMeansOneRun
<1> QED BY <1>1, <1>5 DEF IntakeInv, ChargesMatch

\* A request is let in, with a charge or with a record that has failed.
LEMMA Admitted ==
    ASSUME IntakeInv, NEW q \in Queries, Stage(q, "storage"),
           query' = [query EXCEPT ![q].pc = "admitted"],
           UNCHANGED <<key, outlived>>
    PROVE  QueryTyped' /\ KeyMeansOneRun'
<1>1. query[q] \in Asks
  BY AskOf DEF IntakeInv, Stage
<1>2. [query[q] EXCEPT !.pc = "admitted"] \in Asks
  BY <1>1 DEF Asks
<1>3. query' = [query EXCEPT ![q] = [query[q] EXCEPT !.pc = "admitted"]]
  OBVIOUS
<1>4. QueryTyped'
  BY <1>2, <1>3 DEF IntakeInv, QueryTyped
<1>5. \A p \in Queries : AtWork(p)' = AtWork(p)
                         /\ (AtWork(p) => query'[p].id = query[p].id)
  BY <1>1, <1>2, <1>3 DEF IntakeInv, QueryTyped, AtWork, Stage, Asks
<1> QED BY <1>4, <1>5, SameRuns DEF IntakeInv

LEMMA IntakeStep == IntakeInv /\ [IntakeNext]_intakeVars => IntakeInv'
<1> SUFFICES ASSUME IntakeInv, [IntakeNext]_intakeVars PROVE IntakeInv'
  OBVIOUS
<1>1. ASSUME NEW q \in Queries, NEW shape \in Shapes, Receive(q, shape) PROVE IntakeInv'
  <2>1. ~AtWork(q)
    BY <1>1 DEF Receive, NoQuery, AtWork
  <2>2. CASE Settle(q)
    BY <1>1, <2>1, <2>2, AnsweredEarly DEF Receive
  <2>3. CASE query' = [query EXCEPT ![q] = [kind |-> shape.kind, id |-> shape.id,
                                            by |-> shape.by, pc |-> "storage"]]
    <3>1. QueryTyped'
      BY <2>3, IntakeAssumption DEF IntakeInv, QueryTyped, Asks, Kinds
    <3>2. KeyMeansOneRun'
      BY <1>1, <2>1, <2>3, SameRuns DEF Receive, IntakeInv, QueryTyped, AtWork
    <3> QED BY <1>1, <3>1, <3>2 DEF Receive, IntakeInv, ChargesMatch
  <2> QED BY <1>1, <2>2, <2>3 DEF Receive
<1>2. ASSUME NEW q \in Queries,
             StorageRefuses(q) \/ CapRefuses(q) \/ BodyRefused(q) \/ DuplicateRefused(q)
      PROVE  IntakeInv'
  <2>1. ~AtWork(q) /\ Settle(q) /\ UNCHANGED <<key, outlived, charged, let>>
    BY <1>2 DEF StorageRefuses, CapRefuses, BodyRefused, DuplicateRefused, Measured, Stage, AtWork
  <2> QED BY <2>1, AnsweredEarly
<1>3. ASSUME NEW q \in Queries, Charge(q) PROVE IntakeInv'
  <2>1. query[q] \in Asks /\ Stage(q, "storage")
    BY <1>3, AskOf DEF Charge, Measured, Stage, IntakeInv
  <2>2. QueryTyped' /\ KeyMeansOneRun'
    BY <1>3, <2>1, Admitted DEF Charge, LetIn
  <2>3. ChargesMatch'
    <3>1. CASE query[q].by = "token"
      BY <1>3, <3>1, IntakeAssumption
         DEF Charge, LetIn, OverCap, OwnerRefuses, TokenRefuses, IntakeInv, ChargesMatch
    <3>2. CASE query[q].by = "none"
      BY <1>3, <3>2, IntakeAssumption
         DEF Charge, LetIn, OverCap, OwnerRefuses, TokenRefuses, IntakeInv, ChargesMatch
    <3> QED BY <2>1, <3>1, <3>2 DEF Asks
  <2> QED BY <1>3, <2>2, <2>3 DEF Charge, IntakeInv
<1>4. ASSUME NEW q \in Queries, ChargeFails(q) PROVE IntakeInv'
  <2>1. Stage(q, "storage") /\ ~AtWork(q) /\ UNCHANGED <<key, charged, outlived>>
    BY <1>4 DEF ChargeFails, Trip, Measured, Stage, AtWork
  <2>2. CASE Settle(q) /\ UNCHANGED let
    BY <2>1, <2>2, AnsweredEarly
  <2>3. CASE query[q].by # "token" /\ LetIn(q, 1)
    <3>1. QueryTyped' /\ KeyMeansOneRun'
      BY <2>1, <2>3, Admitted DEF LetIn
    <3>2. ChargesMatch'
      BY <2>1, <2>3 DEF LetIn, IntakeInv, ChargesMatch
    <3> QED BY <2>1, <3>1, <3>2 DEF IntakeInv
  <2> QED BY <1>4, <2>2, <2>3 DEF ChargeFails
<1>5. ASSUME NEW q \in Queries, Launch(q) PROVE IntakeInv'
  <2>1. query[q] \in Asks /\ ~AtWork(q)
    BY <1>5, AskOf DEF Launch, Stage, IntakeInv, AtWork
  <2>2. CASE Settle(q) /\ UNCHANGED key
    BY <1>5, <2>1, <2>2, AnsweredEarly DEF Launch
  <2>3. CASE /\ query' = [query EXCEPT ![q] = [kind |-> query[q].kind, id |-> query[q].id,
                                               pc |-> "run", late |-> FALSE]]
             /\ SetKey(query[q].id, {q})
    <3>1. query[q].id \in Ids \cup {NoId} /\ query[q].kind \in Kinds
      BY <2>1 DEF Asks
    <3>2. QueryTyped' /\ key' \in [Ids -> SUBSET Queries]
      BY <2>3, <3>1 DEF IntakeInv, QueryTyped, Runs, SetKey
    <3>3. \A i \in Ids : OfId(i)' = IF i = query[q].id THEN OfId(i) \cup {q} ELSE OfId(i)
      BY <2>1, <2>3 DEF IntakeInv, QueryTyped, OfId, AtWork
    <3>4. \A i \in Ids : i = query[q].id => key[i] = {} /\ key'[i] = {q}
      BY <1>5, <2>3, <3>1, IntakeAssumption DEF Launch, Duplicate, SetKey, IntakeInv
    <3>5. \A i \in Ids : i # query[q].id => key'[i] = key[i]
      BY <2>3, <3>1 DEF SetKey, IntakeInv
    <3>6. KeyMeansOneRun'
      BY <1>5, <3>3, <3>4, <3>5 DEF Launch, IntakeInv, KeyMeansOneRun
    <3> QED BY <1>5, <3>2, <3>6 DEF Launch, IntakeInv, ChargesMatch
  <2> QED BY <1>5, <2>2, <2>3 DEF Launch
<1>6. ASSUME NEW q \in Queries, Hold(q) \/ Proceed(q) PROVE IntakeInv'
  <2>1. AtWork(q) /\ query[q] \in Runs
    BY <1>6, RunOf DEF Hold, Proceed, Stage, AtWork, IntakeInv
  <2>2. PICK pc1 \in {"run", "held"} : query' = [query EXCEPT ![q] = [query[q] EXCEPT !.pc = pc1]]
    BY <1>6 DEF Hold, Proceed
  <2>3. [query[q] EXCEPT !.pc = pc1] \in Runs /\ [query[q] EXCEPT !.pc = pc1].id = query[q].id
    BY <2>1 DEF Runs
  <2>4. QueryTyped'
    BY <2>2, <2>3 DEF IntakeInv, QueryTyped
  <2>5. KeyMeansOneRun'
    BY <1>6, <2>1, <2>2, <2>3, SameRuns DEF Hold, Proceed, IntakeInv, QueryTyped, AtWork, Runs
  <2> QED BY <1>6, <2>4, <2>5 DEF Hold, Proceed, IntakeInv, ChargesMatch
<1>7. ASSUME NEW q \in Queries, TimeUp(q) PROVE IntakeInv'
  <2>1. AtWork(q) /\ query[q] \in Runs
    BY <1>7, RunOf DEF TimeUp, IntakeInv
  <2>2. query' = [query EXCEPT ![q] = [query[q] EXCEPT !.late = TRUE]]
    BY <1>7 DEF TimeUp
  <2>3. [query[q] EXCEPT !.late = TRUE] \in Runs /\ [query[q] EXCEPT !.late = TRUE].id = query[q].id
    BY <2>1 DEF Runs
  <2>4. QueryTyped'
    BY <2>2, <2>3 DEF IntakeInv, QueryTyped
  <2>5. \A p \in Queries : AtWork(p)' = AtWork(p)
                           /\ (AtWork(p) => query'[p].id = query[p].id)
    BY <2>1, <2>2, <2>3 DEF IntakeInv, QueryTyped, AtWork, Runs
  <2>6. CASE UNCHANGED <<key, outlived>>
    BY <1>7, <2>4, <2>5, <2>6, SameRuns DEF TimeUp, IntakeInv, ChargesMatch
  <2>7. CASE KeyExpires(q)
    BY <1>7, <2>1, <2>4, <2>5, <2>7, Expired DEF TimeUp
  <2> QED BY <1>7, <2>6, <2>7 DEF TimeUp
<1>8. ASSUME NEW q \in Queries, BulkKeyExpires(q) PROVE IntakeInv'
  BY <1>8, Expired DEF BulkKeyExpires, IntakeInv, QueryTyped, AtWork
<1>9. ASSUME NEW q \in Queries, Finish(q) \/ BulkReturns(q) PROVE IntakeInv'
  BY <1>9, Ended DEF Finish, BulkReturns, Stage, AtWork
<1>10. ASSUME UNCHANGED <<query, key, charged, outlived, let>> PROVE IntakeInv'
  BY <1>10 DEF IntakeInv, QueryTyped, ChargesMatch, KeyMeansOneRun, OfId, AtWork
<1>11. ASSUME (\E what \in {"backup", "restore"} : Pause(what)) \/ PauseEnds \/ UNCHANGED intakeVars
       PROVE  IntakeInv'
  BY <1>10, <1>11 DEF Pause, PauseEnds, intakeVars
<1> QED BY <1>1, <1>2, <1>3, <1>4, <1>5, <1>6, <1>7, <1>8, <1>9, <1>11 DEF IntakeNext

\* The books and the entries, of any number of requests, ids and caps.
THEOREM IntakeInvariant == IntakeSpec => []IntakeInv
<1>1. IntakeInit => IntakeInv
  BY IntakeAssumption DEF IntakeInit, IntakeInv, QueryTyped, Quiet, ChargesMatch, KeyMeansOneRun,
     OfId, AtWork, NoQuery
<1> QED BY <1>1, IntakeStep, PTL DEF IntakeSpec

\* No more requests get a captcha than the caps allow (rnpmGuards.ts:125-232).
THEOREM CapsHoldHolds == IntakeSpec => []CapsHold
<1>1. IntakeInv => CapsHold
  BY IntakeAssumption DEF IntakeInv, ChargesMatch, CapsHold
<1> QED BY <1>1, IntakeInvariant, PTL

\* An entry is a run's, and a run within its time has its entry
\* (routes/rnpm.ts:159-190).
THEOREM KeyMeansOneRunHolds == IntakeSpec => []KeyMeansOneRun
<1>1. IntakeInv => KeyMeansOneRun
  BY DEF IntakeInv
<1> QED BY <1>1, IntakeInvariant, PTL

-----------------------------------------------------------------------------
(* The search for court files: where each court of it is.                   *)

Searching ==
    [pc : {"idle", "one", "all", "fanout", "200", "413", "500"},
     upTo : 0..NCourts, next : 1..(NCourts + 1),
     asking : SUBSET Courts, got : SUBSET Courts, failed : SUBSET Courts,
     budget : BOOLEAN, late : BOOLEAN, gone : BOOLEAN]

\* Where each court of a search is: not yet taken, asked, answered or failed;
\* only a search whose client has gone loses some.
Partition(s) ==
    /\ s.pc \in {"idle", "one", "all"} =>
         /\ s.next = 1 /\ s.asking = {} /\ s.got = {} /\ s.failed = {} /\ ~s.budget
    /\ s.pc \in {"one", "all", "fanout"} => s.upTo >= 1
    /\ s.pc = "fanout" =>
         /\ s.next <= s.upTo + 1
         /\ s.asking \cup s.got \cup s.failed \subseteq 1..(s.next - 1)
         /\ ~s.gone => s.asking \cup s.got \cup s.failed = 1..(s.next - 1)
         /\ s.asking \cap s.got = {} /\ s.asking \cap s.failed = {} /\ s.got \cap s.failed = {}
    /\ s.pc = "200" =>
         /\ s.got \cup s.failed = 1..s.upTo /\ s.got \cap s.failed = {}
         /\ s.failed # 1..s.upTo /\ RowsOf(Distinct, s.got) <= MaxRows

FallsBack(s) == s.pc = "fanout" /\ s.budget
FallingBack == {r \in Searches : FallsBack(search[r])}

DosInv ==
    /\ search \in [Searches -> Searching] /\ fallbacks \in 0..MaxFallbacks
    /\ \A r \in Searches : Partition(search[r])
    /\ fallbacks = Cardinality(FallingBack)

\* A step is of one search; it is counted when it begins to fall back and when
\* it ends.
LEMMA OneSearchMoves ==
    ASSUME DosInv, NEW r \in Searches, NEW s \in Searching,
           search' = [search EXCEPT ![r] = s], Partition(s),
           \/ (FallsBack(s) <=> FallsBack(search[r])) /\ fallbacks' = fallbacks
           \/ ~FallsBack(search[r]) /\ FallsBack(s)
              /\ fallbacks < MaxFallbacks /\ fallbacks' = fallbacks + 1
           \/ FallsBack(search[r]) /\ ~FallsBack(s) /\ fallbacks' = fallbacks - 1
    PROVE  DosInv'
<1>1. search' \in [Searches -> Searching]
  BY DEF DosInv
<1>2. \A q \in Searches : Partition(search'[q])
  BY DEF DosInv
<1>3. IsFiniteSet(FallingBack)
  <2>1. FallingBack \subseteq Searches
    BY DEF FallingBack
  <2> QED BY <2>1, FS_Subset, DosareAssumption
<1>4. /\ fallbacks \in Nat /\ MaxFallbacks \in Nat /\ fallbacks <= MaxFallbacks
      /\ fallbacks = Cardinality(FallingBack)
  BY DosareAssumption DEF DosInv
<1>5. CASE (FallsBack(s) <=> FallsBack(search[r])) /\ fallbacks' = fallbacks
  <2>1. FallingBack' = FallingBack
    BY <1>5 DEF FallingBack, DosInv
  <2> QED BY <1>1, <1>2, <1>4, <1>5, <2>1 DEF DosInv
<1>6. CASE /\ ~FallsBack(search[r]) /\ FallsBack(s)
           /\ fallbacks < MaxFallbacks /\ fallbacks' = fallbacks + 1
  <2>1. FallingBack' = FallingBack \cup {r} /\ r \notin FallingBack
    BY <1>6 DEF FallingBack, DosInv
  <2>2. Cardinality(FallingBack') = Cardinality(FallingBack) + 1
    BY <1>3, <2>1, FS_AddElement
  <2> QED BY <1>1, <1>2, <1>4, <1>6, <2>2 DEF DosInv
<1>7. CASE FallsBack(search[r]) /\ ~FallsBack(s) /\ fallbacks' = fallbacks - 1
  <2>1. FallingBack' = FallingBack \ {r} /\ r \in FallingBack
    BY <1>7 DEF FallingBack, DosInv
  <2>2. Cardinality(FallingBack') = Cardinality(FallingBack) - 1 /\ Cardinality(FallingBack) \in Nat
    BY <1>3, <2>1, FS_RemoveElement, FS_CardinalityType
  <2>3. Cardinality(FallingBack') \in Nat
    BY <1>3, <2>1, FS_RemoveElement, FS_CardinalityType
  <2> QED BY <1>1, <1>2, <1>4, <1>7, <2>2, <2>3 DEF DosInv
<1> QED BY <1>5, <1>6, <1>7

\* Taking the next court extends the courts taken by one.
LEMMA NextCourtTaken ==
    ASSUME NEW k \in Nat \ {0}
    PROVE  1..(k + 1 - 1) = 1..(k - 1) \cup {k} /\ k \notin 1..(k - 1)
OBVIOUS

\* An answer, of a single call or of a fan-out that has come to its end.
LEMMA Responded ==
    ASSUME DosInv, NEW r \in Searches, NEW got \in SUBSET Courts, Respond(r, got),
           got \cup search[r].failed = 1..search[r].upTo, got \cap search[r].failed = {},
           search[r].failed # 1..search[r].upTo,
           \/ ~FallsBack(search[r]) /\ fallbacks' = fallbacks
           \/ FallsBack(search[r]) /\ fallbacks' = fallbacks - 1
    PROVE  DosInv'
<1> DEFINE s == search[r]
           status == IF RowsOf(Distinct, got) <= MaxRows THEN "200" ELSE "413"
           t == [s EXCEPT !.got = got, !.asking = {}, !.pc = status]
<1>1. s \in Searching /\ search \in [Searches -> Searching]
  BY DEF DosInv
<1>2. status \in {"413", "200"}
  OBVIOUS
<1>3. search' = [search EXCEPT ![r] = t]
  BY <1>1 DEF Respond, Searching
<1>4. status = "200" => RowsOf(Distinct, got) <= MaxRows
  OBVIOUS
<1> HIDE DEF status
<1>5. t \in Searching
  BY <1>1, <1>2 DEF Searching
<1>6. Partition(t) /\ ~FallsBack(t)
  BY <1>1, <1>2, <1>4 DEF Partition, FallsBack, Searching
<1> HIDE DEF t
<1> QED BY <1>3, <1>5, <1>6, OneSearchMoves

\* Every action keeps every court of every search where it belongs.
LEMMA DosStep == ASSUME DosInv, [DosNext]_dosVars PROVE DosInv'
<1>0. CASE UNCHANGED dosVars
  BY <1>0 DEF dosVars, DosInv, FallingBack
<1> SUFFICES ASSUME NEW r \in Searches,
       \/ \E n \in 0..NCourts : Arrive(r, n)
       \/ SingleAnswers(r) \/ SingleFails(r) \/ FallBack(r)
       \/ Take(r) \/ Skip(r) \/ BudgetOut(r) \/ Leave(r) \/ FanoutEnds(r)
       \/ \E c \in Courts : Reply(r, c) \/ CourtFails(r, c)
     PROVE DosInv'
  BY <1>0 DEF DosNext
<1> DEFINE s == search[r]
<1>a. /\ s \in Searching /\ Partition(s) /\ NCourts \in Nat \ {0}
      /\ search \in [Searches -> Searching]
      /\ fallbacks \in Nat /\ MaxFallbacks \in Nat
  BY DosareAssumption DEF DosInv
<1>1. ASSUME NEW n \in 0..NCourts, Arrive(r, n) PROVE DosInv'
  <2> DEFINE t == [s EXCEPT !.pc = IF n = 0 THEN "all" ELSE IF n = 1 THEN "one" ELSE "fanout",
                            !.upTo = IF n = 0 THEN NCourts ELSE n]
  <2>1. search' = [search EXCEPT ![r] = t] /\ s = NoSearch /\ fallbacks' = fallbacks
    BY <1>1, <1>a DEF Arrive, Searching
  <2>2. t \in Searching
    <3> DEFINE toCourt == IF n = 0 THEN "all" ELSE IF n = 1 THEN "one" ELSE "fanout"
               upTo == IF n = 0 THEN NCourts ELSE n
    <3>1. toCourt \in {"all", "one", "fanout"} /\ upTo \in 0..NCourts
      BY <1>a
    <3> HIDE DEF toCourt, upTo
    <3>2. [s EXCEPT !.pc = toCourt, !.upTo = upTo] \in Searching
      BY <1>a, <3>1 DEF Searching
    <3> QED BY <3>2 DEF toCourt, upTo
  <2>3. Partition(t)
    BY <1>a, <2>1 DEF Partition, NoSearch
  <2>4. (FallsBack(t) <=> FallsBack(s))
    BY <2>1 DEF FallsBack, NoSearch
  <2> HIDE DEF t
  <2> QED BY <2>1, <2>2, <2>3, <2>4, OneSearchMoves
<1>2. ASSUME SingleAnswers(r) PROVE DosInv'
  <2>1. CASE EndWith(r, "413")
    <3> DEFINE t == [s EXCEPT !.pc = "413", !.asking = {}]
    <3>1. search' = [search EXCEPT ![r] = t] /\ s.pc \in {"one", "all"} /\ fallbacks' = fallbacks
      BY <1>2, <1>a, <2>1 DEF SingleAnswers, EndWith, Searching
    <3>2. t \in Searching
      BY <1>a DEF Searching
    <3>3. Partition(t) /\ (FallsBack(t) <=> FallsBack(s))
      BY <1>a, <3>1 DEF Partition, FallsBack, Searching
    <3> HIDE DEF t
    <3> QED BY <3>1, <3>2, <3>3, OneSearchMoves
  <2>2. CASE Respond(r, Asked(r))
    <3>1. s.pc \in {"one", "all"} /\ fallbacks' = fallbacks /\ 1..s.upTo \in SUBSET Courts
      BY <1>2, <1>a DEF SingleAnswers, Searching, Courts
    <3>2. s.failed = {} /\ s.upTo >= 1 /\ s.upTo \in Nat
      BY <1>a, <3>1 DEF Partition, Searching
    <3>3. 1..s.upTo # {}
      BY <3>2
    <3> QED BY <1>a, <2>2, <3>1, <3>2, <3>3, Responded DEF Asked, FallsBack
  <2> QED BY <1>2, <2>1, <2>2 DEF SingleAnswers
<1>3. ASSUME SingleFails(r) PROVE DosInv'
  <2> DEFINE t == [s EXCEPT !.pc = "500", !.asking = {}]
  <2>1. search' = [search EXCEPT ![r] = t] /\ s.pc \in {"one", "all"} /\ fallbacks' = fallbacks
    BY <1>3, <1>a DEF SingleFails, EndWith, Searching
  <2>2. t \in Searching
    BY <1>a DEF Searching
  <2>3. Partition(t) /\ (FallsBack(t) <=> FallsBack(s))
    BY <1>a, <2>1 DEF Partition, FallsBack, Searching
  <2> HIDE DEF t
  <2> QED BY <2>1, <2>2, <2>3, OneSearchMoves
<1>4. ASSUME FallBack(r) PROVE DosInv'
  <2> DEFINE t == [s EXCEPT !.pc = "fanout", !.budget = TRUE]
  <2>1. /\ search' = [search EXCEPT ![r] = t] /\ s.pc = "all"
        /\ fallbacks < MaxFallbacks /\ fallbacks' = fallbacks + 1
    BY <1>4, <1>a DEF FallBack, Searching
  <2>2. t \in Searching
    BY <1>a DEF Searching
  <2>3. Partition(t)
    BY <1>a, <2>1 DEF Partition, Searching
  <2>4. FallsBack(t) /\ ~FallsBack(s)
    BY <1>a, <2>1 DEF FallsBack, Searching
  <2> HIDE DEF t
  <2> QED BY <2>1, <2>2, <2>3, <2>4, OneSearchMoves
<1>5. ASSUME Take(r) PROVE DosInv'
  <2> DEFINE t == [s EXCEPT !.asking = @ \cup {s.next}, !.next = @ + 1]
  <2>1. /\ search' = [search EXCEPT ![r] = t] /\ s.pc = "fanout" /\ s.next <= s.upTo
        /\ fallbacks' = fallbacks
    BY <1>5, <1>a DEF Take, WorkerFree, Searching
  <2>2. t \in Searching
    <3>1. s.next \in 1..NCourts /\ s.next + 1 \in 1..(NCourts + 1)
      BY <1>a, <2>1 DEF Searching
    <3> QED BY <1>a, <3>1 DEF Searching, Courts
  <2>3. Partition(t) /\ (FallsBack(t) <=> FallsBack(s))
    BY <1>a, <2>1, NextCourtTaken DEF Partition, FallsBack, Searching
  <2> HIDE DEF t
  <2> QED BY <2>1, <2>2, <2>3, OneSearchMoves
<1>6. ASSUME Skip(r) PROVE DosInv'
  <2> DEFINE t == [s EXCEPT !.failed = @ \cup {s.next}, !.next = @ + 1]
  <2>1. /\ search' = [search EXCEPT ![r] = t] /\ s.pc = "fanout" /\ s.next <= s.upTo
        /\ fallbacks' = fallbacks
    BY <1>6, <1>a DEF Skip, WorkerFree, Searching
  <2>2. t \in Searching
    <3>1. s.next \in 1..NCourts /\ s.next + 1 \in 1..(NCourts + 1)
      BY <1>a, <2>1 DEF Searching
    <3> QED BY <1>a, <3>1 DEF Searching, Courts
  <2>3. Partition(t) /\ (FallsBack(t) <=> FallsBack(s))
    BY <1>a, <2>1, NextCourtTaken DEF Partition, FallsBack, Searching
  <2> HIDE DEF t
  <2> QED BY <2>1, <2>2, <2>3, OneSearchMoves
<1>7. ASSUME BudgetOut(r) PROVE DosInv'
  <2> DEFINE t == [s EXCEPT !.late = TRUE]
  <2>1. search' = [search EXCEPT ![r] = t] /\ fallbacks' = fallbacks
    BY <1>7, <1>a DEF BudgetOut, Searching
  <2>2. t \in Searching
    BY <1>a DEF Searching
  <2>3. Partition(t) /\ (FallsBack(t) <=> FallsBack(s))
    BY <1>a DEF Partition, FallsBack, Searching
  <2> HIDE DEF t
  <2> QED BY <2>1, <2>2, <2>3, OneSearchMoves
<1>8. ASSUME Leave(r) PROVE DosInv'
  <2> DEFINE t == [s EXCEPT !.gone = TRUE]
  <2>1. /\ search' = [search EXCEPT ![r] = t] /\ fallbacks' = fallbacks
        /\ s.pc \in {"one", "all", "fanout"}
    BY <1>8, <1>a DEF Leave, Searching
  <2>2. t \in Searching
    BY <1>a DEF Searching
  <2>3. Partition(t) /\ (FallsBack(t) <=> FallsBack(s))
    BY <1>a, <2>1 DEF Partition, FallsBack, Searching
  <2> HIDE DEF t
  <2> QED BY <2>1, <2>2, <2>3, OneSearchMoves
<1>9. ASSUME NEW c \in Courts, Reply(r, c) PROVE DosInv'
  <2> DEFINE t == [s EXCEPT !.asking = @ \ {c}, !.got = @ \cup {c}]
  <2>1. /\ search' = [search EXCEPT ![r] = t] /\ s.pc = "fanout" /\ c \in s.asking
        /\ fallbacks' = fallbacks
    BY <1>9, <1>a DEF Reply, Searching
  <2>2. t \in Searching
    BY <1>a DEF Searching
  <2>3. Partition(t) /\ (FallsBack(t) <=> FallsBack(s))
    BY <1>a, <2>1 DEF Partition, FallsBack, Searching
  <2> HIDE DEF t
  <2> QED BY <2>1, <2>2, <2>3, OneSearchMoves
<1>10. ASSUME NEW c \in Courts, CourtFails(r, c) PROVE DosInv'
  <2> DEFINE failed == IF s.gone THEN s.failed ELSE s.failed \cup {c}
             t == [s EXCEPT !.asking = @ \ {c}, !.failed = failed]
  <2>1. /\ search' = [search EXCEPT ![r] = t] /\ s.pc = "fanout" /\ c \in s.asking
        /\ fallbacks' = fallbacks
    BY <1>10, <1>a DEF CourtFails, Searching
  <2>2. failed \in SUBSET Courts /\ s.failed \subseteq failed /\ failed \subseteq s.failed \cup {c}
        /\ (~s.gone => c \in failed)
    BY <1>a DEF Searching
  <2> HIDE DEF failed
  <2>3. t \in Searching
    BY <1>a, <2>2 DEF Searching
  <2>4. Partition(t) /\ (FallsBack(t) <=> FallsBack(s))
    BY <1>a, <2>1, <2>2 DEF Partition, FallsBack, Searching
  <2> HIDE DEF t
  <2> QED BY <2>1, <2>3, <2>4, OneSearchMoves
<1>11. ASSUME FanoutEnds(r) PROVE DosInv'
  <2>1. /\ s.pc = "fanout" /\ s.asking = {} /\ (~WorkerFree(r) \/ s.next > s.upTo)
        /\ fallbacks' = IF s.budget THEN fallbacks - 1 ELSE fallbacks
    BY <1>11 DEF FanoutEnds
  <2>2. \/ ~FallsBack(s) /\ fallbacks' = fallbacks
        \/ FallsBack(s) /\ fallbacks' = fallbacks - 1
    BY <2>1 DEF FallsBack
  <2>3. ASSUME NEW status \in {"413", "500"}, EndWith(r, status) PROVE DosInv'
    <3> DEFINE t == [s EXCEPT !.pc = status, !.asking = {}]
    <3>1. search' = [search EXCEPT ![r] = t]
      BY <1>a, <2>3 DEF EndWith, Searching
    <3>2. t \in Searching
      BY <1>a DEF Searching
    <3>3. Partition(t) /\ ~FallsBack(t)
      BY <1>a DEF Partition, FallsBack, Searching
    <3> HIDE DEF t
    <3> QED BY <2>2, <3>1, <3>2, <3>3, OneSearchMoves
  <2>4. ASSUME Respond(r, s.got), ~s.gone, s.failed # Asked(r), ~Over(r) PROVE DosInv'
    <3>1. s.next = s.upTo + 1
      BY <1>a, <2>1, <2>4 DEF WorkerFree, Partition, Searching
    <3>2. s.got \cup s.failed = 1..s.upTo /\ s.got \cap s.failed = {} /\ s.failed # 1..s.upTo
      BY <1>a, <2>1, <2>4, <3>1 DEF Partition, Searching, Asked
    <3>3. s.got \in SUBSET Courts
      BY <1>a DEF Searching
    <3> QED BY <1>a, <2>2, <2>4, <3>2, <3>3, Responded
  <2> QED BY <1>11, <2>3, <2>4 DEF FanoutEnds
<1> QED BY <1>1, <1>2, <1>3, <1>4, <1>5, <1>6, <1>7, <1>8, <1>9, <1>10, <1>11

\* Of any number of searches, courts, workers and rows.
THEOREM DosInvariant == DosSpec => []DosInv
<1>1. DosInit => DosInv
  <2> SUFFICES ASSUME DosInit PROVE DosInv
    OBVIOUS
  <2>1. NoSearch \in Searching /\ Partition(NoSearch) /\ ~FallsBack(NoSearch)
    BY DosareAssumption DEF NoSearch, Searching, Partition, Courts, FallsBack
  <2>2. FallingBack = {}
    BY <2>1 DEF FallingBack, DosInit
  <2> QED BY <2>1, <2>2, FS_EmptySet, DosareAssumption DEF DosInit, DosInv
<1> QED BY <1>1, DosStep, PTL DEF DosSpec

\* Every court of a search is in its answer, with its rows or among the failed,
\* and a fallback is counted as long as it runs (dosareFanout.ts:26-110).
THEOREM AnswerIsAccountedHolds == DosSpec => []AnswerIsAccounted
<1>1. DosInv => AnswerIsAccounted
  BY DEF DosInv, Partition, AnswerIsAccounted, FallingBack, FallsBack, Asked
<1> QED BY <1>1, DosInvariant, PTL
-----------------------------------------------------------------------------
(* All files of a range: no day is lost between months and halves, and every  *)
(* number is counted once.                                                    *)

Bounds(c, day) == c.from \in Nat /\ c.to \in Nat /\ c.from <= day /\ day <= c.to

MoreTyped ==
    /\ registry \in SUBSET Files /\ range \in Days \X Days
    /\ had \subseteq existing /\ existing \in SUBSET Numbers /\ found \in SUBSET Numbers
    /\ fresh \subseteq existing \ had
    /\ court \in 1..(NChosen + 1) /\ done \in Nat
    /\ sent \in [Numbers -> Nat] /\ total \in Nat
    /\ stopped \in {"no", "client", "timeout"}

\* Whatever has become known since the start was sent once, and is in the total
\* or in this court's.
Tallied ==
    /\ \A n \in Numbers : sent[n] = IF n \in existing \ had THEN 1 ELSE 0
    /\ total = Cardinality((existing \ had) \ fresh)

Closed ==
    /\ court > NChosen => pending = {} /\ found = {} /\ fresh = {}
    /\ end = "done" => court > NChosen /\ stopped = "no"

\* The files of the courts that are done are known; those of this court, in the
\* months that are done, have been found or are being asked for.
Covered ==
    stopped = "no" /\ ~warned =>
      \A f \in registry : range[1] <= f.day /\ f.day <= range[2] =>
        /\ f.court < court => f.numar \in existing
        /\ f.court = court =>
             \A n \in 1..done : Bounds(Interval(range, n), f.day) =>
               f.numar \in found \cup existing \/ \E c \in pending : Bounds(c, f.day)

MoreInv == MoreTyped /\ Tallied /\ Closed /\ Covered

LEMMA MoreFacts ==
  /\ IsFiniteSet(Numbers) /\ NChosen \in Nat /\ Parallel \in Nat \ {0}
  /\ Len(MonthEnds) \in Nat \ {0} /\ DOMAIN MonthEnds = 1..Len(MonthEnds)
  /\ \A m \in DOMAIN MonthEnds : MonthEnds[m] \in Nat
  /\ Days \subseteq Nat
  /\ \A f \in Files : f.day \in Nat /\ f.court \in 1..NChosen /\ f.numar \in Numbers
<1>1. IsFiniteSet(Numbers)
  <2> DEFINE numar == [f \in Files |-> f.numar]
  <2>1. numar \in Surjection(Files, Numbers)
    BY DEF Surjection, Numbers
  <2> HIDE DEF numar
  <2> QED BY <2>1, MoreAssumption, FS_Surjection
<1>2. Len(MonthEnds) \in Nat \ {0} /\ DOMAIN MonthEnds = 1..Len(MonthEnds)
  BY MoreAssumption
<1>3. \A m \in DOMAIN MonthEnds : MonthEnds[m] \in Nat
  BY MoreAssumption
<1>4. Days \subseteq Nat
  BY DEF Days
<1> QED BY <1>1, <1>2, <1>3, <1>4, MoreAssumption DEF Numbers

LEMMA MonthsFinite ==
  ASSUME NEW d
  PROVE  IsFiniteSet(MonthsOf(d)) /\ Cardinality(MonthsOf(d)) \in Nat
<1>1. MonthsOf(d) \in SUBSET (1..Len(MonthEnds)) /\ Len(MonthEnds) \in Int
  BY MoreFacts DEF MonthsOf
<1>2. IsFiniteSet(1..Len(MonthEnds))
  BY <1>1, FS_Interval
<1>3. IsFiniteSet(MonthsOf(d))
  BY <1>1, <1>2, FS_Subset
<1> QED BY <1>3, FS_CardinalityType

\* The months a range meets have each a rank of their own, from 1 on.
LEMMA MonthsRanked ==
  ASSUME NEW d \in Days \X Days, NEW m \in MonthsOf(d)
  PROVE  /\ Cardinality({k \in MonthsOf(d) : k <= m}) \in 1..Cardinality(MonthsOf(d))
         /\ \A l \in MonthsOf(d) :
              Cardinality({k \in MonthsOf(d) : k <= l}) = Cardinality({k \in MonthsOf(d) : k <= m})
                => l = m
<1> DEFINE Upto(l) == {k \in MonthsOf(d) : k <= l}
<1>1. MonthsOf(d) \subseteq Nat
  BY MoreFacts DEF MonthsOf
<1>2. IsFiniteSet(MonthsOf(d))
  BY MonthsFinite
<1>3. \A l \in MonthsOf(d) : Upto(l) \in SUBSET MonthsOf(d) /\ l \in Upto(l) /\ l \in Nat
  BY <1>1
<1>4. \A l \in MonthsOf(d) : IsFiniteSet(Upto(l)) /\ Cardinality(Upto(l)) \in Nat
  BY <1>2, <1>3, FS_Subset, FS_CardinalityType
<1>5. Cardinality(Upto(m)) # 0
  BY <1>3, <1>4, FS_EmptySet
<1>6. Cardinality(Upto(m)) <= Cardinality(MonthsOf(d)) /\ Cardinality(MonthsOf(d)) \in Nat
  BY <1>2, <1>3, FS_Subset, FS_CardinalityType
<1>7. ASSUME NEW l \in MonthsOf(d), Cardinality(Upto(l)) = Cardinality(Upto(m)) PROVE l = m
  <2>1. CASE l <= m
    <3>1. Upto(l) \in SUBSET Upto(m)
      BY <1>1, <1>3, <2>1
    <3>2. Upto(l) = Upto(m)
      BY <1>4, <1>7, <3>1, FS_Subset
    <3> QED BY <1>3, <2>1, <3>2
  <2>2. CASE m <= l
    <3>1. Upto(m) \in SUBSET Upto(l)
      BY <1>1, <1>3, <2>2
    <3>2. Upto(l) = Upto(m)
      BY <1>4, <1>7, <3>1, FS_Subset
    <3> QED BY <1>3, <2>2, <3>2
  <2> QED BY <1>3, <2>1, <2>2
<1> QED BY <1>4, <1>5, <1>6, <1>7

\* Every day of a range is in one of its intervals: the first month that does
\* not end before the day has begun by then.
LEMMA DaysCovered ==
  ASSUME NEW d \in Days \X Days, NEW day \in Nat, d[1] <= day, day <= d[2]
  PROVE  \E n \in 1..Cardinality(MonthsOf(d)) : Bounds(Interval(d, n), day)
<1> DEFINE V == {m \in DOMAIN MonthEnds : MonthEnds[m] >= day}
           m0 == CHOOSE m \in V : \A k \in V : m <= k
<1>1. d[1] \in Nat /\ d[2] \in Nat /\ d[2] <= MonthEnds[Len(MonthEnds)] /\ d[1] >= 1
  BY MoreFacts DEF Days
<1>2. V \in SUBSET Nat /\ V # {}
  BY <1>1, MoreFacts
<1>3. \E m \in V : \A k \in V : m <= k
  <2> HIDE DEF V
  <2> QED BY <1>2, LeastNumber
<1>4. PICK m \in V : \A k \in V : m <= k
  BY <1>3
<1>5. First(m) \in Nat /\ First(m) <= day /\ m \in DOMAIN MonthEnds /\ MonthEnds[m] \in Nat
  <2>1. CASE m = 1
    BY <1>1, <1>4, <2>1, MoreFacts DEF First
  <2>2. CASE m # 1
    <3>1. m - 1 \in DOMAIN MonthEnds /\ m - 1 \notin V /\ MonthEnds[m - 1] \in Nat
      BY <1>4, <2>2, MoreFacts
    <3> QED BY <1>4, <2>2, <3>1, MoreFacts DEF First
  <2> QED BY <2>1, <2>2
<1>6. m \in MonthsOf(d)
  BY <1>1, <1>4, <1>5 DEF MonthsOf
<1> DEFINE n == Cardinality({k \in MonthsOf(d) : k <= m})
<1>7. n \in 1..Cardinality(MonthsOf(d)) /\ NthMonth(d, n) = m
  BY <1>6, MonthsRanked DEF NthMonth
<1>8. Interval(d, n) = [from |-> IF First(m) < d[1] THEN d[1] ELSE First(m),
                        to |-> Least(MonthEnds[m], d[2]), splits |-> 0]
  <2> HIDE DEF n
  <2> QED BY <1>7 DEF Interval
<1>9. Bounds(Interval(d, n), day)
  BY <1>1, <1>4, <1>5, <1>8 DEF Bounds, Least
<1> QED BY <1>7, <1>9

\* A day of an interval is a day of one of its halves.
LEMMA HalvesCover ==
  ASSUME NEW c, NEW day \in Nat, Bounds(c, day)
  PROVE  \E h \in Halves(c) : Bounds(h, day)
<1> DEFINE mid == c.from + (c.to - c.from) \div 2
<1>1. mid \in Nat
  BY DEF Bounds
<1> DEFINE a == [from |-> c.from, to |-> mid, splits |-> c.splits + 1]
           b == [from |-> mid + 1, to |-> c.to, splits |-> c.splits + 1]
<1>2. Halves(c) = {a, b}
  BY DEF Halves
<1>3. a.from = c.from /\ a.to = mid /\ b.from = mid + 1 /\ b.to = c.to
  OBVIOUS
<1> HIDE DEF mid, a, b
<1>4. CASE day <= mid
  BY <1>1, <1>2, <1>3, <1>4 DEF Bounds
<1>5. CASE day > mid
  BY <1>1, <1>2, <1>3, <1>5 DEF Bounds
<1> QED BY <1>1, <1>4, <1>5

\* An answer that is short of the limit, the halves of one that is not, and the
\* same interval once more: no file of the interval goes missing without a
\* warning.
LEMMA CallsKeep ==
  ASSUME MoreInv, NEW c \in pending,
         CallAnswers(c) \/ CallIsFull(c) \/ CallIsCut(c) \/ CallFails(c)
  PROVE  MoreInv'
<1> USE DEF MoreInv
<1>1. /\ UNCHANGED <<registry, range, existing, had, court, done, fresh, sent, total,
                     stopped, end>>
      /\ end = "none"
  BY DEF CallAnswers, CallIsFull, CallIsCut, CallFails, Brought, StreamOpen
<1>2. found' \in SUBSET Numbers
  <2>1. NumbersOf(InRegistry(c)) \in SUBSET Numbers
    BY MoreFacts DEF NumbersOf, InRegistry, MoreTyped
  <2>2. \A part \in kSubset(Limit, InRegistry(c)) : NumbersOf(part) \in SUBSET Numbers
    BY MoreFacts DEF kSubset, NumbersOf, InRegistry, MoreTyped
  <2> QED BY <2>1, <2>2 DEF CallAnswers, CallIsFull, CallIsCut, CallFails, Brought, MoreTyped
<1>3. MoreTyped' /\ Tallied'
  BY <1>1, <1>2 DEF MoreTyped, Tallied
<1>4. court <= NChosen
  BY MoreFacts DEF Closed, MoreTyped
<1>5. Closed'
  BY <1>1, <1>4, MoreFacts DEF Closed, MoreTyped
<1>6. Covered'
  <2>1. CASE warned'
    BY <2>1 DEF Covered
  <2>2. ASSUME CallAnswers(c) \/ CallIsFull(c), stopped = "no", ~warned,
               NEW f \in registry, range[1] <= f.day, f.day <= range[2],
               f.court = court, NEW n \in 1..done, Bounds(Interval(range, n), f.day)
        PROVE  f.numar \in found' \cup existing \/ (\E e \in pending' : Bounds(e, f.day))
    <3>1. f \in Files /\ f.day \in Nat
      BY MoreFacts DEF MoreTyped
    <3>2. f.numar \in found \cup existing \/ \E e \in pending : Bounds(e, f.day)
      BY <2>2 DEF Covered
    <3>3. found \subseteq found' /\ pending \ {c} \subseteq pending'
      BY <2>2 DEF CallAnswers, CallIsFull, Brought
    <3>4. ASSUME Bounds(c, f.day), CallAnswers(c) PROVE f.numar \in found'
      <4>1. f \in InRegistry(c)
        BY <2>2, <3>1, <3>4 DEF InRegistry, Bounds
      <4> QED BY <3>4, <4>1 DEF CallAnswers, Brought, NumbersOf
    <3>5. ASSUME Bounds(c, f.day), CallIsFull(c) PROVE \E e \in pending' : Bounds(e, f.day)
      <4>1. CASE c.splits < MaxSplits
        <5>1. Halves(c) \subseteq pending'
          BY <3>5, <4>1 DEF CallIsFull, Brought
        <5> QED BY <3>1, <3>5, <5>1, HalvesCover
      <4>2. CASE ~(c.splits < MaxSplits)
        <5> DEFINE e == [c EXCEPT !.splits = @ + 1]
        <5>1. e \in pending'
          BY <3>5, <4>2 DEF CallIsFull, Brought
        <5>2. e.from = c.from /\ e.to = c.to
          OBVIOUS
        <5> QED BY <3>5, <5>1, <5>2 DEF Bounds
      <4> QED BY <4>1, <4>2
    <3> QED BY <2>2, <3>2, <3>3, <3>4, <3>5
  <2>3. ((CallAnswers(c) \/ CallIsFull(c)) /\ warned' = warned) \/ warned'
    BY DEF CallAnswers, CallIsFull, CallIsCut, CallFails
  <2> QED BY <1>1, <2>1, <2>2, <2>3 DEF Covered
<1> QED BY <1>3, <1>5, <1>6

\* The months that come next are asked for, all of them.
LEMMA ChunkKeeps == ASSUME MoreInv, NextChunk PROVE MoreInv'
<1> USE DEF MoreInv
<1>1. /\ UNCHANGED <<registry, range, existing, had, court, found, fresh, sent, total,
                     warned, stopped, end>>
      /\ pending = {} /\ found = {} /\ court <= NChosen /\ end = "none"
      /\ pending' = {Interval(range, n) : n \in (done + 1)..done'}
  BY DEF NextChunk, StreamOpen
<1>2. NIntervals \in Nat
  BY MonthsFinite DEF NIntervals
<1>3. done' \in Nat /\ done \in Nat
  BY <1>2, MoreFacts DEF NextChunk, Least, MoreTyped
<1>4. MoreTyped' /\ Tallied' /\ Closed'
  BY <1>1, <1>3, MoreFacts DEF MoreTyped, Tallied, Closed
<1>5. ASSUME stopped = "no", ~warned, NEW f \in registry, range[1] <= f.day, f.day <= range[2],
             f.court = court, NEW n \in 1..done', Bounds(Interval(range, n), f.day)
      PROVE  f.numar \in found \cup existing \/ \E c \in pending' : Bounds(c, f.day)
  <2>1. CASE n \in 1..done
    BY <1>1, <1>5, <2>1 DEF Covered
  <2>2. CASE n \notin 1..done
    BY <1>1, <1>3, <1>5, <2>2
  <2> QED BY <2>1, <2>2
<1>6. Covered'
  BY <1>1, <1>5 DEF Covered
<1> QED BY <1>4, <1>6

\* What a chunk has found is known from then on, and what was new has been sent.
LEMMA SendKeeps == ASSUME MoreInv, SendFound PROVE MoreInv'
<1> USE DEF MoreInv
<1> DEFINE new == found \ existing
<1>1. /\ UNCHANGED <<registry, range, had, court, done, pending, total, warned, stopped, end>>
      /\ found # {} /\ found' = {} /\ pending = {} /\ end = "none"
  BY DEF SendFound, StreamOpen
<1>2. (found \ existing) \ fresh = new
  BY DEF MoreTyped
<1>3. /\ fresh' = fresh \cup new /\ existing' = existing \cup new
      /\ sent' = [n \in Numbers |-> IF n \in new THEN sent[n] + 1 ELSE sent[n]]
  BY <1>2 DEF SendFound
<1>4. new \in SUBSET Numbers /\ new \cap existing = {} /\ found \subseteq existing'
  BY <1>3 DEF MoreTyped
<1> HIDE DEF new
<1>5. MoreTyped'
  BY <1>1, <1>3, <1>4 DEF MoreTyped
<1>6. Tallied'
  <2>1. (existing' \ had) \ fresh' = (existing \ had) \ fresh
    BY <1>3, <1>4 DEF MoreTyped
  <2>2. \A n \in Numbers : sent'[n] = IF n \in existing' \ had THEN 1 ELSE 0
    BY <1>3, <1>4 DEF MoreTyped, Tallied
  <2> QED BY <1>1, <2>1, <2>2 DEF Tallied
<1>7. Closed'
  BY <1>1 DEF Closed
<1>8. Covered'
  BY <1>1, <1>3, <1>4 DEF Covered
<1> QED BY <1>5, <1>6, <1>7, <1>8

\* A court is done when its last month is, unless the stream is stopped.
LEMMA CourtKeeps == ASSUME MoreInv, NextCourt PROVE MoreInv'
<1> USE DEF MoreInv
<1>1. /\ UNCHANGED <<registry, range, existing, had, pending, found, sent, warned, stopped, end>>
      /\ court <= NChosen /\ pending = {} /\ found = {} /\ end = "none"
      /\ done = NIntervals \/ stopped # "no"
      /\ court' = IF stopped = "no" THEN court + 1 ELSE NChosen + 1
      /\ total' = total + Cardinality(fresh) /\ fresh' = {} /\ done' = 0
  BY DEF NextCourt, StreamOpen
<1>2. /\ IsFiniteSet(existing \ had) /\ IsFiniteSet(fresh)
      /\ IsFiniteSet((existing \ had) \ fresh)
  BY MoreFacts, FS_Subset DEF MoreTyped
<1>3. total' = Cardinality(existing \ had) /\ total' \in Nat
  <2> DEFINE rest == (existing \ had) \ fresh
  <2>1. rest \cup fresh = existing \ had /\ rest \cap fresh = {}
    BY DEF MoreTyped
  <2>2. Cardinality(existing \ had) = Cardinality(rest) + Cardinality(fresh)
    <3>1. Cardinality(rest \cup fresh)
            = Cardinality(rest) + Cardinality(fresh) - Cardinality(rest \cap fresh)
      BY <1>2, FS_Union
    <3>2. Cardinality(rest) \in Nat /\ Cardinality(fresh) \in Nat
      BY <1>2, FS_CardinalityType
    <3>3. Cardinality(rest \cap fresh) = 0
      BY <2>1, FS_EmptySet
    <3>4. Cardinality(rest \cup fresh) = Cardinality(existing \ had)
      BY <2>1
    <3> HIDE DEF rest
    <3> QED BY <3>1, <3>2, <3>3, <3>4
  <2> QED BY <1>1, <1>2, <2>2, FS_CardinalityType DEF Tallied
<1>4. court' \in 1..(NChosen + 1) /\ (stopped = "no" => court' = court + 1)
  BY <1>1, MoreFacts DEF MoreTyped
<1>5. MoreTyped'
  BY <1>1, <1>3, <1>4 DEF MoreTyped
<1>6. Tallied'
  <2>1. (existing \ had) \ {} = existing \ had
    OBVIOUS
  <2> QED BY <1>1, <1>3, <2>1 DEF Tallied
<1>7. Closed'
  BY <1>1 DEF Closed
<1>8. ASSUME stopped = "no", ~warned, NEW f \in registry, range[1] <= f.day, f.day <= range[2],
             f.court < court + 1
      PROVE  f.numar \in existing
  <2>1. f \in Files /\ f.day \in Nat /\ f.court \in Nat /\ range \in Days \X Days /\ court \in Nat
    BY MoreFacts DEF MoreTyped
  <2>2. CASE f.court < court
    BY <1>8, <2>2 DEF Covered
  <2>3. CASE f.court = court
    <3>1. PICK n \in 1..Cardinality(MonthsOf(range)) : Bounds(Interval(range, n), f.day)
      BY <1>8, <2>1, DaysCovered
    <3>2. n \in 1..done
      BY <1>1, <1>8 DEF NIntervals
    <3> QED BY <1>1, <1>8, <2>3, <3>1, <3>2 DEF Covered
  <2> QED BY <1>8, <2>1, <2>2, <2>3
<1>9. Covered'
  <2>1. \A n \in 1..0 : FALSE
    OBVIOUS
  <2> QED BY <1>1, <1>4, <1>8, <2>1 DEF Covered
<1> QED BY <1>5, <1>6, <1>7, <1>9

\* Nothing is lost between months, halves and courts, and nothing counted twice,
\* of any registry, range, calendar and limit.
THEOREM MoreInvariant == MoreSpec => []MoreInv
<1>1. MoreInit => MoreInv
  <2> SUFFICES ASSUME MoreInit PROVE MoreInv
    OBVIOUS
  <2>1. MoreTyped
    BY MoreFacts DEF MoreInit, MoreTyped
  <2>2. (existing \ had) \ fresh = {} /\ existing \ had = {}
    BY DEF MoreInit
  <2>3. Tallied
    BY <2>2, FS_EmptySet DEF MoreInit, Tallied
  <2>4. Closed
    BY MoreFacts DEF MoreInit, Closed
  <2>5. Covered
    <3>1. ASSUME NEW f \in registry PROVE ~(f.court < 1) /\ \A n \in 1..0 : FALSE
      <4>1. f.court \in 1..NChosen
        BY MoreFacts DEF MoreInit
      <4> QED BY <4>1, MoreFacts
    <3> QED BY <3>1 DEF MoreInit, Covered
  <2> QED BY <2>1, <2>3, <2>4, <2>5 DEF MoreInv
<1>2. MoreInv /\ [MoreNext]_moreVars => MoreInv'
  <2> SUFFICES ASSUME MoreInv, [MoreNext]_moreVars PROVE MoreInv'
    OBVIOUS
  <2>1. CASE UNCHANGED moreVars
    BY <2>1 DEF moreVars, MoreInv, MoreTyped, Tallied, Closed, Covered
  <2>2. ASSUME NEW why \in {"client", "timeout"}, StopStream(why) PROVE MoreInv'
    BY <2>2 DEF StopStream, StreamOpen, MoreInv, MoreTyped, Tallied, Closed, Covered
  <2>3. CASE EndEvent
    <3>1. end' = "done" => stopped = "no"
      BY <2>3 DEF EndEvent, MoreInv, MoreTyped
    <3> QED BY <2>3, <3>1 DEF EndEvent, MoreInv, MoreTyped, Tallied, Closed, Covered
  <2> QED BY <2>1, <2>2, <2>3, CallsKeep, ChunkKeeps, SendKeeps, CourtKeeps DEF MoreNext
<1> QED BY <1>1, <1>2, PTL DEF MoreSpec

\* A stream that says it is done, and warns of nothing, has sent every number of
\* the range that the client did not have; each once, and counted
\* (batch-dosare.ts:44-160, routes/dosare.ts:330-372).
THEOREM DoneTellsAllHolds == MoreSpec => []DoneTellsAll
<1>1. MoreInv => DoneTellsAll
  <2> SUFFICES ASSUME MoreInv, end = "done" PROVE DoneTellsAll
    BY DEF DoneTellsAll
  <2>1. court > NChosen /\ stopped = "no" /\ fresh = {}
    BY DEF MoreInv, Closed
  <2>2. {n \in Numbers : sent[n] > 0} = existing \ had
    BY DEF MoreInv, MoreTyped, Tallied
  <2>3. (existing \ had) \ fresh = existing \ had
    BY <2>1
  <2>4. ASSUME ~warned, NEW f \in registry, f.day \in range[1]..range[2]
        PROVE  f.numar \in existing
    <3>1. f.court \in 1..NChosen /\ f.day \in Nat
      BY MoreFacts DEF MoreInv, MoreTyped
    <3>2. range[1] \in Nat /\ range[2] \in Nat /\ court \in Nat
      <4>1. range \in Days \X Days /\ court \in 1..(NChosen + 1)
        BY DEF MoreInv, MoreTyped
      <4>2. range[1] \in Days /\ range[2] \in Days
        BY <4>1
      <4>3. NChosen \in Nat
        BY MoreFacts
      <4>4. range[1] \in Nat /\ range[2] \in Nat
        BY <4>2 DEF Days
      <4> QED BY <4>1, <4>3, <4>4
    <3>3. range[1] <= f.day /\ f.day <= range[2] /\ f.court < court
      BY <2>1, <2>4, <3>1, <3>2, MoreFacts
    <3> QED BY <2>1, <2>4, <3>3 DEF MoreInv, Covered
  <2>5. ~warned => Wanted \subseteq existing
    BY <2>4 DEF Wanted
  <2>6. had \subseteq existing
    BY DEF MoreInv, MoreTyped
  <2>7. \A n \in Numbers : sent[n] <= (IF n \in had THEN 0 ELSE 1)
    BY DEF MoreInv, Tallied
  <2>8. total = Cardinality({n \in Numbers : sent[n] > 0})
    BY <2>2, <2>3 DEF MoreInv, Tallied
  <2> QED BY <2>2, <2>5, <2>6, <2>7, <2>8 DEF DoneTellsAll
<1> QED BY <1>1, MoreInvariant, PTL
===================================================================================
