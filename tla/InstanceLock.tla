----------------------------- MODULE InstanceLock -----------------------------
(***************************************************************************)
(* The lock file that keeps two processes off one data directory           *)
(* (db/instanceLock.ts): the atomic claim, the reclaim of a dead lock      *)
(* behind a gate file, the heartbeat, and the release.                     *)
(*                                                                         *)
(* The actors are processes, possibly on several hosts, that share nothing *)
(* but the file system: every system call that another process can see or  *)
(* disturb is a step of its own.  A process is one incarnation (one pid,   *)
(* one nonce); a restart is another process.  Time is counted in heartbeat *)
(* periods; the steps of a boot take no time.                              *)
(***************************************************************************)
EXTENDS Naturals, FiniteSets

CONSTANTS
    Procs,      \* processes
    HostOf,     \* host of each process
    None,       \* no file, no record
    MaxMisses,  \* HEARTBEAT_MAX_MISSES
    StaleAge,   \* STALE_FACTOR
    Drain,      \* periods in the 10 s that a fatal heartbeat leaves
    Env         \* what may happen: "torn", "orphan", "force", "miss", "block",
                \* "crash", "release"

ASSUME LockAssumption ==
    /\ None \notin Procs
    /\ None \notin [by : Procs, written : BOOLEAN, age : 0..(StaleAge + 1)]
    /\ DOMAIN HostOf = Procs
    /\ MaxMisses \in Nat \ {0} /\ StaleAge \in Nat /\ Drain \in Nat

VARIABLES
    lock,    \* .instance.lock: who wrote it, is it parsable, heartbeat age
    gate,    \* .instance.lock.reclaim-gate: who created it
    pc,      \* where each process is
    seen,    \* the record a booting process has read (its nonce), or None
    misses,  \* heartbeatMisses; once stopping, periods of the drain
    due      \* processes whose heartbeat timer is due

vars == <<lock, gate, pc, seen, misses, due>>

Record(p, w, a) == [by |-> p, written |-> w, age |-> a]

Alive(p) == pc[p] \notin {"new", "dead"}

\* readLock gives a record, not null.
Valid == lock # None /\ lock.written

InGate == {"recheck", "rename", "claim", "reclaim", "leave", "giveUp"}

\* A data directory: pristine, or left by a process that died with the lock,
\* in writeNewLock, or behind the gate.
Init ==
    /\ \/ lock = None /\ gate = None /\ pc = [p \in Procs |-> "new"]
       \/ \E g \in Procs :
            /\ pc = [p \in Procs |-> IF p = g THEN "dead" ELSE "new"]
            /\ \E w \in BOOLEAN, a \in {0, StaleAge} : lock = Record(g, w, a)
            /\ gate \in (IF "orphan" \in Env THEN {None, g} ELSE {None})
    /\ seen = [p \in Procs |-> None]
    /\ misses = [p \in Procs |-> 0]
    /\ due = {}

Goto(p, next) == pc' = [pc EXCEPT ![p] = next]

\* The boot ends with an error.
Refuse(p) == Goto(p, "dead")

-----------------------------------------------------------------------------
(* acquireInstanceLock *)

\* LEGAL_DASHBOARD_FORCE_BOOT: whatever lock there is is renamed away.
ForceBoot(p) ==
    /\ "force" \in Env /\ pc[p] = "new" /\ lock # None
    /\ lock' = None
    /\ Goto(p, "forced")
    /\ UNCHANGED <<gate, seen, misses, due>>

\* writeNewLock, first half: open with O_EXCL.  Without "torn" no process
\* reads between the two halves.
Create(p, from, opened, exists) ==
    /\ pc[p] \in from
    /\ \/ /\ lock = None
          /\ lock' = Record(p, "torn" \notin Env, 0)
          /\ Goto(p, opened)
       \/ lock # None /\ Goto(p, exists) /\ UNCHANGED lock
    /\ UNCHANGED <<gate, seen, misses, due>>

\* Second half: the record goes to the opened file, wherever that is now.
Write(p, from, next) ==
    /\ pc[p] = from
    /\ lock' = IF lock # None /\ lock.by = p
               THEN [lock EXCEPT !.written = TRUE] ELSE lock
    /\ Goto(p, next)
    /\ UNCHANGED <<gate, seen, misses, due>>

Claim(p) == Create(p, {"new", "forced"}, "write", "read")
WriteClaim(p) == Write(p, "write", "holding")

\* On one host a live pid is never reclaimed; across hosts a heartbeat not
\* older than the threshold.  (The age passes 30 s within its sixth period.)
Blocked(p, r) ==
    IF HostOf[r.by] = HostOf[p] THEN Alive(r.by) ELSE r.age < StaleAge

Read(p) ==
    /\ pc[p] = "read"
    /\ IF Valid /\ Blocked(p, lock) THEN Refuse(p) /\ UNCHANGED seen
       ELSE /\ seen' = [seen EXCEPT ![p] = IF Valid THEN lock.by ELSE None]
            /\ Goto(p, "gate")
    /\ UNCHANGED <<lock, gate, misses, due>>

\* MUTANT: the gate is opened without O_EXCL.
EnterGateShared(p) ==
    /\ pc[p] = "gate"
    /\ gate' = p /\ Goto(p, "recheck")
    /\ UNCHANGED <<lock, seen, misses, due>>

\* withReclaimGate.  A gate older than GATE_STALE_MS was left by a process
\* that died behind it: the protected steps take microseconds.
EnterGate(p) ==
    /\ pc[p] = "gate"
    /\ \/ gate = None /\ gate' = p /\ Goto(p, "recheck")
       \/ gate # None /\ Refuse(p) /\ UNCHANGED gate
       \/ /\ gate # None /\ ~Alive(gate)
          /\ Goto(p, "orphan") /\ UNCHANGED gate
    /\ UNCHANGED <<lock, seen, misses, due>>

\* The orphan gate is removed by name, and this boot still refuses.
UnlinkOrphan(p) ==
    /\ pc[p] = "orphan"
    /\ gate' = None
    /\ Refuse(p)
    /\ UNCHANGED <<lock, seen, misses, due>>

\* The question again under the gate: the same nonce and still not blocked,
\* or still not a record.
Recheck(p) ==
    /\ pc[p] = "recheck"
    /\ Goto(p, IF IF seen[p] = None THEN ~Valid
                  ELSE Valid /\ lock.by = seen[p] /\ ~Blocked(p, lock)
               THEN "rename" ELSE "giveUp")
    /\ UNCHANGED <<lock, gate, seen, misses, due>>

\* The dead lock is renamed away; ENOENT is a refusal.
Rename(p) ==
    /\ pc[p] = "rename"
    /\ lock' = None
    /\ Goto(p, IF lock = None THEN "giveUp" ELSE "claim")
    /\ UNCHANGED <<gate, seen, misses, due>>

Reclaim(p) == Create(p, {"claim"}, "reclaim", "giveUp")
WriteReclaim(p) == Write(p, "reclaim", "leave")

\* finally: the gate is unlinked by name.
LeaveGate(p) ==
    /\ pc[p] \in {"leave", "giveUp"}
    /\ gate' = None
    /\ Goto(p, IF pc[p] = "leave" THEN "holding" ELSE "dead")
    /\ UNCHANGED <<lock, seen, misses, due>>

-----------------------------------------------------------------------------
(* The heartbeat. *)

Fatal(n) == n >= MaxMisses

\* A tick that is skipped; the last one allowed starts the shutdown.
Miss(p) ==
    /\ misses' = [misses EXCEPT ![p] = IF Fatal(@ + 1) THEN 0 ELSE @ + 1]
    /\ Goto(p, IF Fatal(misses[p] + 1) THEN "stopping" ELSE "holding")
    /\ due' = due \ {p}

\* MUTANT: the record read is not compared with one's own.
HeartbeatUnchecked(p) ==
    /\ pc[p] = "holding" /\ p \in due
    /\ \/ Valid /\ Goto(p, "beat") /\ UNCHANGED <<misses, due>>
       \/ (~Valid \/ "miss" \in Env) /\ Miss(p)
    /\ UNCHANGED <<lock, gate, seen>>

\* The timer: read the lock.  Another's record is fatal at once.
Heartbeat(p) ==
    /\ pc[p] = "holding" /\ p \in due
    /\ \/ Valid /\ lock.by = p /\ Goto(p, "beat") /\ UNCHANGED <<misses, due>>
       \/ /\ Valid /\ lock.by # p
          /\ Goto(p, "stopping")
          /\ misses' = [misses EXCEPT ![p] = 0]
          /\ due' = due \ {p}
       \/ (~Valid \/ "miss" \in Env) /\ Miss(p)
    /\ UNCHANGED <<lock, gate, seen>>

\* The fresh record is renamed over whatever the lock is now.
Beat(p) ==
    /\ pc[p] = "beat"
    /\ \/ /\ lock' = Record(p, TRUE, 0)
          /\ misses' = [misses EXCEPT ![p] = 0]
          /\ due' = due \ {p}
          /\ Goto(p, "holding")
       \/ "miss" \in Env /\ Miss(p) /\ UNCHANGED lock
    /\ UNCHANGED <<gate, seen>>

\* heartbeatFatal: the graceful shutdown, cut at ten seconds; the lock file
\* is left alone.
Stop(p) ==
    /\ pc[p] = "stopping"
    /\ Goto(p, "dead")
    /\ UNCHANGED <<lock, gate, seen, misses, due>>

-----------------------------------------------------------------------------
(* The end of a process, and time. *)

\* releaseInstanceLock: read ...
Release(p) ==
    /\ "release" \in Env /\ pc[p] = "holding"
    /\ Goto(p, IF Valid /\ lock.by = p THEN "release" ELSE "dead")
    /\ due' = due \ {p}
    /\ UNCHANGED <<lock, gate, seen, misses>>

\* ... and unlink.
Unlink(p) ==
    /\ pc[p] = "release"
    /\ lock' = None
    /\ Goto(p, "dead")
    /\ UNCHANGED <<gate, seen, misses, due>>

\* A process dies: anywhere, behind the gate only if orphans are in Env.
Crash(p) ==
    /\ "crash" \in Env /\ Alive(p)
    /\ pc[p] \in InGate => "orphan" \in Env
    /\ Goto(p, "dead")
    /\ due' = due \ {p}
    /\ UNCHANGED <<lock, gate, seen, misses>>

Older(r) ==
    IF r = None \/ r.age > StaleAge THEN r ELSE [r EXCEPT !.age = @ + 1]

\* A heartbeat period: every timer has fired (unless a long synchronous piece
\* of the boot, a migration or the RNPM split, blocks the event loop), no lock
\* is being acquired, and no shutdown outlasts its cap.
Tick ==
    /\ due = {} \/ "block" \in Env
    /\ \A p \in Procs : pc[p] \in {"new", "holding", "stopping", "dead"}
    /\ \A p \in Procs : pc[p] = "stopping" => misses[p] + 1 < Drain
    /\ lock' = Older(lock)
    /\ due' = {p \in Procs : pc[p] = "holding"}
    /\ misses' = [p \in Procs |-> IF pc[p] = "stopping" THEN misses[p] + 1
                                  ELSE misses[p]]
    /\ UNCHANGED <<gate, pc, seen>>

\* The steps a process takes on its own.
Run(p) ==
    \/ WriteClaim(p) \/ Read(p) \/ EnterGate(p) \/ UnlinkOrphan(p)
    \/ Recheck(p) \/ Rename(p) \/ Reclaim(p) \/ WriteReclaim(p)
    \/ LeaveGate(p) \/ Heartbeat(p) \/ Beat(p) \/ Stop(p) \/ Unlink(p)

Next ==
    \/ \E p \in Procs :
         Run(p) \/ ForceBoot(p) \/ Claim(p) \/ Release(p) \/ Crash(p)
    \/ Tick

Spec == Init /\ [][Next]_vars

\* A started process goes on (a forced one claims), and time passes; whether
\* anyone boots, releases or crashes is open.
Fairness ==
    /\ \A p \in Procs : WF_vars(Run(p))
    /\ \A p \in Procs : WF_vars(pc[p] = "forced" /\ Claim(p))
    /\ WF_vars(Tick)

FairSpec == Spec /\ Fairness

-----------------------------------------------------------------------------
(* Properties. *)

TypeOK ==
    /\ lock \in [by : Procs, written : BOOLEAN, age : 0..(StaleAge + 1)]
                \cup {None}
    /\ gate \in Procs \cup {None}
    /\ pc \in [Procs -> InGate \cup {"new", "forced", "write", "read", "gate",
                                     "orphan", "holding", "beat", "stopping",
                                     "release", "dead"}]
    /\ seen \in [Procs -> Procs \cup {None}]
    /\ misses \in [Procs -> 0..(MaxMisses + Drain)]
    /\ \A p \in Procs : pc[p] \in {"holding", "beat"} => misses[p] < MaxMisses
    /\ due \subseteq {p \in Procs : pc[p] \in {"holding", "beat"}}

\* The processes that may be writing to the databases.
Holders == {p \in Procs : pc[p] \in {"holding", "beat", "stopping"}}

\* Never two processes on the same SQLite files, however many boot at once
\* over a dead lock (instanceLock.ts:73-77).
OneHolder == \A p, q \in Holders : p = q

\* The record of a live process leaves the lock file by that process's own
\* release only (instanceLock.ts:184-189).
LiveLockIsKept ==
    [][\A p \in Procs :
         Valid /\ lock.by = p /\ Alive(p)
           => \/ lock' # None /\ lock'.by = p
              \/ pc[p] = "release" /\ pc'[p] = "dead"]_vars

\* A process that cannot refresh its heartbeat is gone before another host
\* may call its lock stale (instanceLock.ts:268-270).
DeadBeforeStale ==
    Valid /\ Alive(lock.by) => lock.age < StaleAge

\* When two processes do hold the lock, after a forced boot or a lost race,
\* the heartbeat leaves at most one (instanceLock.ts:287-291).
SplitBrainHeals == (Cardinality(Holders) > 1) ~> (Cardinality(Holders) < 2)
=============================================================================
