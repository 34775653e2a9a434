------------------------------ MODULE Scheduler ------------------------------
(***************************************************************************)
(* The monitoring scheduler (services/monitoring/scheduler.ts) with the    *)
(* tables it reads and writes, the runner it calls, the routes that act on *)
(* the same rows, and the maintenance writer it shares the lock with.      *)
(*                                                                         *)
(* The process is one JavaScript event loop.  A timer, a request or a SOAP *)
(* answer is a macrotask and starts only when the microtask queue is empty *)
(* (Idle); every `await` that resumes is a record in `micro`, served in    *)
(* FIFO order.  A read-locked section is a synchronous body, so no reader  *)
(* holds the lock across macrotasks: the lock is here the flag `writer`    *)
(* and the line `waiting` (module RWLock models it in full).               *)
(***************************************************************************)
EXTENDS Naturals, Sequences, FiniteSets

CONSTANTS
    Jobs,        \* the monitored jobs
    RunIds,      \* ids of monitoring_runs rows; an id is reused when forgotten
    NoRun,       \* no entry in the inflight map
    Limit,       \* claimLimit
    Threshold,   \* SOURCE_ERROR_THRESHOLD
    MaxChanges,  \* bound: changes of each watched file at the source
    MaxFaults,   \* bound: transient database faults
    MaxWaiting,  \* bound: continuations waiting for the read lock
    Env          \* which parts of the environment this instance has

ASSUME SchedulerAssumption ==
    /\ NoRun \notin RunIds /\ Jobs # {}
    /\ Limit \in Nat \ {0} /\ Threshold \in Nat \ {0}
    /\ MaxChanges \in Nat /\ MaxFaults \in Nat /\ MaxWaiting \in Nat
    /\ Env \subseteq {"manual", "maintenance", "patch", "owner", "delete",
                      "crash", "stop"}

VARIABLES
    job,       \* monitoring_jobs, snapshots and alerts of each job
    ownerOn,   \* owner_monitoring_settings.monitoring_enabled
    row,       \* monitoring_runs
    world,     \* version of each watched file at the source (external)
    faults,    \* transient database faults so far
    phase,     \* "down", "running", "stopping", "stopped"
    tick,      \* tickInProgress and the runs its Promise.all awaits
    inflight,  \* the inflight map
    run,       \* runOne's locals, one record per run
    micro,     \* the microtask queue
    waiting,   \* read waiters of the maintenance lock
    writer,    \* a maintenance writer holds the lock
    draining   \* the promises stop() awaits

db == <<job, ownerOn, row>>
process == <<phase, tick, inflight, run, draining>>
loop == <<micro, waiting, writer>>
vars == <<job, ownerOn, row, world, faults, phase, tick, inflight, run,
          micro, waiting, writer, draining>>

Smaller(a, b) == IF a < b THEN a ELSE b

-----------------------------------------------------------------------------
(* Initial state: an empty process over a database of jobs. *)

NewJob == [exists |-> TRUE, active |-> TRUE, due |-> FALSE, streak |-> 0,
           trips |-> 0, snap |-> 0, alerted |-> {}]

NoRunner == [pc |-> "none", job |-> CHOOSE j \in Jobs : TRUE, streak |-> 0,
             outcome |-> "none", seen |-> 0, aborted |-> FALSE,
             manual |-> FALSE]

NoTick == [on |-> FALSE, awaits |-> {}]

Init ==
    /\ job = [j \in Jobs |-> NewJob]
    /\ ownerOn = TRUE
    /\ row = [r \in RunIds |-> [status |-> "none", job |-> NoRunner.job]]
    /\ world = [j \in Jobs |-> 0]
    /\ faults = 0
    /\ phase = "down"
    /\ tick = NoTick
    /\ inflight = [j \in Jobs |-> NoRun]
    /\ run = [r \in RunIds |-> NoRunner]
    /\ micro = <<>> /\ waiting = <<>> /\ writer = FALSE
    /\ draining = {}

-----------------------------------------------------------------------------
(* The event loop and the lock. *)

Idle == micro = <<>>

\* The step of the microtask at the head of the queue.
Serving(kind) == micro # <<>> /\ Head(micro).k = kind

\* withMaintenanceRead(c): `rest` are the microtasks left in the queue.
AwaitRead(rest, c) ==
    IF writer THEN waiting' = Append(waiting, c) /\ micro' = rest
              ELSE micro' = Append(rest, c) /\ UNCHANGED waiting

Then(c) == micro' = Append(Tail(micro), c) /\ UNCHANGED waiting

Done == micro' = Tail(micro) /\ UNCHANGED waiting

-----------------------------------------------------------------------------
(* The repositories. *)

Running(r) == row[r].status = "running"
HasRunningRow(j) == \E r \in RunIds : Running(r) /\ row[r].job = j
Live(r) == run[r].pc \in {"claimed", "soap", "persist", "finalize"}
Busy(r, j) == (Running(r) /\ row[r].job = j) \/ (Live(r) /\ run[r].job = j)

FreeIds == {r \in RunIds : ~Running(r) /\ run[r].pc = "none"}

Due(j) == job[j].exists /\ job[j].active /\ job[j].due /\ ownerOn

\* claimDueJobs: a due job with no running row.
Claimable == {j \in Jobs : Due(j) /\ ~HasRunningRow(j)}

\* The job object a run works on, as read when it was claimed.
Copy(j, s, byHand) ==
    [NoRunner EXCEPT !.pc = "claimed", !.job = j, !.streak = s,
                     !.manual = byHand]

\* The rows claimDueJobs returns and inserts: `given` maps job to run id.
InsertRuns(given) ==
    /\ row' = [r \in RunIds |->
                 IF \E j \in DOMAIN given : given[j] = r
                 THEN [status |-> "running",
                       job |-> CHOOSE j \in DOMAIN given : given[j] = r]
                 ELSE row[r]]
    /\ run' = [r \in RunIds |->
                 IF \E j \in DOMAIN given : given[j] = r
                 THEN LET j == CHOOSE j \in DOMAIN given : given[j] = r
                      IN  Copy(j, job[j].streak, FALSE)
                 ELSE run[r]]

\* MUTANT: no partial unique index on running rows.
InsertAllowedNoIndex(j) == job[j].exists

\* The UNIQUE index on running rows and the FK to monitoring_jobs.
InsertAllowed(j) == job[j].exists /\ ~HasRunningRow(j)

\* MUTANT: the alert is raised at and beyond the threshold.
ApplyOutcomeEveryFailure(r, past) ==
    LET c == run[r]
        s == IF c.outcome = "ok" THEN 0
             ELSE Smaller(c.streak + 1, Threshold + 1)
    IN  job' = [job EXCEPT ![c.job].streak = s, ![c.job].due = past,
                 ![c.job].trips = IF s = 0 THEN 0
                                  ELSE IF s >= Threshold THEN Smaller(@ + 1, 2)
                                  ELSE @]

\* applyJobOutcome with markJobOutcome and the source_error alert.  `past`:
\* the new next_run_at, counted from the claim, has already gone by.
ApplyOutcome(r, past) ==
    LET c == run[r]
        s == IF c.outcome = "ok" THEN 0
             ELSE Smaller(c.streak + 1, Threshold + 1)
    IN  /\ past => s < Threshold
        /\ job' = [job EXCEPT
             ![c.job].streak = s,
             ![c.job].due = past,
             ![c.job].trips = IF s = 0 THEN 0
                              ELSE IF s = Threshold THEN Smaller(@ + 1, 2)
                              ELSE @]

-----------------------------------------------------------------------------
(* The tick. *)

\* The timer of scheduleNextTick fires: tickOnce up to its read lock.
TickTimer ==
    /\ Idle /\ phase = "running" /\ ~tick.on
    /\ tick' = [on |-> TRUE, awaits |-> {}]
    /\ AwaitRead(<<>>, [k |-> "claim"])
    /\ UNCHANGED <<db, world, faults, phase, inflight, run, writer, draining>>

\* MUTANT: no check of `running` after the lock.
ClaimDueUnchecked ==
    /\ Serving("claim") /\ Claimable # {}
    /\ \E j \in Claimable, r \in FreeIds :
         /\ InsertRuns([i \in {j} |-> r])
         /\ Then([k |-> "dispatch", runs |-> {r}])
    /\ UNCHANGED <<job, ownerOn, world, faults, phase, tick, inflight, writer,
                   draining>>

\* tickOnce under the lock: nothing after stop(), or claimDueJobs.  The
\* order of next_run_at is abstracted: any Limit due jobs.
ClaimDue ==
    /\ Serving("claim") /\ phase = "running" /\ Claimable # {}
    /\ \E S \in SUBSET Claimable :
         /\ Cardinality(S) = Smaller(Limit, Cardinality(Claimable))
         /\ \E given \in [S -> FreeIds] :
              /\ \A i, j \in S : given[i] = given[j] => i = j
              /\ InsertRuns(given)
              /\ Then([k |-> "dispatch", runs |-> {given[j] : j \in S}])
    /\ UNCHANGED <<job, ownerOn, world, faults, phase, tick, inflight, writer,
                   draining>>

\* MUTANT: tickInProgress is not cleared on the early return.
ClaimNothingStaysOn ==
    /\ Serving("claim") /\ (phase # "running" \/ Claimable = {})
    /\ Done
    /\ UNCHANGED <<db, world, faults, phase, tick, inflight, run, writer,
                   draining>>

\* Nothing claimed: not running any more, no due job, or claimDueJobs threw
\* (the loop's catch keeps the timer alive).
ClaimNothing ==
    /\ Serving("claim")
    /\ \/ (phase # "running" \/ Claimable = {}) /\ UNCHANGED faults
       \/ faults < MaxFaults /\ faults' = faults + 1
    /\ tick' = NoTick
    /\ Done
    /\ UNCHANGED <<db, world, phase, inflight, run, writer, draining>>

\* runOne up to its first await, for every claimed job: the runner starts
\* and the job enters the inflight map.
StartRuns(ids) ==
    /\ run' = [r \in RunIds |->
                 IF r \in ids THEN [run[r] EXCEPT !.pc = "soap"] ELSE run[r]]
    /\ inflight' = [j \in Jobs |->
                      IF \E r \in ids : run[r].job = j
                      THEN CHOOSE r \in ids : run[r].job = j
                      ELSE inflight[j]]

Dispatch ==
    /\ Serving("dispatch")
    /\ StartRuns(Head(micro).runs)
    /\ tick' = [on |-> TRUE, awaits |-> Head(micro).runs]
    /\ Done
    /\ UNCHANGED <<db, world, faults, phase, writer, draining>>

-----------------------------------------------------------------------------
(* POST /jobs/:id/run *)

\* The route reads the job, runJobNow checks and asks for the read lock.
RunJobNow(j) ==
    /\ "manual" \in Env /\ Idle /\ phase = "running"
    /\ job[j].exists /\ inflight[j] = NoRun
    /\ Len(waiting) < MaxWaiting
    /\ AwaitRead(<<>>, [k |-> "insert", job |-> j, streak |-> job[j].streak])
    /\ UNCHANGED <<db, world, faults, process, writer>>

\* Under the lock: the checks again, then insertRunning; a unique violation
\* or a vanished job is a refusal.
InsertRunning ==
    /\ Serving("insert")
    /\ LET req == Head(micro)
           j == req.job
       IN  IF phase = "running" /\ inflight[j] = NoRun /\ InsertAllowed(j)
           THEN \E r \in FreeIds :
                  /\ row' = [row EXCEPT ![r] = [status |-> "running",
                                                job |-> j]]
                  /\ run' = [run EXCEPT ![r] =
                               Copy(j, req.streak, TRUE)]
                  /\ Then([k |-> "launch", run |-> r])
           ELSE Done /\ UNCHANGED <<row, run>>
    /\ UNCHANGED <<job, ownerOn, world, faults, phase, tick, inflight, writer,
                   draining>>

\* The fire-and-forget runOne.
Launch ==
    /\ Serving("launch")
    /\ StartRuns({Head(micro).run})
    /\ Done
    /\ UNCHANGED <<db, world, faults, phase, tick, writer, draining>>

-----------------------------------------------------------------------------
(* The runner: SOAP call, then snapshot and alerts under the read lock. *)

SoapAnswers(r) ==
    /\ Idle /\ run[r].pc = "soap"
    /\ run' = [run EXCEPT ![r].pc = "persist",
                          ![r].seen = world[run[r].job]]
    /\ AwaitRead(<<>>, [k |-> "persist", run |-> r])
    /\ UNCHANGED <<db, world, faults, phase, tick, inflight, writer, draining>>

\* The call fails: an external abort takes precedence over the budget and
\* over SOAP_FAIL.  A kind without a runner (NO_RUNNER) ends here too.
SoapFails(r) ==
    /\ Idle /\ run[r].pc = "soap"
    /\ run' = [run EXCEPT ![r].pc = "finalize",
                          ![r].outcome = IF run[r].aborted THEN "aborted"
                                         ELSE "error"]
    /\ AwaitRead(<<>>, [k |-> "finalize", run |-> r])
    /\ UNCHANGED <<db, world, faults, phase, tick, inflight, writer, draining>>

\* The snapshot+alerts transaction: a difference from the last snapshot is
\* an alert, and the new snapshot replaces the old one, in one commit.
Persist ==
    /\ Serving("persist")
    /\ LET r == Head(micro).run
           j == run[r].job
           new == run[r].seen
       IN  /\ job[j].exists
           /\ job' = [job EXCEPT ![j].snap = new,
                ![j].alerted = IF new = job[j].snap THEN @ ELSE @ \cup {new}]
           /\ run' = [run EXCEPT ![r].outcome = "ok"]
           /\ Then([k |-> "returned", run |-> r])
    /\ UNCHANGED <<ownerOn, row, world, faults, phase, tick, inflight, writer,
                   draining>>

\* MUTANT: snapshot and alerts are two commits, the second fails.
PersistFailsHalfway ==
    /\ Serving("persist")
    /\ LET r == Head(micro).run
       IN  /\ job' = [job EXCEPT ![run[r].job].snap = run[r].seen]
           /\ run' = [run EXCEPT ![r].outcome = "error"]
           /\ Then([k |-> "returned", run |-> r])
    /\ UNCHANGED <<ownerOn, row, world, faults, phase, tick, inflight, writer,
                   draining>>

\* Snapshot over the cap, job deleted, or the transaction threw and rolled
\* back (RUNNER_THREW): an error and no new snapshot.
PersistFails ==
    /\ Serving("persist")
    /\ LET r == Head(micro).run
       IN  /\ run' = [run EXCEPT ![r].outcome = "error"]
           /\ Then([k |-> "returned", run |-> r])
    /\ UNCHANGED <<db, world, faults, phase, tick, inflight, writer, draining>>

\* runner.run returns and runOne asks for the lock again.
RunnerReturns ==
    /\ Serving("returned")
    /\ LET r == Head(micro).run
       IN  /\ run' = [run EXCEPT ![r].pc = "finalize"]
           /\ AwaitRead(Tail(micro), [k |-> "finalize", run |-> r])
    /\ UNCHANGED <<db, world, faults, phase, tick, inflight, writer, draining>>

-----------------------------------------------------------------------------
(* The end of a run. *)

Settle(r, outcome) ==
    /\ run' = [run EXCEPT ![r].pc = "settled", ![r].outcome = outcome]
    /\ Then([k |-> "complete", run |-> r])

\* finalize + applyJobOutcome in one transaction; a row that is not running
\* any more, and an aborted run, leave the job alone.
Finalize ==
    /\ Serving("finalize")
    /\ LET r == Head(micro).run
       IN  /\ row' = IF Running(r)
                     THEN [row EXCEPT ![r].status = run[r].outcome]
                     ELSE row
           /\ IF Running(r) /\ run[r].outcome # "aborted"
              THEN \E past \in BOOLEAN : ApplyOutcome(r, past)
              ELSE UNCHANGED job
           /\ Settle(r, run[r].outcome)
    /\ UNCHANGED <<ownerOn, world, faults, phase, tick, inflight, writer,
                   draining>>

\* The transaction throws: nothing is written and runOne rejects.
FinalizeThrows ==
    /\ Serving("finalize")
    /\ faults < MaxFaults /\ faults' = faults + 1
    /\ Settle(Head(micro).run, "rejected")
    /\ UNCHANGED <<db, world, phase, tick, inflight, writer, draining>>

\* runOne's work resumes after the lock, sends the alert's email and ends;
\* its .finally callback is one microtask further.
Complete ==
    /\ Serving("complete")
    /\ Then([k |-> "finally", run |-> Head(micro).run])
    /\ UNCHANGED <<db, world, faults, process, writer>>

\* Promise.all over `awaits`: settles with the last of them, or with the
\* first that rejects.
Settled(awaits, r) ==
    IF r \in awaits /\ run[r].outcome = "rejected" THEN {} ELSE awaits \ {r}

\* .finally(() => inflight.delete(job.id)), and what awaits the promise:
\* the tick, stop(), and runJobNow's catch.
Finally ==
    /\ Serving("finally")
    /\ LET r == Head(micro).run
           rest == Settled(tick.awaits, r)
       IN  /\ inflight' = [inflight EXCEPT ![run[r].job] = NoRun]
           /\ tick' = IF r \in tick.awaits
                      THEN [on |-> rest # {}, awaits |-> rest] ELSE tick
           /\ draining' = Settled(draining, r)
           /\ IF run[r].manual /\ run[r].outcome = "rejected"
              THEN /\ run' = [run EXCEPT ![r].pc = "caught"]
                   /\ Then([k |-> "caught", run |-> r])
              ELSE /\ run' = [run EXCEPT ![r] = NoRunner]
                   /\ Done
    /\ UNCHANGED <<db, world, faults, phase, writer>>

\* runJobNow's catch: the reserved row is closed as RUNONE_THREW, unless
\* that throws too.
CatchRejected ==
    /\ Serving("caught")
    /\ LET r == Head(micro).run
       IN  /\ inflight' = [inflight EXCEPT ![run[r].job] = NoRun]
           /\ \/ /\ row' = IF Running(r)
                           THEN [row EXCEPT ![r].status = "error"] ELSE row
                 /\ UNCHANGED faults
              \/ faults < MaxFaults /\ faults' = faults + 1 /\ UNCHANGED row
           /\ run' = [run EXCEPT ![r] = NoRunner]
    /\ Done
    /\ UNCHANGED <<job, ownerOn, world, phase, tick, writer, draining>>

-----------------------------------------------------------------------------
(* Start, stop, crash. *)

\* MUTANT: start() without recoverOrphanRuns.
StartNoRecovery ==
    /\ phase = "down"
    /\ phase' = "running"
    /\ UNCHANGED <<db, world, faults, tick, inflight, run, loop, draining>>

\* start(): recoverOrphanRuns, then the timers.
Start ==
    /\ phase = "down"
    /\ row' = [r \in RunIds |->
                 IF Running(r) THEN [row[r] EXCEPT !.status = "aborted"]
                 ELSE row[r]]
    /\ phase' = "running"
    /\ UNCHANGED <<job, ownerOn, world, faults, tick, inflight, run, loop,
                   draining>>

\* stop(): abort every run in the inflight map and await them.
Stop ==
    /\ "stop" \in Env /\ Idle /\ phase = "running"
    /\ phase' = "stopping"
    /\ draining' = {inflight[j] : j \in Jobs} \ {NoRun}
    /\ run' = [r \in RunIds |-> IF r \in draining'
                                THEN [run[r] EXCEPT !.aborted = TRUE]
                                ELSE run[r]]
    /\ UNCHANGED <<db, world, faults, tick, inflight, loop>>

StopReturns ==
    /\ phase = "stopping" /\ draining = {} /\ Idle
    /\ phase' = "stopped"
    /\ UNCHANGED <<db, world, faults, tick, inflight, run, loop, draining>>

\* The process ends: after stop(), or at any moment; all that is not in the
\* database is gone.
ProcessEnds ==
    /\ phase = "stopped" \/ ("crash" \in Env /\ phase # "down")
    /\ phase' = "down"
    /\ tick' = NoTick
    /\ inflight' = [j \in Jobs |-> NoRun]
    /\ run' = [r \in RunIds |-> NoRunner]
    /\ micro' = <<>> /\ waiting' = <<>> /\ writer' = FALSE
    /\ draining' = {}
    /\ UNCHANGED <<db, world, faults>>

-----------------------------------------------------------------------------
(* The routes and the world around the scheduler. *)

\* PATCH /jobs/:id: cadence, active or paused_until; next_run_at is counted
\* anew from now.
Patch(j) ==
    /\ "patch" \in Env /\ Idle /\ phase # "down" /\ job[j].exists
    /\ \E a \in BOOLEAN :
         job' = [job EXCEPT ![j].active = a, ![j].due = FALSE]
    /\ UNCHANGED <<ownerOn, row, world, faults, process, loop>>

\* PUT of the owner's master switch: no job row changes.
MasterSwitch ==
    /\ "owner" \in Env /\ Idle /\ phase # "down"
    /\ ownerOn' = ~ownerOn
    /\ UNCHANGED <<job, row, world, faults, process, loop>>

\* DELETE /jobs/:id and bulk-delete: refused while the scheduler the routes
\* see has an inflight entry (during shutdown they see none); runs,
\* snapshots and alerts go by cascade.
Delete(j) ==
    /\ "delete" \in Env /\ Idle /\ phase # "down" /\ job[j].exists
    /\ phase = "running" => inflight[j] = NoRun
    /\ job' = [job EXCEPT ![j] = [NewJob EXCEPT !.exists = FALSE]]
    /\ row' = [r \in RunIds |-> IF row[r].job = j
                                THEN [row[r] EXCEPT !.status = "none"]
                                ELSE row[r]]
    /\ UNCHANGED <<ownerOn, world, faults, process, loop>>

\* A backup, restore or compaction takes and releases the write lock; the
\* release wakes the whole line of readers.
WriterBegins ==
    /\ "maintenance" \in Env /\ Idle /\ phase # "down" /\ ~writer
    /\ writer' = TRUE
    /\ UNCHANGED <<db, world, faults, process, micro, waiting>>

\* MUTANT: the release wakes one reader and drops the others.
WriterEndsWakesOne ==
    /\ Idle /\ writer
    /\ writer' = FALSE
    /\ micro' = SubSeq(waiting, 1, Smaller(1, Len(waiting)))
    /\ waiting' = <<>>
    /\ UNCHANGED <<db, world, faults, process>>

WriterEnds ==
    /\ Idle /\ writer
    /\ writer' = FALSE
    /\ micro' = waiting /\ waiting' = <<>>
    /\ UNCHANGED <<db, world, faults, process>>

\* next_run_at goes by.
TimePasses(j) ==
    /\ Idle /\ job[j].exists /\ ~job[j].due
    /\ job' = [job EXCEPT ![j].due = TRUE]
    /\ UNCHANGED <<ownerOn, row, world, faults, process, loop>>

\* The court's file changes at the source (external).
WorldChanges(j) ==
    /\ Idle /\ world[j] < MaxChanges
    /\ world' = [world EXCEPT ![j] = @ + 1]
    /\ UNCHANGED <<db, faults, process, loop>>

Micro ==
    \/ ClaimDue \/ ClaimNothing \/ Dispatch \/ InsertRunning \/ Launch
    \/ Persist \/ PersistFails \/ RunnerReturns
    \/ Finalize \/ FinalizeThrows \/ Complete \/ Finally \/ CatchRejected

Next ==
    \/ Micro
    \/ TickTimer
    \/ \E j \in Jobs : RunJobNow(j)
    \/ \E r \in RunIds : SoapAnswers(r) \/ SoapFails(r)
    \/ Start \/ Stop \/ StopReturns \/ ProcessEnds
    \/ \E j \in Jobs : Patch(j) \/ Delete(j) \/ TimePasses(j) \/ WorldChanges(j)
    \/ MasterSwitch \/ WriterBegins \/ WriterEnds

Spec == Init /\ [][Next]_vars

(***************************************************************************)
(* Fairness.  The event loop always serves its microtasks; it reaches      *)
(* every timer and every I/O event that stays ready between macrotasks     *)
(* (strong fairness: the queue empties again and again).  A SOAP call      *)
(* settles because of the runner's wall-clock budget, a maintenance writer *)
(* because its body is bounded I/O.  Nothing is assumed of users.          *)
(***************************************************************************)
Fairness ==
    /\ WF_vars(Micro)
    /\ SF_vars(TickTimer) /\ SF_vars(WriterEnds) /\ SF_vars(StopReturns)
    /\ \A r \in RunIds : SF_vars(SoapAnswers(r) \/ SoapFails(r))

FairSpec == Spec /\ Fairness

-----------------------------------------------------------------------------
(* Properties. *)

Statuses == {"none", "running", "ok", "error", "aborted"}

RunPcs == {"none", "claimed", "soap", "persist", "finalize", "settled",
           "caught"}

Continuations ==
    [k : {"claim"}] \cup [k : {"dispatch"}, runs : SUBSET RunIds]
    \cup [k : {"insert"}, job : Jobs, streak : 0..(Threshold + 1)]
    \cup [k : {"launch", "persist", "returned", "finalize", "complete",
               "finally", "caught"}, run : RunIds]

\* Every variable has its type.
TypeOK ==
    /\ job \in [Jobs -> [exists : BOOLEAN, active : BOOLEAN, due : BOOLEAN,
                         streak : 0..(Threshold + 1), trips : 0..2,
                         snap : 0..MaxChanges,
                         alerted : SUBSET (0..MaxChanges)]]
    /\ ownerOn \in BOOLEAN
    /\ row \in [RunIds -> [status : Statuses, job : Jobs]]
    /\ world \in [Jobs -> 0..MaxChanges]
    /\ faults \in 0..MaxFaults
    /\ phase \in {"down", "running", "stopping", "stopped"}
    /\ tick \in [on : BOOLEAN, awaits : SUBSET RunIds]
    /\ inflight \in [Jobs -> RunIds \cup {NoRun}]
    /\ run \in [RunIds -> [pc : RunPcs, job : Jobs,
                           streak : 0..(Threshold + 1),
                           outcome : {"none", "ok", "error", "aborted",
                                      "rejected"},
                           seen : 0..MaxChanges, aborted : BOOLEAN,
                           manual : BOOLEAN]]
    /\ micro \in Seq(Continuations) /\ waiting \in Seq(Continuations)
    /\ writer \in BOOLEAN
    /\ draining \subseteq RunIds

\* At most one run of a job is at work, however ticks, manual triggers,
\* maintenance and restarts interleave (claim's anti-join, insertRunning and
\* the partial unique index; scheduler.ts:249-251).
OneRunPerJob ==
    \A j \in Jobs, r, s \in RunIds : Busy(r, j) /\ Busy(s, j) => r = s

\* While the process is up, every running row has its runner in this
\* process: no row is left that excludes its job from claims with nobody to
\* finalize it (scheduler.ts:142-143).
NoOrphanRow ==
    phase # "down" =>
      \A r \in RunIds : Running(r) =>
        run[r].pc \in {"claimed", "soap", "persist", "finalize", "caught"}
          \/ (run[r].pc = "settled" /\ run[r].manual)

\* The fail_streak a scheduled run was claimed with is still the row's when the
\* run ends, so the increment it writes back is not a lost update, whatever
\* manual runs of the job come before it (scheduler.ts:626-627 adds one to the
\* claim-time copy).  A manual run has its copy from before its own wait for
\* the lock, and may write a stale one.
StreakNotStale ==
    \A r \in RunIds : Running(r) /\ Live(r) /\ ~run[r].manual =>
      run[r].streak = job[run[r].job].streak

\* One source_error alert for each streak that reaches the threshold, and
\* none before it (scheduler.ts:656-660).
SourceErrorOncePerStreak ==
    \A j \in Jobs :
      job[j].trips = (IF job[j].streak >= Threshold THEN 1 ELSE 0)

\* A change the baseline snapshot has absorbed has its alert: whatever
\* fails or crashes between them, the next diff does not hide it
\* (dosarSoapRunner.ts:187-192).
NoChangeSwallowed ==
    \A j \in Jobs : job[j].snap # 0 => job[j].snap \in job[j].alerted

\* Every run at work can be found in the inflight map, by which stop()
\* aborts it and DELETE refuses (scheduler.ts:217-226).
RunsAreTracked ==
    \A r \in RunIds : run[r].pc \in {"soap", "persist", "finalize"}
      => inflight[run[r].job] = r

\* When stop() has returned no run is at work any more: it has aborted and
\* awaited them all (scheduler.ts:221-222).
StopDrainsRuns == phase = "stopped" => \A r \in RunIds : ~Live(r)

\* An aborted run leaves its job's schedule, streak and alerts as they were
\* (scheduler.ts:590-594).
AbortLeavesJob ==
    [][\A r \in RunIds :
         row[r].status = "running" /\ row'[r].status = "aborted"
           => UNCHANGED job]_vars

\* A due job is eventually run, or stops being due, or the scheduler stops.
DueJobIsServed ==
    \A j \in Jobs :
      (phase = "running" /\ Due(j)) ~>
        \/ phase # "running" \/ ~Due(j)
        \/ \E r \in RunIds : Live(r) /\ run[r].job = j

\* stop() returns.
StopCompletes == (phase = "stopping") ~> (phase # "stopping")
=============================================================================
