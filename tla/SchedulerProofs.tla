--------------------------- MODULE SchedulerProofs ---------------------------
(***************************************************************************)
(* The scheduler runs each job once at a time, strands no row, and keeps   *)
(* streaks and snapshots exact, for any jobs, run ids and limits, and      *)
(* whatever ticks, manual triggers, routes, maintenance, stops and crashes *)
(* interleave.                                                             *)
(***************************************************************************)
EXTENDS Scheduler, TLAPS, SequenceTheorems

JobRecord == [exists : BOOLEAN, active : BOOLEAN, due : BOOLEAN,
              streak : 0..(Threshold + 1), trips : 0..2, snap : 0..MaxChanges,
              alerted : SUBSET (0..MaxChanges)]

RowRecord == [status : Statuses, job : Jobs]

Outcomes == {"none", "ok", "error", "aborted", "rejected"}

Runner == [pc : RunPcs, job : Jobs, streak : 0..(Threshold + 1), outcome : Outcomes,
           seen : 0..MaxChanges, aborted : BOOLEAN, manual : BOOLEAN]

OneRunKinds == {"launch", "persist", "returned", "finalize", "complete", "finally", "caught"}

\* The runs a continuation goes on with.
RunsOf(c) == IF c.k = "dispatch" THEN c.runs
             ELSE IF c.k \in OneRunKinds THEN {c.run} ELSE {}

\* Where a run is while a continuation of it waits.
AtStage(k, at) ==
    \/ k \in {"dispatch", "launch"} /\ at = "claimed"
    \/ k \in {"persist", "returned"} /\ at = "persist"
    \/ k = "finalize" /\ at = "finalize"
    \/ k \in {"complete", "finally"} /\ at = "settled"
    \/ k = "caught" /\ at = "caught"

\* Every continuation finds its runs where it left them ...
Matched(q) == \A i \in 1..Len(q) : \A r \in RunsOf(q[i]) : AtStage(q[i].k, run[r].pc)

Disjoint(c, d) == \A r \in RunsOf(c) : r \notin RunsOf(d)

\* ... and no two are of the same run.
Apart(q) == \A i, j \in 1..Len(q) : i # j => Disjoint(q[i], q[j])

Queues ==
    /\ micro \in Seq(Continuations) /\ waiting \in Seq(Continuations)
    /\ Matched(micro) /\ Matched(waiting)
    /\ Apart(micro) /\ Apart(waiting)
    /\ \A i \in 1..Len(micro), j \in 1..Len(waiting) :
         Disjoint(micro[i], waiting[j])

\* A run at work has its running row, unless its job has been deleted.
Backed ==
    \A r \in RunIds : Live(r) =>
      (Running(r) /\ row[r].job = run[r].job) \/ ~job[run[r].job].exists

\* A process that is down has nothing.
Empty ==
    phase = "down" =>
      /\ \A r \in RunIds : run[r].pc = "none"
      /\ micro = <<>> /\ waiting = <<>>

\* The types of all that is neither queue nor run.
TablesOK ==
    /\ job \in [Jobs -> JobRecord] /\ ownerOn \in BOOLEAN
    /\ row \in [RunIds -> RowRecord] /\ world \in [Jobs -> 0..MaxChanges]
    /\ faults \in 0..MaxFaults
    /\ phase \in {"down", "running", "stopping", "stopped"}
    /\ tick \in [on : BOOLEAN, awaits : SUBSET RunIds]
    /\ inflight \in [Jobs -> RunIds \cup {NoRun}]
    /\ writer \in BOOLEAN /\ draining \subseteq RunIds

\* Only a run that is over has been rejected.
RunsOK ==
    /\ run \in [RunIds -> Runner]
    /\ \A r \in RunIds : run[r].outcome = "rejected" => run[r].pc \in {"settled", "caught"}

SchedInv == TablesOK /\ RunsOK /\ Queues /\ Backed /\ OneRunPerJob /\ Empty

-----------------------------------------------------------------------------
\* The queues

\* What kind of record a continuation is.
LEMMA ContinuationKinds ==
  ASSUME NEW c \in Continuations
  PROVE  /\ c.k \in {"claim", "dispatch", "insert"} \cup OneRunKinds
         /\ c.k = "dispatch" => c.runs \in SUBSET RunIds
         /\ c.k = "insert" => c.job \in Jobs /\ c.streak \in 0..(Threshold + 1)
         /\ c.k \in OneRunKinds => c.run \in RunIds
         /\ RunsOf(c) \subseteq RunIds
BY DEF Continuations, OneRunKinds, RunsOf

\* Nobody waits for a run that has not begun, or for one at its source.
LEMMA NoStage == \A k : ~AtStage(k, "none") /\ ~AtStage(k, "soap")
BY DEF AtStage

\* The head is served, or the queue is empty; at most one continuation is new,
\* in one of the queues, and of runs that were served or that nobody waited for.
LEMMA QueuesKeep ==
  ASSUME Queues, NEW rest, NEW served, NEW c \in Continuations,
         \/ micro # <<>> /\ rest = Tail(micro) /\ served = RunsOf(Head(micro))
         \/ micro = <<>> /\ rest = <<>> /\ served = {},
         \/ waiting' = waiting /\ micro' = rest
         \/ waiting' = waiting /\ micro' = Append(rest, c)
         \/ waiting' = Append(waiting, c) /\ micro' = rest,
         \A r \in RunsOf(c) : AtStage(c.k, run'[r].pc),
         \A r \in RunIds : run'[r].pc # run[r].pc \/ r \in RunsOf(c) =>
           r \in served \/ run[r].pc \in {"none", "soap"}
  PROVE  Queues'
<1>1. /\ rest \in Seq(Continuations)
      /\ \A i \in 1..Len(rest) : \A r \in RunsOf(rest[i]) : AtStage(rest[i].k, run[r].pc)
      /\ \A i, j \in 1..Len(rest) : i # j => Disjoint(rest[i], rest[j])
      /\ \A i \in 1..Len(rest), j \in 1..Len(waiting) :
           Disjoint(rest[i], waiting[j])
      /\ \A i \in 1..Len(rest) : \A r \in RunsOf(rest[i]) : r \notin served
      /\ \A j \in 1..Len(waiting) : \A r \in RunsOf(waiting[j]) : r \notin served
  <2>1. CASE micro # <<>> /\ rest = Tail(micro) /\ served = RunsOf(Head(micro))
    <3>1. micro \in Seq(Continuations) /\ Len(micro) \in Nat \ {0} /\ Head(micro) = micro[1]
      BY <2>1 DEF Queues
    <3>2. /\ rest \in Seq(Continuations) /\ Len(rest) = Len(micro) - 1
          /\ \A i \in 1..Len(rest) : i + 1 \in 1..Len(micro) /\ rest[i] = micro[i + 1]
      BY <2>1, <3>1
    <3>3. 1 \in 1..Len(micro) /\ served = RunsOf(micro[1])
      BY <2>1, <3>1
    <3>4. \A i \in 1..Len(rest) : \A r \in RunsOf(rest[i]) :
            AtStage(rest[i].k, run[r].pc) /\ r \notin served
      <4> SUFFICES ASSUME NEW i \in 1..Len(rest), NEW r \in RunsOf(rest[i])
                   PROVE  AtStage(rest[i].k, run[r].pc) /\ r \notin served
        OBVIOUS
      <4>1. i + 1 \in 1..Len(micro) /\ rest[i] = micro[i + 1] /\ i + 1 # 1
        BY <3>1, <3>2
      <4>2. AtStage(rest[i].k, run[r].pc)
        BY <4>1 DEF Queues, Matched
      <4>3. r \notin served
        BY <3>3, <4>1 DEF Queues, Apart, Disjoint
      <4> QED
        BY <4>2, <4>3
    <3>5. \A i, j \in 1..Len(rest) : i # j => Disjoint(rest[i], rest[j])
      BY <3>1, <3>2 DEF Queues, Apart
    <3>6. \A i \in 1..Len(rest), j \in 1..Len(waiting) : Disjoint(rest[i], waiting[j])
      BY <3>2 DEF Queues
    <3>7. \A j \in 1..Len(waiting) : \A r \in RunsOf(waiting[j]) : r \notin served
      BY <3>3 DEF Queues, Disjoint
    <3> QED
      BY <3>2, <3>4, <3>5, <3>6, <3>7
  <2>2. CASE micro = <<>> /\ rest = <<>> /\ served = {}
    BY <2>2 DEF Queues
  <2> QED
    BY <2>1, <2>2
<1>2. \A q \in Seq(Continuations) : \A i \in 1..Len(q) : RunsOf(q[i]) \subseteq RunIds
  BY ContinuationKinds
<1>3. \A i \in 1..Len(rest) :
        /\ Disjoint(rest[i], c) /\ Disjoint(c, rest[i])
        /\ \A r \in RunsOf(rest[i]) : AtStage(rest[i].k, run'[r].pc)
  <2> SUFFICES ASSUME NEW i \in 1..Len(rest), NEW r \in RunsOf(rest[i])
               PROVE  r \notin RunsOf(c) /\ AtStage(rest[i].k, run'[r].pc)
    BY DEF Disjoint
  <2>1. r \in RunIds /\ r \notin served
    BY <1>1, <1>2
  <2>2. AtStage(rest[i].k, run[r].pc)
    BY <1>1
  <2>3. run[r].pc \notin {"none", "soap"}
    BY <2>2, NoStage
  <2> QED
    BY <2>1, <2>2, <2>3
<1>4. \A i \in 1..Len(waiting) :
        /\ Disjoint(waiting[i], c) /\ Disjoint(c, waiting[i])
        /\ \A r \in RunsOf(waiting[i]) : AtStage(waiting[i].k, run'[r].pc)
  <2> SUFFICES ASSUME NEW i \in 1..Len(waiting), NEW r \in RunsOf(waiting[i])
               PROVE  r \notin RunsOf(c) /\ AtStage(waiting[i].k, run'[r].pc)
    BY DEF Disjoint
  <2>1. r \in RunIds /\ r \notin served
    BY <1>1, <1>2 DEF Queues
  <2>2. AtStage(waiting[i].k, run[r].pc)
    BY <1>1 DEF Queues, Matched
  <2>3. run[r].pc \notin {"none", "soap"}
    BY <2>2, NoStage
  <2> QED
    BY <2>1, <2>2, <2>3
<1>5. /\ Append(rest, c) \in Seq(Continuations) /\ Len(Append(rest, c)) = Len(rest) + 1
      /\ \A i \in 1..(Len(rest) + 1) :
           Append(rest, c)[i] = IF i = Len(rest) + 1 THEN c ELSE rest[i]
      /\ Len(rest) \in Nat
  BY <1>1
<1>6. /\ Append(waiting, c) \in Seq(Continuations) /\ Len(Append(waiting, c)) = Len(waiting) + 1
      /\ \A i \in 1..(Len(waiting) + 1) :
           Append(waiting, c)[i] = IF i = Len(waiting) + 1 THEN c ELSE waiting[i]
      /\ Len(waiting) \in Nat /\ waiting \in Seq(Continuations)
  BY DEF Queues
<1>7. CASE waiting' = waiting /\ micro' = rest
  BY <1>1, <1>3, <1>4, <1>7 DEF Queues, Matched, Apart
<1>8. CASE waiting' = waiting /\ micro' = Append(rest, c)
  <2>1. micro' \in Seq(Continuations) /\ waiting' \in Seq(Continuations)
    BY <1>5, <1>6, <1>8
  <2>2. Matched(micro)' /\ Matched(waiting)'
    BY <1>3, <1>4, <1>5, <1>8 DEF Matched
  <2>3. Apart(micro)' /\ Apart(waiting)'
    <3>1. \A i \in 1..Len(rest) : Disjoint(c, rest[i])
      BY <1>3 DEF Disjoint
    <3> QED
      BY <1>1, <1>3, <1>5, <1>8, <3>1 DEF Apart, Queues
  <2>4. \A i \in 1..Len(micro'), j \in 1..Len(waiting') :
          Disjoint(micro'[i], waiting'[j])
    BY <1>1, <1>4, <1>5, <1>8
  <2> QED
    BY <2>1, <2>2, <2>3, <2>4 DEF Queues
<1>9. CASE waiting' = Append(waiting, c) /\ micro' = rest
  <2>1. micro' \in Seq(Continuations) /\ waiting' \in Seq(Continuations)
    BY <1>1, <1>6, <1>9
  <2>2. Matched(micro)' /\ Matched(waiting)'
    BY <1>3, <1>4, <1>6, <1>9 DEF Matched
  <2>3. Apart(micro)' /\ Apart(waiting)'
    BY <1>1, <1>4, <1>6, <1>9 DEF Apart, Queues
  <2>4. \A i \in 1..Len(micro'), j \in 1..Len(waiting') :
          Disjoint(micro'[i], waiting'[j])
    BY <1>1, <1>3, <1>6, <1>9
  <2> QED
    BY <2>1, <2>2, <2>3, <2>4 DEF Queues
<1> QED
  BY <1>7, <1>8, <1>9

\* Nothing happens to the queues, nor to where the runs are.
LEMMA QueuesStay ==
  ASSUME Queues, UNCHANGED <<micro, waiting>>, \A r \in RunIds : run'[r].pc = run[r].pc
  PROVE  Queues'
<1>1. \A q \in Seq(Continuations) : \A i \in 1..Len(q) : RunsOf(q[i]) \subseteq RunIds
  BY ContinuationKinds
<1> QED
  BY <1>1 DEF Queues, Matched, Apart

\* A new continuation of a run.
LEMMA NewContinuation ==
  ASSUME NEW r \in RunIds, NEW k \in OneRunKinds
  PROVE  /\ [k |-> k, run |-> r] \in Continuations
         /\ RunsOf([k |-> k, run |-> r]) = {r}
BY DEF Continuations, OneRunKinds, RunsOf

LEMMA ClaimContinuation == [k |-> "claim"] \in Continuations /\ RunsOf([k |-> "claim"]) = {}
BY DEF Continuations, OneRunKinds, RunsOf

\* The head is served and no more.
LEMMA QueuesDone ==
  ASSUME Queues, micro # <<>>, Done,
         \A r \in RunIds : run'[r].pc # run[r].pc => r \in RunsOf(Head(micro))
  PROVE  Queues'
BY QueuesKeep, ClaimContinuation DEF Done

\* The head is served, and its run waits for something else.
LEMMA QueuesGoOn ==
  ASSUME Queues, micro # <<>>, NEW r \in RunIds, NEW k \in OneRunKinds,
         Then([k |-> k, run |-> r]) \/ AwaitRead(Tail(micro), [k |-> k, run |-> r]),
         r \in RunsOf(Head(micro)) \/ run[r].pc = "none", AtStage(k, run'[r].pc),
         \A s \in RunIds : run'[s].pc # run[s].pc => s = r
  PROVE  Queues'
<1> DEFINE c == [k |-> k, run |-> r]
<1>1. c \in Continuations /\ RunsOf(c) = {r} /\ c.k = k
  BY NewContinuation
<1>2. PICK rest, served :
        /\ rest = Tail(micro) /\ served = RunsOf(Head(micro))
        /\ \/ waiting' = waiting /\ micro' = Append(rest, c)
           \/ waiting' = Append(waiting, c) /\ micro' = rest
  BY DEF Then, AwaitRead
<1> HIDE DEF c
<1>3. \A s \in RunIds : run'[s].pc # run[s].pc \/ s \in RunsOf(c) =>
        s \in served \/ run[s].pc \in {"none", "soap"}
  BY <1>1, <1>2
<1>4. \A s \in RunsOf(c) : AtStage(c.k, run'[s].pc)
  BY <1>1
<1> QED
  BY <1>1, <1>2, <1>3, <1>4, QueuesKeep

\* A run's answer arrives in an idle loop.
LEMMA QueuesArrive ==
  ASSUME Queues, Idle, NEW r \in RunIds, NEW k \in OneRunKinds,
         AwaitRead(<<>>, [k |-> k, run |-> r]),
         run[r].pc = "soap", AtStage(k, run'[r].pc),
         \A s \in RunIds : run'[s].pc # run[s].pc => s = r
  PROVE  Queues'
<1> DEFINE c == [k |-> k, run |-> r]
<1>1. c \in Continuations /\ RunsOf(c) = {r} /\ c.k = k
  BY NewContinuation
<1>2. PICK rest, served :
        /\ micro = <<>> /\ rest = <<>> /\ served = {}
        /\ \/ waiting' = waiting /\ micro' = Append(rest, c)
           \/ waiting' = Append(waiting, c) /\ micro' = rest
  BY DEF AwaitRead, Idle
<1> HIDE DEF c
<1>3. \A s \in RunIds : run'[s].pc # run[s].pc \/ s \in RunsOf(c) =>
        s \in served \/ run[s].pc \in {"none", "soap"}
  BY <1>1
<1>4. \A s \in RunsOf(c) : AtStage(c.k, run'[s].pc)
  BY <1>1
<1> QED
  BY <1>1, <1>2, <1>3, <1>4, QueuesKeep

\* A continuation of no run arrives in an idle loop.
LEMMA QueuesAsk ==
  ASSUME Queues, Idle, NEW c \in Continuations, RunsOf(c) = {}, AwaitRead(<<>>, c), run' = run
  PROVE  Queues'
<1>1. PICK rest, served :
        /\ micro = <<>> /\ rest = <<>> /\ served = {}
        /\ \/ waiting' = waiting /\ micro' = Append(rest, c)
           \/ waiting' = Append(waiting, c) /\ micro' = rest
  BY DEF AwaitRead, Idle
<1> QED
  BY <1>1, QueuesKeep

\* What serving the head of the queue starts from.
LEMMA ServedHead ==
  ASSUME Queues, Empty, NEW k, Serving(k)
  PROVE  /\ micro # <<>> /\ phase # "down"
         /\ Head(micro) \in Continuations /\ Head(micro).k = k
         /\ \A r \in RunsOf(Head(micro)) : r \in RunIds /\ AtStage(k, run[r].pc)
<1>1. /\ micro # <<>> /\ Len(micro) \in Nat \ {0} /\ Head(micro) = micro[1]
      /\ Head(micro) \in Continuations /\ Head(micro).k = k
  BY DEF Serving, Queues
<1>2. \A r \in RunsOf(Head(micro)) : r \in RunIds /\ AtStage(k, run[r].pc)
  BY <1>1, ContinuationKinds DEF Queues, Matched
<1> QED
  BY <1>1, <1>2 DEF Empty

LEMMA ServedRun ==
  ASSUME Queues, Empty, NEW k \in OneRunKinds, Serving(k)
  PROVE  /\ micro # <<>> /\ phase # "down"
         /\ Head(micro).run \in RunIds /\ RunsOf(Head(micro)) = {Head(micro).run}
         /\ AtStage(k, run[Head(micro).run].pc)
<1>1. Head(micro).run \in RunIds /\ RunsOf(Head(micro)) = {Head(micro).run}
  BY ServedHead, ContinuationKinds DEF RunsOf, OneRunKinds
<1> QED
  BY <1>1, ServedHead

-----------------------------------------------------------------------------
\* Rows and runs

\* Rows end and runs end, jobs go; a run at work keeps its row unless its job
\* has gone.
LEMMA RowsKeep ==
  ASSUME Backed, OneRunPerJob,
         \A r \in RunIds : Live(r)' => Live(r) /\ run'[r].job = run[r].job,
         \A r \in RunIds : Running(r)' => Running(r) /\ row'[r].job = row[r].job,
         \A r \in RunIds : Live(r)' /\ Running(r) /\ row[r].job = run[r].job =>
           Running(r)' \/ ~job'[run[r].job].exists,
         \A r \in RunIds : Live(r)' => run[r].job \in Jobs,
         \A j \in Jobs : job'[j].exists => job[j].exists
  PROVE  Backed' /\ OneRunPerJob'
<1>1. \A r \in RunIds : \A j : Busy(r, j)' => Busy(r, j)
  BY DEF Busy
<1>2. Backed'
  BY DEF Backed
<1> QED
  BY <1>1, <1>2 DEF OneRunPerJob

\* New runs are of jobs that exist, that have no running row and that are
\* different: these jobs have no run at work either.
LEMMA RowsAdd ==
  ASSUME Backed, OneRunPerJob, NEW ids \in SUBSET RunIds, UNCHANGED job,
         \A r \in RunIds : Live(r) => run[r].job \in Jobs,
         \A r \in ids : /\ row'[r].status = "running" /\ row'[r].job = run'[r].job
                        /\ run'[r].job \in Jobs /\ job[run'[r].job].exists
                        /\ ~HasRunningRow(run'[r].job),
         \A r, s \in ids : run'[r].job = run'[s].job => r = s,
         \A r \in RunIds \ ids : row'[r] = row[r] /\ run'[r] = run[r]
  PROVE  Backed' /\ OneRunPerJob'
<1>1. Backed'
  BY DEF Backed, Live, Running
<1>2. \A r \in RunIds \ ids, j \in Jobs : Busy(r, j)' <=> Busy(r, j)
  BY DEF Busy, Live, Running
<1>3. \A r \in ids, j \in Jobs : Busy(r, j)' => j = run'[r].job
  BY DEF Busy, Live, Running
<1>4. \A r \in ids, s \in RunIds : ~Busy(s, run'[r].job)
  BY DEF Busy, Backed, HasRunningRow
<1> QED
  BY <1>1, <1>2, <1>3, <1>4 DEF OneRunPerJob

-----------------------------------------------------------------------------
\* The steps

LEMMA NoRunnerTyped ==
  NoRunner \in Runner /\ NoRunner.pc = "none" /\ NoRunner.manual = FALSE
<1>1. (CHOOSE j \in Jobs : TRUE) \in Jobs
  BY SchedulerAssumption
<1>2. 0 \in 0..(Threshold + 1) /\ 0 \in 0..MaxChanges
  BY SchedulerAssumption
<1> QED
  BY <1>1, <1>2 DEF NoRunner, Runner, RunPcs, Outcomes

LEMMA CopyTyped ==
  ASSUME NEW j \in Jobs, NEW n \in 0..(Threshold + 1), NEW byHand \in BOOLEAN
  PROVE  /\ Copy(j, n, byHand) \in Runner
         /\ Copy(j, n, byHand).pc = "claimed" /\ Copy(j, n, byHand).job = j
         /\ Copy(j, n, byHand).streak = n /\ Copy(j, n, byHand).manual = byHand
BY NoRunnerTyped DEF Copy, Runner, RunPcs

\* The outcome of a run moves its job within the bounds, and no other.
LEMMA OutcomeTyped ==
  ASSUME TablesOK, RunsOK, NEW r \in RunIds, NEW past \in BOOLEAN, ApplyOutcome(r, past)
  PROVE  /\ job' \in [Jobs -> JobRecord]
         /\ \A j \in Jobs : job'[j].exists = job[j].exists
         /\ \A j \in Jobs : job'[j].snap = job[j].snap /\ job'[j].alerted = job[j].alerted
         /\ \A j \in Jobs \ {run[r].job} : job'[j] = job[j]
         /\ job'[run[r].job].streak = IF run[r].outcome = "ok" THEN 0
                                      ELSE Smaller(run[r].streak + 1, Threshold + 1)
         /\ job'[run[r].job].trips =
              IF job'[run[r].job].streak = 0 THEN 0
              ELSE IF job'[run[r].job].streak = Threshold THEN Smaller(job[run[r].job].trips + 1, 2)
              ELSE job[run[r].job].trips
<1> DEFINE c == run[r]
           b == job[c.job]
           n == IF c.outcome = "ok" THEN 0 ELSE Smaller(c.streak + 1, Threshold + 1)
           t == IF n = 0 THEN 0 ELSE IF n = Threshold THEN Smaller(b.trips + 1, 2) ELSE b.trips
           new == [b EXCEPT !.streak = n, !.due = past, !.trips = t]
<1>1. c.job \in Jobs /\ b \in JobRecord /\ c.streak \in 0..(Threshold + 1)
  BY DEF TablesOK, RunsOK, Runner
<1>2. n \in 0..(Threshold + 1)
  BY <1>1, SchedulerAssumption DEF Smaller
<1>3. t \in 0..2
  BY <1>1 DEF Smaller, JobRecord
<1>4. job' = [job EXCEPT ![c.job] = new]
  BY <1>1 DEF ApplyOutcome, TablesOK, JobRecord
<1> HIDE DEF n, t
<1>5. new \in JobRecord /\ new.exists = b.exists /\ new.snap = b.snap /\ new.alerted = b.alerted
      /\ new.streak = n /\ new.trips = t
  BY <1>1, <1>2, <1>3 DEF JobRecord
<1> HIDE DEF new
<1>6. /\ job' \in [Jobs -> JobRecord] /\ job'[c.job] = new
      /\ \A j \in Jobs \ {c.job} : job'[j] = job[j]
  BY <1>1, <1>4, <1>5 DEF TablesOK
<1> QED
  BY <1>1, <1>5, <1>6 DEF n, t

\* Snapshot and alerts are committed together.
LEMMA PersistTables ==
  ASSUME TablesOK, RunsOK, NEW r \in RunIds,
         job' = [job EXCEPT ![run[r].job].snap = run[r].seen,
                   ![run[r].job].alerted = IF run[r].seen = job[run[r].job].snap THEN @
                                           ELSE @ \cup {run[r].seen}]
  PROVE  /\ job' \in [Jobs -> JobRecord]
         /\ \A j \in Jobs : job'[j].exists = job[j].exists /\ job'[j].streak = job[j].streak
                            /\ job'[j].trips = job[j].trips
         /\ \A j \in Jobs \ {run[r].job} : job'[j] = job[j]
         /\ job'[run[r].job].snap = run[r].seen
         /\ job'[run[r].job].alerted = IF run[r].seen = job[run[r].job].snap
                                       THEN job[run[r].job].alerted
                                       ELSE job[run[r].job].alerted \cup {run[r].seen}
<1> DEFINE b == job[run[r].job]
           n == run[r].seen
           a == IF n = b.snap THEN b.alerted ELSE b.alerted \cup {n}
           new == [b EXCEPT !.snap = n, !.alerted = a]
<1>1. run[r].job \in Jobs /\ b \in JobRecord /\ n \in 0..MaxChanges
  BY DEF TablesOK, RunsOK, Runner
<1>2. a \in SUBSET (0..MaxChanges)
  BY <1>1, SchedulerAssumption DEF JobRecord
<1>3. job' = [job EXCEPT ![run[r].job] = new]
  BY <1>1 DEF TablesOK, JobRecord
<1> HIDE DEF a
<1>4. /\ new \in JobRecord /\ new.exists = b.exists /\ new.streak = b.streak
      /\ new.trips = b.trips /\ new.snap = n /\ new.alerted = a
  BY <1>1, <1>2 DEF JobRecord
<1> HIDE DEF new
<1>5. /\ job' \in [Jobs -> JobRecord] /\ job'[run[r].job] = new
      /\ \A j \in Jobs \ {run[r].job} : job'[j] = job[j]
  BY <1>1, <1>3, <1>4 DEF TablesOK
<1> QED
  BY <1>1, <1>4, <1>5 DEF a

\* Snapshot and alerts are committed, the run goes on.
LEMMA PersistKeeps ==
  ASSUME SchedInv, Persist
  PROVE  SchedInv'
<1> DEFINE r == Head(micro).run
<1>1. /\ micro # <<>> /\ phase # "down" /\ phase' = phase
      /\ r \in RunIds /\ RunsOf(Head(micro)) = {r} /\ run[r].pc = "persist"
  BY ServedRun DEF Persist, SchedInv, OneRunKinds, AtStage, process
<1> USE DEF SchedInv
<1> HIDE DEF r
<1>2. run' = [run EXCEPT ![r] = [run[r] EXCEPT !.outcome = "ok"]]
  BY <1>1 DEF Persist, r, RunsOK, Runner, Settle
<1>3. /\ RunsOK' /\ run'[r] = [run[r] EXCEPT !.outcome = "ok"]
      /\ \A s \in RunIds \ {r} : run'[s] = run[s]
  <2>1. run[r] \in Runner /\ [run[r] EXCEPT !.outcome = "ok"] \in Runner
    BY <1>1 DEF RunsOK, Runner, RunPcs, Outcomes
  <2>2. [run[r] EXCEPT !.outcome = "ok"].outcome = "rejected" =>
          [run[r] EXCEPT !.outcome = "ok"].pc \in {"settled", "caught"}
    BY <1>1 DEF RunsOK, Runner
  <2> QED
    BY <1>1, <1>2, <2>1, <2>2 DEF RunsOK
<1>5. Queues'
  <2>1. Then([k |-> "returned", run |-> r])
    BY DEF Persist, r
  <2>2. AtStage("returned", run'[r].pc)
    BY <1>1, <1>2, <1>3 DEF AtStage, RunsOK, Runner
  <2>3. \A s \in RunIds : run'[s].pc # run[s].pc => s = r
    BY <1>2, <1>3
  <2> QED
    BY <1>1, <2>1, <2>2, <2>3, QueuesGoOn DEF OneRunKinds
<1>6. \A j \in Jobs : job'[j].exists = job[j].exists
  BY <1>1, PersistTables DEF Persist, r
<1>7. TablesOK'
  <2>1. job' \in [Jobs -> JobRecord]
    BY <1>1, PersistTables DEF Persist, r
  <2> QED
    BY <2>1 DEF Persist, TablesOK
<1>8. Backed' /\ OneRunPerJob'
  <2>1. \A s \in RunIds : Live(s)' => Live(s) /\ run'[s].job = run[s].job
    BY <1>1, <1>2, <1>3 DEF Live, RunsOK, Runner
  <2>2. \A s \in RunIds : Running(s)' => Running(s) /\ row'[s].job = row[s].job
    BY <1>1 DEF Persist, r, db, Running, RunsOK, Runner, Outcomes, TablesOK, RowRecord
  <2>3. \A s \in RunIds : Live(s)' /\ Running(s) => Running(s)'
    BY <1>1, <1>2, <1>3 DEF Persist, r, db, Running, Live, RunsOK, Runner, TablesOK, RowRecord
  <2>4. \A j \in Jobs : job'[j].exists => job[j].exists
    BY <1>6 DEF Persist, db
  <2>5. \A s \in RunIds : Live(s)' => run[s].job \in Jobs
    BY DEF RunsOK, Runner
  <2> QED
    BY <2>1, <2>2, <2>3, <2>4, <2>5, RowsKeep
<1>9. Empty'
  BY <1>1 DEF Empty
<1> QED
  BY <1>3, <1>5, <1>7, <1>8, <1>9

\* Nothing is committed, and the run goes on with an error.
LEMMA PersistFailsKeeps ==
  ASSUME SchedInv, PersistFails
  PROVE  SchedInv'
<1> DEFINE r == Head(micro).run
<1>1. /\ micro # <<>> /\ phase # "down" /\ phase' = phase
      /\ r \in RunIds /\ RunsOf(Head(micro)) = {r} /\ run[r].pc = "persist"
  BY ServedRun DEF PersistFails, SchedInv, OneRunKinds, AtStage, process
<1> USE DEF SchedInv
<1> HIDE DEF r
<1>2. run' = [run EXCEPT ![r] = [run[r] EXCEPT !.outcome = "error"]]
  BY <1>1 DEF PersistFails, r, RunsOK, Runner, Settle
<1>3. /\ RunsOK' /\ run'[r] = [run[r] EXCEPT !.outcome = "error"]
      /\ \A s \in RunIds \ {r} : run'[s] = run[s]
  <2>1. run[r] \in Runner /\ [run[r] EXCEPT !.outcome = "error"] \in Runner
    BY <1>1 DEF RunsOK, Runner, RunPcs, Outcomes
  <2>2. [run[r] EXCEPT !.outcome = "error"].outcome = "rejected" =>
          [run[r] EXCEPT !.outcome = "error"].pc \in {"settled", "caught"}
    BY <1>1 DEF RunsOK, Runner
  <2> QED
    BY <1>1, <1>2, <2>1, <2>2 DEF RunsOK
<1>5. Queues'
  <2>1. Then([k |-> "returned", run |-> r])
    BY DEF PersistFails, r
  <2>2. AtStage("returned", run'[r].pc)
    BY <1>1, <1>2, <1>3 DEF AtStage, RunsOK, Runner
  <2>3. \A s \in RunIds : run'[s].pc # run[s].pc => s = r
    BY <1>2, <1>3
  <2> QED
    BY <1>1, <2>1, <2>2, <2>3, QueuesGoOn DEF OneRunKinds
<1>7. TablesOK'
  BY DEF PersistFails, db, process, TablesOK
<1>8. Backed' /\ OneRunPerJob'
  <2>1. \A s \in RunIds : Live(s)' => Live(s) /\ run'[s].job = run[s].job
    BY <1>1, <1>2, <1>3 DEF Live, RunsOK, Runner
  <2>2. \A s \in RunIds : Running(s)' => Running(s) /\ row'[s].job = row[s].job
    BY <1>1 DEF PersistFails, r, db, Running, RunsOK, Runner, Outcomes, TablesOK, RowRecord
  <2>3. \A s \in RunIds : Live(s)' /\ Running(s) => Running(s)'
    BY <1>1, <1>2, <1>3 DEF PersistFails, r, db, Running, Live, RunsOK, Runner, TablesOK, RowRecord
  <2>4. \A j \in Jobs : job'[j].exists => job[j].exists
    BY <1>1 DEF PersistFails, db
  <2>5. \A s \in RunIds : Live(s)' => run[s].job \in Jobs
    BY DEF RunsOK, Runner
  <2> QED
    BY <2>1, <2>2, <2>3, <2>4, <2>5, RowsKeep
<1>9. Empty'
  BY <1>1 DEF Empty
<1> QED
  BY <1>3, <1>5, <1>7, <1>8, <1>9

\* The run asks for the lock again.
LEMMA RunnerReturnsKeeps ==
  ASSUME SchedInv, RunnerReturns
  PROVE  SchedInv'
<1> DEFINE r == Head(micro).run
<1>1. /\ micro # <<>> /\ phase # "down" /\ phase' = phase
      /\ r \in RunIds /\ RunsOf(Head(micro)) = {r} /\ run[r].pc = "persist"
  BY ServedRun DEF RunnerReturns, SchedInv, OneRunKinds, AtStage, process
<1> USE DEF SchedInv
<1> HIDE DEF r
<1>2. run' = [run EXCEPT ![r] = [run[r] EXCEPT !.pc = "finalize"]]
  BY <1>1 DEF RunnerReturns, r, RunsOK, Runner, Settle
<1>3. /\ RunsOK' /\ run'[r] = [run[r] EXCEPT !.pc = "finalize"]
      /\ \A s \in RunIds \ {r} : run'[s] = run[s]
  <2>1. run[r] \in Runner /\ [run[r] EXCEPT !.pc = "finalize"] \in Runner
    BY <1>1 DEF RunsOK, Runner, RunPcs, Outcomes
  <2>2. [run[r] EXCEPT !.pc = "finalize"].outcome = "rejected" =>
          [run[r] EXCEPT !.pc = "finalize"].pc \in {"settled", "caught"}
    BY <1>1 DEF RunsOK, Runner
  <2> QED
    BY <1>1, <1>2, <2>1, <2>2 DEF RunsOK
<1>5. Queues'
  <2>1. AwaitRead(Tail(micro), [k |-> "finalize", run |-> r])
    BY DEF RunnerReturns, r
  <2>2. AtStage("finalize", run'[r].pc)
    BY <1>1, <1>2, <1>3 DEF AtStage, RunsOK, Runner
  <2>3. \A s \in RunIds : run'[s].pc # run[s].pc => s = r
    BY <1>2, <1>3
  <2> QED
    BY <1>1, <2>1, <2>2, <2>3, QueuesGoOn DEF OneRunKinds
<1>7. TablesOK'
  BY DEF RunnerReturns, db, process, TablesOK
<1>8. Backed' /\ OneRunPerJob'
  <2>1. \A s \in RunIds : Live(s)' => Live(s) /\ run'[s].job = run[s].job
    BY <1>1, <1>2, <1>3 DEF Live, RunsOK, Runner
  <2>2. \A s \in RunIds : Running(s)' => Running(s) /\ row'[s].job = row[s].job
    BY <1>1 DEF RunnerReturns, r, db, Running, RunsOK, Runner, Outcomes, TablesOK, RowRecord
  <2>3. \A s \in RunIds : Live(s)' /\ Running(s) => Running(s)'
    BY <1>1, <1>2, <1>3 DEF RunnerReturns, r, db, Running, Live, RunsOK, Runner, TablesOK, RowRecord
  <2>4. \A j \in Jobs : job'[j].exists => job[j].exists
    BY <1>1 DEF RunnerReturns, db
  <2>5. \A s \in RunIds : Live(s)' => run[s].job \in Jobs
    BY DEF RunsOK, Runner
  <2> QED
    BY <2>1, <2>2, <2>3, <2>4, <2>5, RowsKeep
<1>9. Empty'
  BY <1>1 DEF Empty
<1> QED
  BY <1>3, <1>5, <1>7, <1>8, <1>9

\* Row and job are closed together.
LEMMA FinalizeKeeps ==
  ASSUME SchedInv, Finalize
  PROVE  SchedInv'
<1> DEFINE r == Head(micro).run
<1>1. /\ micro # <<>> /\ phase # "down" /\ phase' = phase
      /\ r \in RunIds /\ RunsOf(Head(micro)) = {r} /\ run[r].pc = "finalize"
  BY ServedRun DEF Finalize, SchedInv, OneRunKinds, AtStage, process
<1> USE DEF SchedInv
<1> HIDE DEF r
<1>2. run' = [run EXCEPT ![r] = [run[r] EXCEPT !.pc = "settled", !.outcome = run[r].outcome]]
  BY <1>1 DEF Finalize, r, RunsOK, Runner, Settle
<1>3. /\ RunsOK' /\ run'[r] = [run[r] EXCEPT !.pc = "settled", !.outcome = run[r].outcome]
      /\ \A s \in RunIds \ {r} : run'[s] = run[s]
  <2>1. run[r] \in Runner /\ [run[r] EXCEPT !.pc = "settled", !.outcome = run[r].outcome] \in Runner
    BY <1>1 DEF RunsOK, Runner, RunPcs, Outcomes
  <2>2. [run[r] EXCEPT !.pc = "settled", !.outcome = run[r].outcome].outcome = "rejected" =>
          [run[r] EXCEPT !.pc = "settled", !.outcome = run[r].outcome].pc \in {"settled", "caught"}
    BY <1>1 DEF RunsOK, Runner
  <2> QED
    BY <1>1, <1>2, <2>1, <2>2 DEF RunsOK
<1>5. Queues'
  <2>1. Then([k |-> "complete", run |-> r])
    BY DEF Finalize, r, Settle
  <2>2. AtStage("complete", run'[r].pc)
    BY <1>1, <1>2, <1>3 DEF AtStage, RunsOK, Runner
  <2>3. \A s \in RunIds : run'[s].pc # run[s].pc => s = r
    BY <1>2, <1>3
  <2> QED
    BY <1>1, <2>1, <2>2, <2>3, QueuesGoOn DEF OneRunKinds
<1>6. \A j \in Jobs : job'[j].exists = job[j].exists
  BY <1>1, OutcomeTyped DEF Finalize, r
<1>7. TablesOK'
  <2>1. job' \in [Jobs -> JobRecord]
    BY <1>1, OutcomeTyped DEF Finalize, r, TablesOK
  <2>2. row' \in [RunIds -> RowRecord]
    <3>1. CASE Running(r) /\ row' = [row EXCEPT ![r].status = run[r].outcome]
      <4>1. run[r].outcome \in Statuses
        BY <1>1 DEF RunsOK, Runner, Outcomes, Statuses
      <4> QED
        BY <1>1, <3>1, <4>1 DEF TablesOK, RowRecord
    <3>2. CASE row' = row
      BY <3>2 DEF TablesOK
    <3> QED
      BY <3>1, <3>2 DEF Finalize, r
  <2> QED
    BY <2>1, <2>2 DEF Finalize, TablesOK
<1>8. Backed' /\ OneRunPerJob'
  <2>1. \A s \in RunIds : Live(s)' => Live(s) /\ run'[s].job = run[s].job
    BY <1>1, <1>2, <1>3 DEF Live, RunsOK, Runner
  <2>2. \A s \in RunIds : Running(s)' => Running(s) /\ row'[s].job = row[s].job
    BY <1>1 DEF Finalize, r, db, Running, RunsOK, Runner, Outcomes, TablesOK, RowRecord
  <2>3. \A s \in RunIds : Live(s)' /\ Running(s) => Running(s)'
    BY <1>1, <1>2, <1>3 DEF Finalize, r, db, Running, Live, RunsOK, Runner, TablesOK, RowRecord
  <2>4. \A j \in Jobs : job'[j].exists => job[j].exists
    BY <1>6 DEF Finalize, db
  <2>5. \A s \in RunIds : Live(s)' => run[s].job \in Jobs
    BY DEF RunsOK, Runner
  <2> QED
    BY <2>1, <2>2, <2>3, <2>4, <2>5, RowsKeep
<1>9. Empty'
  BY <1>1 DEF Empty
<1> QED
  BY <1>3, <1>5, <1>7, <1>8, <1>9

\* Nothing is written.
LEMMA FinalizeThrowsKeeps ==
  ASSUME SchedInv, FinalizeThrows
  PROVE  SchedInv'
<1> DEFINE r == Head(micro).run
<1>1. /\ micro # <<>> /\ phase # "down" /\ phase' = phase
      /\ r \in RunIds /\ RunsOf(Head(micro)) = {r} /\ run[r].pc = "finalize"
  BY ServedRun DEF FinalizeThrows, SchedInv, OneRunKinds, AtStage, process
<1> USE DEF SchedInv
<1> HIDE DEF r
<1>2. run' = [run EXCEPT ![r] = [run[r] EXCEPT !.pc = "settled", !.outcome = "rejected"]]
  BY <1>1 DEF FinalizeThrows, r, RunsOK, Runner, Settle
<1>3. /\ RunsOK' /\ run'[r] = [run[r] EXCEPT !.pc = "settled", !.outcome = "rejected"]
      /\ \A s \in RunIds \ {r} : run'[s] = run[s]
  <2>1. run[r] \in Runner /\ [run[r] EXCEPT !.pc = "settled", !.outcome = "rejected"] \in Runner
    BY <1>1 DEF RunsOK, Runner, RunPcs, Outcomes
  <2>2. [run[r] EXCEPT !.pc = "settled", !.outcome = "rejected"].outcome = "rejected" =>
          [run[r] EXCEPT !.pc = "settled", !.outcome = "rejected"].pc \in {"settled", "caught"}
    BY <1>1 DEF RunsOK, Runner
  <2> QED
    BY <1>1, <1>2, <2>1, <2>2 DEF RunsOK
<1>5. Queues'
  <2>1. Then([k |-> "complete", run |-> r])
    BY DEF FinalizeThrows, r, Settle
  <2>2. AtStage("complete", run'[r].pc)
    BY <1>1, <1>2, <1>3 DEF AtStage, RunsOK, Runner
  <2>3. \A s \in RunIds : run'[s].pc # run[s].pc => s = r
    BY <1>2, <1>3
  <2> QED
    BY <1>1, <2>1, <2>2, <2>3, QueuesGoOn DEF OneRunKinds
<1>7. TablesOK'
  <2>1. faults' \in 0..MaxFaults
    BY SchedulerAssumption DEF FinalizeThrows, TablesOK
  <2> QED
    BY <2>1 DEF FinalizeThrows, db, TablesOK
<1>8. Backed' /\ OneRunPerJob'
  <2>1. \A s \in RunIds : Live(s)' => Live(s) /\ run'[s].job = run[s].job
    BY <1>1, <1>2, <1>3 DEF Live, RunsOK, Runner
  <2>2. \A s \in RunIds : Running(s)' => Running(s) /\ row'[s].job = row[s].job
    BY <1>1 DEF FinalizeThrows, r, db, Running, RunsOK, Runner, Outcomes, TablesOK, RowRecord
  <2>3. \A s \in RunIds : Live(s)' /\ Running(s) => Running(s)'
    BY <1>1, <1>2, <1>3
        DEF FinalizeThrows, r, db, Running, Live, RunsOK, Runner, TablesOK, RowRecord
  <2>4. \A j \in Jobs : job'[j].exists => job[j].exists
    BY <1>1 DEF FinalizeThrows, db
  <2>5. \A s \in RunIds : Live(s)' => run[s].job \in Jobs
    BY DEF RunsOK, Runner
  <2> QED
    BY <2>1, <2>2, <2>3, <2>4, <2>5, RowsKeep
<1>9. Empty'
  BY <1>1 DEF Empty
<1> QED
  BY <1>3, <1>5, <1>7, <1>8, <1>9

\* One more turn of the queue.
LEMMA CompleteKeeps ==
  ASSUME SchedInv, Complete
  PROVE  SchedInv'
<1> DEFINE r == Head(micro).run
<1>1. /\ micro # <<>> /\ phase # "down" /\ phase' = phase
      /\ r \in RunIds /\ RunsOf(Head(micro)) = {r} /\ run[r].pc = "settled"
  BY ServedRun DEF Complete, SchedInv, OneRunKinds, AtStage, process
<1> USE DEF SchedInv
<1> HIDE DEF r
<1>2. run' = run
  BY DEF Complete, process
<1>3. RunsOK'
  BY <1>2 DEF RunsOK
<1>5. Queues'
  <2>1. Then([k |-> "finally", run |-> r])
    BY DEF Complete, r
  <2>2. AtStage("finally", run'[r].pc)
    BY <1>1, <1>2, <1>3 DEF AtStage, RunsOK, Runner
  <2>3. \A s \in RunIds : run'[s].pc # run[s].pc => s = r
    BY <1>2, <1>3
  <2> QED
    BY <1>1, <2>1, <2>2, <2>3, QueuesGoOn DEF OneRunKinds
<1>7. TablesOK'
  BY DEF Complete, db, process, TablesOK
<1>8. Backed' /\ OneRunPerJob'
  <2>1. \A s \in RunIds : Live(s)' => Live(s) /\ run'[s].job = run[s].job
    BY <1>1, <1>2, <1>3 DEF Live, RunsOK, Runner
  <2>2. \A s \in RunIds : Running(s)' => Running(s) /\ row'[s].job = row[s].job
    BY <1>1 DEF Complete, r, db, Running, RunsOK, Runner, Outcomes, TablesOK, RowRecord
  <2>3. \A s \in RunIds : Live(s)' /\ Running(s) => Running(s)'
    BY <1>1, <1>2, <1>3 DEF Complete, r, db, Running, Live, RunsOK, Runner, TablesOK, RowRecord
  <2>4. \A j \in Jobs : job'[j].exists => job[j].exists
    BY <1>1 DEF Complete, db
  <2>5. \A s \in RunIds : Live(s)' => run[s].job \in Jobs
    BY DEF RunsOK, Runner
  <2> QED
    BY <2>1, <2>2, <2>3, <2>4, <2>5, RowsKeep
<1>9. Empty'
  BY <1>1 DEF Empty
<1> QED
  BY <1>3, <1>5, <1>7, <1>8, <1>9

\* The run leaves the map, and is forgotten or goes to the catch.
LEMMA FinallyKeeps ==
  ASSUME SchedInv, Finally
  PROVE  SchedInv'
<1> USE DEF SchedInv
<1> DEFINE r == Head(micro).run
           over == ~(run[r].manual /\ run[r].outcome = "rejected")
<1>1. /\ micro # <<>> /\ phase # "down" /\ phase' = phase
      /\ r \in RunIds /\ RunsOf(Head(micro)) = {r} /\ run[r].pc = "settled"
  BY ServedRun DEF Finally, OneRunKinds, AtStage
<1> HIDE DEF r
<1>2. /\ over => run' = [run EXCEPT ![r] = NoRunner] /\ Done
      /\ ~over => /\ run' = [run EXCEPT ![r] = [run[r] EXCEPT !.pc = "caught"]]
                  /\ Then([k |-> "caught", run |-> r])
      /\ UNCHANGED <<job, row>>
  BY <1>1 DEF Finally, r, db, RunsOK, Runner
<1>3. /\ RunsOK' /\ run'[r].pc = IF over THEN "none" ELSE "caught"
      /\ \A s \in RunIds \ {r} : run'[s] = run[s]
  <2>1. /\ run[r] \in Runner /\ [run[r] EXCEPT !.pc = "caught"] \in Runner
        /\ [run[r] EXCEPT !.pc = "caught"].pc = "caught"
    BY <1>1 DEF RunsOK, Runner, RunPcs
  <2>2. NoRunner.outcome = "none"
    BY DEF NoRunner
  <2>3. CASE over
    BY <1>1, <1>2, <2>2, <2>3, NoRunnerTyped DEF RunsOK
  <2>4. CASE ~over
    BY <1>1, <1>2, <2>1, <2>4 DEF RunsOK
  <2> QED
    BY <2>3, <2>4
<1> HIDE DEF over
<1>4. \A s \in RunIds : run'[s].pc # run[s].pc => s = r
  BY <1>3
<1>5. Queues'
  <2>1. CASE over
    BY <1>1, <1>2, <1>4, <2>1, QueuesDone
  <2>2. CASE ~over
    BY <1>1, <1>2, <1>3, <1>4, <2>2, QueuesGoOn DEF OneRunKinds, AtStage
  <2> QED
    BY <2>1, <2>2
<1>7. TablesOK'
  <2>1. Settled(tick.awaits, r) \subseteq RunIds /\ Settled(draining, r) \subseteq RunIds
    BY DEF TablesOK, Settled
  <2>2. run[r].job \in Jobs
    BY <1>1 DEF RunsOK, Runner
  <2> QED
    BY <1>1, <2>1, <2>2 DEF Finally, r, db, TablesOK
<1>8. Backed' /\ OneRunPerJob'
  <2>1. \A s \in RunIds : Live(s)' => Live(s) /\ run'[s].job = run[s].job
    BY <1>1, <1>3 DEF Live
  <2>2. \A s \in RunIds : Running(s)' => Running(s) /\ row'[s].job = row[s].job
    BY <1>2 DEF Running
  <2>3. \A s \in RunIds : Live(s)' /\ Running(s) /\ row[s].job = run[s].job =>
          Running(s)' \/ ~job'[run[s].job].exists
    BY <1>2 DEF Running
  <2>4. \A j \in Jobs : job'[j].exists => job[j].exists
    BY <1>2
  <2>5. \A s \in RunIds : Live(s)' => run[s].job \in Jobs
    BY DEF RunsOK, Runner
  <2> QED
    BY <2>1, <2>2, <2>3, <2>4, <2>5, RowsKeep
<1>9. Empty'
  BY <1>1 DEF Empty
<1> QED
  BY <1>3, <1>5, <1>7, <1>8, <1>9

\* The row of a manual run that was rejected is closed after all.
LEMMA CatchRejectedKeeps ==
  ASSUME SchedInv, CatchRejected
  PROVE  SchedInv'
<1> USE DEF SchedInv
<1> DEFINE r == Head(micro).run
<1>1. /\ micro # <<>> /\ phase # "down" /\ phase' = phase
      /\ r \in RunIds /\ RunsOf(Head(micro)) = {r} /\ run[r].pc = "caught"
  BY ServedRun DEF CatchRejected, OneRunKinds, AtStage
<1> HIDE DEF r
<1>2. /\ run' = [run EXCEPT ![r] = NoRunner] /\ Done /\ job' = job
      /\ row' \in {row, [row EXCEPT ![r].status = "error"]}
  BY <1>1 DEF CatchRejected, r
<1>3. RunsOK' /\ run'[r].pc = "none" /\ \A s \in RunIds \ {r} : run'[s] = run[s]
  <2>1. NoRunner.outcome = "none"
    BY DEF NoRunner
  <2> QED
    BY <1>1, <1>2, <2>1, NoRunnerTyped DEF RunsOK
<1>5. Queues'
  BY <1>1, <1>2, <1>3, QueuesDone
<1>7. TablesOK'
  <2>1. row' \in [RunIds -> RowRecord]
    BY <1>1, <1>2 DEF TablesOK, RowRecord, Statuses
  <2>2. run[r].job \in Jobs
    BY <1>1 DEF RunsOK, Runner
  <2>3. faults' \in 0..MaxFaults
    BY SchedulerAssumption DEF CatchRejected, TablesOK
  <2> QED
    BY <1>1, <2>1, <2>2, <2>3 DEF CatchRejected, r, TablesOK
<1>8. Backed' /\ OneRunPerJob'
  <2>1. \A s \in RunIds : Live(s)' => Live(s) /\ run'[s].job = run[s].job
    BY <1>1, <1>3 DEF Live
  <2>2. \A s \in RunIds : Running(s)' => Running(s) /\ row'[s].job = row[s].job
    BY <1>1, <1>2 DEF Running, TablesOK, RowRecord
  <2>3. \A s \in RunIds : Live(s)' /\ Running(s) /\ row[s].job = run[s].job =>
          Running(s)' \/ ~job'[run[s].job].exists
    BY <1>1, <1>2, <1>3 DEF Live, Running, TablesOK, RowRecord
  <2>4. \A j \in Jobs : job'[j].exists => job[j].exists
    BY <1>2
  <2>5. \A s \in RunIds : Live(s)' => run[s].job \in Jobs
    BY DEF RunsOK, Runner
  <2> QED
    BY <2>1, <2>2, <2>3, <2>4, <2>5, RowsKeep
<1>9. Empty'
  BY <1>1 DEF Empty
<1> QED
  BY <1>3, <1>5, <1>7, <1>8, <1>9

\* Claimed runs begin: each goes to its source and its job enters the map.
LEMMA RunsStart ==
  ASSUME RunsOK, TablesOK, NEW ids \in SUBSET RunIds, StartRuns(ids),
         \A r \in ids : run[r].pc = "claimed"
  PROVE  /\ RunsOK' /\ inflight' \in [Jobs -> RunIds \cup {NoRun}]
         /\ \A r \in ids : run'[r].pc = "soap" /\ run'[r] = [run[r] EXCEPT !.pc = "soap"]
         /\ \A r \in RunIds \ ids : run'[r] = run[r]
         /\ \A r \in RunIds : Live(r)' => Live(r) /\ run'[r].job = run[r].job
<1>1. \A r \in RunIds : /\ run[r] \in Runner /\ [run[r] EXCEPT !.pc = "soap"] \in Runner
                        /\ [run[r] EXCEPT !.pc = "soap"].pc = "soap"
                        /\ [run[r] EXCEPT !.pc = "soap"].job = run[r].job
                        /\ [run[r] EXCEPT !.pc = "soap"].outcome = run[r].outcome
  BY DEF RunsOK, Runner, RunPcs
<1>2. \A r \in RunIds : run'[r] = IF r \in ids THEN [run[r] EXCEPT !.pc = "soap"] ELSE run[r]
  BY DEF StartRuns
<1>3. RunsOK'
  <2>1. run' \in [RunIds -> Runner]
    BY <1>1 DEF StartRuns, RunsOK
  <2> QED
    BY <1>1, <1>2, <2>1 DEF RunsOK
<1>4. inflight' \in [Jobs -> RunIds \cup {NoRun}]
  BY DEF StartRuns, TablesOK
<1> QED
  BY <1>1, <1>2, <1>3, <1>4 DEF Live

\* The claimed jobs begin, and the tick awaits them.
LEMMA DispatchKeeps ==
  ASSUME SchedInv, Dispatch
  PROVE  SchedInv'
<1> USE DEF SchedInv
<1> DEFINE ids == Head(micro).runs
<1>1. /\ micro # <<>> /\ phase # "down" /\ phase' = phase /\ UNCHANGED <<job, row>>
      /\ ids \in SUBSET RunIds /\ RunsOf(Head(micro)) = ids
      /\ \A r \in ids : run[r].pc = "claimed"
  <2>1. /\ micro # <<>> /\ phase # "down" /\ Head(micro) \in Continuations
        /\ Head(micro).k = "dispatch"
        /\ \A r \in RunsOf(Head(micro)) : run[r].pc = "claimed"
    BY ServedHead DEF Dispatch, AtStage
  <2>2. ids \in SUBSET RunIds /\ RunsOf(Head(micro)) = ids
    BY <2>1, ContinuationKinds DEF RunsOf, OneRunKinds
  <2> QED
    BY <2>1, <2>2 DEF Dispatch, db
<1>2. StartRuns(ids) /\ Done
  BY DEF Dispatch
<1> HIDE DEF ids
<1>3. /\ RunsOK' /\ \A r \in RunIds \ ids : run'[r] = run[r]
      /\ \A r \in RunIds : Live(r)' => Live(r) /\ run'[r].job = run[r].job
  BY <1>1, <1>2, RunsStart
<1>5. Queues'
  <2>1. \A r \in RunIds : run'[r].pc # run[r].pc => r \in ids
    BY <1>3
  <2> QED
    BY <1>1, <1>2, <2>1, QueuesDone
<1>7. TablesOK'
  <2>1. inflight' \in [Jobs -> RunIds \cup {NoRun}]
    BY <1>1, <1>2, RunsStart
  <2> QED
    BY <1>1, <2>1 DEF Dispatch, ids, db, TablesOK
<1>8. Backed' /\ OneRunPerJob'
  <2>1. \A s \in RunIds : Live(s)' => Live(s) /\ run'[s].job = run[s].job
    BY <1>3
  <2>2. \A s \in RunIds : Running(s)' => Running(s) /\ row'[s].job = row[s].job
    BY <1>1 DEF Running
  <2>3. \A s \in RunIds : Live(s)' /\ Running(s) /\ row[s].job = run[s].job =>
          Running(s)' \/ ~job'[run[s].job].exists
    BY <1>1 DEF Running
  <2>4. \A j \in Jobs : job'[j].exists => job[j].exists
    BY <1>1
  <2>5. \A s \in RunIds : Live(s)' => run[s].job \in Jobs
    BY DEF RunsOK, Runner
  <2> QED
    BY <2>1, <2>2, <2>3, <2>4, <2>5, RowsKeep
<1>9. Empty'
  BY <1>1 DEF Empty
<1> QED
  BY <1>3, <1>5, <1>7, <1>8, <1>9

\* A manual run begins.
LEMMA LaunchKeeps ==
  ASSUME SchedInv, Launch
  PROVE  SchedInv'
<1> USE DEF SchedInv
<1> DEFINE ids == {Head(micro).run}
<1>1. /\ micro # <<>> /\ phase # "down" /\ phase' = phase /\ UNCHANGED <<job, row>>
      /\ ids \in SUBSET RunIds /\ RunsOf(Head(micro)) = ids
      /\ \A r \in ids : run[r].pc = "claimed"
  <2>1. /\ micro # <<>> /\ phase # "down" /\ Head(micro) \in Continuations
        /\ Head(micro).k = "launch"
        /\ \A r \in RunsOf(Head(micro)) : run[r].pc = "claimed"
    BY ServedHead DEF Launch, AtStage
  <2>2. ids \in SUBSET RunIds /\ RunsOf(Head(micro)) = ids
    BY <2>1, ContinuationKinds DEF RunsOf, OneRunKinds
  <2> QED
    BY <2>1, <2>2 DEF Launch, db
<1>2. StartRuns(ids) /\ Done
  BY DEF Launch
<1> HIDE DEF ids
<1>3. /\ RunsOK' /\ \A r \in RunIds \ ids : run'[r] = run[r]
      /\ \A r \in RunIds : Live(r)' => Live(r) /\ run'[r].job = run[r].job
  BY <1>1, <1>2, RunsStart
<1>5. Queues'
  <2>1. \A r \in RunIds : run'[r].pc # run[r].pc => r \in ids
    BY <1>3
  <2> QED
    BY <1>1, <1>2, <2>1, QueuesDone
<1>7. TablesOK'
  <2>1. inflight' \in [Jobs -> RunIds \cup {NoRun}]
    BY <1>1, <1>2, RunsStart
  <2> QED
    BY <1>1, <2>1 DEF Launch, ids, db, TablesOK
<1>8. Backed' /\ OneRunPerJob'
  <2>1. \A s \in RunIds : Live(s)' => Live(s) /\ run'[s].job = run[s].job
    BY <1>3
  <2>2. \A s \in RunIds : Running(s)' => Running(s) /\ row'[s].job = row[s].job
    BY <1>1 DEF Running
  <2>3. \A s \in RunIds : Live(s)' /\ Running(s) /\ row[s].job = run[s].job =>
          Running(s)' \/ ~job'[run[s].job].exists
    BY <1>1 DEF Running
  <2>4. \A j \in Jobs : job'[j].exists => job[j].exists
    BY <1>1
  <2>5. \A s \in RunIds : Live(s)' => run[s].job \in Jobs
    BY DEF RunsOK, Runner
  <2> QED
    BY <2>1, <2>2, <2>3, <2>4, <2>5, RowsKeep
<1>9. Empty'
  BY <1>1 DEF Empty
<1> QED
  BY <1>3, <1>5, <1>7, <1>8, <1>9

\* A tick asks for the lock.
LEMMA TickTimerKeeps ==
  ASSUME SchedInv, TickTimer
  PROVE  SchedInv'
<1> USE DEF SchedInv
<1> DEFINE c == [k |-> "claim"]
<1>1. /\ Idle /\ phase = "running" /\ phase' = phase /\ UNCHANGED <<job, row, run>>
      /\ AwaitRead(<<>>, c)
  BY DEF TickTimer, db, process
<1>2. c \in Continuations /\ RunsOf(c) = {}
  BY ClaimContinuation
<1>3. RunsOK'
  BY <1>1 DEF RunsOK
<1> HIDE DEF c
<1>5. Queues'
  BY <1>1, <1>2, QueuesAsk
<1>7. TablesOK'
  BY DEF TickTimer, db, process, TablesOK
<1>8. Backed' /\ OneRunPerJob'
  <2>1. \A s \in RunIds : Live(s)' => Live(s) /\ run'[s].job = run[s].job
    BY <1>1 DEF Live
  <2>2. \A s \in RunIds : Running(s)' => Running(s) /\ row'[s].job = row[s].job
    BY <1>1 DEF Running
  <2>3. \A s \in RunIds : Live(s)' /\ Running(s) /\ row[s].job = run[s].job =>
          Running(s)' \/ ~job'[run[s].job].exists
    BY <1>1 DEF Running
  <2>4. \A j \in Jobs : job'[j].exists => job[j].exists
    BY <1>1
  <2>5. \A s \in RunIds : Live(s)' => run[s].job \in Jobs
    BY DEF RunsOK, Runner
  <2> QED
    BY <2>1, <2>2, <2>3, <2>4, <2>5, RowsKeep
<1>9. Empty'
  BY <1>1 DEF Empty
<1> QED
  BY <1>3, <1>5, <1>7, <1>8, <1>9

\* A manual trigger asks for the lock with its copy of the job.
LEMMA RunJobNowKeeps ==
  ASSUME SchedInv, NEW j \in Jobs, RunJobNow(j)
  PROVE  SchedInv'
<1> USE DEF SchedInv
<1> DEFINE c == [k |-> "insert", job |-> j, streak |-> job[j].streak]
<1>1. /\ Idle /\ phase = "running" /\ phase' = phase /\ UNCHANGED <<job, row, run>>
      /\ AwaitRead(<<>>, c)
  BY DEF RunJobNow, db, process
<1>2. c \in Continuations /\ RunsOf(c) = {}
  BY DEF TablesOK, JobRecord, Continuations, RunsOf, OneRunKinds
<1>3. RunsOK'
  BY <1>1 DEF RunsOK
<1> HIDE DEF c
<1>5. Queues'
  BY <1>1, <1>2, QueuesAsk
<1>7. TablesOK'
  BY DEF RunJobNow, db, process, TablesOK
<1>8. Backed' /\ OneRunPerJob'
  <2>1. \A s \in RunIds : Live(s)' => Live(s) /\ run'[s].job = run[s].job
    BY <1>1 DEF Live
  <2>2. \A s \in RunIds : Running(s)' => Running(s) /\ row'[s].job = row[s].job
    BY <1>1 DEF Running
  <2>3. \A s \in RunIds : Live(s)' /\ Running(s) /\ row[s].job = run[s].job =>
          Running(s)' \/ ~job'[run[s].job].exists
    BY <1>1 DEF Running
  <2>4. \A i \in Jobs : job'[i].exists => job[i].exists
    BY <1>1
  <2>5. \A s \in RunIds : Live(s)' => run[s].job \in Jobs
    BY DEF RunsOK, Runner
  <2> QED
    BY <2>1, <2>2, <2>3, <2>4, <2>5, RowsKeep
<1>9. Empty'
  BY <1>1 DEF Empty
<1> QED
  BY <1>3, <1>5, <1>7, <1>8, <1>9

\* The source answers, and the run asks for the lock.
LEMMA SoapAnswersKeeps ==
  ASSUME SchedInv, NEW r \in RunIds, SoapAnswers(r)
  PROVE  SchedInv'
<1> USE DEF SchedInv
<1>1. /\ Idle /\ phase # "down" /\ phase' = phase /\ UNCHANGED <<job, row>> /\ run[r].pc = "soap"
      /\ AwaitRead(<<>>, [k |-> "persist", run |-> r])
  BY DEF SoapAnswers, db, Empty
<1>2. run' = [run EXCEPT ![r] = [run[r] EXCEPT !.pc = "persist", !.seen = world[run[r].job]]]
  BY DEF SoapAnswers, RunsOK, Runner
<1>3. /\ RunsOK' /\ run'[r] = [run[r] EXCEPT !.pc = "persist", !.seen = world[run[r].job]]
      /\ \A s \in RunIds \ {r} : run'[s] = run[s]
  <2>1. run[r] \in Runner /\ [run[r] EXCEPT !.pc = "persist", !.seen = world[run[r].job]] \in Runner
    BY DEF RunsOK, Runner, RunPcs, Outcomes, TablesOK
  <2>2. [run[r] EXCEPT !.pc = "persist", !.seen = world[run[r].job]].outcome # "rejected"
    BY <1>1 DEF RunsOK, Runner
  <2> QED
    BY <1>1, <1>2, <2>1, <2>2 DEF RunsOK
<1>4. /\ run'[r].pc = "persist" /\ run'[r].job = run[r].job
      /\ \A s \in RunIds : run'[s].pc # run[s].pc => s = r
  BY <1>3 DEF RunsOK, Runner
<1>5. Queues'
  BY <1>1, <1>4, QueuesArrive DEF OneRunKinds, AtStage
<1>7. TablesOK'
  BY DEF SoapAnswers, db, TablesOK
<1>8. Backed' /\ OneRunPerJob'
  <2>1. \A s \in RunIds : Live(s)' => Live(s) /\ run'[s].job = run[s].job
    BY <1>1, <1>3, <1>4 DEF Live
  <2>2. \A s \in RunIds : Running(s)' => Running(s) /\ row'[s].job = row[s].job
    BY <1>1 DEF Running
  <2>3. \A s \in RunIds : Live(s)' /\ Running(s) /\ row[s].job = run[s].job =>
          Running(s)' \/ ~job'[run[s].job].exists
    BY <1>1 DEF Running
  <2>4. \A j \in Jobs : job'[j].exists => job[j].exists
    BY <1>1
  <2>5. \A s \in RunIds : Live(s)' => run[s].job \in Jobs
    BY DEF RunsOK, Runner
  <2> QED
    BY <2>1, <2>2, <2>3, <2>4, <2>5, RowsKeep
<1>9. Empty'
  BY <1>1 DEF Empty
<1> QED
  BY <1>3, <1>5, <1>7, <1>8, <1>9

\* The call fails or is aborted, and the run asks for the lock.
LEMMA SoapFailsKeeps ==
  ASSUME SchedInv, NEW r \in RunIds, SoapFails(r)
  PROVE  SchedInv'
<1> USE DEF SchedInv
<1>1. /\ Idle /\ phase # "down" /\ phase' = phase /\ UNCHANGED <<job, row>> /\ run[r].pc = "soap"
      /\ AwaitRead(<<>>, [k |-> "finalize", run |-> r])
  BY DEF SoapFails, db, Empty
<1>2. run' = [run EXCEPT ![r] = [run[r] EXCEPT !.pc = "finalize",
                                 !.outcome = IF run[r].aborted THEN "aborted" ELSE "error"]]
  BY DEF SoapFails, RunsOK, Runner
<1>3. /\ RunsOK' /\ run'[r] = [run[r] EXCEPT !.pc = "finalize",
                                 !.outcome = IF run[r].aborted THEN "aborted" ELSE "error"]
      /\ \A s \in RunIds \ {r} : run'[s] = run[s]
  <2>1. /\ run[r] \in Runner
        /\ [run[r] EXCEPT !.pc = "finalize",
                          !.outcome = IF run[r].aborted THEN "aborted" ELSE "error"] \in Runner
    BY DEF RunsOK, Runner, RunPcs, Outcomes, TablesOK
  <2>2. [run[r] EXCEPT !.pc = "finalize",
               !.outcome = IF run[r].aborted THEN "aborted" ELSE "error"].outcome # "rejected"
    BY <1>1 DEF RunsOK, Runner
  <2> QED
    BY <1>1, <1>2, <2>1, <2>2 DEF RunsOK
<1>4. /\ run'[r].pc = "finalize" /\ run'[r].job = run[r].job
      /\ \A s \in RunIds : run'[s].pc # run[s].pc => s = r
  BY <1>3 DEF RunsOK, Runner
<1>5. Queues'
  BY <1>1, <1>4, QueuesArrive DEF OneRunKinds, AtStage
<1>7. TablesOK'
  BY DEF SoapFails, db, TablesOK
<1>8. Backed' /\ OneRunPerJob'
  <2>1. \A s \in RunIds : Live(s)' => Live(s) /\ run'[s].job = run[s].job
    BY <1>1, <1>3, <1>4 DEF Live
  <2>2. \A s \in RunIds : Running(s)' => Running(s) /\ row'[s].job = row[s].job
    BY <1>1 DEF Running
  <2>3. \A s \in RunIds : Live(s)' /\ Running(s) /\ row[s].job = run[s].job =>
          Running(s)' \/ ~job'[run[s].job].exists
    BY <1>1 DEF Running
  <2>4. \A j \in Jobs : job'[j].exists => job[j].exists
    BY <1>1
  <2>5. \A s \in RunIds : Live(s)' => run[s].job \in Jobs
    BY DEF RunsOK, Runner
  <2> QED
    BY <2>1, <2>2, <2>3, <2>4, <2>5, RowsKeep
<1>9. Empty'
  BY <1>1 DEF Empty
<1> QED
  BY <1>3, <1>5, <1>7, <1>8, <1>9

\* The scheduler is stopped.
LEMMA StopReturnsKeeps ==
  ASSUME SchedInv, StopReturns
  PROVE  SchedInv'
<1> USE DEF SchedInv
<1>1. UNCHANGED <<row, run, micro, waiting>> /\ (phase' = "down" => phase = "down")
  BY DEF StopReturns, db, process, loop
<1>3. RunsOK'
  BY <1>1 DEF RunsOK
<1>5. Queues'
  BY <1>1, QueuesStay
<1>7. TablesOK'
  BY DEF StopReturns, db, process, loop, TablesOK
<1>8. Backed' /\ OneRunPerJob'
  <2>1. \A s \in RunIds : Live(s)' => Live(s) /\ run'[s].job = run[s].job
    BY <1>1 DEF Live
  <2>2. \A s \in RunIds : Running(s)' => Running(s) /\ row'[s].job = row[s].job
    BY <1>1 DEF Running
  <2>3. \A s \in RunIds : Live(s)' /\ Running(s) /\ row[s].job = run[s].job =>
          Running(s)' \/ ~job'[run[s].job].exists
    BY <1>1 DEF Running
  <2>4. \A j \in Jobs : job'[j].exists => job[j].exists
    BY DEF StopReturns, db, process, loop, TablesOK, JobRecord
  <2>5. \A s \in RunIds : Live(s)' => run[s].job \in Jobs
    BY DEF RunsOK, Runner
  <2> QED
    BY <2>1, <2>2, <2>3, <2>4, <2>5, RowsKeep
<1>9. Empty'
  BY <1>1 DEF Empty
<1> QED
  BY <1>3, <1>5, <1>7, <1>8, <1>9

\* A job is changed by hand.
LEMMA PatchKeeps ==
  ASSUME SchedInv, NEW j \in Jobs, Patch(j)
  PROVE  SchedInv'
<1> USE DEF SchedInv
<1>1. UNCHANGED <<row, run, micro, waiting>> /\ (phase' = "down" => phase = "down")
  BY DEF Patch, db, process, loop
<1>3. RunsOK'
  BY <1>1 DEF RunsOK
<1>5. Queues'
  BY <1>1, QueuesStay
<1>7. TablesOK'
  <2>1. PICK a \in BOOLEAN : job' = [job EXCEPT ![j].active = a, ![j].due = FALSE]
    BY DEF Patch
  <2>2. job[j] \in JobRecord /\ [job[j] EXCEPT !.active = a, !.due = FALSE] \in JobRecord
    BY DEF TablesOK, JobRecord
  <2>3. job' = [job EXCEPT ![j] = [job[j] EXCEPT !.active = a, !.due = FALSE]]
    BY <2>1, <2>2 DEF TablesOK, JobRecord
  <2> QED
    BY <2>2, <2>3 DEF Patch, process, loop, TablesOK
<1>8. Backed' /\ OneRunPerJob'
  <2>1. \A s \in RunIds : Live(s)' => Live(s) /\ run'[s].job = run[s].job
    BY <1>1 DEF Live
  <2>2. \A s \in RunIds : Running(s)' => Running(s) /\ row'[s].job = row[s].job
    BY <1>1 DEF Running
  <2>3. \A s \in RunIds : Live(s)' /\ Running(s) /\ row[s].job = run[s].job =>
          Running(s)' \/ ~job'[run[s].job].exists
    BY <1>1 DEF Running
  <2>4. \A i \in Jobs : job'[i].exists => job[i].exists
    BY DEF Patch, db, process, loop, TablesOK, JobRecord
  <2>5. \A s \in RunIds : Live(s)' => run[s].job \in Jobs
    BY DEF RunsOK, Runner
  <2> QED
    BY <2>1, <2>2, <2>3, <2>4, <2>5, RowsKeep
<1>9. Empty'
  BY <1>1 DEF Empty
<1> QED
  BY <1>3, <1>5, <1>7, <1>8, <1>9

\* An owner switches all of it.
LEMMA MasterSwitchKeeps ==
  ASSUME SchedInv, MasterSwitch
  PROVE  SchedInv'
<1> USE DEF SchedInv
<1>1. UNCHANGED <<row, run, micro, waiting>> /\ (phase' = "down" => phase = "down")
  BY DEF MasterSwitch, db, process, loop
<1>3. RunsOK'
  BY <1>1 DEF RunsOK
<1>5. Queues'
  BY <1>1, QueuesStay
<1>7. TablesOK'
  BY DEF MasterSwitch, db, process, loop, TablesOK
<1>8. Backed' /\ OneRunPerJob'
  <2>1. \A s \in RunIds : Live(s)' => Live(s) /\ run'[s].job = run[s].job
    BY <1>1 DEF Live
  <2>2. \A s \in RunIds : Running(s)' => Running(s) /\ row'[s].job = row[s].job
    BY <1>1 DEF Running
  <2>3. \A s \in RunIds : Live(s)' /\ Running(s) /\ row[s].job = run[s].job =>
          Running(s)' \/ ~job'[run[s].job].exists
    BY <1>1 DEF Running
  <2>4. \A j \in Jobs : job'[j].exists => job[j].exists
    BY DEF MasterSwitch, db, process, loop, TablesOK, JobRecord
  <2>5. \A s \in RunIds : Live(s)' => run[s].job \in Jobs
    BY DEF RunsOK, Runner
  <2> QED
    BY <2>1, <2>2, <2>3, <2>4, <2>5, RowsKeep
<1>9. Empty'
  BY <1>1 DEF Empty
<1> QED
  BY <1>3, <1>5, <1>7, <1>8, <1>9

\* A maintenance writer takes the lock.
LEMMA WriterBeginsKeeps ==
  ASSUME SchedInv, WriterBegins
  PROVE  SchedInv'
<1> USE DEF SchedInv
<1>1. UNCHANGED <<row, run, micro, waiting>> /\ (phase' = "down" => phase = "down")
  BY DEF WriterBegins, db, process, loop
<1>3. RunsOK'
  BY <1>1 DEF RunsOK
<1>5. Queues'
  BY <1>1, QueuesStay
<1>7. TablesOK'
  BY DEF WriterBegins, db, process, loop, TablesOK
<1>8. Backed' /\ OneRunPerJob'
  <2>1. \A s \in RunIds : Live(s)' => Live(s) /\ run'[s].job = run[s].job
    BY <1>1 DEF Live
  <2>2. \A s \in RunIds : Running(s)' => Running(s) /\ row'[s].job = row[s].job
    BY <1>1 DEF Running
  <2>3. \A s \in RunIds : Live(s)' /\ Running(s) /\ row[s].job = run[s].job =>
          Running(s)' \/ ~job'[run[s].job].exists
    BY <1>1 DEF Running
  <2>4. \A j \in Jobs : job'[j].exists => job[j].exists
    BY DEF WriterBegins, db, process, loop, TablesOK, JobRecord
  <2>5. \A s \in RunIds : Live(s)' => run[s].job \in Jobs
    BY DEF RunsOK, Runner
  <2> QED
    BY <2>1, <2>2, <2>3, <2>4, <2>5, RowsKeep
<1>9. Empty'
  BY <1>1 DEF Empty
<1> QED
  BY <1>3, <1>5, <1>7, <1>8, <1>9

\* A job falls due.
LEMMA TimePassesKeeps ==
  ASSUME SchedInv, NEW j \in Jobs, TimePasses(j)
  PROVE  SchedInv'
<1> USE DEF SchedInv
<1>1. UNCHANGED <<row, run, micro, waiting>> /\ (phase' = "down" => phase = "down")
  BY DEF TimePasses, db, process, loop
<1>3. RunsOK'
  BY <1>1 DEF RunsOK
<1>5. Queues'
  BY <1>1, QueuesStay
<1>7. TablesOK'
  BY DEF TimePasses, db, process, loop, TablesOK, JobRecord
<1>8. Backed' /\ OneRunPerJob'
  <2>1. \A s \in RunIds : Live(s)' => Live(s) /\ run'[s].job = run[s].job
    BY <1>1 DEF Live
  <2>2. \A s \in RunIds : Running(s)' => Running(s) /\ row'[s].job = row[s].job
    BY <1>1 DEF Running
  <2>3. \A s \in RunIds : Live(s)' /\ Running(s) /\ row[s].job = run[s].job =>
          Running(s)' \/ ~job'[run[s].job].exists
    BY <1>1 DEF Running
  <2>4. \A i \in Jobs : job'[i].exists => job[i].exists
    BY DEF TimePasses, db, process, loop, TablesOK, JobRecord
  <2>5. \A s \in RunIds : Live(s)' => run[s].job \in Jobs
    BY DEF RunsOK, Runner
  <2> QED
    BY <2>1, <2>2, <2>3, <2>4, <2>5, RowsKeep
<1>9. Empty'
  BY <1>1 DEF Empty
<1> QED
  BY <1>3, <1>5, <1>7, <1>8, <1>9

\* A file changes at its source.
LEMMA WorldChangesKeeps ==
  ASSUME SchedInv, NEW j \in Jobs, WorldChanges(j)
  PROVE  SchedInv'
<1> USE DEF SchedInv
<1>1. UNCHANGED <<row, run, micro, waiting>> /\ (phase' = "down" => phase = "down")
  BY DEF WorldChanges, db, process, loop
<1>3. RunsOK'
  BY <1>1 DEF RunsOK
<1>5. Queues'
  BY <1>1, QueuesStay
<1>7. TablesOK'
  <2>1. world[j] + 1 \in 0..MaxChanges
    BY SchedulerAssumption DEF WorldChanges, TablesOK
  <2> QED
    BY <2>1 DEF WorldChanges, db, process, loop, TablesOK
<1>8. Backed' /\ OneRunPerJob'
  <2>1. \A s \in RunIds : Live(s)' => Live(s) /\ run'[s].job = run[s].job
    BY <1>1 DEF Live
  <2>2. \A s \in RunIds : Running(s)' => Running(s) /\ row'[s].job = row[s].job
    BY <1>1 DEF Running
  <2>3. \A s \in RunIds : Live(s)' /\ Running(s) /\ row[s].job = run[s].job =>
          Running(s)' \/ ~job'[run[s].job].exists
    BY <1>1 DEF Running
  <2>4. \A i \in Jobs : job'[i].exists => job[i].exists
    BY DEF WorldChanges, db, process, loop, TablesOK, JobRecord
  <2>5. \A s \in RunIds : Live(s)' => run[s].job \in Jobs
    BY DEF RunsOK, Runner
  <2> QED
    BY <2>1, <2>2, <2>3, <2>4, <2>5, RowsKeep
<1>9. Empty'
  BY <1>1 DEF Empty
<1> QED
  BY <1>3, <1>5, <1>7, <1>8, <1>9

\* The runs in the map are told to end.
LEMMA StopKeeps ==
  ASSUME SchedInv, Stop
  PROVE  SchedInv'
<1> USE DEF SchedInv
<1>1. UNCHANGED <<job, row, micro, waiting>> /\ phase' = "stopping" /\ draining' \subseteq RunIds
  BY DEF Stop, db, loop, TablesOK
<1>2. \A r \in RunIds : /\ run'[r].pc = run[r].pc /\ run'[r].job = run[r].job
                        /\ run'[r].outcome = run[r].outcome /\ run'[r] \in Runner
  BY DEF Stop, RunsOK, Runner
<1>3. RunsOK'
  <2>1. run' \in [RunIds -> Runner]
    BY <1>2 DEF Stop
  <2> QED
    BY <1>2, <2>1 DEF RunsOK
<1>5. Queues'
  BY <1>1, <1>2, QueuesStay
<1>7. TablesOK'
  BY <1>1 DEF Stop, db, loop, TablesOK
<1>8. Backed' /\ OneRunPerJob'
  <2>1. \A s \in RunIds : Live(s)' => Live(s) /\ run'[s].job = run[s].job
    BY <1>2 DEF Live
  <2>2. \A s \in RunIds : Running(s)' => Running(s) /\ row'[s].job = row[s].job
    BY <1>1 DEF Running
  <2>3. \A s \in RunIds : Live(s)' /\ Running(s) /\ row[s].job = run[s].job =>
          Running(s)' \/ ~job'[run[s].job].exists
    BY <1>1 DEF Running
  <2>4. \A j \in Jobs : job'[j].exists => job[j].exists
    BY <1>1
  <2>5. \A s \in RunIds : Live(s)' => run[s].job \in Jobs
    BY DEF RunsOK, Runner
  <2> QED
    BY <2>1, <2>2, <2>3, <2>4, <2>5, RowsKeep
<1>9. Empty'
  BY <1>1 DEF Empty
<1> QED
  BY <1>3, <1>5, <1>7, <1>8, <1>9

\* Orphans are closed before anything runs.
LEMMA StartKeeps ==
  ASSUME SchedInv, Start
  PROVE  SchedInv'
<1> USE DEF SchedInv
<1>1. /\ UNCHANGED <<job, run, micro, waiting>> /\ phase' = "running"
      /\ \A r \in RunIds : ~Live(r)
  BY DEF Start, loop, Empty, Live
<1>2. \A r \in RunIds : ~Running(r)'
  BY DEF Start, Running, TablesOK, RowRecord
<1>3. RunsOK'
  BY <1>1 DEF RunsOK
<1>5. Queues'
  BY <1>1, QueuesStay
<1>7. TablesOK'
  <2>1. row' \in [RunIds -> RowRecord]
    BY DEF Start, TablesOK, RowRecord, Statuses
  <2> QED
    BY <1>1, <2>1 DEF Start, loop, TablesOK
<1>8. Backed' /\ OneRunPerJob'
  <2>1. \A s \in RunIds : Live(s)' => Live(s) /\ run'[s].job = run[s].job
    BY <1>1 DEF Live
  <2>2. \A s \in RunIds : Running(s)' => Running(s) /\ row'[s].job = row[s].job
    BY <1>2
  <2>3. \A s \in RunIds : Live(s)' /\ Running(s) /\ row[s].job = run[s].job =>
          Running(s)' \/ ~job'[run[s].job].exists
    BY <1>1 DEF Live
  <2>4. \A j \in Jobs : job'[j].exists => job[j].exists
    BY <1>1
  <2>5. \A s \in RunIds : Live(s)' => run[s].job \in Jobs
    BY DEF RunsOK, Runner
  <2> QED
    BY <2>1, <2>2, <2>3, <2>4, <2>5, RowsKeep
<1>9. Empty'
  BY <1>1 DEF Empty
<1> QED
  BY <1>3, <1>5, <1>7, <1>8, <1>9

\* The process takes all with it but the tables.
LEMMA ProcessEndsKeeps ==
  ASSUME SchedInv, ProcessEnds
  PROVE  SchedInv'
<1> USE DEF SchedInv
<1>1. UNCHANGED <<job, row>> /\ micro' = <<>>
      /\ waiting' = <<>> /\ \A r \in RunIds : run'[r] = NoRunner
  BY DEF ProcessEnds, db
<1>2. NoRunner.pc = "none" /\ NoRunner.outcome = "none"
  BY DEF NoRunner
<1>3. RunsOK'
  BY <1>2, NoRunnerTyped DEF ProcessEnds, RunsOK
<1>5. Queues'
  BY <1>1 DEF Queues, Matched, Apart
<1>7. TablesOK'
  BY DEF ProcessEnds, db, TablesOK, NoTick
<1>8. Backed' /\ OneRunPerJob'
  <2>1. \A s \in RunIds : Live(s)' => Live(s) /\ run'[s].job = run[s].job
    BY <1>1, <1>2 DEF Live
  <2>2. \A s \in RunIds : Running(s)' => Running(s) /\ row'[s].job = row[s].job
    BY <1>1 DEF Running
  <2>3. \A s \in RunIds : Live(s)' /\ Running(s) /\ row[s].job = run[s].job =>
          Running(s)' \/ ~job'[run[s].job].exists
    BY <1>1 DEF Running
  <2>4. \A j \in Jobs : job'[j].exists => job[j].exists
    BY <1>1
  <2>5. \A s \in RunIds : Live(s)' => run[s].job \in Jobs
    BY DEF RunsOK, Runner
  <2> QED
    BY <2>1, <2>2, <2>3, <2>4, <2>5, RowsKeep
<1>9. Empty'
  BY <1>1, <1>2 DEF Empty
<1> QED
  BY <1>3, <1>5, <1>7, <1>8, <1>9

\* A job goes with its rows.
LEMMA DeleteKeeps ==
  ASSUME SchedInv, NEW j \in Jobs, Delete(j)
  PROVE  SchedInv'
<1> USE DEF SchedInv
<1>1. UNCHANGED <<run, micro, waiting, phase>>
  BY DEF Delete, process, loop
<1>2. /\ [NewJob EXCEPT !.exists = FALSE] \in JobRecord
      /\ [NewJob EXCEPT !.exists = FALSE].exists = FALSE
  <2>1. 0 \in 0..(Threshold + 1) /\ 0 \in 0..MaxChanges /\ 0 \in 0..2
    BY SchedulerAssumption
  <2> QED
    BY <2>1 DEF NewJob, JobRecord
<1>3. RunsOK'
  BY <1>1 DEF RunsOK
<1>4. /\ job' \in [Jobs -> JobRecord] /\ ~job'[j].exists
      /\ \A i \in Jobs \ {j} : job'[i] = job[i]
      /\ row' \in [RunIds -> RowRecord]
      /\ \A r \in RunIds : IF row[r].job = j THEN row'[r].status = "none" ELSE row'[r] = row[r]
  BY <1>2 DEF Delete, TablesOK, RowRecord, Statuses
<1>5. Queues'
  BY <1>1, QueuesStay
<1>7. TablesOK'
  BY <1>4 DEF Delete, process, loop, TablesOK
<1>8. Backed' /\ OneRunPerJob'
  <2>1. \A s \in RunIds : Live(s)' => Live(s) /\ run'[s].job = run[s].job
    BY <1>1 DEF Live
  <2>2. \A s \in RunIds : Running(s)' => Running(s) /\ row'[s].job = row[s].job
    BY <1>4 DEF Running
  <2>3. \A s \in RunIds : Live(s)' /\ Running(s) /\ row[s].job = run[s].job =>
          Running(s)' \/ ~job'[run[s].job].exists
    BY <1>4 DEF Running
  <2>4. \A i \in Jobs : job'[i].exists => job[i].exists
    BY <1>4
  <2>5. \A s \in RunIds : Live(s)' => run[s].job \in Jobs
    BY DEF RunsOK, Runner
  <2> QED
    BY <2>1, <2>2, <2>3, <2>4, <2>5, RowsKeep
<1>9. Empty'
  BY <1>1 DEF Empty
<1> QED
  BY <1>3, <1>5, <1>7, <1>8, <1>9

\* The line of readers resumes.
LEMMA WriterEndsKeeps ==
  ASSUME SchedInv, WriterEnds
  PROVE  SchedInv'
<1> USE DEF SchedInv
<1>1. /\ UNCHANGED <<row, job, run, phase>> /\ micro' = waiting /\ waiting' = <<>>
  BY DEF WriterEnds, db, process
<1>3. RunsOK'
  BY <1>1 DEF RunsOK
<1>5. Queues'
  BY <1>1 DEF Queues, Matched, Apart
<1>7. TablesOK'
  BY DEF WriterEnds, db, process, TablesOK
<1>8. Backed' /\ OneRunPerJob'
  <2>1. \A s \in RunIds : Live(s)' => Live(s) /\ run'[s].job = run[s].job
    BY <1>1 DEF Live
  <2>2. \A s \in RunIds : Running(s)' => Running(s) /\ row'[s].job = row[s].job
    BY <1>1 DEF Running
  <2>3. \A s \in RunIds : Live(s)' /\ Running(s) /\ row[s].job = run[s].job =>
          Running(s)' \/ ~job'[run[s].job].exists
    BY <1>1 DEF Running
  <2>4. \A j \in Jobs : job'[j].exists => job[j].exists
    BY <1>1
  <2>5. \A s \in RunIds : Live(s)' => run[s].job \in Jobs
    BY DEF RunsOK, Runner
  <2> QED
    BY <2>1, <2>2, <2>3, <2>4, <2>5, RowsKeep
<1>9. Empty'
  BY <1>1 DEF Empty
<1> QED
  BY <1>3, <1>5, <1>7, <1>8, <1>9

\* A tick that claims nothing is over.
LEMMA ClaimNothingKeeps ==
  ASSUME SchedInv, ClaimNothing
  PROVE  SchedInv'
<1> USE DEF SchedInv
<1>1. /\ micro # <<>> /\ phase # "down" /\ UNCHANGED <<phase, job, row, run>> /\ Done
  BY ServedHead DEF ClaimNothing, db
<1>3. RunsOK'
  BY <1>1 DEF RunsOK
<1>5. Queues'
  BY <1>1, QueuesDone
<1>7. TablesOK'
  <2>1. faults' \in 0..MaxFaults
    BY SchedulerAssumption DEF ClaimNothing, TablesOK
  <2> QED
    BY <2>1 DEF ClaimNothing, db, TablesOK, NoTick
<1>8. Backed' /\ OneRunPerJob'
  <2>1. \A s \in RunIds : Live(s)' => Live(s) /\ run'[s].job = run[s].job
    BY <1>1 DEF Live
  <2>2. \A s \in RunIds : Running(s)' => Running(s) /\ row'[s].job = row[s].job
    BY <1>1 DEF Running
  <2>3. \A s \in RunIds : Live(s)' /\ Running(s) /\ row[s].job = run[s].job =>
          Running(s)' \/ ~job'[run[s].job].exists
    BY <1>1 DEF Running
  <2>4. \A j \in Jobs : job'[j].exists => job[j].exists
    BY <1>1
  <2>5. \A s \in RunIds : Live(s)' => run[s].job \in Jobs
    BY DEF RunsOK, Runner
  <2> QED
    BY <2>1, <2>2, <2>3, <2>4, <2>5, RowsKeep
<1>9. Empty'
  BY <1>1 DEF Empty
<1> QED
  BY <1>3, <1>5, <1>7, <1>8, <1>9

\* Due jobs with no running row are claimed, each with an id of its own.
LEMMA ClaimDueKeeps ==
  ASSUME SchedInv, ClaimDue
  PROVE  SchedInv'
<1> USE DEF SchedInv
<1>1. /\ micro # <<>> /\ phase # "down" /\ phase' = phase
      /\ RunsOf(Head(micro)) = {} /\ UNCHANGED job
  BY ServedHead DEF ClaimDue, RunsOf, OneRunKinds
<1>0. PICK S \in SUBSET Claimable :
        \E given \in [S -> FreeIds] :
          /\ \A i, j \in S : given[i] = given[j] => i = j
          /\ InsertRuns(given)
          /\ Then([k |-> "dispatch", runs |-> {given[j] : j \in S}])
  BY DEF ClaimDue
<1>2. PICK given \in [S -> FreeIds] :
        /\ \A i, j \in S : given[i] = given[j] => i = j
        /\ InsertRuns(given)
        /\ Then([k |-> "dispatch", runs |-> {given[j] : j \in S}])
  BY <1>0
<1> DEFINE ids == {given[j] : j \in S}
           c == [k |-> "dispatch", runs |-> ids]
<1>3. /\ ids \in SUBSET RunIds
      /\ \A r \in ids : ~Running(r) /\ run[r].pc = "none"
      /\ S \subseteq Jobs
      /\ \A j \in S : job[j].exists /\ ~HasRunningRow(j)
  BY <1>2 DEF FreeIds, Claimable, Due
<1>4. /\ RunsOK' /\ row' \in [RunIds -> RowRecord] /\ ids \in SUBSET RunIds
      /\ \A r \in ids : /\ row'[r].status = "running" /\ row'[r].job = run'[r].job
                        /\ run'[r].job \in Jobs /\ job[run'[r].job].exists
                        /\ ~HasRunningRow(run'[r].job) /\ run'[r].pc = "claimed"
      /\ \A r, s \in ids : run'[r].job = run'[s].job => r = s
      /\ \A r \in RunIds \ ids : row'[r] = row[r] /\ run'[r] = run[r]
  <2>1. ASSUME NEW j \in S
        PROVE  /\ row'[given[j]] = [status |-> "running", job |-> j]
               /\ run'[given[j]] = Copy(j, job[j].streak, FALSE)
    <3>1. given[j] \in RunIds /\ DOMAIN given = S
      BY <1>2, <1>3
    <3>2. (CHOOSE i \in S : given[i] = given[j]) = j
      BY <1>2
    <3> QED
      BY <1>2, <3>1, <3>2 DEF InsertRuns
  <2>2. \A r \in RunIds \ ids : row'[r] = row[r] /\ run'[r] = run[r]
    BY <1>2 DEF InsertRuns
  <2>3. ASSUME NEW j \in S
        PROVE  /\ Copy(j, job[j].streak, FALSE) \in Runner
               /\ Copy(j, job[j].streak, FALSE).pc = "claimed"
               /\ Copy(j, job[j].streak, FALSE).job = j
               /\ Copy(j, job[j].streak, FALSE).outcome # "rejected"
    <3>1. j \in Jobs /\ job[j].streak \in 0..(Threshold + 1)
      BY <1>3 DEF TablesOK, JobRecord
    <3> QED
      BY <3>1, CopyTyped DEF Copy, NoRunner
  <2>4. ASSUME NEW r \in ids
        PROVE  /\ row'[r] \in RowRecord /\ row'[r].status = "running"
               /\ run'[r] \in Runner /\ run'[r].pc = "claimed" /\ run'[r].outcome # "rejected"
               /\ \E j \in S : r = given[j] /\ row'[r].job = j /\ run'[r].job = j
    <3>1. PICK j \in S : r = given[j]
      OBVIOUS
    <3>2. j \in Jobs /\ row'[r] = [status |-> "running", job |-> j]
      BY <1>3, <2>1, <3>1
    <3>3. /\ run'[r] \in Runner /\ run'[r].pc = "claimed" /\ run'[r].job = j
          /\ run'[r].outcome # "rejected"
      <4>1. run'[r] = Copy(j, job[j].streak, FALSE)
        BY <2>1, <3>1
      <4> QED
        BY <2>3, <4>1
    <3> QED
      BY <3>1, <3>2, <3>3 DEF RowRecord, Statuses
  <2> HIDE DEF ids
  <2>5. row' \in [RunIds -> RowRecord]
    <3>1. \A r \in RunIds : row'[r] \in RowRecord
      BY <2>2, <2>4 DEF TablesOK
    <3> QED
      BY <1>2, <3>1 DEF InsertRuns
  <2>6. RunsOK'
    <3>1. \A r \in RunIds : run'[r] \in Runner
      BY <2>2, <2>4 DEF RunsOK
    <3>2. run' \in [RunIds -> Runner]
      BY <1>2, <3>1 DEF InsertRuns
    <3> QED
      BY <2>2, <2>4, <3>2 DEF RunsOK
  <2>7. \A r \in ids : /\ row'[r].job = run'[r].job /\ run'[r].job \in Jobs
                       /\ job[run'[r].job].exists /\ ~HasRunningRow(run'[r].job)
    BY <1>3, <2>4
  <2>8. \A r, s \in ids : run'[r].job = run'[s].job => r = s
    BY <2>4
  <2> QED
    BY <1>3, <2>2, <2>4, <2>5, <2>6, <2>7, <2>8
<1>5. Queues'
  <2>1. c \in Continuations /\ RunsOf(c) = ids /\ c.k = "dispatch"
    BY <1>3 DEF Continuations, RunsOf
  <2>2. waiting' = waiting /\ micro' = Append(Tail(micro), c)
    BY <1>2 DEF Then
  <2>3. \A r \in RunsOf(c) : AtStage(c.k, run'[r].pc)
    BY <1>4, <2>1 DEF AtStage
  <2>4. \A r \in RunIds : run'[r].pc # run[r].pc \/ r \in RunsOf(c) => run[r].pc = "none"
    BY <1>3, <1>4, <2>1
  <2> HIDE DEF c
  <2>5. PICK rest, served : /\ rest = Tail(micro) /\ served = RunsOf(Head(micro))
                            /\ waiting' = waiting /\ micro' = Append(rest, c)
    BY <2>2
  <2>6. \A r \in RunIds : run'[r].pc # run[r].pc \/ r \in RunsOf(c) =>
          r \in served \/ run[r].pc \in {"none", "soap"}
    BY <2>4
  <2> QED
    BY <1>1, <2>1, <2>3, <2>5, <2>6, QueuesKeep
<1> HIDE DEF ids
<1>7. TablesOK'
  BY <1>4 DEF ClaimDue, TablesOK
<1>8. Backed' /\ OneRunPerJob'
  <2>1. \A s \in RunIds : Live(s) => run[s].job \in Jobs
    BY DEF RunsOK, Runner
  <2> QED
    BY <1>1, <1>4, <2>1, RowsAdd
<1>9. Empty'
  BY <1>1 DEF Empty
<1> QED
  BY <1>4, <1>5, <1>7, <1>8, <1>9

\* A manual run reserves a row, or is refused.
LEMMA InsertRunningKeeps ==
  ASSUME SchedInv, InsertRunning
  PROVE  SchedInv'
<1> USE DEF SchedInv
<1> DEFINE j == Head(micro).job
           n == Copy(j, Head(micro).streak, TRUE)
<1>1. /\ micro # <<>> /\ phase # "down" /\ phase' = phase
      /\ RunsOf(Head(micro)) = {} /\ UNCHANGED job
      /\ j \in Jobs /\ Head(micro).streak \in 0..(Threshold + 1)
  BY ServedHead, ContinuationKinds DEF InsertRunning, RunsOf, OneRunKinds
<1>2. CASE Done /\ UNCHANGED <<row, run>>
  <2>1. RunsOK'
    BY <1>2 DEF RunsOK
  <2>2. Queues'
    BY <1>1, <1>2, QueuesDone
  <2>3. TablesOK'
    BY <1>2 DEF InsertRunning, TablesOK
  <2>4. Backed' /\ OneRunPerJob'
    BY <1>1, <1>2 DEF Backed, OneRunPerJob, Busy, Live, Running
  <2> QED
    BY <1>1, <2>1, <2>2, <2>3, <2>4 DEF Empty
<1>3. ASSUME NEW r \in FreeIds, InsertAllowed(j),
             row' = [row EXCEPT ![r] = [status |-> "running", job |-> j]],
             run' = [run EXCEPT ![r] = n], Then([k |-> "launch", run |-> r])
      PROVE  SchedInv'
  <2> DEFINE ids == {r}
  <2>1. /\ n \in Runner /\ n.pc = "claimed" /\ n.job = j /\ n.outcome # "rejected"
        /\ r \in RunIds /\ run[r].pc = "none"
    BY <1>1, CopyTyped DEF Copy, NoRunner, FreeIds
  <2> HIDE DEF n, j
  <2>2. /\ RunsOK' /\ row' \in [RunIds -> RowRecord]
    BY <1>1, <1>3, <2>1 DEF RunsOK, TablesOK, RowRecord, Statuses
  <2>3. /\ \A s \in ids : /\ row'[s].status = "running" /\ row'[s].job = run'[s].job
                          /\ run'[s].job \in Jobs /\ job[run'[s].job].exists
                          /\ ~HasRunningRow(run'[s].job)
        /\ \A s, t \in ids : run'[s].job = run'[t].job => s = t
        /\ \A s \in RunIds \ ids : row'[s] = row[s] /\ run'[s] = run[s]
        /\ run'[r].pc = "claimed"
    BY <1>1, <1>3, <2>1 DEF InsertAllowed, RunsOK, TablesOK
  <2>4. Queues'
    BY <1>1, <1>3, <2>1, <2>3, QueuesGoOn DEF OneRunKinds, AtStage
  <2>5. Backed' /\ OneRunPerJob'
    <3>1. \A s \in RunIds : Live(s) => run[s].job \in Jobs
      BY DEF RunsOK, Runner
    <3> HIDE DEF ids
    <3>2. ids \in SUBSET RunIds
      BY <2>1 DEF ids
    <3> QED
      BY <1>1, <2>3, <3>1, <3>2, RowsAdd
  <2>6. TablesOK'
    BY <2>2 DEF InsertRunning, TablesOK
  <2> QED
    BY <1>1, <2>2, <2>4, <2>5, <2>6 DEF Empty
<1> QED
  BY <1>2, <1>3 DEF InsertRunning

-----------------------------------------------------------------------------
\* The invariant

LEMMA InitHolds == Init => SchedInv
<1> SUFFICES ASSUME Init PROVE SchedInv
  OBVIOUS
<1>1. NewJob \in JobRecord /\ 0 \in 0..MaxChanges /\ 0 \in 0..MaxFaults
  <2>1. 0 \in 0..(Threshold + 1) /\ 0 \in 0..MaxChanges /\ 0 \in 0..2 /\ 0 \in 0..MaxFaults
    BY SchedulerAssumption
  <2> QED
    BY <2>1 DEF NewJob, JobRecord
<1>2. NoRunner.job \in Jobs /\ NoRunner.outcome = "none"
  BY NoRunnerTyped DEF NoRunner, Runner
<1>3. TablesOK
  BY <1>1, <1>2 DEF Init, TablesOK, RowRecord, Statuses, NoTick
<1>4. RunsOK
  BY <1>2, NoRunnerTyped DEF Init, RunsOK
<1>5. \A r \in RunIds : ~Live(r) /\ ~Running(r) /\ run[r].pc = "none"
  BY NoRunnerTyped DEF Init, Live, Running
<1>6. Queues /\ Backed /\ OneRunPerJob /\ Empty
  BY <1>5 DEF Init, Queues, Matched, Apart, Backed, OneRunPerJob, Busy, Empty
<1> QED
  BY <1>3, <1>4, <1>6 DEF SchedInv

LEMMA NextKeeps ==
  ASSUME SchedInv, [Next]_vars
  PROVE  SchedInv'
<1>1. ASSUME Micro PROVE SchedInv'
  BY <1>1, DispatchKeeps, PersistKeeps, PersistFailsKeeps, RunnerReturnsKeeps, FinalizeKeeps,
     FinalizeThrowsKeeps, CompleteKeeps, FinallyKeeps, CatchRejectedKeeps, InsertRunningKeeps,
     LaunchKeeps, ClaimDueKeeps, ClaimNothingKeeps DEF Micro
<1>2. CASE TickTimer \/ Start \/ Stop \/ StopReturns \/ ProcessEnds
  BY <1>2, TickTimerKeeps, StartKeeps, StopKeeps, StopReturnsKeeps, ProcessEndsKeeps
<1>3. CASE MasterSwitch \/ WriterBegins \/ WriterEnds
  BY <1>3, MasterSwitchKeeps, WriterBeginsKeeps, WriterEndsKeeps
<1>4. ASSUME NEW r \in RunIds, SoapAnswers(r) \/ SoapFails(r) PROVE SchedInv'
  BY <1>4, SoapAnswersKeeps, SoapFailsKeeps
<1>5. ASSUME NEW j \in Jobs,
             RunJobNow(j) \/ Patch(j) \/ Delete(j) \/ TimePasses(j) \/ WorldChanges(j)
      PROVE  SchedInv'
  BY <1>5, RunJobNowKeeps, PatchKeeps, DeleteKeeps, TimePassesKeeps, WorldChangesKeeps
<1>6. CASE UNCHANGED vars
  <2>1. /\ UNCHANGED <<job, row, run, micro, waiting>>
        /\ TablesOK' /\ RunsOK' /\ Empty'
    BY <1>6 DEF vars, SchedInv, TablesOK, RunsOK, Empty
  <2>2. Queues'
    BY <2>1, QueuesStay DEF SchedInv
  <2>3. Backed' /\ OneRunPerJob'
    BY <2>1 DEF SchedInv, Backed, OneRunPerJob, Busy, Live, Running
  <2> QED
    BY <2>1, <2>2, <2>3 DEF SchedInv
<1> QED
  BY <1>1, <1>2, <1>3, <1>4, <1>5, <1>6 DEF Next

\* The inductive invariant: types, queues whose continuations find their runs
\* where they left them, rows that back the runs at work.
THEOREM SchedulerInvariant == Spec => []SchedInv
<1>1. SchedInv /\ [Next]_vars => SchedInv'
  BY NextKeeps
<1> QED
  BY <1>1, InitHolds, PTL DEF Spec

\* Every variable keeps its type.
THEOREM TypeOKHolds == Spec => []TypeOK
<1>1. SchedInv => TypeOK
  BY DEF SchedInv, TablesOK, RunsOK, Queues, TypeOK, JobRecord, RowRecord, Runner, Outcomes
<1> QED
  BY <1>1, SchedulerInvariant, PTL

\* At most one run of a job is at work, whatever interleaves, faults included
\* (scheduler.ts:249-251).
THEOREM OneRunPerJobHolds == Spec => []OneRunPerJob
<1>1. SchedInv => OneRunPerJob
  BY DEF SchedInv
<1> QED
  BY <1>1, SchedulerInvariant, PTL

-----------------------------------------------------------------------------
\* Properties beside the invariant

\* Most steps neither end a run nor touch rows and streaks.
Calm ==
    /\ row' = row /\ (phase' = phase \/ phase # "down")
    /\ \A r \in RunIds : Live(r)' <=> Live(r)
    /\ \A r \in RunIds : Live(r)' => /\ run'[r].job = run[r].job
                                     /\ run'[r].streak = run[r].streak
                                     /\ run'[r].manual = run[r].manual
    /\ \A j \in Jobs : job'[j].streak = job[j].streak /\ job'[j].trips = job[j].trips

LEMMA CalmSteps ==
  ASSUME SchedInv, [Next]_vars
  PROVE  \/ Calm
         \/ ClaimDue \/ InsertRunning \/ Finalize \/ FinalizeThrows \/ CatchRejected
         \/ Start \/ ProcessEnds \/ \E j \in Jobs : Delete(j)
<1> USE DEF SchedInv
<1>1. CASE TickTimer \/ ClaimNothing \/ Complete \/ StopReturns \/ MasterSwitch
             \/ WriterBegins \/ WriterEnds \/ UNCHANGED vars
  <2>1. UNCHANGED <<row, run, job>> /\ (phase' = phase \/ phase # "down")
    BY <1>1 DEF TickTimer, ClaimNothing, Complete, StopReturns, MasterSwitch, WriterBegins,
                WriterEnds, vars, db, process
  <2> QED
    BY <2>1 DEF Calm, Live
<1>2. ASSUME NEW j \in Jobs, RunJobNow(j) \/ Patch(j) \/ TimePasses(j) \/ WorldChanges(j) PROVE Calm
  <2>1. UNCHANGED <<row, run, phase>>
    BY <1>2 DEF RunJobNow, Patch, TimePasses, WorldChanges, db, process
  <2>2. \A i \in Jobs : job'[i].streak = job[i].streak /\ job'[i].trips = job[i].trips
    <3>1. \A i \in Jobs : job[i] \in JobRecord /\ job \in [Jobs -> JobRecord]
      BY DEF TablesOK
    <3>2. CASE RunJobNow(j) \/ WorldChanges(j)
      BY <3>2 DEF RunJobNow, WorldChanges, db
    <3>3. CASE Patch(j)
      BY <3>1, <3>3 DEF Patch, JobRecord
    <3>4. CASE TimePasses(j)
      BY <3>1, <3>4 DEF TimePasses, JobRecord
    <3> QED
      BY <1>2, <3>2, <3>3, <3>4
  <2> QED
    BY <2>1, <2>2 DEF Calm, Live
<1>3. ASSUME NEW r \in RunIds, SoapAnswers(r) \/ SoapFails(r) PROVE Calm
  <2>1. UNCHANGED <<job, row, phase>> /\ run[r].pc = "soap"
    BY <1>3 DEF SoapAnswers, SoapFails, db
  <2>2. /\ run'[r].pc \in {"persist", "finalize"} /\ run'[r].job = run[r].job
        /\ run'[r].streak = run[r].streak /\ run'[r].manual = run[r].manual
        /\ \A s \in RunIds \ {r} : run'[s] = run[s]
    BY <1>3 DEF SoapAnswers, SoapFails, RunsOK, Runner
  <2> QED
    BY <2>1, <2>2 DEF Calm, Live
<1>4. CASE Dispatch \/ Launch
  <2>1. PICK ids : StartRuns(ids) /\ UNCHANGED <<row, job, phase>> /\ ids \in SUBSET RunIds
                   /\ \A r \in ids : run[r].pc = "claimed"
    <3>1. CASE Dispatch
      BY <3>1, ServedHead, ContinuationKinds DEF Dispatch, db, RunsOf, AtStage
    <3>2. CASE Launch
      BY <3>2, ServedRun DEF Launch, db, OneRunKinds, AtStage
    <3> QED
      BY <1>4, <3>1, <3>2
  <2>2. \A r \in RunIds : /\ Live(r)' <=> Live(r)
                          /\ run'[r].job = run[r].job /\ run'[r].streak = run[r].streak
                          /\ run'[r].manual = run[r].manual
    BY <2>1 DEF StartRuns, Live, RunsOK, Runner
  <2> QED
    BY <2>1, <2>2 DEF Calm
<1>5. CASE Persist \/ PersistFails \/ RunnerReturns
  <2> DEFINE r == Head(micro).run
  <2>1. r \in RunIds /\ run[r].pc = "persist"
    BY <1>5, ServedRun DEF Persist, PersistFails, RunnerReturns, OneRunKinds, AtStage
  <2>2. \A j \in Jobs : job'[j].streak = job[j].streak /\ job'[j].trips = job[j].trips
    BY <1>5, <2>1, PersistTables DEF Persist, PersistFails, RunnerReturns, db
  <2> HIDE DEF r
  <2>3. /\ row' = row /\ phase' = phase
        /\ run'[r].pc \in {"persist", "finalize"} /\ run'[r].job = run[r].job
        /\ run'[r].streak = run[r].streak /\ run'[r].manual = run[r].manual
        /\ \A s \in RunIds \ {r} : run'[s] = run[s]
    <3>1. CASE Persist
      BY <2>1, <3>1 DEF Persist, r, RunsOK, Runner
    <3>2. CASE PersistFails
      BY <2>1, <3>2 DEF PersistFails, r, db, RunsOK, Runner
    <3>3. CASE RunnerReturns
      BY <2>1, <3>3 DEF RunnerReturns, r, db, RunsOK, Runner
    <3> QED
      BY <1>5, <3>1, <3>2, <3>3
  <2> QED
    BY <2>1, <2>2, <2>3 DEF Calm, Live
<1>6. CASE Finally
  <2> DEFINE r == Head(micro).run
  <2>1. r \in RunIds /\ run[r].pc = "settled"
    BY <1>6, ServedRun DEF Finally, OneRunKinds, AtStage
  <2> HIDE DEF r
  <2>2. /\ UNCHANGED <<job, row, phase>> /\ run'[r].pc \in {"none", "caught"}
        /\ \A s \in RunIds \ {r} : run'[s] = run[s]
    BY <1>6, <2>1, NoRunnerTyped DEF Finally, r, db, RunsOK, Runner
  <2> QED
    BY <2>1, <2>2 DEF Calm, Live
<1>7. CASE Stop
  <2>1. /\ UNCHANGED <<job, row>> /\ phase # "down"
        /\ \A r \in RunIds : /\ run'[r].pc = run[r].pc /\ run'[r].job = run[r].job
                             /\ run'[r].streak = run[r].streak /\ run'[r].manual = run[r].manual
    BY <1>7 DEF Stop, db, RunsOK, Runner
  <2> QED
    BY <2>1 DEF Calm, Live
<1> QED
  BY <1>1, <1>2, <1>3, <1>4, <1>5, <1>6, <1>7 DEF Next, Micro

\* New runs: their rows are written with them, for jobs that had none.
Added(ids) ==
    /\ job' = job /\ phase' = phase /\ phase # "down"
    /\ \A r \in ids :
         /\ Running(r)' /\ Live(r)' /\ row'[r].job = run'[r].job
         /\ ~Running(r)
         /\ run'[r].job \in Jobs
         /\ run'[r].manual \/ run'[r].streak = job[run'[r].job].streak
    /\ \A r \in RunIds \ ids : row'[r] = row[r] /\ run'[r] = run[r]

LEMMA ClaimAdds ==
  ASSUME SchedInv, ClaimDue
  PROVE  \E ids \in SUBSET RunIds : Added(ids) /\ \A r \in ids : ~run'[r].manual
<1> USE DEF SchedInv
<1>1. PICK S \in SUBSET Claimable :
        \E given \in [S -> FreeIds] :
          /\ \A i, j \in S : given[i] = given[j] => i = j
          /\ InsertRuns(given)
  BY DEF ClaimDue
<1>2. PICK given \in [S -> FreeIds] :
        /\ \A i, j \in S : given[i] = given[j] => i = j
        /\ InsertRuns(given)
  BY <1>1
<1> DEFINE ids == {given[j] : j \in S}
<1>3. ids \in SUBSET RunIds /\ S \subseteq Jobs /\ \A r \in ids : ~Running(r)
  BY <1>2 DEF FreeIds, Claimable, Due
<1>4. ASSUME NEW r \in ids
      PROVE  \E j \in S : /\ row'[r] = [status |-> "running", job |-> j]
                          /\ run'[r] = Copy(j, job[j].streak, FALSE)
  <2>1. PICK j \in S : r = given[j]
    OBVIOUS
  <2>2. given[j] \in RunIds /\ DOMAIN given = S /\ (CHOOSE i \in S : given[i] = given[j]) = j
    BY <1>2, <1>3
  <2> QED
    BY <1>2, <2>1, <2>2 DEF InsertRuns
<1>5. \A r \in RunIds \ ids : row'[r] = row[r] /\ run'[r] = run[r]
  BY <1>2 DEF InsertRuns
<1> HIDE DEF ids
<1>6. ASSUME NEW r \in ids
      PROVE  /\ Running(r)' /\ Live(r)' /\ row'[r].job = run'[r].job
             /\ run'[r].job \in Jobs /\ ~run'[r].manual
             /\ run'[r].streak = job[run'[r].job].streak
  <2>1. PICK j \in S : /\ row'[r] = [status |-> "running", job |-> j]
                       /\ run'[r] = Copy(j, job[j].streak, FALSE)
    BY <1>4
  <2>2. j \in Jobs /\ job[j].streak \in 0..(Threshold + 1)
    BY <1>3 DEF TablesOK, JobRecord
  <2>3. /\ run'[r].pc = "claimed" /\ run'[r].job = j /\ run'[r].streak = job[j].streak
        /\ run'[r].manual = FALSE
    <3>1. /\ Copy(j, job[j].streak, FALSE).pc = "claimed" /\ Copy(j, job[j].streak, FALSE).job = j
          /\ Copy(j, job[j].streak, FALSE).streak = job[j].streak
          /\ Copy(j, job[j].streak, FALSE).manual = FALSE
      BY <2>2, CopyTyped
    <3> QED
      BY <2>1, <3>1
  <2>4. row'[r].status = "running" /\ row'[r].job = j
    BY <2>1
  <2> QED
    BY <2>2, <2>3, <2>4 DEF Running, Live
<1>7. job' = job /\ phase' = phase /\ phase # "down"
  BY ServedHead DEF ClaimDue
<1> QED
  BY <1>3, <1>5, <1>6, <1>7 DEF Added

LEMMA InsertAdds ==
  ASSUME SchedInv, InsertRunning
  PROVE  \E ids \in SUBSET RunIds : Added(ids)
<1> USE DEF SchedInv
<1> DEFINE j == Head(micro).job
           n == Copy(j, Head(micro).streak, TRUE)
<1>1. /\ j \in Jobs /\ Head(micro).streak \in 0..(Threshold + 1)
      /\ job' = job /\ phase' = phase /\ phase # "down"
  BY ServedHead, ContinuationKinds DEF InsertRunning
<1>2. n.pc = "claimed" /\ n.job = j /\ n.manual = TRUE
  BY <1>1, CopyTyped
<1> HIDE DEF n, j
<1>3. CASE UNCHANGED <<row, run>>
  <2>1. Added({})
    BY <1>1, <1>3 DEF Added
  <2> QED
    BY <2>1
<1>4. ASSUME NEW r \in FreeIds,
             row' = [row EXCEPT ![r] = [status |-> "running", job |-> j]],
             run' = [run EXCEPT ![r] = n]
      PROVE  Added({r}) /\ r \in RunIds
  <2>1. r \in RunIds /\ ~Running(r)
    BY DEF FreeIds
  <2>2. /\ row'[r] = [status |-> "running", job |-> j] /\ run'[r] = n
        /\ \A s \in RunIds \ {r} : row'[s] = row[s] /\ run'[s] = run[s]
    BY <1>4, <2>1 DEF TablesOK, RunsOK
  <2> QED
    BY <1>1, <1>2, <2>1, <2>2 DEF Added, Live, Running
<1> QED
  BY <1>3, <1>4 DEF InsertRunning, n, j

\* A run ends and no other changes.
Over(r) ==
    /\ ~Live(r)' /\ phase # "down" /\ phase' = phase
    /\ \A s \in RunIds \ {r} : run'[s] = run[s] /\ row'[s] = row[s]

LEMMA FinalizeEnds ==
  ASSUME SchedInv, Finalize
  PROVE  \E r \in RunIds :
           /\ Over(r) /\ run[r].pc = "finalize" /\ ~Running(r)'
           /\ \/ job' = job
              \/ /\ Running(r) /\ run[r].outcome # "aborted"
                 /\ row'[r].status = run[r].outcome
                 /\ \E past \in BOOLEAN : ApplyOutcome(r, past)
<1> USE DEF SchedInv
<1>1. PICK r \in RunIds : /\ r = Head(micro).run
                         /\ phase # "down" /\ phase' = phase /\ run[r].pc = "finalize"
  BY ServedRun DEF Finalize, OneRunKinds, AtStage
<1>2. run'[r].pc = "settled" /\ \A s \in RunIds \ {r} : run'[s] = run[s]
  BY <1>1 DEF Finalize, Settle, RunsOK, Runner
<1>3. run[r].outcome \in Outcomes /\ row[r] \in RowRecord
  BY <1>1 DEF RunsOK, Runner, TablesOK
<1>4. CASE Running(r)
  <2>1. row' = [row EXCEPT ![r].status = run[r].outcome]
    BY <1>1, <1>4 DEF Finalize
  <2>2. /\ row'[r].status = run[r].outcome
        /\ \A s \in RunIds \ {r} : row'[s] = row[s]
    BY <1>1, <1>3, <2>1 DEF TablesOK, RowRecord
  <2>3. Over(r)
    BY <1>1, <1>2, <2>2 DEF Over, Live
  <2>5. ~Running(r)'
    BY <1>3, <2>2 DEF Running, Outcomes
  <2>4. job' = job \/ (run[r].outcome # "aborted" /\ \E past \in BOOLEAN : ApplyOutcome(r, past))
    BY <1>1 DEF Finalize
  <2> QED
    BY <1>1, <1>4, <2>2, <2>3, <2>4, <2>5
<1>5. CASE ~Running(r)
  <2>1. row' = row /\ job' = job
    BY <1>1, <1>5 DEF Finalize
  <2>2. Over(r)
    BY <1>1, <1>2, <2>1 DEF Over, Live
  <2>3. ~Running(r)'
    BY <1>5, <2>1 DEF Running
  <2> QED
    BY <1>1, <2>1, <2>2, <2>3
<1> QED
  BY <1>4, <1>5

LEMMA OtherEnds ==
  ASSUME SchedInv, FinalizeThrows \/ CatchRejected
  PROVE  \E r \in RunIds :
           /\ Over(r) /\ job' = job
           /\ row'[r] = row[r] \/ row'[r].status = "error"
           /\ row'[r] = row[r] => faults < MaxFaults \/ ~Running(r)
<1> USE DEF SchedInv
<1>1. PICK r \in RunIds : /\ r = Head(micro).run
                         /\ phase # "down" /\ phase' = phase /\ job' = job
  BY ServedRun DEF FinalizeThrows, CatchRejected, OneRunKinds, AtStage, db
<1>2. run'[r].pc \in {"settled", "none"} /\ \A s \in RunIds \ {r} : run'[s] = run[s]
  <2>1. CASE FinalizeThrows
    BY <1>1, <2>1 DEF FinalizeThrows, Settle, RunsOK, Runner
  <2>2. CASE CatchRejected
    BY <1>1, <2>2, NoRunnerTyped DEF CatchRejected, RunsOK, Runner
  <2> QED
    BY <2>1, <2>2
<1>3. CASE row' = row /\ (faults < MaxFaults \/ ~Running(r))
  BY <1>1, <1>2, <1>3 DEF Over, Live
<1>4. CASE row' = [row EXCEPT ![r].status = "error"] /\ Running(r)
  <2>1. /\ row'[r].status = "error" /\ row[r].status = "running"
        /\ \A s \in RunIds \ {r} : row'[s] = row[s]
    BY <1>1, <1>4 DEF TablesOK, RowRecord, Running
  <2> QED
    BY <1>1, <1>2, <2>1 DEF Over, Live
<1> QED
  BY <1>1, <1>3, <1>4 DEF FinalizeThrows, CatchRejected, db

\* With no database fault, no running row survives its run.
NoStrand == phase # "down" => \A r \in RunIds : Running(r) => Live(r)

LEMMA StrandSteps ==
  ASSUME SchedInv, [Next]_vars, NoStrand, MaxFaults = 0
  PROVE  NoStrand'
<1> USE DEF SchedInv
<1>1. ~(faults < MaxFaults)
  BY DEF TablesOK
<1>2. CASE Calm
  BY <1>2 DEF Calm, NoStrand, Running
<1>3. CASE ClaimDue \/ InsertRunning
  <2>1. PICK ids \in SUBSET RunIds : Added(ids)
    BY <1>3, ClaimAdds, InsertAdds
  <2> QED
    BY <2>1 DEF Added, NoStrand, Running, Live
<1>4. CASE Finalize
  <2>1. PICK r \in RunIds : Over(r) /\ ~Running(r)'
    BY <1>4, FinalizeEnds
  <2> QED
    BY <2>1 DEF Over, NoStrand, Running, Live
<1>5. CASE FinalizeThrows
  BY <1>1, <1>5 DEF FinalizeThrows
<1>6. CASE CatchRejected
  <2>1. PICK r \in RunIds : /\ Over(r)
                            /\ row'[r] = row[r] \/ row'[r].status = "error"
                            /\ row'[r] = row[r] => ~Running(r)
    BY <1>1, <1>6, OtherEnds
  <2>2. ~Running(r)'
    BY <2>1 DEF Running
  <2> QED
    BY <2>1, <2>2 DEF Over, NoStrand, Running, Live
<1>7. CASE Start
  <2>1. \A r \in RunIds : row'[r].status # "running"
    BY <1>7 DEF Start, Running, TablesOK, RowRecord
  <2> QED
    BY <2>1 DEF NoStrand, Running
<1>8. CASE ProcessEnds
  BY <1>8 DEF ProcessEnds, NoStrand
<1>9. ASSUME NEW j \in Jobs, Delete(j) PROVE NoStrand'
  <2>1. /\ UNCHANGED run /\ phase' = phase
        /\ \A r \in RunIds : row'[r] = row[r] \/ row'[r].status = "none"
    BY <1>9 DEF Delete, process, TablesOK, RowRecord
  <2> QED
    BY <2>1 DEF NoStrand, Running, Live
<1> QED
  BY <1>2, <1>3, <1>4, <1>5, <1>6, <1>7, <1>8, <1>9, CalmSteps

\* Without database faults every running row has its runner in this process
\* (scheduler.ts:142-143).
THEOREM NoOrphanRowHolds ==
  ASSUME MaxFaults = 0
  PROVE  Spec => []NoOrphanRow
<1>1. Init => NoStrand
  BY DEF Init, NoStrand
<1>2. SchedInv /\ NoStrand /\ [Next]_vars => NoStrand'
  BY StrandSteps
<1>3. NoStrand => NoOrphanRow
  BY DEF NoStrand, NoOrphanRow, Live
<1> QED
  BY <1>1, <1>2, <1>3, SchedulerInvariant, PTL DEF Spec

LEMMA StreakSteps ==
  ASSUME SchedInv, [Next]_vars, StreakNotStale
  PROVE  StreakNotStale'
<1> USE DEF SchedInv
<1>1. \A r \in RunIds : run[r].job \in Jobs
  BY DEF RunsOK, Runner
<1>2. CASE Calm
  BY <1>1, <1>2 DEF Calm, StreakNotStale, Running
<1>3. CASE ClaimDue \/ InsertRunning
  <2>1. PICK ids \in SUBSET RunIds : Added(ids)
    BY <1>3, ClaimAdds, InsertAdds
  <2> QED
    BY <2>1 DEF Added, StreakNotStale, Running, Live
<1>4. CASE Finalize
  <2>1. PICK r \in RunIds :
          /\ Over(r) /\ run[r].pc = "finalize"
          /\ job' = job \/ (Running(r) /\ \E past \in BOOLEAN : ApplyOutcome(r, past))
    BY <1>4, FinalizeEnds
  <2>2. CASE job' = job
    BY <2>1, <2>2 DEF Over, StreakNotStale, Running, Live
  <2>3. CASE \E past \in BOOLEAN : ApplyOutcome(r, past)
    <3>1. \A j \in Jobs \ {run[r].job} : job'[j] = job[j]
      BY <2>3, OutcomeTyped
    <3>2. Live(r)
      BY <2>1 DEF Live
    <3>3. \A s \in RunIds \ {r} : Live(s) => run[s].job # run[r].job
      BY <1>1, <3>2 DEF OneRunPerJob, Busy
    <3> QED
      BY <1>1, <2>1, <3>1, <3>3 DEF Over, StreakNotStale, Running, Live
  <2> QED
    BY <2>1, <2>2, <2>3
<1>5. CASE FinalizeThrows \/ CatchRejected
  <2>1. PICK r \in RunIds : Over(r) /\ job' = job
    BY <1>5, OtherEnds
  <2> QED
    BY <2>1 DEF Over, StreakNotStale, Running, Live
<1>6. CASE Start
  <2>1. \A r \in RunIds : row'[r].status # "running"
    BY <1>6 DEF Start, Running, TablesOK, RowRecord
  <2> QED
    BY <2>1 DEF StreakNotStale, Running
<1>7. CASE ProcessEnds
  <2>1. \A r \in RunIds : run'[r].pc = "none"
    BY <1>7, NoRunnerTyped DEF ProcessEnds
  <2> QED
    BY <2>1 DEF StreakNotStale, Live
<1>8. ASSUME NEW j \in Jobs, Delete(j) PROVE StreakNotStale'
  <2>1. /\ run' = run /\ job[j].exists
        /\ \A i \in Jobs \ {j} : job'[i] = job[i]
        /\ \A r \in RunIds : /\ row[r].job # j => row'[r] = row[r]
                             /\ row[r].job = j => row'[r].status = "none"
    BY <1>8 DEF Delete, process, TablesOK, RowRecord
  <2>2. \A r \in RunIds : Live(r) /\ run[r].job = j => row'[r].status = "none"
    BY <2>1 DEF Backed
  <2> QED
    BY <1>1, <2>1, <2>2 DEF StreakNotStale, Running, Live
<1> QED
  BY <1>2, <1>3, <1>4, <1>5, <1>6, <1>7, <1>8, CalmSteps

\* A scheduled run ends on the streak it was claimed with, whatever comes in
\* between (scheduler.ts:626-627).
THEOREM StreakNotStaleHolds == Spec => []StreakNotStale
<1>1. Init => StreakNotStale
  BY NoRunnerTyped DEF Init, StreakNotStale, Live
<1>2. SchedInv /\ StreakNotStale /\ [Next]_vars => StreakNotStale'
  BY StreakSteps
<1> QED
  BY <1>1, <1>2, SchedulerInvariant, PTL DEF Spec

\* An aborted run's row is closed by finalize or by start(), and neither
\* touches a job (scheduler.ts:590-594).
THEOREM AbortLeavesJobHolds == Spec => AbortLeavesJob
<1>1. ASSUME SchedInv, [Next]_vars, NEW r \in RunIds,
             row[r].status = "running", row'[r].status = "aborted"
      PROVE  UNCHANGED job
  <2>1. CASE Calm
    BY <1>1, <2>1 DEF Calm
  <2>2. CASE ClaimDue \/ InsertRunning
    <3>1. PICK ids \in SUBSET RunIds : Added(ids)
      BY <1>1, <2>2, ClaimAdds, InsertAdds
    <3> QED
      BY <3>1 DEF Added
  <2>3. CASE Finalize
    <3>1. PICK s \in RunIds :
            /\ Over(s)
            /\ job' = job \/ (run[s].outcome # "aborted" /\ row'[s].status = run[s].outcome)
      BY <1>1, <2>3, FinalizeEnds
    <3> QED
      BY <1>1, <3>1 DEF Over
  <2>4. CASE FinalizeThrows \/ CatchRejected
    BY <1>1, <2>4, OtherEnds
  <2>5. CASE Start
    BY <2>5 DEF Start
  <2>6. CASE ProcessEnds
    BY <2>6 DEF ProcessEnds, db
  <2>7. ASSUME NEW j \in Jobs, Delete(j) PROVE FALSE
    BY <1>1, <2>7 DEF Delete, SchedInv, TablesOK, RowRecord
  <2> QED
    BY <1>1, <2>1, <2>2, <2>3, <2>4, <2>5, <2>6, <2>7, CalmSteps
<1>2. SchedInv /\ [Next]_vars =>
        [\A r \in RunIds :
           row[r].status = "running" /\ row'[r].status = "aborted" => UNCHANGED job]_vars
  BY <1>1
<1> QED
  BY <1>2, SchedulerInvariant, PTL DEF Spec, AbortLeavesJob

LEMMA SnapshotSteps ==
  ASSUME SchedInv, [Next]_vars, NoChangeSwallowed
  PROVE  NoChangeSwallowed'
<1> USE DEF SchedInv
<1>1. CASE \A j \in Jobs : job'[j].snap = job[j].snap /\ job'[j].alerted = job[j].alerted
  BY <1>1 DEF NoChangeSwallowed
<1>2. CASE Persist
  <2>1. PICK r \in RunIds : r = Head(micro).run
    BY <1>2, ServedRun DEF Persist, OneRunKinds
  <2>2. run[r].job \in Jobs
    BY DEF RunsOK, Runner
  <2>3. /\ \A j \in Jobs \ {run[r].job} : job'[j] = job[j]
        /\ job'[run[r].job].snap = run[r].seen
        /\ job'[run[r].job].alerted = IF run[r].seen = job[run[r].job].snap
                                      THEN job[run[r].job].alerted
                                      ELSE job[run[r].job].alerted \cup {run[r].seen}
    BY <1>2, <2>1, PersistTables DEF Persist
  <2> QED
    BY <2>2, <2>3 DEF NoChangeSwallowed
<1>3. ASSUME NEW j \in Jobs, Delete(j) PROVE NoChangeSwallowed'
  <2>1. job' = [job EXCEPT ![j] = [NewJob EXCEPT !.exists = FALSE]]
    BY <1>3 DEF Delete
  <2>2. [NewJob EXCEPT !.exists = FALSE].snap = 0
    BY DEF NewJob
  <2>3. job'[j].snap = 0 /\ \A i \in Jobs \ {j} : job'[i] = job[i]
    BY <2>1, <2>2 DEF TablesOK
  <2> QED
    BY <2>3 DEF NoChangeSwallowed
<1>4. ASSUME NEW j \in Jobs, Patch(j) \/ TimePasses(j) PROVE NoChangeSwallowed'
  <2>1. \A i \in Jobs : job[i] \in JobRecord /\ job \in [Jobs -> JobRecord]
    BY DEF TablesOK
  <2>2. \A i \in Jobs : job'[i].snap = job[i].snap /\ job'[i].alerted = job[i].alerted
    <3>1. CASE Patch(j)
      BY <2>1, <3>1 DEF Patch, JobRecord
    <3>2. CASE TimePasses(j)
      BY <2>1, <3>2 DEF TimePasses, JobRecord
    <3> QED
      BY <1>4, <3>1, <3>2
  <2> QED
    BY <1>1, <2>2
<1>5. CASE Finalize
  <2>1. PICK r \in RunIds : job' = job \/ \E past \in BOOLEAN : ApplyOutcome(r, past)
    BY <1>5, FinalizeEnds
  <2>2. \A j \in Jobs : job'[j].snap = job[j].snap /\ job'[j].alerted = job[j].alerted
    BY <2>1, OutcomeTyped
  <2> QED
    BY <1>1, <2>2
<1>6. ASSUME UNCHANGED job PROVE NoChangeSwallowed'
  BY <1>1, <1>6
<1>7. CASE \/ ClaimDue \/ ClaimNothing \/ Dispatch \/ InsertRunning \/ Launch \/ PersistFails
           \/ RunnerReturns \/ FinalizeThrows \/ Complete \/ Finally \/ CatchRejected
  BY <1>6, <1>7 DEF ClaimDue, ClaimNothing, Dispatch, InsertRunning, Launch, PersistFails,
                    RunnerReturns, FinalizeThrows, Complete, Finally, CatchRejected, db
<1>8. CASE \/ TickTimer \/ Start \/ Stop \/ StopReturns \/ ProcessEnds
           \/ MasterSwitch \/ WriterBegins \/ WriterEnds \/ UNCHANGED vars
  BY <1>6, <1>8 DEF TickTimer, Start, Stop, StopReturns, ProcessEnds, MasterSwitch, WriterBegins,
                    WriterEnds, vars, db
<1>9. ASSUME NEW r \in RunIds, SoapAnswers(r) \/ SoapFails(r) PROVE NoChangeSwallowed'
  BY <1>6, <1>9 DEF SoapAnswers, SoapFails, db
<1>10. ASSUME NEW j \in Jobs, RunJobNow(j) \/ WorldChanges(j) PROVE NoChangeSwallowed'
  BY <1>6, <1>10 DEF RunJobNow, WorldChanges, db
<1> QED
  BY <1>2, <1>3, <1>4, <1>5, <1>7, <1>8, <1>9, <1>10 DEF Next, Micro

\* The baseline never holds a change without its alert, faults and crashes
\* included (dosarSoapRunner.ts:187-192).
THEOREM NoChangeSwallowedHolds == Spec => []NoChangeSwallowed
<1>1. Init => NoChangeSwallowed
  BY DEF Init, NoChangeSwallowed, NewJob
<1>2. SchedInv /\ NoChangeSwallowed /\ [Next]_vars => NoChangeSwallowed'
  BY SnapshotSteps
<1> QED
  BY <1>1, <1>2, SchedulerInvariant, PTL DEF Spec

\* Without manual triggers no continuation asks for a manual run and none is made.
Asked(q) == \E i \in 1..Len(q) : q[i].k = "insert"

Scheduled ==
    /\ ~Asked(micro) /\ ~Asked(waiting)
    /\ \A r \in RunIds : run[r].manual = FALSE

LEMMA QueueGrows ==
  ASSUME NEW rest \in Seq(Continuations), NEW c \in Continuations, c.k # "insert", ~Asked(rest)
  PROVE  ~Asked(Append(rest, c))
BY DEF Asked

LEMMA QueueServed ==
  ASSUME NEW q \in Seq(Continuations), q # <<>>, ~Asked(q)
  PROVE  Tail(q) \in Seq(Continuations) /\ ~Asked(Tail(q)) /\ Head(q).k # "insert"
<1>1. /\ Tail(q) \in Seq(Continuations) /\ Len(q) \in Nat \ {0}
      /\ Len(Tail(q)) = Len(q) - 1 /\ Head(q) = q[1]
      /\ \A i \in 1..Len(Tail(q)) : Tail(q)[i] = q[i + 1] /\ i + 1 \in 1..Len(q)
  OBVIOUS
<1> QED
  BY <1>1 DEF Asked

LEMMA QueuesUnasked ==
  ASSUME Queues, ~Asked(micro), ~Asked(waiting), NEW c \in Continuations, c.k # "insert",
         \/ UNCHANGED <<micro, waiting>>
         \/ micro # <<>> /\ (Done \/ Then(c) \/ AwaitRead(Tail(micro), c))
         \/ AwaitRead(<<>>, c)
  PROVE  ~Asked(micro)' /\ ~Asked(waiting)'
<1>1. <<>> \in Seq(Continuations) /\ ~Asked(<<>>)
  BY DEF Asked
<1>2. micro # <<>> => Tail(micro) \in Seq(Continuations) /\ ~Asked(Tail(micro))
  BY QueueServed DEF Queues
<1>3. ASSUME NEW rest \in Seq(Continuations), ~Asked(rest),
             \/ micro' = rest /\ waiting' = waiting
             \/ micro' = rest /\ waiting' = Append(waiting, c)
             \/ micro' = Append(rest, c) /\ waiting' = waiting
      PROVE  ~Asked(micro)' /\ ~Asked(waiting)'
  BY <1>3, QueueGrows DEF Queues, Asked
<1> QED
  BY <1>1, <1>2, <1>3 DEF Queues, Done, Then, AwaitRead, Asked

LEMMA UnaskedSteps ==
  ASSUME SchedInv, [Next]_vars, Scheduled, "manual" \notin Env
  PROVE  ~Asked(micro)' /\ ~Asked(waiting)'
<1> USE DEF SchedInv
<1>1. ASSUME NEW r \in RunIds, NEW k \in OneRunKinds
      PROVE  [k |-> k, run |-> r] \in Continuations /\ [k |-> k, run |-> r].k # "insert"
  BY <1>1, NewContinuation DEF OneRunKinds
<1>2. [k |-> "claim"] \in Continuations /\ [k |-> "claim"].k # "insert"
  BY ClaimContinuation
<1>3. CASE ClaimNothing \/ Dispatch \/ Launch \/ CatchRejected
  BY <1>2, <1>3, QueuesUnasked
     DEF Scheduled, ClaimNothing, Dispatch, Launch, CatchRejected, Serving
<1>4. CASE ClaimDue
  <2>1. PICK ids \in SUBSET RunIds : Then([k |-> "dispatch", runs |-> ids])
    <3>1. PICK S \in SUBSET Claimable : \E given \in [S -> FreeIds] :
            Then([k |-> "dispatch", runs |-> {given[j] : j \in S}])
      BY <1>4 DEF ClaimDue
    <3>2. PICK given \in [S -> FreeIds] : Then([k |-> "dispatch", runs |-> {given[j] : j \in S}])
      BY <3>1
    <3>3. {given[j] : j \in S} \in SUBSET RunIds
      BY DEF FreeIds
    <3> QED
      BY <3>2, <3>3
  <2>2. [k |-> "dispatch", runs |-> ids] \in Continuations
    BY DEF Continuations
  <2> QED
    BY <1>4, <2>1, <2>2, QueuesUnasked DEF Scheduled, ClaimDue, Serving
<1>5. CASE InsertRunning
  BY <1>5, QueueServed DEF InsertRunning, Serving, Scheduled, Queues
<1>6. CASE Persist \/ PersistFails \/ RunnerReturns \/ Finalize \/ FinalizeThrows \/ Complete
             \/ Finally
  <2>1. PICK r \in RunIds : r = Head(micro).run
    BY <1>6, ServedRun DEF Persist, PersistFails, RunnerReturns, Finalize, FinalizeThrows,
                           Complete, Finally, OneRunKinds
  <2>2. /\ micro # <<>>
        /\ \E k \in OneRunKinds :
             Done \/ Then([k |-> k, run |-> r]) \/ AwaitRead(Tail(micro), [k |-> k, run |-> r])
    BY <1>6, <2>1 DEF Persist, PersistFails, RunnerReturns, Finalize, FinalizeThrows,
                      Complete, Finally, Settle, Serving, OneRunKinds
  <2> QED
    BY <1>1, <2>2, QueuesUnasked DEF Scheduled
<1>7. CASE TickTimer
  BY <1>2, <1>7, QueuesUnasked DEF TickTimer, Scheduled
<1>8. ASSUME NEW r \in RunIds, SoapAnswers(r) \/ SoapFails(r)
      PROVE  ~Asked(micro)' /\ ~Asked(waiting)'
  <2>1. \E k \in OneRunKinds : AwaitRead(<<>>, [k |-> k, run |-> r])
    BY <1>8 DEF SoapAnswers, SoapFails, OneRunKinds
  <2> QED
    BY <1>1, <2>1, QueuesUnasked DEF Scheduled
<1>9. CASE WriterEnds \/ ProcessEnds
  BY <1>9 DEF WriterEnds, ProcessEnds, Scheduled, Asked
<1>10. ASSUME UNCHANGED <<micro, waiting>> PROVE ~Asked(micro)' /\ ~Asked(waiting)'
  BY <1>10 DEF Asked, Scheduled
<1>11. CASE Start \/ Stop \/ StopReturns \/ MasterSwitch \/ WriterBegins \/ UNCHANGED vars
  BY <1>10, <1>11 DEF Start, Stop, StopReturns, MasterSwitch, WriterBegins, vars, loop
<1>12. ASSUME NEW j \in Jobs, RunJobNow(j) \/ Patch(j) \/ Delete(j) \/
                        TimePasses(j) \/ WorldChanges(j)
       PROVE  ~Asked(micro)' /\ ~Asked(waiting)'
  BY <1>10, <1>12 DEF RunJobNow, Patch, Delete, TimePasses, WorldChanges, loop
<1> QED
  BY <1>3, <1>4, <1>5, <1>6, <1>7, <1>8, <1>9, <1>11, <1>12 DEF Next, Micro

LEMMA ManualSteps ==
  ASSUME SchedInv, [Next]_vars, Scheduled, "manual" \notin Env
  PROVE  \A r \in RunIds : run'[r].manual = FALSE
<1> USE DEF SchedInv
<1>1. \A r \in RunIds : run[r] \in Runner /\ run[r].manual = FALSE
  BY DEF Scheduled, RunsOK
<1>2. ASSUME run' = run PROVE \A r \in RunIds : run'[r].manual = FALSE
  BY <1>1, <1>2
<1>3. CASE ClaimDue
  <2>1. PICK ids \in SUBSET RunIds : Added(ids) /\ \A r \in ids : ~run'[r].manual
    BY <1>3, ClaimAdds
  <2>2. RunsOK'
    BY <1>3, ClaimDueKeeps
  <2> QED
    BY <1>1, <2>1, <2>2 DEF Added, RunsOK, Runner
<1>4. CASE InsertRunning
  BY <1>4, QueueServed DEF InsertRunning, Serving, Scheduled, Queues
<1>5. CASE ClaimNothing \/ Complete \/ TickTimer \/ Start \/ StopReturns
             \/ MasterSwitch \/ WriterBegins \/ WriterEnds \/ UNCHANGED vars
  BY <1>2, <1>5 DEF ClaimNothing, Complete, TickTimer, Start, StopReturns, MasterSwitch,
                    WriterBegins, WriterEnds, vars, process
<1>6. ASSUME NEW j \in Jobs, RunJobNow(j) \/ Patch(j) \/ Delete(j) \/
                        TimePasses(j) \/ WorldChanges(j)
      PROVE  run' = run
  BY <1>6 DEF RunJobNow, Patch, Delete, TimePasses, WorldChanges, process
<1>7. CASE Dispatch \/ Launch
  <2>1. PICK ids : StartRuns(ids)
    BY <1>7 DEF Dispatch, Launch
  <2> QED
    BY <1>1, <2>1 DEF StartRuns, Runner
<1>8. CASE Persist \/ PersistFails \/ RunnerReturns
  <2>1. PICK r : r = Head(micro).run
    OBVIOUS
  <2>2. \/ run' = [run EXCEPT ![r].outcome = "ok"] \/ run' = [run EXCEPT ![r].outcome = "error"]
        \/ run' = [run EXCEPT ![r].pc = "finalize"]
    BY <1>8, <2>1 DEF Persist, PersistFails, RunnerReturns
  <2> QED
    BY <1>1, <2>2 DEF RunsOK, Runner
<1>9. CASE Finalize \/ FinalizeThrows
  <2>1. PICK r, outcome : run' = [run EXCEPT ![r].pc = "settled", ![r].outcome = outcome]
    BY <1>9 DEF Finalize, FinalizeThrows, Settle
  <2>2. \A s \in RunIds : run'[s].manual = run[s].manual
    BY <1>1, <2>1 DEF RunsOK, Runner
  <2> QED
    BY <1>1, <2>2
<1>10. CASE Finally
  <2>1. PICK r : run' = [run EXCEPT ![r].pc = "caught"] \/ run' = [run EXCEPT ![r] = NoRunner]
    BY <1>10 DEF Finally
  <2> QED
    BY <1>1, <2>1, NoRunnerTyped DEF RunsOK, Runner
<1>11. CASE CatchRejected
  <2>1. PICK r : run' = [run EXCEPT ![r] = NoRunner]
    BY <1>11 DEF CatchRejected
  <2> QED
    BY <1>1, <2>1, NoRunnerTyped DEF RunsOK
<1>12. CASE Stop
  BY <1>1, <1>12 DEF Stop, Runner
<1>13. CASE ProcessEnds
  BY <1>13, NoRunnerTyped DEF ProcessEnds
<1>14. ASSUME NEW r \in RunIds, SoapAnswers(r) \/ SoapFails(r)
       PROVE  \A s \in RunIds : run'[s].manual = FALSE
  <2>1. \A s \in RunIds \ {r} : run'[s] = run[s]
    BY <1>14 DEF SoapAnswers, SoapFails, RunsOK
  <2>2. run'[r].manual = run[r].manual
    <3>1. CASE SoapAnswers(r)
      BY <1>1, <3>1 DEF SoapAnswers, RunsOK, Runner
    <3>2. CASE SoapFails(r)
      BY <1>1, <3>2 DEF SoapFails, RunsOK, Runner
    <3> QED
      BY <1>14, <3>1, <3>2
  <2> QED
    BY <1>1, <2>1, <2>2
<1> QED
  BY <1>2, <1>3, <1>4, <1>5, <1>6, <1>7, <1>8, <1>9, <1>10, <1>11, <1>12, <1>13, <1>14
     DEF Next, Micro

\* A failure adds one to the streak of the row, so the threshold is crossed once.
LEMMA TripSteps ==
  ASSUME SchedInv, [Next]_vars, Scheduled, StreakNotStale, SourceErrorOncePerStreak
  PROVE  SourceErrorOncePerStreak'
<1> USE DEF SchedInv
<1>1. ASSUME job' = job PROVE SourceErrorOncePerStreak'
  BY <1>1 DEF SourceErrorOncePerStreak
<1>2. CASE Calm
  BY <1>2 DEF Calm, SourceErrorOncePerStreak
<1>3. CASE ClaimDue \/ InsertRunning \/ FinalizeThrows \/ CatchRejected \/ Start \/ ProcessEnds
  BY <1>1, <1>3 DEF ClaimDue, InsertRunning, FinalizeThrows, CatchRejected, Start, ProcessEnds, db
<1>4. CASE Finalize
  <2>1. PICK r \in RunIds :
          /\ run[r].pc = "finalize"
          /\ job' = job \/ (Running(r) /\ \E past \in BOOLEAN : ApplyOutcome(r, past))
    BY <1>4, FinalizeEnds
  <2>2. CASE Running(r) /\ \E past \in BOOLEAN : ApplyOutcome(r, past)
    <3> DEFINE j == run[r].job
               n == job[j].streak
    <3>1. j \in Jobs /\ n = run[r].streak /\ n \in 0..(Threshold + 1)
      BY <2>1, <2>2 DEF StreakNotStale, Scheduled, Live, RunsOK, Runner
    <3>2. /\ \A i \in Jobs \ {j} : job'[i] = job[i]
          /\ job'[j].streak = IF run[r].outcome = "ok" THEN 0 ELSE Smaller(n + 1, Threshold + 1)
          /\ job'[j].trips = IF job'[j].streak = 0 THEN 0
                             ELSE IF job'[j].streak = Threshold THEN Smaller(job[j].trips + 1, 2)
                             ELSE job[j].trips
      BY <2>2, <3>1, OutcomeTyped
    <3>3. job[j].trips = IF n >= Threshold THEN 1 ELSE 0
      BY <3>1 DEF SourceErrorOncePerStreak
    <3> HIDE DEF j, n
    <3>4. job'[j].trips = IF job'[j].streak >= Threshold THEN 1 ELSE 0
      BY <3>1, <3>2, <3>3, SchedulerAssumption DEF Smaller
    <3> QED
      BY <3>2, <3>4 DEF SourceErrorOncePerStreak
  <2> QED
    BY <1>1, <2>1, <2>2
<1>5. ASSUME NEW j \in Jobs, Delete(j) PROVE SourceErrorOncePerStreak'
  <2>1. job' = [job EXCEPT ![j] = [NewJob EXCEPT !.exists = FALSE]]
    BY <1>5 DEF Delete
  <2>2. [NewJob EXCEPT !.exists = FALSE].streak = 0 /\ [NewJob EXCEPT !.exists = FALSE].trips = 0
    BY DEF NewJob
  <2>3. job'[j].streak = 0 /\ job'[j].trips = 0 /\ \A i \in Jobs \ {j} : job'[i] = job[i]
    BY <2>1, <2>2 DEF TablesOK
  <2> QED
    BY <2>3, SchedulerAssumption DEF SourceErrorOncePerStreak
<1> QED
  BY <1>2, <1>3, <1>4, <1>5, CalmSteps

\* Without manual triggers each streak that reaches the threshold raises one
\* source_error alert, and none is raised before (scheduler.ts:656-660).
THEOREM SourceErrorOncePerStreakHolds ==
  ASSUME "manual" \notin Env
  PROVE  Spec => []SourceErrorOncePerStreak
<1>1. Init => Scheduled /\ SourceErrorOncePerStreak
  BY NoRunnerTyped, SchedulerAssumption DEF Init, Scheduled, Asked, SourceErrorOncePerStreak, NewJob
<1>2. SchedInv /\ Scheduled /\ [Next]_vars => Scheduled'
  BY UnaskedSteps, ManualSteps DEF Scheduled
<1>3. SchedInv /\ Scheduled /\ StreakNotStale /\ SourceErrorOncePerStreak /\ [Next]_vars
        => SourceErrorOncePerStreak'
  BY TripSteps
<1> QED
  BY <1>1, <1>2, <1>3, SchedulerInvariant, StreakNotStaleHolds, PTL DEF Spec

-----------------------------------------------------------------------------
\* What stop() waits for.  Without manual triggers and without a transaction
\* that throws, every run belongs to the tick.

Active == {r \in RunIds : run[r].pc # "none"}
Begun(r) == run[r].pc \in {"soap", "persist", "finalize", "settled"}
OnlyRuns(q) == \A i \in 1..Len(q) : q[i].k \in OneRunKinds
Claim == [k |-> "claim"]

\* No tick, no run, nothing in the queues.
Resting ==
    /\ ~tick.on /\ tick.awaits = {} /\ Active = {} /\ micro = <<>> /\ waiting = <<>>

\* A tick that is about to claim is alone.
Claiming ==
    /\ tick.on /\ tick.awaits = {} /\ Active = {}
    /\ \/ micro = <<Claim>> /\ waiting = <<>>
       \/ micro = <<>> /\ waiting = <<Claim>>

\* The runs it has claimed start in its next step.
Dispatching ==
    /\ tick.on /\ tick.awaits = {}
    /\ micro = <<[k |-> "dispatch", runs |-> Active]>> /\ waiting = <<>>
    /\ \A r \in Active : run[r].pc = "claimed"

\* Then it awaits exactly the runs there are.
Working ==
    /\ tick.on /\ tick.awaits = Active
    /\ OnlyRuns(micro) /\ OnlyRuns(waiting)
    /\ \A r \in Active : Begun(r)

TickWay == Resting \/ Claiming \/ Dispatching \/ Working

\* Every run that has begun is found under its job, stop() awaits those there
\* are, and none of them rejects.
StopInv ==
    /\ TickWay
    /\ \A r \in RunIds : Begun(r) => inflight[run[r].job] = r
    /\ phase = "stopping" => Active \subseteq draining
    /\ phase = "stopped" => Active = {}
    /\ \A r \in RunIds : run[r].outcome # "rejected"

\* A run that has begun is the tick's, and nothing but runs is in the queues.
LEMMA BegunMeansWorking ==
  ASSUME StopInv, NEW r \in RunIds, run[r].pc \notin {"none", "claimed"}
  PROVE  Working /\ r \in Active /\ Begun(r)
BY DEF StopInv, TickWay, Resting, Claiming, Dispatching, Working, Active

\* What the queues hold says how far the tick is.
LEMMA HeadTellsTick ==
  ASSUME StopInv, Queues, micro # <<>>
  PROVE  /\ Head(micro).k = "claim" => Claiming /\ micro = <<Claim>> /\ waiting = <<>>
         /\ Head(micro).k = "dispatch" => Dispatching
         /\ Head(micro).k \in OneRunKinds => Working
<1>1. micro \in Seq(Continuations) /\ Len(micro) \in Nat \ {0} /\ Head(micro) = micro[1]
  BY DEF Queues
<1>2. CASE Claiming
  <2>1. micro = <<Claim>> /\ waiting = <<>> /\ Head(micro).k = "claim"
    BY <1>2 DEF Claiming, Claim
  <2> QED BY <1>2, <2>1 DEF OneRunKinds
<1>3. CASE Dispatching
  <2>1. Head(micro).k = "dispatch"
    BY <1>3 DEF Dispatching
  <2> QED BY <1>3, <2>1 DEF OneRunKinds
<1>4. CASE Working
  <2>1. Head(micro).k \in OneRunKinds
    BY <1>1, <1>4 DEF Working, OnlyRuns
  <2> QED BY <1>4, <2>1 DEF OneRunKinds
<1> QED BY <1>2, <1>3, <1>4 DEF StopInv, TickWay, Resting

\* A queue of runs that nobody waits in is empty.
LEMMA NobodyQueues ==
  ASSUME NEW q \in Seq(Continuations), OnlyRuns(q), Matched(q), Active = {}
  PROVE  q = <<>>
<1> SUFFICES ASSUME q # <<>> PROVE FALSE
  OBVIOUS
<1>1. 1 \in 1..Len(q) /\ q[1] \in Continuations /\ q[1].k \in OneRunKinds
  BY DEF OnlyRuns
<1>2. q[1].run \in RunIds /\ RunsOf(q[1]) = {q[1].run}
  BY <1>1, ContinuationKinds DEF RunsOf, OneRunKinds
<1>3. AtStage(q[1].k, run[q[1].run].pc)
  BY <1>1, <1>2 DEF Matched
<1> QED BY <1>2, <1>3, NoStage DEF Active

\* A run puts itself into a queue of runs, or leaves it.
LEMMA OnlyRunsStay ==
  ASSUME Queues, OnlyRuns(micro), OnlyRuns(waiting), NEW r \in RunIds, NEW k \in OneRunKinds,
         \/ micro # <<>> /\ \/ Done \/ Then([k |-> k, run |-> r])
                            \/ AwaitRead(Tail(micro), [k |-> k, run |-> r])
         \/ micro = <<>> /\ AwaitRead(<<>>, [k |-> k, run |-> r])
  PROVE  OnlyRuns(micro)' /\ OnlyRuns(waiting)'
<1> DEFINE c == [k |-> k, run |-> r]
<1>1. c \in Continuations /\ c.k \in OneRunKinds
  BY NewContinuation
<1>2. ASSUME NEW q \in Seq(Continuations), OnlyRuns(q) PROVE OnlyRuns(Append(q, c))
  BY <1>1, <1>2 DEF OnlyRuns
<1>3. ASSUME micro # <<>> PROVE Tail(micro) \in Seq(Continuations) /\ OnlyRuns(Tail(micro))
  <2>1. /\ Tail(micro) \in Seq(Continuations) /\ Len(Tail(micro)) = Len(micro) - 1
        /\ \A i \in 1..Len(Tail(micro)) : Tail(micro)[i] = micro[i + 1] /\ i + 1 \in 1..Len(micro)
    BY <1>3 DEF Queues
  <2> QED BY <2>1 DEF OnlyRuns
<1>4. <<>> \in Seq(Continuations) /\ OnlyRuns(<<>>)
  BY DEF OnlyRuns
<1> HIDE DEF c
<1>5. ASSUME NEW rest \in Seq(Continuations), OnlyRuns(rest),
             \/ micro' = rest /\ waiting' = waiting
             \/ micro' = rest /\ waiting' = Append(waiting, c)
             \/ micro' = Append(rest, c) /\ waiting' = waiting
      PROVE  OnlyRuns(micro)' /\ OnlyRuns(waiting)'
  BY <1>2, <1>5 DEF Queues, OnlyRuns
<1> QED BY <1>3, <1>4, <1>5 DEF Done, Then, AwaitRead, c

\* One run goes on, and nothing else happens.
LEMMA WorkGoesOn ==
  ASSUME SchedInv, StopInv, NEW r \in RunIds, run[r].pc \notin {"none", "claimed"},
         Begun(r)', run'[r].job = run[r].job, run'[r].outcome # "rejected",
         \A s \in RunIds \ {r} : run'[s] = run[s],
         UNCHANGED <<tick, inflight, draining, phase>>,
         OnlyRuns(micro)' /\ OnlyRuns(waiting)'
  PROVE  StopInv'
<1>1. Working /\ r \in Active /\ Begun(r)
  BY BegunMeansWorking
<1>2. Active' = Active
  BY <1>1 DEF Active, Begun
<1>3. \A s \in Active : Begun(s)'
  BY <1>1 DEF Working, Begun, Active
<1>4. Working'
  BY <1>1, <1>2, <1>3 DEF Working
<1>5. \A s \in RunIds : Begun(s)' => Begun(s) /\ run'[s].job = run[s].job
  BY <1>1 DEF Begun
<1> QED BY <1>2, <1>4, <1>5 DEF StopInv, TickWay

LEMMA RunsWorkOn ==
  ASSUME SchedInv, StopInv, MaxFaults = 0,
         \/ Persist \/ PersistFails \/ RunnerReturns \/ Finalize \/ FinalizeThrows \/ Complete
         \/ \E r \in RunIds : SoapAnswers(r) \/ SoapFails(r)
  PROVE  StopInv'
<1> USE DEF SchedInv
<1>1. ASSUME NEW r \in RunIds, SoapAnswers(r) \/ SoapFails(r) PROVE StopInv'
  <2>1. /\ run[r].pc = "soap" /\ UNCHANGED <<tick, inflight, draining, phase>>
        /\ micro = <<>> /\ \E k \in OneRunKinds : AwaitRead(<<>>, [k |-> k, run |-> r])
    BY <1>1 DEF SoapAnswers, SoapFails, Idle, OneRunKinds
  <2>2. /\ Begun(r)' /\ run'[r].job = run[r].job /\ run'[r].outcome # "rejected"
        /\ \A s \in RunIds \ {r} : run'[s] = run[s]
    BY <1>1 DEF SoapAnswers, SoapFails, RunsOK, Runner, Begun, StopInv
  <2>3. Working
    BY <2>1, BegunMeansWorking
  <2>4. OnlyRuns(micro)' /\ OnlyRuns(waiting)'
    BY <2>1, <2>3, OnlyRunsStay DEF Working
  <2> QED BY <2>1, <2>2, <2>4, WorkGoesOn
<1>2. CASE Persist \/ PersistFails \/ RunnerReturns \/ Finalize \/ Complete
  <2>1. PICK r \in RunIds : /\ r = Head(micro).run /\ micro # <<>>
                           /\ run[r].pc \in {"persist", "finalize", "settled"}
    BY <1>2, ServedRun DEF Persist, PersistFails, RunnerReturns, Finalize, Complete,
                           OneRunKinds, AtStage
  <2>2. Working
    BY <2>1, BegunMeansWorking
  <2>3. /\ UNCHANGED <<tick, inflight, draining, phase>>
        /\ \E k \in OneRunKinds :
             Then([k |-> k, run |-> r]) \/ AwaitRead(Tail(micro), [k |-> k, run |-> r])
    BY <1>2, <2>1 DEF Persist, PersistFails, RunnerReturns, Finalize, Settle, Complete, process,
                      OneRunKinds
  <2>4. OnlyRuns(micro)' /\ OnlyRuns(waiting)'
    BY <2>1, <2>2, <2>3, OnlyRunsStay DEF Working
  <2>5. \/ run' = run
        \/ run' = [run EXCEPT ![r].outcome = "ok"] \/ run' = [run EXCEPT ![r].outcome = "error"]
        \/ run' = [run EXCEPT ![r].pc = "finalize"]
        \/ run' = [run EXCEPT ![r].pc = "settled", ![r].outcome = run[r].outcome]
    BY <1>2, <2>1 DEF Persist, PersistFails, RunnerReturns, Finalize, Settle, Complete, process
  <2>6. /\ Begun(r)' /\ run'[r].job = run[r].job /\ run'[r].outcome # "rejected"
        /\ \A s \in RunIds \ {r} : run'[s] = run[s]
    BY <2>1, <2>5 DEF RunsOK, Runner, Begun, StopInv
  <2> QED BY <2>1, <2>3, <2>4, <2>6, WorkGoesOn
<1>3. CASE FinalizeThrows
  BY <1>3 DEF FinalizeThrows, TablesOK
<1> QED BY <1>1, <1>2, <1>3

\* A run ends: tick and stop() await one less, and the last one ends the tick.
LEMMA FinallyDrains ==
  ASSUME SchedInv, SchedInv', StopInv, Finally
  PROVE  StopInv'
<1> USE DEF SchedInv
<1> DEFINE r == Head(micro).run
           rest == Active \ {r}
<1>1. r \in RunIds /\ run[r].pc = "settled" /\ micro # <<>>
  BY ServedRun DEF Finally, OneRunKinds, AtStage
<1>2. Working /\ r \in Active /\ Begun(r) /\ run[r].outcome # "rejected"
  BY <1>1, BegunMeansWorking DEF StopInv
<1>3. Settled(tick.awaits, r) = rest /\ Settled(draining, r) = draining \ {r}
  BY <1>2 DEF Settled, Working
<1>4. /\ run' = [run EXCEPT ![r] = NoRunner] /\ Done /\ phase' = phase
      /\ inflight' = [inflight EXCEPT ![run[r].job] = NoRun]
      /\ tick' = [on |-> rest # {}, awaits |-> rest] /\ draining' = draining \ {r}
  BY <1>2, <1>3 DEF Finally, Working
<1> HIDE DEF r
<1>5. run'[r] = NoRunner /\ \A s \in RunIds \ {r} : run'[s] = run[s]
  BY <1>1, <1>4 DEF RunsOK
<1>6. Active' = rest
  BY <1>5, NoRunnerTyped DEF Active
<1>7. OnlyRuns(micro)' /\ OnlyRuns(waiting)'
  <2>1. "finally" \in OneRunKinds
    BY DEF OneRunKinds
  <2> QED BY <1>1, <1>2, <1>4, <2>1, OnlyRunsStay DEF Working
<1>8. TickWay'
  <2>1. CASE rest = {}
    <3>1. micro' = <<>> /\ waiting' = <<>>
      <4>1. ASSUME NEW q, q = micro' \/ q = waiting' PROVE q = <<>>
        <5>1. q \in Seq(Continuations) /\ OnlyRuns(q) /\ Matched(q)'
          BY <1>7, <4>1 DEF Queues, OnlyRuns, Matched
        <5> SUFFICES ASSUME q # <<>> PROVE FALSE
          OBVIOUS
        <5>2. 1 \in 1..Len(q) /\ q[1] \in Continuations /\ q[1].k \in OneRunKinds
          BY <5>1 DEF OnlyRuns
        <5>3. q[1].run \in RunIds /\ RunsOf(q[1]) = {q[1].run}
          BY <5>2, ContinuationKinds DEF RunsOf, OneRunKinds
        <5>4. AtStage(q[1].k, run'[q[1].run].pc)
          BY <5>1, <5>2, <5>3 DEF Matched
        <5> QED BY <1>6, <2>1, <5>3, <5>4, NoStage DEF Active
      <4> QED BY <4>1
    <3> QED BY <1>4, <1>6, <2>1, <3>1 DEF TickWay, Resting
  <2>2. CASE rest # {}
    <3>1. \A s \in rest : Begun(s)'
      BY <1>2, <1>5 DEF Working, Begun, Active
    <3>2. Working'
      BY <1>4, <1>6, <1>7, <2>2, <3>1 DEF Working
    <3> QED BY <3>2 DEF TickWay
  <2> QED BY <2>1, <2>2
<1>9. ASSUME NEW s \in RunIds, Begun(s)' PROVE inflight'[run'[s].job] = s
  <2>1. s # r /\ run'[s] = run[s] /\ Begun(s)
    BY <1>5, <1>9, NoRunnerTyped DEF Begun
  <2>2. inflight[run[s].job] = s /\ inflight[run[r].job] = r
    BY <1>1, <1>2, <2>1 DEF StopInv
  <2>3. run[s].job \in Jobs /\ inflight \in [Jobs -> RunIds \cup {NoRun}]
    BY DEF RunsOK, Runner, TablesOK
  <2> QED BY <1>4, <2>1, <2>2, <2>3
<1>10. \A s \in RunIds : run'[s].outcome # "rejected"
  <2>1. NoRunner.outcome # "rejected"
    BY DEF NoRunner
  <2> QED BY <1>5, <2>1 DEF StopInv
<1> QED BY <1>4, <1>6, <1>8, <1>9, <1>10 DEF StopInv

\* The tick comes to its claim, and the claim to its runs.
LEMMA TicksGoOn ==
  ASSUME SchedInv, SchedInv', StopInv, TickTimer \/ ClaimNothing
  PROVE  StopInv'
<1> USE DEF SchedInv
<1>1. /\ run' = run /\ inflight' = inflight /\ draining' = draining /\ phase' = phase
      /\ Active' = Active /\ \A r \in RunIds : Begun(r)' <=> Begun(r)
  BY DEF TickTimer, ClaimNothing, Active, Begun
<1>2. CASE TickTimer
  <2>1. Resting
    BY <1>2 DEF TickTimer, StopInv, TickWay, Claiming, Dispatching, Working
  <2>2. /\ tick' = [on |-> TRUE, awaits |-> {}]
        /\ \/ micro' = <<Claim>> /\ waiting' = <<>>
           \/ micro' = <<>> /\ waiting' = <<Claim>>
    BY <1>2, <2>1 DEF TickTimer, Resting, AwaitRead, Claim
  <2>3. Claiming'
    BY <1>1, <2>1, <2>2 DEF Resting, Claiming
  <2> QED BY <1>1, <2>3 DEF StopInv, TickWay
<1>3. CASE ClaimNothing
  <2>1. Claiming /\ micro = <<Claim>> /\ waiting = <<>>
    BY <1>3, HeadTellsTick DEF ClaimNothing, Serving
  <2>2. tick' = NoTick /\ micro' = <<>> /\ waiting' = <<>>
    BY <1>3, <2>1 DEF ClaimNothing, Done
  <2>3. Resting'
    BY <1>1, <2>1, <2>2 DEF Claiming, Resting, NoTick
  <2> QED BY <1>1, <2>3 DEF StopInv, TickWay
<1> QED BY <1>2, <1>3

LEMMA ClaimReserves ==
  ASSUME SchedInv, ClaimDue
  PROVE  \E ids \in SUBSET RunIds :
           /\ Then([k |-> "dispatch", runs |-> ids])
           /\ \A r \in ids : run'[r].pc = "claimed" /\ run'[r].outcome = "none"
           /\ \A r \in RunIds \ ids : run'[r] = run[r]
<1>1. PICK S \in SUBSET Claimable :
        \E given \in [S -> FreeIds] :
          InsertRuns(given) /\ Then([k |-> "dispatch", runs |-> {given[j] : j \in S}])
  BY DEF ClaimDue
<1>2. PICK given \in [S -> FreeIds] :
        InsertRuns(given) /\ Then([k |-> "dispatch", runs |-> {given[j] : j \in S}])
  BY <1>1
<1> DEFINE ids == {given[j] : j \in S}
<1>3. ids \in SUBSET RunIds
  BY DEF FreeIds
<1>4. ASSUME NEW r \in ids PROVE run'[r].pc = "claimed" /\ run'[r].outcome = "none"
  <2>1. \E j : run'[r] = Copy(j, job[j].streak, FALSE)
    BY <1>2, <1>3, <1>4 DEF InsertRuns
  <2>2. ASSUME NEW j, NEW n PROVE Copy(j, n, FALSE).pc = "claimed" /\ Copy(j, n, FALSE).outcome = "none"
    BY DEF Copy, NoRunner
  <2> QED BY <2>1, <2>2
<1>5. \A r \in RunIds \ ids : run'[r] = run[r]
  BY <1>2 DEF InsertRuns
<1> QED BY <1>2, <1>3, <1>4, <1>5

LEMMA ClaimGoesOn ==
  ASSUME SchedInv, SchedInv', StopInv, ClaimDue
  PROVE  StopInv'
<1> USE DEF SchedInv
<1>1. PICK ids \in SUBSET RunIds :
         /\ Then([k |-> "dispatch", runs |-> ids])
         /\ \A r \in ids : run'[r].pc = "claimed" /\ run'[r].outcome = "none"
         /\ \A r \in RunIds \ ids : run'[r] = run[r]
  BY ClaimReserves
<1>2. Claiming /\ micro = <<Claim>> /\ waiting = <<>> /\ phase = "running"
  BY HeadTellsTick DEF ClaimDue, Serving
<1>3. Active' = ids
  BY <1>1, <1>2 DEF Claiming, Active
<1>4. micro' = <<[k |-> "dispatch", runs |-> ids]>> /\ waiting' = <<>>
  BY <1>1, <1>2 DEF Then
<1>5. UNCHANGED <<tick, phase, inflight, draining>>
  BY DEF ClaimDue
<1>6. Dispatching'
  BY <1>1, <1>2, <1>3, <1>4, <1>5 DEF Claiming, Dispatching
<1>7. \A r \in RunIds : ~Begun(r)'
  BY <1>1, <1>3 DEF Active, Begun
<1> QED BY <1>1, <1>2, <1>5, <1>6, <1>7 DEF StopInv, TickWay

LEMMA DispatchGoesOn ==
  ASSUME SchedInv, SchedInv', StopInv, Dispatch
  PROVE  StopInv'
<1> USE DEF SchedInv
<1>1. Dispatching
  BY HeadTellsTick DEF Dispatch, Serving
<1>2. Head(micro).runs = Active /\ Tail(micro) = <<>> /\ waiting = <<>>
  BY <1>1 DEF Dispatching
<1>3. /\ StartRuns(Active) /\ tick' = [on |-> TRUE, awaits |-> Active]
      /\ micro' = <<>> /\ waiting' = <<>> /\ UNCHANGED <<phase, draining>>
  BY <1>2 DEF Dispatch, Done
<1>4. \A r \in RunIds : /\ run'[r].job = run[r].job /\ run'[r].outcome = run[r].outcome
                        /\ r \in Active => run'[r].pc = "soap"
                        /\ r \notin Active => run'[r] = run[r]
  BY <1>3 DEF StartRuns, RunsOK, Runner
<1>5. Active' = Active /\ \A r \in RunIds : Begun(r)' <=> r \in Active
  BY <1>4 DEF Active, Begun
<1>6. Working'
  BY <1>3, <1>5 DEF Working, OnlyRuns, Active
<1>7. ASSUME NEW r \in Active PROVE inflight'[run[r].job] = r
  <2>1. r \in RunIds /\ run[r].job \in Jobs
    BY DEF Active, RunsOK, Runner
  <2>2. \A s \in Active : Busy(s, run[s].job) /\ s \in RunIds
    BY <1>1 DEF Dispatching, Busy, Live, Active
  <2>3. \A s \in Active : run[s].job = run[r].job => s = r
    BY <2>1, <2>2 DEF OneRunPerJob
  <2>4. inflight'[run[r].job] = CHOOSE s \in Active : run[s].job = run[r].job
    BY <1>3, <2>1 DEF StartRuns
  <2> QED BY <2>3, <2>4
<1> QED BY <1>3, <1>4, <1>5, <1>6, <1>7 DEF StopInv, TickWay

\* stop() finds every run in the inflight map, and no claim follows.
LEMMA StopFindsAll ==
  ASSUME SchedInv, SchedInv', StopInv, Stop \/ StopReturns \/ ProcessEnds
  PROVE  StopInv'
<1> USE DEF SchedInv
<1>1. CASE Stop
  <2>1. /\ micro = <<>> /\ phase' = "stopping" /\ UNCHANGED <<tick, inflight, micro, waiting>>
        /\ draining' = {inflight[j] : j \in Jobs} \ {NoRun}
    BY <1>1 DEF Stop, Idle, loop
  <2>2. \A r \in RunIds : /\ run'[r].pc = run[r].pc /\ run'[r].job = run[r].job
                          /\ run'[r].outcome = run[r].outcome
    BY <1>1 DEF Stop, RunsOK, Runner
  <2>3. Active' = Active /\ \A r \in RunIds : Begun(r)' <=> Begun(r)
    BY <2>2 DEF Active, Begun
  <2>4. TickWay' /\ ~Dispatching
    BY <2>1, <2>2, <2>3 DEF StopInv, TickWay, Resting, Claiming, Dispatching, Working, Active
  <2>5. ASSUME NEW r \in Active PROVE r \in draining'
    <3>1. r \in RunIds /\ Begun(r) /\ run[r].job \in Jobs
      BY <2>4 DEF StopInv, TickWay, Resting, Claiming, Working, Active, RunsOK, Runner
    <3>2. inflight[run[r].job] = r /\ r # NoRun
      BY <3>1, SchedulerAssumption DEF StopInv
    <3> QED BY <2>1, <3>1, <3>2
  <2> QED BY <2>1, <2>2, <2>3, <2>4, <2>5 DEF StopInv
<1>2. CASE StopReturns
  <2>1. /\ phase = "stopping" /\ draining = {} /\ phase' = "stopped"
        /\ UNCHANGED <<tick, inflight, run, micro, waiting, draining>>
    BY <1>2 DEF StopReturns, loop
  <2>2. Active' = Active /\ \A r \in RunIds : Begun(r)' <=> Begun(r)
    BY <2>1 DEF Active, Begun
  <2>3. TickWay'
    BY <2>1, <2>2 DEF StopInv, TickWay, Resting, Claiming, Dispatching, Working, OnlyRuns
  <2> QED BY <2>1, <2>2, <2>3 DEF StopInv
<1>3. CASE ProcessEnds
  <2>1. /\ \A r \in RunIds : run'[r] = NoRunner
        /\ tick' = NoTick /\ micro' = <<>> /\ waiting' = <<>> /\ phase' = "down"
    BY <1>3 DEF ProcessEnds
  <2>2. Active' = {} /\ \A r \in RunIds : ~Begun(r)' /\ run'[r].outcome # "rejected"
    <3>1. NoRunner.outcome # "rejected"
      BY DEF NoRunner
    <3> QED BY <2>1, <3>1, NoRunnerTyped DEF Active, Begun
  <2>3. Resting'
    BY <2>1, <2>2 DEF Resting, NoTick
  <2> QED BY <2>1, <2>2, <2>3 DEF StopInv, TickWay
<1> QED BY <1>1, <1>2, <1>3

\* The other steps do not concern the runs.
LEMMA ElsewhereGoesOn ==
  ASSUME SchedInv, StopInv,
         \/ Start \/ MasterSwitch \/ WriterBegins \/ WriterEnds \/ UNCHANGED vars
         \/ \E j \in Jobs : Patch(j) \/ Delete(j) \/ TimePasses(j) \/ WorldChanges(j)
  PROVE  StopInv'
<1> USE DEF SchedInv
<1>1. /\ UNCHANGED <<tick, inflight, run, draining>>
      /\ phase' = phase \/ phase' = "running"
      /\ UNCHANGED <<micro, waiting>> \/ (micro = <<>> /\ micro' = waiting /\ waiting' = <<>>)
  BY DEF Start, MasterSwitch, WriterBegins, WriterEnds, vars, Patch, Delete, TimePasses,
         WorldChanges, loop, process, Idle
<1>2. Active' = Active /\ \A r \in RunIds : Begun(r)' <=> Begun(r)
  BY <1>1 DEF Active, Begun
<1>3. TickWay'
  <2>1. Resting => Resting'
    BY <1>1, <1>2 DEF Resting
  <2>2. Claiming => Claiming'
    <3>1. <<Claim>> # <<>>
      OBVIOUS
    <3> QED BY <1>1, <1>2, <3>1 DEF Claiming, Claim
  <2>3. Dispatching => Dispatching'
    <3>1. Dispatching => micro # <<>>
      BY DEF Dispatching
    <3> QED BY <1>1, <1>2, <3>1 DEF Dispatching
  <2>4. Working => Working'
    <3>1. ASSUME OnlyRuns(micro), OnlyRuns(waiting) PROVE OnlyRuns(micro)' /\ OnlyRuns(waiting)'
      <4>1. CASE UNCHANGED <<micro, waiting>>
        BY <3>1, <4>1 DEF OnlyRuns
      <4>2. CASE micro' = waiting /\ waiting' = <<>>
        BY <3>1, <4>2 DEF OnlyRuns
      <4> QED BY <1>1, <4>1, <4>2
    <3>2. \A r \in RunIds : run'[r] = run[r]
      BY <1>1
    <3> QED BY <1>1, <1>2, <3>1, <3>2 DEF Working, Active
  <2> QED BY <2>1, <2>2, <2>3, <2>4 DEF StopInv, TickWay
<1> QED BY <1>1, <1>2, <1>3 DEF StopInv

LEMMA StopSteps ==
  ASSUME SchedInv, SchedInv', [Next]_vars, Scheduled, StopInv, "manual" \notin Env, MaxFaults = 0
  PROVE  StopInv'
<1> USE DEF SchedInv
<1>1. ~InsertRunning /\ \A j \in Jobs : ~RunJobNow(j)
  BY QueueServed DEF InsertRunning, Serving, Scheduled, Queues, RunJobNow
<1>2. ~Launch
  <2> SUFFICES ASSUME Launch PROVE FALSE
    OBVIOUS
  <2>1. micro # <<>> /\ Head(micro).run \in RunIds /\ run[Head(micro).run].pc = "claimed"
        /\ Head(micro).k \in OneRunKinds
    BY ServedRun DEF Launch, Serving, OneRunKinds, AtStage
  <2> QED BY <2>1, HeadTellsTick DEF Working, Active, Begun
<1>3. ~CatchRejected
  <2> SUFFICES ASSUME CatchRejected PROVE FALSE
    OBVIOUS
  <2>1. Head(micro).run \in RunIds /\ run[Head(micro).run].pc = "caught"
    BY ServedRun DEF CatchRejected, OneRunKinds, AtStage
  <2> QED BY <2>1, BegunMeansWorking DEF Begun
<1> QED
  BY <1>1, <1>2, <1>3, RunsWorkOn, FinallyDrains, TicksGoOn, ClaimGoesOn, DispatchGoesOn,
     StopFindsAll, ElsewhereGoesOn DEF Next, Micro

\* Without manual triggers and without a transaction that throws, no run is at
\* work when stop() has returned (scheduler.ts:221-222).
THEOREM StopDrainsRunsHolds ==
  ASSUME "manual" \notin Env, MaxFaults = 0
  PROVE  Spec => []StopDrainsRuns
<1>1. Init => Scheduled /\ StopInv
  <2> SUFFICES ASSUME Init PROVE Scheduled /\ StopInv
    OBVIOUS
  <2>1. NoRunner.outcome # "rejected"
    BY DEF NoRunner
  <2>2. \A r \in RunIds : run[r] = NoRunner
    BY DEF Init
  <2>3. Active = {} /\ \A r \in RunIds : ~Begun(r)
    BY <2>2, NoRunnerTyped DEF Active, Begun
  <2>4. Resting
    BY <2>3 DEF Init, Resting, NoTick
  <2> QED BY <2>1, <2>2, <2>3, <2>4, NoRunnerTyped DEF Init, Scheduled, Asked, StopInv, TickWay
<1>2. SchedInv /\ Scheduled /\ [Next]_vars => Scheduled'
  BY UnaskedSteps, ManualSteps DEF Scheduled
<1>3. SchedInv /\ SchedInv' /\ Scheduled /\ StopInv /\ [Next]_vars => StopInv'
  BY StopSteps
<1>4. StopInv => StopDrainsRuns
  BY DEF StopInv, StopDrainsRuns, Live, Active
<1> QED
  BY <1>1, <1>2, <1>3, <1>4, SchedulerInvariant, PTL DEF Spec

=============================================================================
