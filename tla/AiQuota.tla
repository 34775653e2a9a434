------------------------------- MODULE AiQuota -------------------------------
(***************************************************************************)
(* The AI budget of one user in web mode: the guard and the reservation    *)
(* (middleware/quotaGuard.ts), the usage table (db/aiUsageRepository.ts),  *)
(* the deferred recording of what calls have cost (services/aiUsage.ts),   *)
(* and the two routes that spend (routes/ai.ts).  Users share nothing.     *)
(*                                                                         *)
(* An action is one synchronous stretch of a request; what it leaves to    *)
(* queueMicrotask is in `micro` and is written before anything else runs.  *)
(* All rows are in one window: a window that slides only forgets, with a   *)
(* row, what the row has cost.                                             *)
(***************************************************************************)
EXTENDS Naturals, Sequences, FiniteSets, Functions

CONSTANTS
    Requests,   \* requests of the user to the AI routes
    Estimate,   \* FEATURE_ESTIMATED_COST_MILLI of each kind
    Costs,      \* bound: what one call to a model may cost
    Limits,     \* limits an admin may set (override plus active grants)
    NoLimit,    \* neither override nor default
    MaxFaults   \* bound: writes of the usage table that fail

Kind == {"single", "multi"}

ASSUME QuotaAssumption ==
    /\ IsFiniteSet(Requests)
    /\ Estimate \in [Kind -> Nat]
    /\ Costs \subseteq Nat /\ 0 \in Costs /\ MaxFaults \in Nat
    /\ Limits \subseteq Nat /\ NoLimit \notin Nat

VARIABLES
    limit,    \* effectiveLimit
    pc,       \* where each request is
    kind,     \* of each request
    reserved, \* the requests that were given a reservation id
    row,      \* the reservation's row: its status, and its cost if confirmed
    old,      \* the pending rows older than RESERVATION_EXPIRE_SECONDS
    inserted, \* cost of the rows a request has inserted without reservation
    left,     \* analysts a multi request still waits for
    micro,    \* deferred writes
    spent,    \* what a request's calls have cost so far
    faults,   \* failed writes so far
    ceiling,  \* the highest limit so far
    unseen,   \* requests with a cost whose write has failed
    exposed   \* requests whose reservation was purged while they worked

table == <<row, old, inserted>>
ghosts == <<ceiling, unseen, exposed>>
vars == <<limit, pc, kind, reserved, table, left, micro, spent, faults, ghosts>>

NoRow == [status |-> "none", cost |-> 0]
Idle == micro = <<>>
Pending(r) == row[r].status = "pending"
AtWork(r) == pc[r] \in {"calling", "analysing", "judging", "closing"}

\* sumAiUsageMilliInWindow: a pending row counts with its estimate.
Used ==
    SumFunction([r \in Requests |->
                   inserted[r] + (IF Pending(r) THEN Estimate[kind[r]]
                                  ELSE row[r].cost)])

Init ==
    /\ limit \in Limits \cup {NoLimit} /\ ceiling = limit
    /\ pc = [r \in Requests |-> "new"]
    /\ kind \in [Requests -> Kind]
    /\ reserved = {} /\ old = {} /\ unseen = {} /\ exposed = {}
    /\ row = [r \in Requests |-> NoRow]
    /\ inserted = [r \in Requests |-> 0]
    /\ left = [r \in Requests |-> 0]
    /\ spent = [r \in Requests |-> 0]
    /\ micro = <<>> /\ faults = 0

-----------------------------------------------------------------------------
(* The requests. *)

Goto(r, next) == pc' = [pc EXCEPT ![r] = next]

\* The writes a stretch of r leaves to the microtask queue: what a call has
\* cost, and the release that a `finally` queues after it.
Record(r, c) == [k |-> "record", req |-> r, cost |-> c]
Release(r) == IF r \in reserved THEN <<[k |-> "release", req |-> r]>> ELSE <<>>

Spend(r, c) == spent' = [spent EXCEPT ![r] = @ + c]

\* quotaGuard; the limit and the table are read again after the body.
Guard(r) ==
    /\ Idle /\ pc[r] = "new"
    /\ Goto(r, IF limit # NoLimit /\ (limit = 0 \/ Used >= limit)
               THEN "ended" ELSE "guarded")
    /\ UNCHANGED <<limit, kind, reserved, table, left, micro, spent, faults,
                   ghosts>>

\* The body is invalid, or the key is missing.
Refuse(r) ==
    /\ Idle /\ pc[r] = "guarded"
    /\ Goto(r, "ended")
    /\ UNCHANGED <<limit, kind, reserved, table, left, micro, spent, faults,
                   ghosts>>

\* MUTANT: the estimate is not added to the sum.
OverBudgetUnestimated(r) == limit # NoLimit /\ (limit = 0 \/ Used >= limit)

OverBudget(r) ==
    limit # NoLimit /\ (limit = 0 \/ Used + Estimate[kind[r]] > limit)

\* reserveQuotaBudget, in one transaction; then the calls start: one, or the
\* two analysts.
Reserve(r) ==
    /\ Idle /\ pc[r] = "guarded"
    /\ IF OverBudget(r)
       THEN Goto(r, "ended") /\ UNCHANGED <<reserved, row, left>>
       ELSE /\ Goto(r, IF kind[r] = "single" THEN "calling" ELSE "analysing")
            /\ left' = [left EXCEPT ![r] = IF kind[r] = "single" THEN 0 ELSE 2]
            /\ IF limit = NoLimit THEN UNCHANGED <<reserved, row>>
               ELSE /\ reserved' = reserved \cup {r}
                    /\ row' = [row EXCEPT ![r].status = "pending"]
    /\ UNCHANGED <<limit, kind, old, inserted, micro, spent, faults, ghosts>>

\* MUTANT: the release comes before the record.
SingleFailsReleasing(r) ==
    /\ Idle /\ pc[r] = "calling"
    /\ \E c \in Costs :
         Spend(r, c) /\ micro' = Append(Release(r), Record(r, c))
    /\ Goto(r, "ended")
    /\ UNCHANGED <<limit, kind, reserved, table, left, faults, ghosts>>

\* /analyze: the call answers, possibly with a text that is empty or cut.
SingleAnswers(r) ==
    /\ Idle /\ pc[r] = "calling"
    /\ \E c \in Costs : Spend(r, c) /\ micro' = <<Record(r, c)>>
    /\ Goto(r, "ended")
    /\ UNCHANGED <<limit, kind, reserved, table, left, faults, ghosts>>

\* The call fails, times out or is aborted, with what the error says it has
\* cost; or something throws before it and nothing is recorded.
SingleFails(r) ==
    /\ Idle /\ pc[r] = "calling"
    /\ \/ \E c \in Costs :
            Spend(r, c) /\ micro' = <<Record(r, c)>> \o Release(r)
       \/ micro' = Release(r) /\ UNCHANGED spent
    /\ Goto(r, "ended")
    /\ UNCHANGED <<limit, kind, reserved, table, left, faults, ghosts>>

\* /analyze-multi: an analyst answers; after both the judge is called.
AnalystAnswers(r) ==
    /\ Idle /\ pc[r] = "analysing"
    /\ \E c \in Costs : Spend(r, c) /\ micro' = <<Record(r, c)>>
    /\ left' = [left EXCEPT ![r] = @ - 1]
    /\ Goto(r, IF left'[r] = 0 THEN "judging" ELSE "analysing")
    /\ UNCHANGED <<limit, kind, reserved, table, faults, ghosts>>

\* The first failure aborts the other analyst, whose error follows in the same
\* drain; both errors may carry usage, and a call that never started costs 0.
AnalystFails(r) ==
    /\ Idle /\ pc[r] = "analysing"
    /\ \E c \in Costs, d \in IF left[r] = 2 THEN Costs ELSE {0} :
         Spend(r, c + d) /\ micro' = <<Record(r, c), Record(r, d)>>
    /\ left' = [left EXCEPT ![r] = 0]
    /\ Goto(r, "closing")
    /\ UNCHANGED <<limit, kind, reserved, table, faults, ghosts>>

\* The judge answers or fails.
JudgeEnds(r) ==
    /\ Idle /\ pc[r] = "judging"
    /\ \E c \in Costs : Spend(r, c) /\ micro' = <<Record(r, c)>>
    /\ Goto(r, "closing")
    /\ UNCHANGED <<limit, kind, reserved, table, left, faults, ghosts>>

\* The stream's last event is out: its `finally`.
StreamEnds(r) ==
    /\ Idle /\ pc[r] = "closing"
    /\ micro' = Release(r)
    /\ Goto(r, "ended")
    /\ UNCHANGED <<limit, kind, reserved, table, left, spent, faults, ghosts>>

-----------------------------------------------------------------------------
(* The usage table. *)

\* confirmAiUsageReservation: only a pending row changes.
Confirm(r, c) ==
    /\ row' = IF Pending(r)
              THEN [row EXCEPT ![r] = [status |-> "confirmed", cost |-> c]]
              ELSE row
    /\ old' = old \ {r}
    /\ UNCHANGED inserted

\* insertAiUsage.
Insert(r, c) ==
    /\ inserted' = [inserted EXCEPT ![r] = @ + c]
    /\ UNCHANGED <<row, old>>

\* recordAiUsageSafely: a single call confirms its reservation; the calls of a
\* multi request, and those without a reservation, insert rows.
WriteRecord ==
    /\ ~Idle /\ Head(micro).k = "record"
    /\ LET r == Head(micro).req
           c == Head(micro).cost
       IN  IF r \in reserved /\ kind[r] = "single"
           THEN Confirm(r, c) ELSE Insert(r, c)
    /\ micro' = Tail(micro)
    /\ UNCHANGED <<limit, pc, kind, reserved, left, spent, faults, ghosts>>

\* releaseAiUsageReservation: only a pending row is deleted.
WriteRelease ==
    /\ ~Idle /\ Head(micro).k = "release"
    /\ row' = IF Pending(Head(micro).req)
              THEN [row EXCEPT ![Head(micro).req] = NoRow] ELSE row
    /\ old' = old \ {Head(micro).req}
    /\ micro' = Tail(micro)
    /\ UNCHANGED <<limit, pc, kind, reserved, inserted, left, spent, faults,
                   ghosts>>

\* A deferred write throws; the catch logs it.
WriteFails ==
    /\ ~Idle /\ faults < MaxFaults
    /\ faults' = faults + 1
    /\ unseen' = IF Head(micro).k = "record" THEN unseen \cup {Head(micro).req}
                 ELSE unseen
    /\ micro' = Tail(micro)
    /\ UNCHANGED <<limit, pc, kind, reserved, table, left, spent, ceiling,
                   exposed>>

\* MUTANT: the process keeps the time, and forgets it when it dies.
ExpireInProcess(r) ==
    /\ Idle /\ Pending(r) /\ r \notin old
    /\ AtWork(r) /\ pc[r] # "calling"
    /\ old' = old \cup {r}
    /\ UNCHANGED <<limit, pc, kind, reserved, row, inserted, left, micro,
                   spent, faults, ghosts>>

\* A reservation passes 300 s.  A single call is cut before: at 120 s, and at
\* 120 s more where callOpenAI falls back.  A multi request is not: analysts
\* and judge have 180 s each.
Expire(r) ==
    /\ Idle /\ Pending(r) /\ r \notin old
    /\ pc[r] # "calling"
    /\ old' = old \cup {r}
    /\ UNCHANGED <<limit, pc, kind, reserved, row, inserted, left, micro,
                   spent, faults, ghosts>>

\* purgeExpiredReservations, by either of its two timers.
Purge ==
    /\ Idle /\ old # {}
    /\ row' = [r \in Requests |-> IF r \in old THEN NoRow ELSE row[r]]
    /\ old' = {}
    /\ exposed' = exposed \cup {r \in old : AtWork(r)}
    /\ UNCHANGED <<limit, pc, kind, reserved, inserted, left, micro, spent,
                   faults, ceiling, unseen>>

-----------------------------------------------------------------------------
(* The world around. *)

\* An admin sets or removes the override, grants or revokes.
SetLimit ==
    /\ Idle
    /\ limit' \in (Limits \cup {NoLimit}) \ {limit}
    /\ ceiling' = IF NoLimit \in {ceiling, limit'} THEN NoLimit
                  ELSE IF limit' > ceiling THEN limit' ELSE ceiling
    /\ UNCHANGED <<pc, kind, reserved, table, left, micro, spent, faults,
                   unseen, exposed>>

\* The process dies and starts again: requests are gone, rows stay.
Crash ==
    /\ Idle /\ \E r \in Requests : AtWork(r)
    /\ pc' = [r \in Requests |-> IF AtWork(r) THEN "lost" ELSE pc[r]]
    /\ left' = [r \in Requests |-> 0]
    /\ UNCHANGED <<limit, kind, reserved, table, micro, spent, faults, ghosts>>

Work(r) ==
    \/ SingleAnswers(r) \/ SingleFails(r)
    \/ AnalystAnswers(r) \/ AnalystFails(r) \/ JudgeEnds(r) \/ StreamEnds(r)

Write == WriteRecord \/ WriteRelease \/ WriteFails

Next ==
    \/ \E r \in Requests : Guard(r) \/ Refuse(r) \/ Reserve(r) \/ Work(r)
                             \/ Expire(r)
    \/ Write \/ Purge \/ SetLimit \/ Crash

Spec == Init /\ [][Next]_vars

\* Microtasks run, calls have timeouts, time passes and the purge timer fires.
\* A request runs once: weak fairness, and for all requests together, is enough.
Fairness ==
    /\ WF_vars(Write)
    /\ WF_vars(\E r \in Requests : Work(r))
    /\ WF_vars(\E r \in Requests : Expire(r))
    /\ WF_vars(Purge)

FairSpec == Spec /\ Fairness

-----------------------------------------------------------------------------
(* Properties. *)

Writes == [k : {"record"}, req : Requests, cost : Costs]
          \cup [k : {"release"}, req : Requests]

TypeOK ==
    /\ limit \in Limits \cup {NoLimit} /\ ceiling \in Limits \cup {NoLimit}
    /\ pc \in [Requests -> {"new", "guarded", "calling", "analysing",
                            "judging", "closing", "ended", "lost"}]
    /\ kind \in [Requests -> Kind]
    /\ reserved \subseteq Requests /\ unseen \subseteq Requests
    /\ exposed \subseteq Requests
    /\ row \in [Requests -> [status : {"none", "pending", "confirmed"},
                             cost : Costs]]
    /\ old \subseteq {r \in Requests : Pending(r)}
    /\ inserted \in [Requests -> Nat] /\ spent \in [Requests -> Nat]
    /\ left \in [Requests -> 0..2]
    /\ micro \in Seq(Writes)
    /\ faults \in 0..MaxFaults

Smaller(a, b) == IF a < b THEN a ELSE b

\* Between turns the table shows exactly what a request's calls have cost:
\* nothing is lost to the release that follows a failed call or to a purge, and
\* nothing is charged twice (routes/ai.ts:161-167, index.ts:768-773).
\* Requests with a failed write are left out.
SpendIsExact ==
    Idle => \A r \in Requests \ unseen :
              row[r].cost + inserted[r] = spent[r]

\* What a user's requests have cost, each up to its estimate, never passes
\* the highest limit there has been, however requests, failures, purges and
\* limits interleave: concurrent requests exceed the limit only by what they
\* cost beyond their estimates (quotaGuard.ts:52-54).  Left out are requests
\* with a failed write or with a reservation that was purged at work.
SpendWithinLimit ==
    ceiling # NoLimit =>
      SumFunction([r \in Requests |->
                     IF r \in unseen \cup exposed THEN 0
                     ELSE Smaller(spent[r], Estimate[kind[r]])]) <= ceiling

\* No reservation eats at the budget for ever: it is confirmed, released or
\* purged, also after a crash (index.ts:768-781).
EveryReservationEnds == \A r \in Requests : Pending(r) ~> ~Pending(r)
=============================================================================
