----------------------------- MODULE DailyReport -----------------------------
(***************************************************************************)
(* The daily report of the alerts of the day before                        *)
(* (services/email/dailyReportScheduler.ts): a tick every five minutes     *)
(* that sends in the configured hour, the retries that go on after it and  *)
(* past midnight, and the mark in owner_email_settings that a day is done. *)
(*                                                                         *)
(* Owners are served one by one and each mail is awaited, while the clock  *)
(* goes on; a tick that finds another one running does nothing.  A day is  *)
(* its configured hour and the rest, before or after it (the hour may be   *)
(* the last one).  The retries are in memory only.                         *)
(***************************************************************************)
EXTENDS Naturals

CONSTANTS
    Owner,
    NoTick,    \* no tick is running, no retry is armed
    MaxDays,   \* bound on the days
    MaxUpsets  \* bound on lost answers, failing marks, restarts and changed settings

ASSUME DailyAssumption ==
    /\ MaxDays \in Nat \ {0} /\ MaxUpsets \in Nat
    /\ NoTick \notin Owner
    /\ NoTick \notin [date : 1..MaxDays, attempts : 1..3, due : BOOLEAN]
    /\ NoTick \notin [today : 1..MaxDays, off : BOOLEAN, sending : Owner \cup {NoTick},
                     todo : SUBSET Owner]

VARIABLES
    late,    \* the configured hour is at the end of the day
    day, phase, \* the clock: phase 1 or 2 of a day
    marked,  \* last_daily_report_sent_for, 0 = NULL
    enabled, \* daily_report_enabled, enabled and an address
    retry,   \* retryByOwner: [date, attempts, due] or NoTick
    tick,    \* the tick in flight: [today, off, todo, sending] or NoTick
    reports, \* reports the mail server took, by owner and the day they are of
    open,    \* <<owner, day>> a report was attempted of, and neither sent,
             \* found empty, given up nor forgotten by a restart
    doubts,  \* those of them whose answer was lost, whose mark failed or whose
             \* mail a restart cut
    upsets

dailyVars == <<late, day, phase, marked, enabled, retry, tick, reports, open,
               doubts, upsets>>
dailyGhosts == <<reports, open, doubts>>
clock == <<late, day, phase>>

MaxRetryAttempts == 3
Hour == IF late THEN 2 ELSE 1

\* Days are 1.. for the clock, so that a report may be of day 0.
DailyInit ==
    /\ late \in BOOLEAN /\ day = 1 /\ phase = 1
    /\ marked = [o \in Owner |-> 0] /\ enabled = [o \in Owner |-> TRUE]
    /\ retry = [o \in Owner |-> NoTick] /\ tick = NoTick
    /\ reports = [o \in Owner |-> [d \in 0..MaxDays |-> 0]] /\ doubts = reports
    /\ open = {} /\ upsets = 0

-----------------------------------------------------------------------------
(* The tick. *)

Armed(o) == retry[o] # NoTick

\* retryWorkState: off the hour there must be a retry of today or yesterday
\* that is due or used up.
AnyDue ==
    \E o \in Owner : /\ Armed(o) /\ retry[o].date \in {day, day - 1}
                     /\ retry[o].due \/ retry[o].attempts >= MaxRetryAttempts

TickBegins ==
    /\ tick = NoTick
    /\ phase # Hour => AnyDue
    /\ tick' = [today |-> day, off |-> phase # Hour, sending |-> NoTick,
                todo |-> {o \in Owner : enabled[o] /\ marked[o] # day}]
    /\ UNCHANGED <<clock, marked, enabled, retry, dailyGhosts, upsets>>

TickEnds ==
    /\ tick # NoTick /\ tick.todo = {} /\ tick.sending = NoTick
    /\ tick' = NoTick
    /\ UNCHANGED <<clock, marked, enabled, retry, dailyGhosts, upsets>>

CrossMidnight(o) == Armed(o) /\ retry[o].date = tick.today - 1
Current(o) == Armed(o) /\ (retry[o].date = tick.today \/ CrossMidnight(o))

\* retryAnchorDay, reportDay and markDay.
AnchorDay(o) == IF CrossMidnight(o) THEN retry[o].date ELSE tick.today
ReportDay(o) == AnchorDay(o) - 1
MarkDay(o) == IF CrossMidnight(o) THEN ReportDay(o) ELSE tick.today

UsedUp(o) == Current(o) /\ retry[o].attempts >= MaxRetryAttempts
Waits(o) == Current(o) /\ ~UsedUp(o) /\ ~retry[o].due

Turn(o) == tick # NoTick /\ tick.sending = NoTick /\ o \in tick.todo
Served(o) == tick' = [tick EXCEPT !.todo = @ \ {o}, !.sending = NoTick]

\* MUTANT: a failure after midnight is the new day's.
ArmedForToday(o, anchor) ==
    [date |-> tick.today, due |-> FALSE,
     attempts |-> IF Armed(o) /\ retry[o].date = tick.today THEN retry[o].attempts + 1 ELSE 1]

\* recordRetryFailure.
ArmedFor(o, anchor) ==
    [date |-> anchor, due |-> FALSE,
     attempts |-> IF Armed(o) /\ retry[o].date = anchor THEN retry[o].attempts + 1 ELSE 1]

Disarmed(o) == [retry EXCEPT ![o] = NoTick]

\* markDailyReportSent, best effort.
Marks(o) == marked' = [marked EXCEPT ![o] = MarkDay(o)] /\ UNCHANGED upsets
MarkFails == upsets < MaxUpsets /\ upsets' = upsets + 1 /\ UNCHANGED marked
Mark(o) == Marks(o) \/ MarkFails

\* Off the hour without a retry, or within the backoff.
Skip(o) ==
    /\ Turn(o)
    /\ (tick.off /\ ~Current(o)) \/ Waits(o)
    /\ Served(o)
    /\ UNCHANGED <<clock, marked, enabled, retry, dailyGhosts, upsets>>

GiveUp(o) ==
    /\ Turn(o) /\ UsedUp(o)
    /\ Mark(o)
    /\ retry' = Disarmed(o)
    /\ open' = open \ {<<o, ReportDay(o)>>}
    /\ Served(o)
    /\ UNCHANGED <<clock, enabled, reports, doubts>>

MaySend(o) == Turn(o) /\ ~UsedUp(o) /\ ~Waits(o) /\ (tick.off => Current(o))

ListFails(o) ==
    /\ MaySend(o)
    /\ retry' = [retry EXCEPT ![o] = ArmedFor(o, AnchorDay(o))]
    /\ open' = open \cup {<<o, ReportDay(o)>>}
    /\ Served(o)
    /\ UNCHANGED <<clock, marked, enabled, reports, doubts, upsets>>

NoAlerts(o) ==
    /\ MaySend(o)
    /\ retry' = Disarmed(o)
    /\ Mark(o)
    /\ open' = open \ {<<o, ReportDay(o)>>}
    /\ Served(o)
    /\ UNCHANGED <<clock, enabled, reports, doubts>>

\* A retry older than a day goes here, unsent.
SendBegins(o) ==
    /\ MaySend(o)
    /\ tick' = [tick EXCEPT !.todo = @ \ {o}, !.sending = o]
    /\ open' = open \cup {<<o, ReportDay(o)>>}
    /\ retry' = IF Current(o) THEN retry ELSE Disarmed(o)
    /\ UNCHANGED <<clock, marked, enabled, reports, doubts, upsets>>

AddTo(f, o, n) == [f EXCEPT ![o][ReportDay(o)] = @ + n]

\* A report that the server took and nobody marks.
Unheard(o, n) == reports' = AddTo(reports, o, n) /\ doubts' = AddTo(doubts, o, n)

SendOk(o) ==
    /\ tick # NoTick /\ tick.sending = o
    /\ \/ Marks(o) /\ reports' = AddTo(reports, o, 1) /\ UNCHANGED doubts
       \/ MarkFails /\ Unheard(o, 1)
    /\ retry' = Disarmed(o)
    /\ open' = open \ {<<o, ReportDay(o)>>}
    /\ Served(o)
    /\ UNCHANGED <<clock, enabled>>

\* send_failed, or a throw: the server may have taken the report and only its
\* answer is lost.
SendFails(o) ==
    /\ tick # NoTick /\ tick.sending = o
    /\ \/ UNCHANGED <<reports, doubts, upsets>>
       \/ upsets < MaxUpsets /\ upsets' = upsets + 1 /\ Unheard(o, 1)
    /\ retry' = [retry EXCEPT ![o] = ArmedFor(o, AnchorDay(o))]
    /\ Served(o)
    /\ UNCHANGED <<clock, marked, enabled, open>>

-----------------------------------------------------------------------------
(* The surroundings. *)

TimePasses ==
    /\ phase = 1 \/ day < MaxDays
    /\ phase' = 3 - phase
    /\ day' = IF phase = 1 THEN day ELSE day + 1
    /\ UNCHANGED <<late, marked, enabled, retry, tick, dailyGhosts, upsets>>

BackoffEnds(o) ==
    /\ Armed(o) /\ ~retry[o].due
    /\ retry' = [retry EXCEPT ![o].due = TRUE]
    /\ UNCHANGED <<clock, marked, enabled, tick, dailyGhosts, upsets>>

\* The report under way.
Cut == IF tick = NoTick \/ tick.sending = NoTick THEN {}
       ELSE {<<tick.sending, ReportDay(tick.sending)>>}

\* The retries are gone, and whether a mail under way arrived nobody knows.
Restart ==
    /\ upsets < MaxUpsets /\ upsets' = upsets + 1
    /\ open' = open \ (Cut \cup {<<o, retry[o].date - 1>> : o \in {p \in Owner : Armed(p)}})
    /\ IF Cut = {} THEN UNCHANGED <<reports, doubts>>
       ELSE \E n \in {0, 1} : Unheard(tick.sending, n)
    /\ retry' = [o \in Owner |-> NoTick] /\ tick' = NoTick
    /\ UNCHANGED <<clock, marked, enabled>>

ChangeSettings(o) ==
    /\ upsets < MaxUpsets /\ upsets' = upsets + 1
    /\ enabled' = [enabled EXCEPT ![o] = ~@]
    /\ UNCHANGED <<clock, marked, retry, tick, dailyGhosts>>

DailyNext ==
    \/ TickBegins \/ TickEnds \/ TimePasses \/ Restart
    \/ \E o \in Owner : \/ Skip(o) \/ GiveUp(o) \/ ListFails(o) \/ NoAlerts(o)
                        \/ SendBegins(o) \/ SendOk(o) \/ SendFails(o)
                        \/ BackoffEnds(o) \/ ChangeSettings(o)

DailySpec == DailyInit /\ [][DailyNext]_dailyVars

-----------------------------------------------------------------------------
(* What the report promises. *)

DailyTypeOK ==
    /\ day \in 1..MaxDays /\ phase \in {1, 2} /\ marked \in [Owner -> 0..MaxDays]
    /\ \A o \in Owner : Armed(o) => retry[o].attempts \in 1..MaxRetryAttempts
    /\ {reports, doubts} \subseteq [Owner -> [0..MaxDays -> Nat]]
    /\ open \subseteq Owner \X (0..MaxDays)

ReportOnce ==
    \A o \in Owner, d \in 0..MaxDays : reports[o][d] <= 1 + doubts[o][d]

NoReportForgotten ==
    \A o \in Owner, d \in 0..MaxDays : <<o, d>> \in open =>
        \/ Armed(o) /\ retry[o].date = d + 1
        \/ tick # NoTick /\ tick.sending = o /\ ReportDay(o) = d
        \/ day > d + 2

\* Once a report of a day is acknowledged and marked, its owner gets no other of
\* that day, whatever ticks, retries over midnight, changed settings and the two
\* meanings of the mark (the day of the sending, the day of the report) make of
\* it.  Copies come only of mails without a mark, one of each: the answer was
\* lost after the server took the mail (mailer.ts:212-216 tells it as
\* send_failed, and the retry sends it again), the mark failed, or a restart cut
\* the mail.  And a report that was begun is sent, was empty, is given up after
\* three failures, or is still armed for its own day; else a restart or two
\* midnights went over it (runDailyReportTick, recordRetryFailure with
\* retryAnchorDay).
OneReportADay == ReportOnce /\ NoReportForgotten
=============================================================================
