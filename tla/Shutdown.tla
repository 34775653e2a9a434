------------------------------ MODULE Shutdown ------------------------------
(***************************************************************************)
(* The end of the desktop process: before-quit of the shell starts the     *)
(* drain of the backend and quits when it is over or when its own cap has  *)
(* passed (electron/main.js:70-131); the drain waits in turn for requests  *)
(* and monitoring, for the mails of alerts, for the daily report and for   *)
(* the maintenance writers, closes the databases for good and gives the    *)
(* instance lock back if the writers have ended (index.ts:977-1141,        *)
(* db/backup.ts:46-103, 1559-1577).  On a server a signal takes the place  *)
(* of before-quit and there is no outer cap.                               *)
(*                                                                         *)
(* Time is counted in units of 5 s from the start of the drain.            *)
(***************************************************************************)
EXTENDS Naturals

CONSTANTS
    Writers,    \* maintenance writes that may be asked for
    DrainCap,   \* SHUTDOWN_DRAIN_MS
    MailCap,    \* the argument of drainEmailDispatches
    SettleCap,  \* settleTimeoutMs
    ShellCap    \* BACKEND_SHUTDOWN_TIMEOUT_MS

ASSUME ShutdownAssumption ==
    /\ {DrainCap, MailCap, SettleCap, ShellCap} \subseteq Nat \ {0}
    /\ DrainCap + MailCap + SettleCap < ShellCap

VARIABLES
    phase,    \* where gracefulShutdownImpl is
    since,    \* time since it entered the phase
    time,     \* time since it began
    busy,     \* a request or a monitoring run is under way
    mails,    \* the mails of alerts are being sent
    report,   \* a tick of the daily report is under way
    waited,   \* ghost: time spent waiting for that tick
    asked,    \* [Writers -> state of the write]
    refusing, \* maintenanceShuttingDown
    handles,  \* "open", "closed", or "latched": closed and never opened again
    lockFile, \* the instance lock is ours on disk
    over      \* how the process has ended: "no", "drained", "forced"

downVars == <<phase, since, time, busy, mails, report, waited, asked, refusing,
              handles, lockFile, over>>

DownInit ==
    /\ phase = "up" /\ since = 0 /\ time = 0 /\ waited = 0
    /\ busy = FALSE /\ mails = FALSE /\ report = FALSE
    /\ asked = [w \in Writers |-> "no"] /\ refusing = FALSE
    /\ handles = "open" /\ lockFile = TRUE /\ over = "no"

Lives == over = "no"
Working == {w \in Writers : asked[w] = "works"}
InFlight == {w \in Writers : asked[w] \in {"queued", "works"}}
NowIn(p) == phase' = p /\ since' = 0

-----------------------------------------------------------------------------
(* What runs meanwhile. *)

\* httpServer.close and scheduler.stop let nothing new begin.
WorkBegins ==
    /\ Lives /\ phase = "up" /\ ~busy /\ busy' = TRUE
    /\ UNCHANGED <<phase, since, time, mails, report, waited, asked, refusing,
                   handles, lockFile, over>>

\* What ends may leave mails to send, also when the drain waits no longer.
WorkEnds ==
    /\ Lives /\ busy /\ busy' = FALSE
    /\ mails' \in {mails, TRUE}
    /\ UNCHANGED <<phase, since, time, report, waited, asked, refusing, handles,
                   lockFile, over>>

MailsSent ==
    /\ Lives /\ mails /\ mails' = FALSE
    /\ UNCHANGED <<phase, since, time, busy, report, waited, asked, refusing,
                   handles, lockFile, over>>

\* The interval of the daily report is cleared when its turn comes.
ReportBegins ==
    /\ Lives /\ phase \in {"up", "drain", "mails"} /\ ~report /\ report' = TRUE
    /\ UNCHANGED <<phase, since, time, busy, mails, waited, asked, refusing,
                   handles, lockFile, over>>

ReportEnds ==
    /\ Lives /\ report /\ report' = FALSE
    /\ UNCHANGED <<phase, since, time, busy, mails, waited, asked, refusing,
                   handles, lockFile, over>>

\* getDb of a request the drain has given up on, or of a writer.
OpenAgain ==
    /\ Lives /\ (busy \/ Working # {})
    /\ handles = "closed" /\ handles' = "open"
    /\ UNCHANGED <<phase, since, time, busy, mails, report, waited, asked,
                   refusing, lockFile, over>>

\* A restore closes the handles under its lock.
WriterCloses ==
    /\ Lives /\ Working # {} /\ handles = "open" /\ handles' = "closed"
    /\ UNCHANGED <<phase, since, time, busy, mails, report, waited, asked,
                   refusing, lockFile, over>>

\* withMaintenanceWrite: by a timer until the drain begins, by a request while
\* one is under way.
AskWrite(w) ==
    /\ Lives /\ (phase = "up" \/ busy)
    /\ asked[w] = "no"
    /\ asked' = [asked EXCEPT ![w] = IF refusing THEN "over" ELSE "queued"]
    /\ UNCHANGED <<phase, since, time, busy, mails, report, waited, refusing,
                   handles, lockFile, over>>

\* The flag is looked at again under the lock.
Granted(w) ==
    /\ Lives /\ asked[w] = "queued" /\ Working = {}
    /\ asked' = [asked EXCEPT ![w] = IF refusing THEN "over" ELSE "works"]
    /\ UNCHANGED <<phase, since, time, busy, mails, report, waited, refusing,
                   handles, lockFile, over>>

WriteEnds(w) ==
    /\ Lives /\ asked[w] = "works" /\ asked' = [asked EXCEPT ![w] = "over"]
    /\ UNCHANGED <<phase, since, time, busy, mails, report, waited, refusing,
                   handles, lockFile, over>>

-----------------------------------------------------------------------------
(* The drain.  Who asks for it a second time joins it. *)

BeginDrain ==
    /\ Lives /\ phase = "up" /\ NowIn("drain")
    /\ UNCHANGED <<time, busy, mails, report, waited, asked, refusing, handles,
                   lockFile, over>>

Drained ==
    /\ Lives /\ phase = "drain" /\ (~busy \/ since = DrainCap)
    /\ NowIn("mails")
    /\ UNCHANGED <<time, busy, mails, report, waited, asked, refusing, handles,
                   lockFile, over>>

MailsDrained ==
    /\ Lives /\ phase = "mails" /\ (~mails \/ since = MailCap)
    /\ NowIn("report")
    /\ UNCHANGED <<time, busy, mails, report, waited, asked, refusing, handles,
                   lockFile, over>>

\* stopDailyReportScheduler has no cap.  The flag is raised in the same step,
\* and the writes in flight are taken note of.
ReportStopped ==
    /\ Lives /\ phase = "report" /\ ~report /\ NowIn("settle")
    /\ refusing' = TRUE
    /\ UNCHANGED <<time, busy, mails, report, waited, asked, handles, lockFile, over>>

\* MUTANT: the lock is given back whatever waitForBackupToSettle says.
CloseAndRelease ==
    /\ Lives /\ phase = "settle" /\ (InFlight = {} \/ since = SettleCap)
    /\ NowIn("done")
    /\ handles' = "latched" /\ lockFile' = FALSE
    /\ UNCHANGED <<time, busy, mails, report, waited, asked, refusing, over>>

\* markRnpmShuttingDown, markShuttingDown, and releaseInstanceLock if the
\* writes have settled.
Close ==
    /\ Lives /\ phase = "settle" /\ (InFlight = {} \/ since = SettleCap)
    /\ NowIn("done")
    /\ handles' = "latched" /\ lockFile' = (InFlight # {})
    /\ UNCHANGED <<time, busy, mails, report, waited, asked, refusing, over>>

Exit ==
    /\ Lives /\ phase = "done" /\ over' = "drained"
    /\ UNCHANGED <<phase, since, time, busy, mails, report, waited, asked,
                   refusing, handles, lockFile>>

\* MUTANT: the cap of the shell as it was, 40 s.
ShellTimesOutEarly ==
    /\ Lives /\ phase # "up" /\ time >= 8 /\ over' = "forced"
    /\ UNCHANGED <<phase, since, time, busy, mails, report, waited, asked,
                   refusing, handles, lockFile>>

\* The shell's watchdog quits over the drain.
ShellTimesOut ==
    /\ Lives /\ phase # "up" /\ time >= ShellCap /\ over' = "forced"
    /\ UNCHANGED <<phase, since, time, busy, mails, report, waited, asked,
                   refusing, handles, lockFile>>

\* A timer that is due fires before time goes on.
TimerDue ==
    \/ phase = "drain" /\ since = DrainCap
    \/ phase = "mails" /\ since = MailCap
    \/ phase = "settle" /\ since = SettleCap
    \/ phase = "done" \/ time = ShellCap

Pass ==
    /\ Lives /\ phase # "up" /\ ~TimerDue
    /\ time' = time + 1 /\ since' = since + 1
    /\ waited' = IF phase = "report" THEN waited + 1 ELSE waited
    /\ UNCHANGED <<phase, busy, mails, report, asked, refusing, handles, lockFile, over>>

DownNext ==
    \/ WorkBegins \/ WorkEnds \/ MailsSent \/ ReportBegins \/ ReportEnds
    \/ OpenAgain \/ WriterCloses
    \/ \E w \in Writers : AskWrite(w) \/ Granted(w) \/ WriteEnds(w)
    \/ BeginDrain \/ Drained \/ MailsDrained \/ ReportStopped \/ Close \/ Exit
    \/ ShellTimesOut \/ Pass

DownSpec == DownInit /\ [][DownNext]_downVars
-----------------------------------------------------------------------------
DownTypeOK ==
    /\ phase \in {"up", "drain", "mails", "report", "settle", "done"}
    /\ since \in 0..ShellCap /\ time \in 0..ShellCap /\ waited \in 0..ShellCap
    /\ busy \in BOOLEAN /\ mails \in BOOLEAN /\ report \in BOOLEAN
    /\ asked \in [Writers -> {"no", "queued", "works", "over"}]
    /\ refusing \in BOOLEAN /\ lockFile \in BOOLEAN
    /\ handles \in {"open", "closed", "latched"}
    /\ over \in {"no", "drained", "forced"}

\* Once the lock is given back, and another process may start on the files, no
\* maintenance write is at work or will ever be, and no handle is open or will
\* be, whatever requests the drain has left behind (index.ts:1079-1134).
ReleasedMeansQuiet ==
    ~lockFile => InFlight = {} /\ handles = "latched"

\* The caps of the stages fit into the shell's: it quits over the drain only if
\* the daily report, for which there is no cap, has used up the difference
\* (electron/main.js:80-91).
ForcedOnlyByReport ==
    over = "forced" => waited + DrainCap + MailCap + SettleCap >= ShellCap
=============================================================================
