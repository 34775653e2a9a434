# Legal Dashboard: TLA+ specifications and proofs

Legal Dashboard is a web and desktop application with which lawyers search court files (PortalJust, ICCJ) and the
RNPM register, monitor files for changes, and have results summarised by AI. One Node.js process serves HTTP requests,
runs the monitoring scheduler and takes backups, over SQLite files: a *monolith* database with users, jobs and alerts,
and one RNPM database per user. All paths below are relative to `src/backend/src/` unless they start with another
directory.

This directory holds TLA+ models of the parts of the program where order, concurrency and failure matter (most of the
backend's protocols, the frontend's session and inbox, and the end of the desktop process), the TLC configurations that
check them, and TLAPS proofs of the most important results.

Contents: [1 Components](#1-the-system) · [2 Modules](#2-the-modules-and-the-code) · [3 Runs](#3-the-runs) ·
[4 Fairness](#4-fairness) · [5 Proofs](#5-proofs) · [6 Divergences](#6-where-the-code-departs-from-its-comments) ·
[7 Not modelled](#7-what-is-not-modelled) · [8 Plan](#8-plan)

## 1 The system

### Components with a protocol of their own

| Component | State | Operations | Interacts with | What makes it correct |
|---|---|---|---|---|
| **Maintenance lock** `util/rwlock.ts`, wrappers in `db/backup.ts` | reader count, writer flag, FIFO queue | `withRead`, `withWrite`, release and `drain` | scheduler ticks and runs read; backup, restore, compaction write | a writer is alone; no wake-up is lost; nobody starves; nobody overtakes |
| **Monitoring scheduler** `services/monitoring/scheduler.ts`, runners, `monitoring_jobs`, `monitoring_runs` | `tickInProgress`, `inflight` map, abort controllers; rows of jobs and runs | start (orphan recovery), tick (claim, dispatch), manual trigger, runner (SOAP, snapshot and alerts), finalize, stop | maintenance lock, monitoring routes, alert emails | one run per job; each running row has a runner; stop drains; counters of failures are exact; no change is lost |
| **RNPM splitter** `db/rnpmSplitter.ts` | monolith rows, per-user files, marker file, backup | boot decision, preflight, backup, copy and verify, marker *wiping*, wipe, marker *done*, resume | boot sequence, monolith WAL, operators | no row is lost whatever crashes; the application never serves a half-moved user |
| **Instance lock** `db/instanceLock.ts` | lock file with a record and heartbeat, gate file | acquire, reclaim, forced boot, heartbeat, fatal shutdown, release | other processes, hosts | two processes never use one data directory; a live lock is never taken |
| **Backup, restore, compaction** `db/backup.ts`, `db/backupPrune.ts`, `db/schema.ts`, `db/rnpmActivity.ts` | live file and its WAL, handle registry, latch, staging file, jail of backups | daily and manual backup, restore (snapshot, stage, close, unlink the WAL, rename, probe, revert), compact, delete all, prune | maintenance lock, every open handle, RNPM searches | at every moment the file reads as what was last committed; the rollback copy stays; a failed restore changes nothing |
| **RNPM search** `services/rnpmSearchService.ts`, `routes/rnpm.ts` | session and captcha count, rows fetched, fetches under way, history, stored documents | search with continuations, concurrent details, second pass, split by kind and destination, abort, storage limit | maintenance lock, `activeSearches`, RNPM and its captchas, the client's connection | the answer is what RNPM listed and what was stored; an expired session costs a captcha and no search; nothing is stored by a search that is no longer counted |
| **RNPM intake** `routes/rnpm.ts`, `routes/rnpmGuards.ts`, `db/captchaUsageRepository.ts` | `inflightRequests` with their timers, rows of `captcha_usage`, requests under way | refuse under a restore, check the storage, charge, dedup by `clientRequestId`, run with or without a time limit, answer | RNPM search, maintenance lock, tokens | overlapping requests spend no more captchas than the caps; a repeated request meets the run it repeats, and none that has ended |
| **Court-file search** `routes/dosare.ts`, `services/dosareFanout.ts`, `services/batch-dosare.ts`, `intervals.ts` | courts asked for, answered and failed; fallbacks in flight; months, halved calls, numbers already sent | one call, fan-out, fallback within a budget; load-more month by month | PortalJust, the client's connection | each court is answered or named as failed; load-more that is done without a warning has sent all |
| **AI quota** `middleware/quotaGuard.ts`, `db/aiUsageRepository.ts`, `services/aiUsage.ts`, `routes/ai.ts` | usage rows, reservations with expiry | guard, reserve, confirm, insert, release, purge | AI providers, budget warnings | concurrent requests pass the limit only by what they cost beyond their estimates; each call is charged exactly once; no reservation stays for ever |
| **Diff engines, runners, alerts** `services/monitoring/diff/`, `dosarSoapRunner.ts`, `nameSoapRunner.ts`, `db/monitoringAlertsRepository.ts` | baseline of a job, inbox with dedup keys, the run's rows in memory | fetch, diff, commit of baseline and alerts together, partial sources, dispatch of the mails | scheduler, PortalJust, SMTP, PATCH and restore | what the baseline holds was told; each transition is told anew; no alarm about an answer that did not come; one mail per row |
| **Budget warning** `services/budgetWarningService.ts` | one row per user: episode open, mail sent, attempts | check after each recorded call, fire, clear, retry every two minutes | AI usage, SMTP | one mail per episode, and another only for one that nobody marked or beside one under way |
| **Daily report** `services/email/dailyReportScheduler.ts` | the day marked per owner, retries in memory | tick each five minutes, send, retry in and off the hour and past midnight, give up | alerts, SMTP | one report per day, and a copy only for one that nobody marked; none begun is forgotten |
| **ICCJ breaker** `services/iccj/iccjBreaker.ts` | failures in the window, opening, probe flag | begin, refuse, probe, success, distress | routes, monitoring, tokens | tokens alone never open it; it is never stuck open |
| **Migrations and boot** `db/migrations/runner.ts`, `db/schema.ts`, `db/rnpmDb.ts`, `index.ts` | schema ledger of each file, cached handles, pre-migration copies | auto-promotion, `getDb`, prewarm, `getRnpmDb`, ledger bootstrap, healing, apply, legacy block, `fatalBoot` | every request that opens a database | nobody gets a handle of a half migrated file; an upgrade under way leaves a copy of what was there |
| **Web session** `routes/auth.ts`, `db/jwtDenylistRepository.ts`, `frontend/src/lib/api.ts`, `authApi.ts`, session hooks | cookie jar, each tab's sync and logout flag, denylist, the proxy's session | bridge, keep-alive, retry on 401, logout, sign-out, landing page | oauth2-proxy, every API request, other tabs | who signed out has no live session left; a request that meets a 401 is served on its retry |
| **Alert windows** `routes/alerts.ts`, `db/monitoringAlertsRepository.ts`, `useAlertsStream.ts`, `Alerts.tsx` | subscribers of each owner, events under way, the list shown and the one being loaded | subscribe, notify, reconnect, list, mark, dismiss | runs that insert alerts, the session | a connected window at rest shows what the inbox holds |
| **Shutdown** `index.ts`, `electron/main.js`, `db/backup.ts` | stage of the drain, writes in flight, latches, the lock file | drain requests, mails, report and writers in turn, close, release; watchdog of the shell | every component that runs meanwhile | once the lock is released nothing works on the files; the caps of the stages fit into the shell's |
| **Accounts** `routes/admin.ts`, `db/userRepository.ts`, `scripts/seed-admin.mjs` | users with role and status, requests already authorised | create, import, change role or status, seed | authentication, other administrators | an active administrator remains |

The remaining components (backoff, rate limiting, PortalJust client, exports, the other pages of the frontend, the rest of
the Electron shell, deployment) are listed with their status in `PROJECT.json`.

### How they interact

A tick of the scheduler claims due jobs in one synchronous section under the read lock, then runs them concurrently: a
SOAP call outside the lock, a transaction (snapshot and alerts) under it, a transaction that closes the row and moves the
job's schedule under it. A backup or a restore queues as a writer, lets the sections inside finish, keeps new ones out and
wakes the whole line when it ends. Routes act on job rows with neither lock nor transaction in common with the scheduler;
they see its `inflight` map only. RNPM searches hold no lock while they wait for the registry: they take the read side for
each write, and a restore or compaction of their user's file is refused while any of them is counted in `activeSearches`,
as they are refused while its latch is set. What a run commits is told by mails that go out after the commit, from memory;
the daily report and the budget warning read their own tables and share only the mailer. At boot the instance lock is
taken first, then migrations run, then the RNPM split, and only then the server listens and the scheduler starts. A
browser's tabs share the cookie jar and know nothing of one another; each inserted alert reaches the open windows of its
owner as an event, on which they load their list again. Shutdown waits for requests and for the scheduler's runs, then for
mails and the daily report, then for the maintenance writers, closes the databases for good and releases the instance
lock.

### Behaviours that are hard

- **Interleaving of microtasks.** JavaScript has no data races inside a synchronous stretch, but everything read
  before an `await` may be stale after it. Several continuations can resume in one drain of the lock.
- **Crash.** Runs, splits, restores and lock files are left half done, and the next boot must sort them out.
- **Power loss.** SQLite runs in WAL mode with `synchronous = NORMAL`, marker files are fsynced: the two do not become
  durable in the order in which they were written.
- **Several processes.** The lock file is the only thing between them, and its creation, its writing, the look at it
  and its removal are separate system calls.
- **Timeouts and retries.** The runner's budget against a late answer; heartbeat misses against the stale threshold;
  an RNPM session that expires in the middle of a search; reports retried past midnight; mails answered after the
  warning they are of has been closed and opened again, or taken by a server whose answer is lost.
- **Answers that land late.** In the browser a cookie may land after the logout, a list after the filters have changed, and
  an event is sent before the window that needs it has subscribed.
- **Partial failure.** One institution of a name, one detail of a page, one kind of a split, one step of a restore.

`PROJECT.json` lists each such hazard with its line and the properties that watch it.

## 2 The modules and the code

| Module | What it is |
|---|---|
| `RWLock` | `util/rwlock.ts`, every method |
| `FifoRWLock` | what the lock promises: a plain line of requests |
| `Scheduler` | the scheduler with its tables, the `dosar_soap` runner, the monitoring routes and a maintenance writer |
| `RnpmSplit` | the one-time split protocol at boot |
| `AtomicMove` | what the split promises: one atomic move |
| `InstanceLock` | the lock file, its gate and its heartbeat |
| `AiQuota` | the AI budget of one user: guard, reservations, usage table and the two routes that spend |
| `BackupRestore` | one user's database file, its WAL, handle, latch and jail, with every operation that replaces it |
| `RnpmSearch` | a user's RNPM searches, single and split, from the route's gate to the answer |
| `DosarDiff`, `NameDiff` | the two diffs, as operators |
| `AlertWatch` | one watched job from PortalJust's answers to inbox and mails; extends the diffs |
| `BudgetWarning` | the mail that a budget is 80% spent |
| `DailyReport` | the daily report of yesterday's alerts |
| `IccjBreaker` | the circuit breaker of the calls to scj.ro |
| `Migrations` | opening the monolith and a user's file, over releases, failures and kills |
| `WebSession` | a browser's session in all its tabs, with the bridge and the denylist |
| `AlertStream` | the inbox in the windows of one user |
| `Accounts` | the users table under administrators' requests |
| `RnpmIntake` | what the three RNPM routes do around a search: gates, charges, dedup, time limits |
| `Shutdown` | the drain of a process, stage by stage, under the shell's watchdog |
| `DosareSearch` | `GET /dosare`: single call, fan-out over courts, fallback |
| `DosareMore` | `POST /dosare/load-more`: months, chunks, halved intervals |
| `MCServices` | `RnpmSearch`, `RnpmSplit`, `Migrations`, `BudgetWarning`, `DailyReport` and `IccjBreaker` side by side: they share nothing here, and a behaviour is one of them (`which`) |
| `MCClients` | `InstanceLock`, `WebSession`, `AlertStream`, `Accounts`, `RnpmIntake`, `Shutdown`, `DosareSearch` and `DosareMore` in the same way |
| other `MC` modules | the modules of the same names with the constants TLC needs |
| `RWLockProofs`, `SchedulerProofs`, `AiQuotaProofs` | theorems about the module each is named after, and their proofs |
| `RnpmProofs` | theorems about `BackupRestore` and `RnpmSearch`, and their proofs |
| `WatchProofs` | theorems about `AlertWatch` with the two diffs, and their proofs |
| `ServicesProofs` | theorems about `RnpmSplit`, `IccjBreaker`, `BudgetWarning`, `DailyReport` and `Migrations`, and their proofs |
| `ClientsProofs` | theorems about the eight modules of `MCClients`, and their proofs |
| `FiniteSums` | lemmas for the other proofs: induction over finite sets and numbers, sums, and what folds compute |

The definitions keep the source's names where they can; `PROJECT.json` maps every one of them to its lines.

**RWLock.** A caller is one `withRead`/`withWrite` call; an action is one synchronous stretch of it. `drain` changes the
counters before it resolves anyone, so a woken caller is inside from that moment, though its continuation runs later.
`FifoRWLock` has neither counters nor a drain loop: after each arrival or departure the longest compatible prefix of
the line is inside. `ImplementsFifo` maps one to the other.

**Scheduler.** The model keeps the event loop: `micro` is the microtask queue, FIFO, and a macrotask (timer, request,
SOAP answer) starts only when the queue is empty. This granularity is the point of the module: two of the divergences
in section 6 consist of a few microtasks. Of the lock it keeps a writer flag and a line of waiting readers, since
reader sections are synchronous and never overlap a macrotask. A job has: exists, active, due, fail streak, number of
`source_error` alerts in the streak, last snapshot, changes alerted. A run row has a status and a job; `run` holds the
locals of `runOne`, the claim-time copy of the streak among them. A run that fails, a vanished job, a snapshot over
the cap and a transaction that throws are the outcomes of `SoapFails` and `PersistFails`; their wording is left out.
`next_run_at` is abstracted to *due or not*: `applyJobOutcome` may set it to a time that has already passed (`past`),
since it counts from the claim, except after a backoff that is longer than any run. `claimDueJobs` takes any `Limit`
due jobs in place of the oldest ones. Run ids are reused when a run is forgotten. Transient database faults
(`MaxFaults`) may hit the claim, the finalize transaction and the catch of a manual run.

**RnpmSplit.** Each write that a crash can separate from the next is an action. The copy of an owner is one action
because it goes to a temporary file that no boot reads until the rename. Counts compared by the code are cardinalities
here: a truncated copy can only be noticed by its count, and the model lets a copy be any subset of the rows.
`syncedMono` and `syncedFile` are what a power loss may fall back to. Operators (restored monolith, damaged file) are
part of `Env`.

**InstanceLock.** Each system call visible to another process is an action; a process is one incarnation (pid and
nonce). Time is counted in heartbeat periods (5 s): `MaxMisses` 3, `StaleAge` 6 for 30 s, `Drain` 2 for the 10 s cap
of the shutdown. `Env` says what may happen: crashes, misses, torn lock files, orphan gates, forced boots, releases and
an event loop blocked for whole periods.

**AiQuota.** Users share no row, so the model is of one. A request is *single* (`/analyze`) or *multi* (`/analyze-multi`:
two analysts, then a judge) and runs once; an action is one synchronous stretch of it, and `micro` holds the writes that
the stretch has left to `queueMicrotask`, which land before any other request goes on. The reservation's row is `none`,
`pending` or `confirmed`; a single call confirms it, a multi request keeps it pending while its calls insert rows of their
own, and deletes it at the end. When one analyst fails, the abort of the other settles in the same drain (both errors may
carry usage), so both records belong to one action. Costs are small numbers and the window does not slide: when it does, a
row and what it has cost are forgotten together. `Expire` marks a row as older than 300 s; it spares a single call, which
is cut before. `SetLimit` stands for overrides, grants and the default from the environment. `ceiling`, `unseen` and
`exposed` only watch.

**BackupRestore.** One operation holds the maintenance write lock at a time (`RWLock` shows that), so `op` is its locals
and its program counter; a step ends at each `await`, where searches, edits and reads of the same file may run. SQLite is
taken at its contract: `wal` is what the file reads as with its WAL; the last connection that closes copies it in; a WAL
found beside a file that is not its own spoils it. `Fault` is a failing step (disk, integrity check, VACUUM), `Kill` leaves
the WAL behind. The jail keeps `Retain` backups per pool and never prunes what the operation itself names. The monolith
goes through the same code under another latch.

**RnpmSearch.** `req` is the route's locals, `s` those of `executeSearch`, `worker` its concurrent fetches, and `strays`
the fetches that an aborted `Promise.all` has left behind. A *world* fixes RNPM's answers: rows, of which a page is
`PageSize`, a total that may be over the limit, a number of pages that may be wrong, rows without uuid or listed twice,
and per kind and destination for a split. A session is *none*, *fresh*, *open* or *expired*. Texts, filters and parsing
are left out; a document is a model value.

**DosarDiff, NameDiff, AlertWatch.** The diffs are pure: baseline, rows and filter in, next baseline and alerts out. An alert
is its dedup key (what it is about, from, to, anchor), so an insertion that the unique index swallows is a union.
`Pair` is the three passes over a bucket of hearings that share room and day. In `AlertWatch` the fetch, the commit, the
second section of `nameSoapRunner` and the dispatch are steps, with PATCHes, crashes, failing commits, oversize snapshots
and the restore of an older monolith in between. `mailed`, `twice`, `lost`, `quiet` and `seen` only watch.

**BudgetWarning.** A check is synchronous up to its mail, so it is one action. `age` is the time since the last attempt:
below the backoff, below the cooldown of an hour, older. It is the time as the code reads it (section 6), and it passes
with mails under way, since the mailer's timeouts are of one phase or of silence each. `MailFails` is `send_failed`, be the
mail refused or taken with its answer lost; `MailAccepted` is followed by a mark that may fail. `accepted` and `excuses`
only watch: an excuse is a mail taken without a mark, or one begun beside a mail of the same episode.

**DailyReport.** A day is its configured hour and the rest of it, before or after (`late`). Owners are served one by one and
each mail is awaited while the clock goes on. Days are numbers; the report sent on day *d* is of *d - 1*.
`SendFails` too is a report refused or one whose answer was lost. `reports` counts those the server took, `doubts` those of
them that nobody marked: their answer was lost, the mark failed, or a restart cut the mail.

**IccjBreaker.** Time in half-minutes: timeout and cooldown one, window two. Weights are in quarters. Counts are kept up to
the threshold and to the cap, beyond which more changes nothing.

**Migrations.** One monolith and one user's file; each boot (`Start`) is of some release, so that upgrades and downgrades
follow one another. `boot` is where the boot stands (`stage`: auto-promote, `init`, `prewarm`, serving) and how far the
opening is; what SQLite commits as one transaction is a step, a `Kill` may come between two, and `Throw` says who catches
an exception at which stage. The content of a migration is that it has been applied (`tables`), its ledger entry is
*none*, *exact*, *sentinel*, *crlf* or *drift*. One legacy text column stands for the block after the migrations. `good`,
`uncopied` and `swallowed` only watch.

**WebSession.** A request (sync, logout, any other) is sent, is answered, lands in the jar, and is then seen by its page;
`Settles` is the continuation of a sync with what has waited for it. A token is the tab it was minted for, and whether it
is live, revoked or expired. `Upset` excuses a request whose session was taken away meanwhile. `Tabs` may be closed at any
time; oauth2-proxy is one Boolean, external.

**AlertStream.** A window has an `EventSource` (`link`), the events under way to it, a page with a view and the rows it shows,
one list request (`listAbortRef`) and one PATCH. A view stands for filters and page; what it selects is abstracted: the
rows are the whole inbox. An alert has a version (absent, inserted, with its ruling) and the window that marked it last.

**Accounts.** A request is authorised, then its body is awaited, then its handler runs to the end: `calls` holds what was
authorised. Roles other than *admin* are one.

**RnpmIntake.** A request has a *shape*: JSON, stream or bulk (`/search-split` has a bulk's time limits), with or without a
`clientRequestId` and a token. Its steps are the stretches between the awaits of the handler: gate, storage check under the
read lock, count and charge in one stretch, body and dedup, run. `key` is `inflightRequests` together with `inflightTimers`:
an entry is the run that made it, so that a timer removes its own entry, while `clearInflight` removes whatever is there.
What a search does inside is in `RnpmSearch`; here it may wait for the lock (`Hold`) and ends. `let` and `outlived` only watch.

**Shutdown.** `phase` is where `gracefulShutdownImpl` is; time advances in units of 5 s and stops at a timer that is due,
so that every cap is met or passed exactly as the timers would. What may still be under way is one Boolean per kind
(requests and runs, mails, the report) and the writers by name, since the lock serves them one at a time. A request that
the drain has given up on may still open a handle or ask for a write. `waited` only watches.

**DosareSearch.** Rows are counted per court, raw and without the court's own repetitions. A worker of the fan-out goes from
one await to the next; a client that leaves, the budget of the fallback and its row limit stop workers where the code looks at
them. When more than one court was chosen there are as many workers as courts; only the fallback has a bound.

**DosareMore.** The calendar is a sequence of months' ends and an interval a pair of days; `Halves` is `splitInterval` as
it computes, one-day and inverted intervals included. PortalJust's answer is full when it has at least `Limit` files, and
is then not told to be cut. The calls of a chunk are answered in any order; those of one month are sequential in the code,
which is one of the orders.

## 3 The runs

| Run (cfg) | Instance | States | Shows |
|---|---|---|---|
| `rwlock` (MCRWLock) | 5 callers, each calling again and again | 5,232 | `ImplementsFifo`: the lock is `FifoRWLock`; `NoStarvation` |
| `sched_ticks` (MCSchedTicks) | 2 jobs, 3 run ids, maintenance, pauses, deletes, crashes, stop; no manual trigger | 2.6 M | `NoOrphanRow`, `StopDrainsRuns`, `SourceErrorOncePerStreak` |
| `sched_all` (MCSchedAll) | 1 job, everything in `Env`, 2 database faults | 419 k | `OneRunPerJob`, `NoChangeSwallowed` |
| `sched_live` (MCSchedLive) | 2 jobs, maintenance and stop, no faults | 40 k | `DueJobIsServed`, `StopCompletes` |
| `lock_heals` (MCLockHeals) | 3 processes on 2 hosts, forced boots, torn records, orphan gates, releases | 63 k | `SplitBrainHeals` |
| `quota` (MCAiQuota) | 2 requests of either kind, limits 0, 1, 4 or none, one failed write, crashes, expiry | 335 k | `SpendIsExact`, `SpendWithinLimit`, `EveryReservationEnds` |
| `restore` (MCRestore) | 2 rows, 1 search, 3 backups, 2 failing steps, kills, a lost file | 3.7 M | `CommitsSurvive`, `RollbackKept`, `FailedRestoreIsHarmless`, `ReplacedOnlyWhenDue` |
| `services` (MCServices) | *search*: 4 worlds, 2 single requests or a split of 3 kinds, 2 concurrent fetches, 2 expiries, 1 failure, 1 other operation; *split*: 2 owners, 2 rows, one failure, crash, power loss, restore, damage; *boot*: 3 releases, any file a release may have left, 1 failure, kills, 1 row; *budget*: 3 episodes, any failing mails, 1 crash or failing mark; *daily*: 2 owners, 3 days, 1 upset; *breaker*: 3 calls, threshold 2, 2 minutes | 4 429 537 | `AnswerIsExact`, `SavedWhileCounted`; `NoRowLost`; `HandlesAreWhole`, `UpgradeLeavesACopy`; `RepeatsAreExcused`; `OneReportADay`; `PatAloneNeverOpens` |
| `clients` (MCClients) | *lock*: 4 processes on 2 hosts, misses and crashes; *session*: 2 tabs, 1 request, 2 cookies, no second bootstrap attempt; *inbox*: 1 window, 2 alerts, 2 views, 1 subscription, 1 click, 2 breaks; *accounts*: 3 users, 2 requests; *intake*: 3 requests of 4 shapes, 1 id, caps 2 and 1, 1 failed write, 1 pause; *shutdown*: the code's caps in units of 5 s (6, 1, 6 of 15), 2 writers; *courts*: 2 searches, 3 courts, 4 rows, 2 workers, 1 fallback; *more*: 5 files at 2 courts, 2 months of 3 days and 1, 2 files an answer, 1 halving, 2 calls at once | 4 350 330 | `OneHolder`; `SignedOutStays`, `RetryIsServed`; `ListCatchesUp`; `AdminRemains`; `KeyMeansOneRun`, `CapsHold`; `ReleasedMeansQuiet`, `ForcedOnlyByReport`; `AnswerIsAccounted`; `DoneTellsAll` |
| `watch` (MCWatch) | a file with 5 answers or a name with 3 files at 2 institutions, 3 filters, 3 runs, 2 upsets | 14.7 M | `NothingUntold`, `MailedOnce`, `TransitionsTold`, `NoFalseAlarm` |
| `boot_swallowed` (MCBoot) | `Migrations` alone, as in `services` | | violates `FailedMigrationStopsBoot` (section 6) |
| `alerts_list` (MCAlerts) | `AlertStream`: 1 window, 1 alert, 2 views, 2 clicks, no break | | violates `ListIsOfView` (section 6) |

**Why the bounds are enough.** *Lock*: a run of readers behind a writer behind a run of readers needs five callers; more
only lengthen the line, and the safety part is proved for any number. *Scheduler*: a run has at most one successor of its
own job in flight and one run of another job beside it, so three run ids and two jobs show every pair; `Threshold` 2 has a
failure below, at and beyond it (streaks are kept up to `Threshold + 1`); one change at the source distinguishes old from
new; `Limit` 1 with two due jobs leaves one of them for the next tick. `MaxWaiting` bounds the manual triggers queued
behind a writer: two of one job already race. Three manual triggers only repeat the refusal. *Split*: two owners
distinguish copied from not copied, two rows a whole file from a truncated one; the proof covers the rest. *Instance
lock*: a holder, a boot that reads a dead lock, a second that reads the same and a third that arrives later are four; two
hosts give both reclaim rules. *Quota*: the race is between one request's check and another's reservation, so two requests
are enough; estimates 1 and 3 with limits 1 and 4 make every sum fit exactly or pass by one estimate, and a call may cost
more than its estimate (`Costs` 0 and 2). *Restore*: two rows distinguish lost from kept and old from new; the third
backup meets a pool of one that is full; two failing steps are a probe and the revert after it. *Search*: a page and a
half, two pages and a half, batches that end inside a page, and splits in which each kind is complete, refused, too large
or stopped; two expiries are one for the search and one for its second attempt. *Watch*: three runs are a baseline, a
change, and the change back or again; the answers include a ruling and a move in the same room, an adjournment and a new
stage listed first; one file of the name is alone at its institution, one is historic. *Services*: a third episode follows
one that was cleared with its mail still under way; four attempts, each mail of which may fail, be taken unheard or stay
under way, show every pair of mails of one episode; three days let a retry cross a midnight and grow stale, and one upset
is the lost answer, the failing mark or the restart of which a copy may come (the proof is for any number); threshold 2 is
passed by two failures, or by one and four quarters, with three calls that overlap an opening, its probe and the closing.
*Boot*: three releases are the one that left the file, an upgrade that fails and a later or older one; the lookup
migration is neither the first nor the last; the RNPM chain grows in the newest release only. *Session*: the second tab is
the one that logs out under the first; two cookies are the one taken away and the one minted for the retry. *Inbox*: one
connection is counted at the server when the next asks, so a cap of one is met; the second alert arrives while the first
is being loaded; windows share the inbox's marks and the cap only, and a lost connection of one's own fills the cap as
another window does. *Accounts*: two requests are each other's hazard, and the third user is who remains or does not.
*Intake*: a run, the retry that meets its entry and one that comes after it has expired are three, as are two that fill a
cap and one too many; the proof covers the rest. *Shutdown*: the caps are the real ones; a writer at work and one queued
behind it are two. *Courts*: with two workers a third court waits for one of them; four rows hold two courts and not
three, raw and distinct ones apart; the second search meets the cap of fallbacks. *More*: a month of three days and one of
a single day, asked for in part or whole; two files fill an answer, three of one month are found only after a halving, and
one number occurs at both courts; a second halving repeats the first.

**Deadlock** is checked in every run but `services`, `clients`, `watch` and `alerts_list`, whose behaviours end when their
bounds on requests, runs, days, processes or clicks are used up.

## 4 Fairness

- `RWLock`: a body given to `withRead` or `withWrite` settles (all are bounded file or database work). Nothing is
  assumed about who calls.
- `Scheduler`: weak fairness on `Micro`, since the event loop always drains its microtasks; strong fairness on the
  timer, on the end of a maintenance writer, on the return of `stop()` and on the settling of each SOAP call. It has to
  be strong because these start only between macrotasks, and the queue keeps filling and emptying: the code's
  event loop serves every ready event in turn. A SOAP call settles since the runner races it against a wall-clock budget
  (`dosarSoapRunner.ts:66-101`), so `StopCompletes` shows that stop() ends once its calls do; that the race itself ends each
  call is taken from the code, not shown. Users, crashes, time and the source are not fair.
- `InstanceLock`: a process that has started goes on, and time passes. Nobody has to boot, release or crash.
- `AiQuota`: weak fairness on the microtasks, on the calls (every call to a provider has a timeout), on the passing of
  time and on the purge timer of `index.ts:866-885`. New requests, admins and crashes are not fair.
- `RnpmSplit` has no liveness property: the boot may always be killed, or refuse. The other modules are
  checked for safety only.

## 5 Proofs

All proofs are for arbitrary values of the constants, under the named assumptions that the modules state of them
(`CallerAssumption`, `SchedulerAssumption`, `SplitAssumption`, `LockAssumption`, `QuotaAssumption`, `BackupAssumption`,
`BreakerAssumption`, `BudgetAssumption`, `DailyAssumption`, `MigrationsAssumption`, `WatchAssumption`,
`SessionAssumption`, `StreamAssumption`, `IntakeAssumption`, `ShutdownAssumption`, `DosareAssumption`, `MoreAssumption`,
`SearchAssumption`:
bounds are numbers, sets that are counted are finite, lists are sequences, and a *none* value is none of the data). TLC
evaluates each of them. `TotalAssumption` is one about RNPM: below the limit a search lists as many rows as its total says,
and not fewer pages than these take. The code relies on it when it stops. What a theorem assumes beyond that is in its own
`ASSUME`.

| Theorem | States, of every instance | Assuming |
|---|---|---|
| `RWLockProofs!MutualExclusionHolds`, `NoLostWakeupHolds`, `BookkeepingExactHolds` | a writer is alone; the head of the line is blocked by someone inside; counters and queue are exact | |
| `RWLockProofs!ImplementsFifoHolds` | the lock implements `FifoRWLock` | |
| `SchedulerProofs!OneRunPerJobHolds` | one run per job | |
| `SchedulerProofs!StreakNotStaleHolds` | a scheduled run ends on the streak it was claimed with | |
| `SchedulerProofs!NoChangeSwallowedHolds` | the baseline holds no change without its alert | |
| `SchedulerProofs!AbortLeavesJobHolds` | an abort leaves the job alone | |
| `SchedulerProofs!NoOrphanRowHolds` | each running row has its runner | `MaxFaults = 0` |
| `SchedulerProofs!SourceErrorOncePerStreakHolds` | one alert per streak that reaches the threshold | `"manual" \notin Env` |
| `SchedulerProofs!StopDrainsRunsHolds` | after stop() no run is at work, for any jobs and limits | `"manual" \notin Env`, `MaxFaults = 0` |
| `ServicesProofs!NoRowLostHolds`, `ServesAllRowsHolds`, `WipeKeepsRowsHolds` | no row is lost; no half-moved user is served; a wipe destroys nothing the files lack | |
| `ServicesProofs!SplitIsAtomic` | the split implements `AtomicMove` | `"damage" \notin Env` |
| `ClientsProofs!OneHolderHolds`, `DeadBeforeStaleHolds`, `LiveLockIsKeptHolds` | one process per data directory; dead before stale; a living process keeps its file | `Sound` |
| `AiQuotaProofs!SpendIsExactHolds` | the table shows what the calls cost | |
| `AiQuotaProofs!SpendWithinLimitHolds` | what requests cost within their estimates stays within the limit, for any number of them | |
| `RnpmProofs!CommitsSurviveHolds`, `RollbackKeptHolds`, `FailedRestoreIsHarmlessHolds`, `ReplacedOnlyWhenDueHolds` | the file reads as committed; the rollback copy stays; a failed restore changes nothing; no needless rewrite | `"orphan" \notin Env` |
| `RnpmProofs!AnswerIsExactHolds` | an answer gives each row that RNPM has listed once and in order, as stored or as failed, and a split each kind, for any worlds, page and batch sizes | |
| `RnpmProofs!SavedWhileCountedHolds` | rows are stored only while a search is counted | |
| `ServicesProofs!ProbeIsAloneHolds`, `PatAloneNeverOpensHolds` | one probe at a time; failures of token callers alone never open the breaker | |
| `ServicesProofs!RepeatsAreExcusedHolds` | each budget mail of an episode beyond the first has its own excuse, and four are tried at most, for any episodes, lost answers, failing marks, deaths and readings of the time | |
| `ServicesProofs!OneReportADayHolds` | each copy of a report beyond the first answers for one that nobody marked, and no report is given up before its retries are, for any users, days, lost answers, failing marks and restarts | |
| `ServicesProofs!HandlesAreWholeHolds`, `UpgradeLeavesACopyHolds` | a file that serves has its whole schema; a file that an upgrade changes has a copy of before | |
| `WatchProofs!NothingUntoldHolds`, `MailedOnceHolds` | no hearing enters the baseline unsaid; a row is mailed once, or lost with the process or to a restore | |
| `WatchProofs!TransitionsToldHolds`, `NoFalseAlarmHolds` | each transition is said anew; a file is said gone or new only on an answer that shows it | |
| `ClientsProofs!SignedOutStaysHolds`, `RetryIsServedHolds` | a page that has signed out leaves no cookie of its own; the one retry after a 401 goes out with a cookie that serves | |
| `ClientsProofs!ListCatchesUpHolds` | a connected window with nothing left to do shows the inbox | |
| `ClientsProofs!DoneTellsAllHolds` | a "load more" that ends without a warning has told every file of the range, and each once | |
| `ClientsProofs!AdminRemainsHolds` | an active administrator remains, for any accounts and requests | |
| `ClientsProofs!ReleasedMeansQuietHolds`, `ForcedOnlyByReportHolds` | a released lock means quiet files, for any writers; the shell cuts a drain only if the report has used up the difference, for any caps that fit | |
| `ClientsProofs!CapsHoldHolds`, `KeyMeansOneRunHolds` | the caps hold and an entry is of its run, for any requests, shapes and caps | |
| `ClientsProofs!AnswerIsAccountedHolds` | every answer gives each court once, as answered or as failed, for any courts, rows and searches | |

The assumptions of the last column are not conveniences: without them the properties are false, and section 6 says
what the code then does (a damaged file is the exception: it breaks the abstract move, and no comment promises otherwise).

**FiniteSums.** The installed provers cannot instantiate an operator parameter, so the library's induction theorems are of
no use. Here induction is stated about a set instead of a predicate: a set of subsets of a finite set that holds the empty
one, and each other one whose rest it holds, holds them all (`SetInduction`; `NumberInduction` and `LeastNumber` say it
of numbers). Each use defines the set of those for which the claim holds. That a recursive function exists, without which
a fold of the community modules means nothing to the prover, is proved by the same induction, and so is what sums over
a set do when one summand changes.

**RWLockProofs.** `LockInvariant` proves `Spec => []LockInv`. Type correctness and mutual exclusion alone are not
inductive: `drain` decides on the counters, so the invariant also says that the counters agree with who is inside,
that the queue holds each waiting caller once (`BookkeepingExact`), and that the head of the queue is blocked
(`NoLostWakeup`), which the arrivals rely on. One lemma per action, each relying on facts about the granted prefix of the
queue. `ImplementsFifoHolds` maps each action to an arrival or a departure of the line: by `AdmitsPrefix` the longest prefix
that fits is one that fits and cannot be extended, which is all of the line or none of it for an arrival (`EnqueueArrives`,
`EntersAlone`) and what the loop of `drain` shifts for a departure (`DrainAdmits`).

**SchedulerProofs.** Nothing about runs is inductive without the queues: an action that serves a continuation changes
the run it names, so the proof needs that the run is where the continuation left it. `Queues` says this of `micro` and
`waiting` (`Matched`) and that no two continuations are of one run (`Apart`); the lemma `QueuesKeep` carries it over any
step that takes the head, moves runs of the head or new ones, and adds one continuation, and every action is an instance
of it. `Backed` ties a run at work to its running row, unless the job was deleted; the anti-join of a claim and the
unique index then exclude a second run, which is `OneRunPerJob`. `SchedulerInvariant` proves the conjunction, with one
lemma per action, and `TypeOKHolds` is a corollary. The properties beside it use `CalmSteps`: all but eight actions
leave rows, streaks and the end of runs alone. `StreakNotStale` needs `OneRunPerJob` (nobody else writes the
streak of a job whose run is at work) and is in turn what `SourceErrorOncePerStreak` needs, together with `Scheduled`: no
trigger by hand is queued, so every run is a scheduled one. `StopDrainsRuns` needs that the tick is at one of four stages
(`TickWay`: resting, about to claim, about to start what it has claimed, awaiting exactly the runs there are), which the
queues tell apart, and that each run that has begun is in `inflight` under its job, so that stop() finds all of them.

**ServicesProofs.**

- *The split*: `SplitInvariant` proves `Spec => []SplitInv`. The strengthening says where the data is in each phase:
  before the marker the monolith holds everything and is synced; between the first copy and the marker the copied files
  equal the monolith's rows; from the marker *wiping* on, what the files hold, what the manifest counts and what the
  backup holds are tied to `truth`; and each program counter fixes the marker it may be seen with. `SplitIsAtomic` maps
  the abstract `home` to the marker, and `data` to the monolith's rows before it and to the files' after; power losses and
  restores are included. It is proved only: no run repeats it.
- *The breaker*: the latch is set exactly while the one call that is the probe is under way; `CallsTyped` is what the
  failures and answers of overlapping calls preserve. `PatInv` says that without a failure of the system's own every count
  of those is zero and the breaker shut, a fact about every window of time at once.
- *The budget warning*: the property alone is not inductive, since a retry may begin at any moment. `Excused` counts the
  mails under way as if they were taken, against one more than the excuses, and asks that where the row would have the
  episode mailed anew and nothing is under way, the excuses cover all that was taken: the next mail is the one they leave
  free. `Numbered` says that an episode to come is untouched and that the row counts at least what was tried.
- *The daily report*: a report is `Sent` when more of it was taken than is in doubt. `NotAgain` says of each such that it is
  one more, and that the marker, the retry, the tick and what
  the tick has to do all lie past it; `Ordered` keeps retries behind the clock, and `Kept` is `NoReportForgotten` of one
  user.
- *The migrations*: the tables of a file are those its ledger names, or it has none yet (`Consistent`); a file in the
  cache is whole, but for the monolith that is being opened (`HandleInv`); and `Safe` is the copy's side: a file with data
  is as it was when it was last whole, with nothing to be done on it, or a copy of that exists.

**WatchProofs.**

- *The diffs* are folds and sequences. `StepsExist` gives the recursion of `FoldLeft`, and `KeptElements` and
  `RemoveFirstKeeps` say what a filter and a removal leave. `PassTellsAll` goes through pass 2 by induction on what it has
  read: each key read is told, and what was pending is still pending or has been merged into an alert. With pass 3 that is
  `HearingsTold`, each new hearing of the kinds the user wants. `PickedIsFollowed` says that a row is picked from the
  stadii of the baseline whenever the answer has one.
- *The run*: `Together` is said of the database and of its backup alike, so that a restore keeps it: a transition in the
  inbox is anchored on a baseline before the one that stands, each hearing of the baseline is told or silenced and passes
  the filter it was taken with, and the files seen are in the baseline. The backup's inbox is part of today's and its
  anchor not past today's, so no dedup key comes before its baseline (`SaidAnew`), and a restore adds no alarm. `Mailing`
  shares the rows out: mailed, the run's to mail, or lost.

**AiQuotaProofs.** `SpendIsExact` speaks of requests that have ended; between a call and the microtask that records it the
table is behind. The invariant adds what the deferred writes still owe (`Owed`) to what the table shows (`Balance`), and
needs for it that a single call's record is the first write of its stretch and finds its reservation pending (`Settling`),
that only an ended request is released, and that a pending reservation has cost nothing (`Unpaid`). `SpendWithinLimit` is
a sum over requests: each weighs its estimate while it is at work, and what it has cost within its estimate once it has
ended. The reserve is one transaction, so the others weigh no more than the table shows and the estimate fits on top
(`ReserveWithin`); whoever is at work is in the table with the estimate (`LimitInv`).

**RnpmProofs.**

- *Restore and compaction*: what a step of a restore may rely on depends on the steps before it: after `close` there is no
  handle, after `unlink` no WAL, the rollback copy is in the jail, the newest of its pool and not pruned
  (`Restoring`, `RollbackIsNewest`), and the latch has kept searches out since the beginning (`Held`). `Rewriting` and
  `BackingUp` say the same of compactions and backups.
- *Searches*: a page is a slice of what RNPM lists, so that pages in hand are one slice too, which grows by the next page
  (`ListedGrows`); `Gathered` says which slice it is at each program counter. `Lost` is the set of rows gone through without
  an id, and `Marked` that the failed ones are counted by it and nothing else: a batch adds its bad rows to it, the second
  pass takes out those recovered, which need the fetches to be of rows in it (`Fetching`). At the end no row is left to go
  through, and what RNPM said are its pages ends the search at the last one (`LastPage`). For a split, `Tells` relates
  labels, counts and rows of the kinds that are done; one more kind, or all the others as stopped, keep it (`TellsMore`,
  `TellsTheRest`), and what fail-fast leaves out has no rows. `Counting` is the owner's count of searches, exactly: one for
  each that has begun and one for the split around it; a fetch that writes belongs to one of them.

**ClientsProofs.**

- *The instance lock*: `OneHolder` depends on who may rename a lock away. The invariant says that one process at most is
  behind the gate (`GateHeld`), that the file is of whoever created it last, living or dead (`Owned`), that it is missing
  only at first or while the reclaimer is about to write it (`Missing`), that what is renamed away is of a dead process
  (`RenamesDead`), and that a lock's age is the heartbeats its process has missed plus its shutdown (`AgeIsMisses`,
  `Timers`), so that a lock which looks stale is of a process that is gone. `Sound` is the code's timing and the faults
  for which the promises are made: `MaxMisses < StaleAge`, `MaxMisses + Drain <= StaleAge`, only misses and crashes.
- *The session*: a token on its way to the jar is live and in no logout's hands (`OnItsWay`); a re-mint that nothing has
  upset may be gone by (`Counts`); a page mints nothing from its logout on (`Gone`). Together they leave a retry a cookie
  that serves.
- *The alerts list*: `CatchingUp` names, for a window that does not show the inbox, what is still to happen after which it
  asks again: an event to be read, a click under way, a load.
- *Accounts*: types and `AdminRemains` are inductive together. `CheckedChange` is the argument of the code: the check for
  another administrator and the write are in one transaction, so what was read is what is written over;
  `AdministratorsStay` covers the writes that are not checked, since they touch free addresses only.
- *Shutdown*: `ForcedOnlyByReport` needs an account of time: `time` is at most the caps of the stages that are over, plus
  `since`, plus what was waited for the report, and `since` never passes the cap of its stage. `ReleasedMeansQuiet` needs
  that from the stage *settle* on every new write is refused, so that no write in flight when the lock is released means
  none later.
- *RnpmIntake*: the books say that what was let in is what is charged, but for the failed records, and that the charges
  stay within the caps because count and charge are one step; `KeyMeansOneRun` is inductive with the types, each action of
  one request leaving the other requests' runs alone.
- *DosareSearch*: `Partition` says that each court asked for is in exactly one of not taken, being asked, answered and
  failed, of which only a search whose client has gone may lose some, and that search gives no answer; the number of
  fallbacks is the cardinality of those running (`OneSearchMoves`).
- *"Load more"*: `Covered` says that a file of the range is known when its court is done, and found or in an interval
  still to be asked for when its month is; the months, ranked by their ends, cover the range, because there is a first
  that ends on or after a day (`LeastNumber`), and the halves of an interval cover it. `Tallied` counts each number sent
  once.

**Proved and not run.** `MutualExclusion` and `BookkeepingExact` of the lock, `LiveLockIsKept` and `DeadBeforeStale` of
the instance lock, `ServesAllRows` and `WipeKeepsRows` of the split, `StreakNotStale` and `AbortLeavesJob` of the
scheduler and `ProbeIsAlone` of the breaker are theorems; no run repeats them.

**Only model-checked.** Every safety property of a passing run is proved. `SplitBrainHeals` and all other liveness are left
to TLC: liveness under fairness and `ENABLED` are out of the prover's reach. No module here uses `RECURSIVE`.

## 6 Where the code departs from its comments

Seen while modelling. The runs `boot_swallowed` and `alerts_list` show two of them. The others with a setting are reproduced by
checking the property named, added to the configuration if it is not there, with that setting: TLC then prints the trace.

### Scheduler

- **A run that stop() does not see.** `scheduler.ts:222-223` promises to abort and await every in-flight runner. Behind a
  maintenance writer, the finalize of run A and the insert of a manual trigger of the same job resume in one drain. A's row
  is terminal, so the insert is allowed; A's `.finally(() => inflight.delete(job.id))` comes after the new run has
  entered the map under the same key, and removes *its* entry. The new run is neither aborted nor awaited. With `"manual"` in
  the `Env` of `MCSchedTicks`, `StopDrainsRuns` and `RunsAreTracked` fail.
- **A job goes dark after one transient fault.** `scheduler.ts:363-366` says the loop survives transient faults and that a
  broken database surfaces as `source_error`. If the finalize transaction of a scheduled run throws once, its row stays
  `running` until a restart, and `claimDueJobs` never claims the job: no run, no alert. The catch that closes the row
  exists for manual runs only (`scheduler.ts:322-352`). With `MaxFaults = 1` in `MCSchedTicks`, `NoOrphanRow` fails;
  `sched_ticks` and `sched_live` run without faults, so `NoOrphanRow` and `DueJobIsServed` say nothing of it.
- `stop()` awaits `Promise.all` (`scheduler.ts:229`), which settles with the first rejection: with `MaxFaults = 1`
  and `Limit = 2`, `StopDrainsRuns` fails while other runs are still at work.
- A manual trigger takes its copy of the job before it waits for the lock. A scheduled run in between makes the copy's
  streak stale, and the manual run writes it back: an increment is lost, or `source_error` is raised twice. With `"manual"` in
  `MCSchedTicks`, `SourceErrorOncePerStreak` fails; for this reason `StreakNotStale` is stated of scheduled runs.
- A cadence changed by PATCH while the job runs is overwritten: `scheduler.ts:638` computes `next_run_at` from the cadence
  read at claim time. The comment of `monitoringJobsRepository.ts:399-403` calls `markJobOutcome` the only writer of
  `next_run_at`, but `updateJob` writes it too (line 322).

### Instance lock and split

- **Two holders.** The lock file is created and written by two calls (`instanceLock.ts:55-63`). A boot that reads in between
  sees an invalid record, takes it for a dead lock and renames it away. With `"torn"` in the `Env` of `MCClients`,
  `OneHolder` fails.
- `releaseInstanceLock` reads and unlinks in two steps: with `"release"` there, `LiveLockIsKept` fails. A gate
  left by a crash is unlinked by name (`instanceLock.ts:96-107`), possibly after another boot has replaced it: with `"orphan"`
  and a fifth process, `OneHolder` and `LiveLockIsKept` fail. `SplitBrainHeals` shows that the heartbeat repairs this.
- `index.ts:614-616` notes that the split blocks the event loop. The heartbeat then does not run, while
  another host judges the lock by its age alone (`instanceLock.ts:186-187`): with `"block"` there, `DeadBeforeStale` fails.
- A power loss after the marker *done*: the wipe is committed without fsync, the marker with one
  (`rnpmSplitter.ts:574-612`, `schema.ts:113-120`). The machine may come back with the marker and without the wipe, and the
  boot then refuses a monolith that nobody has restored: `ReappearedMeansRestored` fails in `MCServices`. No row is lost.

### Backup and restore

- **A WAL unlinked before its time.** A killed process leaves its last commits in the WAL. Compaction and restore unlink
  the WAL of the live file before they rename the new file over it (`backup.ts:1018-1029`, 556-575); `VACUUM INTO` has
  read the WAL, but if the rename then fails, the old file stays without those commits. The comment of `backup.ts:577-579`
  says that a failed rename leaves the live file old and valid. With `"orphan"` in the `Env` of `MCRestore`,
  `CommitsSurvive` fails.
- Each failed attempt to restore takes a rollback copy first, and the pool keeps two: a second failed attempt pushes the
  good copy out. A live file that is damaged cannot be restored through the API at all, since the snapshot of it fails.
  Without a file before, a failed probe leaves the restored one in place (`backup.ts:593-612`).

### AI quota, budget warning, daily report

- `index.ts:768-773` calls what the purge removes "orphan reservations from crashed SDK calls", but a multi request may
  outlast the 300 s (180 s for the analysts, 180 s for the judge, more where `callOpenAI` falls back): its live reservation is
  purged, and another request may be admitted into the same money. `SpendWithinLimit` leaves such requests
  out through `exposed`; without that it fails. `SpendIsExact` holds of them: their calls insert rows of their own.
- While a multi request streams, its pending estimate and the rows of its analysts are both in the sum
  (`aiUsageRepository.ts:317-322`): the guard is stricter meanwhile than what was spent, and a warning may be sent early.
- **Mails told again.** `CHANGELOG.md:596` promises one mail per active episode. Three things break it, besides a death of
  the process or a mark that fails. An answer lost after the server took the mail is `send_failed` (`mailer.ts:199-217`, with
  a `socketTimeout` of 15 s at line 66), the row stays unsent and the retry mails the episode again. A slow mail has no limit
  as a whole (`mailer.ts:64-66` bound the connection, the greeting and silence), so the retry may begin beside it. And
  `datetime('now')` is UTC without a zone, which `budgetWarningService.ts:137-141` and `budgetNotificationsRepository.ts:204`
  parse as local time: east of Greenwich a mail just attempted looks hours old, so that neither backoff nor cooldown waits.
  All three are steps of `BudgetWarning`, and `RepeatsAreExcused` allows one mail more for each such cause, and no other. The
  retry of `dailyReportScheduler.ts:336-338` repeats a report whose answer was lost in the same way (`OneReportADay`).
- `email_attempts` is never reset: after four attempts in a lifetime, the failed mail of a later episode is not
  retried. The retry loop does not look at the hour's cooldown. A slow mail of one episode can mark the next as sent.
- The comment of `dailyReportScheduler.ts:24-27` says there is no retry, though there is one. Its third backoff is never waited,
  since exhaustion is tested before it (comment at 36-42). Retries live in memory and are lost at a restart; while an old one
  that has passed midnight is alive, the first send of the new day waits for it.

### RNPM search

- `/search-split` and `/bulk` register their abort listener without looking whether the signal has already fired; only
  `/search` looks (`routes/rnpm.ts:530-537`). A client that leaves before that point is served to the end.
- `DELETE /searches/:id` during a search makes its later saves fail on the foreign key; in a split each later part
  makes a row of its own.
- A nested part is reported *recovered* though one of its destinations is refused or incomplete, and a destination
  that failed is reported as *residual_unclassified*. A storage stop in the second tier leaves documents that are already
  stored out of the answer and of the total. Rows stored by a part that is then aborted are not counted, though the comment at
  `rnpmSearchService.ts:1096-1097` says otherwise. The captchas used by a split count one more on any error, and none
  where a nested part throws.
- **A bulk that is cut is told as complete.** The loop of `executeBulkSearchInner` returns when its signal is aborted
  (`rnpmSearchService.ts:631, 664`), and the route then sends `complete`: the branch that should tell `aborted` from `timeout`
  (`routes/rnpm.ts:854-863`) is not reached that way. `BulkReturns` has it.
- **The entry of somebody else.** `clearInflight` removes by name (`routes/rnpm.ts:414-421`). A run that outlasts its
  entry's time removes, when it ends, the entry of the retry that was let in meanwhile, and a third request with the same
  id is let in beside the second. `KeyMeansOneRun` leaves such ids out through `outlived`; JSON searches have no limit of
  their own.
- A request that is answered 409 or 400 has been charged (`routes/rnpm.ts:439-514`), though the restore guard was moved
  before the charge so that a refusal costs nothing (447-450). One row is written for a request whatever it spends: a
  bulk, a split or a race uses many captchas. The comment of `rnpmGuards.ts:193-196` says that the count never
  undercounts; the `catch` at 207 lets a request in whose record has failed, which `CapsHold` counts as `free`.
- Read only: when both captcha providers of a race are out of funds, the class of the error is lost (`captchaSolver.ts`), and a
  click on the history during a search leaves `RnpmSearch.tsx` with the parameters of a search that has not run.

### Court files

- Load-more tells files apart by number (`batch-dosare.ts:53`, `dosare.ts:356-357`), `GET /dosare` by institution and
  number: a case that has the same number at two courts is sent once. `DoneTellsAll` is of numbers for that reason.
- The cap of `dosare.ts:301-302` is on months times courts; halving multiplies the calls beyond it. `splitInterval` of a single
  day (`intervals.ts:54-65`) gives the same day again and an inverted interval.

### Shutdown

- The shell's comment (`main.js:73-78`) wants quits held back until the drain is over; during it a second quit meets
  `backendShutdownStarted` and is not prevented (line 95).
- The 75 s of `main.js:85-89` are the caps of three stages and a margin; `stopDailyReportScheduler`, between them, has
  none. A report whose mails hang uses up the margin and then the settling of the writers (`ForcedOnlyByReport` says that
  only it can); on a server, where there is no watchdog, the drain waits for it as long as it takes.

### Alerts

- The dedup key of a hearing holds for the life of a job, so that a change of it that is undone and made again, or a ruling
  withdrawn and replaced, is swallowed the second time. `TransitionsTold` is of the transitions of the case itself, whose keys
  carry an anchor.
- A case with the same number at two institutions, one of which fails, is told as a change of its stage
  (`stadiu_changed`). `MCAlertWatch` gives each case one home.
- In the name runner, a failure of the section that writes `source_partial` comes after the commit of the alerts
  and loses their mails (`nameSoapRunner.ts:196-220`). A monolith restored during a run can lead to a mail about an alert that
  is no longer in the inbox.

### ICCJ breaker

- `openedAt = now` is the *start* of the failing call (`iccjBreaker.ts:52, 76, 97`), and the timeout of a call is as long as the
  cooldown, 30 s: when failures are timeouts, the cooldown is over the moment the breaker opens, though the comment at line 58
  says that every class yields during it. `CooldownIsKept` fails in `MCServices`. A call that began earlier and fails later
  can also move the opening back, or open the breaker again after its probe has succeeded.

### Migrations and boot

- **A failed migration does not stop a desktop boot.** The gate of `index.ts:573-580` opens the database and ends the
  process if that fails. On the desktop the promotion of the local user (561-571) opens it first, inside a `catch` that
  only logs, and `schema.ts:110` has cached the handle before the migrations run: the gate's `getDb()` then returns it,
  and the server starts over a database that is half migrated, newer than the program, or drifted. The run
  `boot_swallowed` violates `FailedMigrationStopsBoot`; `HandlesAreWhole` and `UpgradeLeavesACopy` are stated of boots
  where this has not happened.
- A database old enough to keep its texts inline can no longer be upgraded in one go: migration 0022 alters
  `rnpm_bunuri_descrieri` (line 43), which only the legacy block after all migrations creates (`schema.ts:425-430`). `Applies`
  has it.
- The jail keeps two pre-migration copies of a user's file: an upgrade that fails again and again, each time after some more
  of its versions are in, would push out the copy of the whole file. With one new migration per release, as now, it cannot.

### Session, alert windows, accounts

- **The list of other filters.** `Alerts.tsx:154-156` aborts the load in flight so that a late answer does not overwrite
  fresh state. After a PATCH, `markSeen` and its like call the load of the render they were clicked in: if the filters have
  changed since, it aborts the new list and shows the old one's rows under the new filters. The run `alerts_list` violates
  `ListIsOfView`.
- `api.ts:204-208` says that the guard covers a second tab that starts while another logs out, but `logoutInProgress` is a
  variable of one tab: the other still mints a session that nobody revokes. `SignedOutStays` is of the tab that signs out.
  The header of `useSessionBootstrap.ts:17-23` says that the bootstrap's syncs are not tracked by `beginLogout`;
  `api.ts:201` tracks them.
- The margin of `api.ts:153-156` (15 minutes of an hour) is said to exceed the keep-alive's 50 minutes; it exceeds what is left
  after them.
- `monitoringAlertsRepository.ts:267-271` says that the transaction commits and then listeners see the row. That is so of
  its own transaction; when it is nested in a run's that rolls back, the microtask is queued all the same, and a window
  hears of an alert that is not there. It only loads its list once more.
- A window over the cap of subscribers gets `open` before `error`. The first resets its backoff, so it asks again every second,
  until a dead connection of its owner is cleaned up.
- The badge is refreshed from the server on each event, "to avoid racing" (`useAlertsStream.ts:202`), but two such requests
  are not ordered: the older answer may land last.
- A request authorised before its author is demoted or suspended still commits (`Accounts`). An active administrator remains
  all the same.

## 7 What is not modelled

- In the scheduler: the daily purge of old runs and alerts (`scheduler.ts:379-495`, deletes closed rows only), the HTTP
  answers, and the `source_error` of a snapshot that is too large (`AlertWatch` has the oversize snapshot itself). The
  name runner and the mails are in `AlertWatch`, not in `Scheduler`.
- In the splitter: the foreign keys and schema versions (they are reasons of `Fails`), SQL, and the wording of errors.
- In the instance lock: the Windows fallback of rename and the identity of a reused pid on one host: a pid belongs to
  one process.
- In backup and restore: version and ledger checks of a backup file, the offsite copy, and power losses.
- In the AI quota: the sliding of the window, the retention purge, `Retry-After` and prices.
- In the RNPM search: the searches inside `POST /bulk` (each is a single search; the loop around them is in `RnpmIntake`), the
  captcha providers, and the reading of RNPM's pages.
- In the search for court files: what the code drops from the client's list of known files (`existing`: items that are
  empty or over 100 characters, all of it when the body cannot be read), which only makes a file be sent again; a court
  named twice in one request (its files are told apart by number, so it costs calls only); the reading of SOAP answers,
  the filters applied to rows before they are sent, and the exports.
- In the shutdown: the purge and backup timers (cleared without waiting), and the order of log and audit.
- In the alerts: the dispatcher's queue, SMTP, the filter by `categorii` (of the same form as that by `stadii`), baselines of
  version 1, the strict match of names, and the wording.
- In migrations: the content of each one, down-migrations (a script of the operator's), and power losses.
- In the session: `POST /auth/refresh` (nothing in the frontend calls it), the issue of personal access tokens and
  their usage audit, and the origin guard.
- In the alert windows: the badge, desktop notifications, bulk marking (the same call over several alerts) and exports.
- In the accounts: quota overrides, grants and keys of the same router, and the audit views.
- In the daily report: the hour that does not exist at the change to summer time.
- Whole components: text processing and I/O (PortalJust client, scraper, exports), request-scoped checks (rate limits),
  the other pages of the frontend, the window and updater of the Electron shell, the deployment. Nearly half of the
  implementation's lines are the frontend's pages and texts; the models cover protocols, which are a small share of the
  lines and most of what a test does not reach. `PROJECT.json` gives the reason for each component.

## 8 Plan

| Step | What | Why |
|---|---|---|
| 1 | `Scheduler` over a restored monolith: a restore that puts back `running` rows, composed with `BackupRestore`'s rename | hazard at `scheduler.ts:142` |

The project keeps to a dozen runs, so that all can be repeated on each change.

## Running

    tlc -workers 2 -config MCSchedAll.cfg MCScheduler.tla
    tlapm SchedulerProofs.tla
