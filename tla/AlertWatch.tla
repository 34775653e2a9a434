----------------------------- MODULE AlertWatch -----------------------------
(***************************************************************************)
(* One watched job, a case file (dosarSoapRunner.ts) or a name             *)
(* (nameSoapRunner.ts), from what PortalJust answers to the alerts in the  *)
(* user's inbox and the mails sent of them, through PATCHes of the filter, *)
(* crashes and restores of an older database.                              *)
(*                                                                         *)
(* An alert stands for its row and for its dedup key.  The scheduler       *)
(* claims a job once at a time (Scheduler), so there is one run.  The      *)
(* baseline, the inbox, the filter and the run rows are in the monolith;   *)
(* the run and its results are in memory.  mailed, twice, lost, quiet and  *)
(* seen only observe.                                                      *)
(***************************************************************************)
EXTENDS NameDiff

CONSTANTS
    Lookups,     \* what PortalJust has of the file: sequences of rows
    Worlds,      \* what it has under the name: case files to stadiu
    Configs,     \* alert configurations
    MaxRuns,     \* bound on the rows of monitoring_runs
    MaxUpsets    \* bound on crashes, restores and PATCHes together

\* The stadii that case files have.
Listed == UNION {{world[d] : d \in DOMAIN world} : world \in Worlds}

ASSUME WatchAssumption ==
    /\ Worlds # {} /\ Lookups # {} /\ Configs # {}
    /\ {MaxRuns, MaxUpsets} \subseteq Nat
    /\ \A rows \in Lookups :
         /\ rows \in Seq(Elements(rows)) /\ Null \notin Elements(rows)
         /\ \A d \in Elements(rows) : d.sedinte \in Seq(Elements(d.sedinte))
    /\ \A world \in Worlds : DOMAIN world \subseteq Dosare
    /\ \A files \in SUBSET Dosare : Null \notin [files -> Listed]

VARIABLES
    kind,     \* job.kind
    config,   \* job.alert_config_json
    baseline, \* payload of the job's row of monitoring_snapshots, or Null
    snapId,   \* id of that row: AUTOINCREMENT
    inbox,    \* the job's rows of monitoring_alerts
    lastRun,  \* last id of monitoring_runs
    pc, run,  \* the run in progress
    mailed,   \* the alerts of the inbox a mail went out for
    twice,    \* a mail went out for a row a second time
    quiet,    \* hearings that are to enter the baseline without an alert
    seen,     \* case files each institution gave when it last answered
    lost,     \* alerts inserted by a run that did not come to its mails
    copy,     \* a backup of the monolith
    upsets

stored == <<config, baseline, snapId, inbox, lastRun, quiet, seen>>
mails == <<mailed, twice, lost>>
vars == <<kind, stored, pc, run, mails, copy, upsets>>

Institutions == {Home[d] : d \in Dosare}

NoRun == [id |-> 0, config |-> Null, found |-> <<>>, failed |-> {}, results |-> {}]

Stored == [config |-> config, baseline |-> baseline, snapId |-> snapId,
           inbox |-> inbox, lastRun |-> lastRun, quiet |-> quiet, seen |-> seen]

Init ==
    /\ kind \in {"dosar", "name"} /\ config \in Configs
    /\ baseline = Null /\ snapId = 0 /\ inbox = {} /\ lastRun = 0
    /\ pc = "idle" /\ run = NoRun
    /\ mailed = {} /\ twice = FALSE /\ quiet = {} /\ seen = {} /\ lost = {}
    /\ copy = Null /\ upsets = 0

-----------------------------------------------------------------------------
(* The run up to the answer. *)

\* The scheduler has inserted the run's row; the filter is read here.
Start ==
    /\ pc = "idle" /\ lastRun < MaxRuns
    /\ lastRun' = lastRun + 1
    /\ run' = [NoRun EXCEPT !.id = lastRun + 1, !.config = config]
    /\ pc' = "fetch"
    /\ UNCHANGED <<kind, config, baseline, snapId, inbox, quiet, seen,
                   mails, copy, upsets>>

Finish ==
    /\ pc' = "idle" /\ run' = NoRun
    /\ UNCHANGED <<kind, copy, upsets>>

\* searchDosare, without a lock.
LookupAnswers ==
    /\ pc = "fetch" /\ kind = "dosar"
    /\ \E rows \in Lookups : run' = [run EXCEPT !.found = rows]
    /\ pc' = "commit"
    /\ UNCHANGED <<kind, stored, mails, copy, upsets>>

\* fetchForTarget: institutions one by one, those that fail left out.
FanOutAnswers ==
    /\ pc = "fetch" /\ kind = "name"
    /\ \E world \in Worlds, failed \in (SUBSET Institutions) \ {Institutions} :
         run' = [run EXCEPT !.failed = failed,
                            !.found = [d \in {e \in DOMAIN world : Home[e] \notin failed}
                                         |-> world[d]]]
    /\ pc' = "commit"
    /\ UNCHANGED <<kind, stored, mails, copy, upsets>>

\* Every institution failed, the budget is spent or the run was cancelled:
\* an outcome for the scheduler and nothing else.
FetchFails ==
    /\ pc = "fetch"
    /\ Finish
    /\ UNCHANGED <<stored, mails>>

-----------------------------------------------------------------------------
(* The section under the maintenance read lock: one synchronous step. *)

\* MUTANT: an alert that was there already counts as inserted.
AnyRow(alerts) == alerts

\* ON CONFLICT(job_id, dedup_key) DO NOTHING.
Inserted(alerts) == alerts \ inbox

\* run_id and job_id are foreign keys.
Known == run.id <= lastRun

Diff ==
    IF kind = "dosar"
    THEN DiffDosar(baseline, PickWatched(run.found, baseline), run.config, snapId)
    ELSE DiffName(baseline, run.found, run.failed, run.config, snapId)

\* Two courts have the number: said once for every set of courts.
SeveralCourts ==
    IF kind = "dosar" /\ Len(run.found) > 1
    THEN {Alert("source_partial", {row.stadiu : row \in Elements(run.found)}, Null, Null, 0)}
    ELSE {}

\* What the watch takes over in silence: a first look, another filter, a
\* file that is back, and the kinds the user has switched off.
Silenced(prev, new) ==
    LET fresh == Elements(new.keys) \ Elements(prev.keys)
    IN  IF prev.fp # new.fp \/ ~prev.present THEN Elements(new.keys)
        ELSE {k \in fresh : ~run.config.hearings \/ (k.sol # "" /\ ~run.config.rulings)}

Observe(new) ==
    /\ quiet' = IF kind = "name" THEN {}
                ELSE quiet \cup (IF baseline = Null THEN Elements(new.keys)
                                 ELSE Silenced(baseline, new))
    /\ seen' = IF kind = "dosar" THEN {}
               ELSE {d \in seen : Home[d] \in run.failed} \cup DOMAIN run.found

Commit ==
    /\ pc = "commit" /\ Known
    /\ baseline' = Diff.baseline /\ snapId' = snapId + 1
    /\ inbox' = inbox \cup Diff.alerts \cup SeveralCourts
    /\ run' = [run EXCEPT !.results = Inserted(Diff.alerts \cup SeveralCourts)]
    /\ pc' = IF run.failed = {} THEN "dispatch" ELSE "partial"
    /\ Observe(Diff.baseline)
    /\ UNCHANGED <<kind, config, lastRun, mails, copy, upsets>>

OversizeAlert == Alert("source_error", Null, Null, Null, run.id)

\* A payload above the cap is not written: the baseline stays, for the next
\* diff to say everything.
CommitOversize ==
    /\ pc = "commit" /\ Known
    /\ Diff.baseline # baseline
    /\ inbox' = inbox \cup {OversizeAlert}
    /\ run' = [run EXCEPT !.results = Inserted({OversizeAlert})]
    /\ pc' = "dispatch"
    /\ UNCHANGED <<kind, config, baseline, snapId, lastRun, quiet, seen,
                   mails, copy, upsets>>

\* The transaction rolls back and the mails with it: a full disk, or a run
\* whose row the restored database does not have.
CommitFails ==
    /\ pc = "commit" /\ (Known => upsets < MaxUpsets)
    /\ upsets' = IF Known THEN upsets + 1 ELSE upsets
    /\ pc' = "idle" /\ run' = NoRun
    /\ UNCHANGED <<kind, stored, mails, copy>>

-----------------------------------------------------------------------------
(* After the commit. *)

PartialAlert == Alert("source_partial", Null, Null, Null, run.id)

\* A second read section, of the name runner: it may queue behind a writer.
TellPartial ==
    /\ pc = "partial" /\ Known
    /\ inbox' = inbox \cup {PartialAlert}
    /\ run' = [run EXCEPT !.results = @ \cup Inserted({PartialAlert})]
    /\ pc' = "dispatch"
    /\ UNCHANGED <<kind, config, baseline, snapId, lastRun, quiet, seen,
                   mails, copy, upsets>>

\* It throws: the mails of what is already committed never go out.
TellPartialFails ==
    /\ pc = "partial" /\ ~Known
    /\ lost' = lost \cup run.results
    /\ Finish
    /\ UNCHANGED <<stored, mailed, twice>>

\* dispatchInsertedAlertEmails: the rows this run has inserted.
Dispatch ==
    /\ pc = "dispatch"
    /\ mailed' = mailed \cup (run.results \cap inbox)
    /\ twice' = (twice \/ run.results \cap mailed # {})
    /\ Finish
    /\ UNCHANGED <<stored, lost>>

-----------------------------------------------------------------------------
(* The surroundings. *)

Crash ==
    /\ pc # "idle" /\ upsets < MaxUpsets
    /\ upsets' = upsets + 1
    /\ lost' = lost \cup run.results
    /\ pc' = "idle" /\ run' = NoRun
    /\ UNCHANGED <<kind, stored, mailed, twice, copy>>

Patch ==
    /\ upsets < MaxUpsets
    /\ \E new \in Configs \ {config} : config' = new
    /\ upsets' = upsets + 1
    /\ UNCHANGED <<kind, baseline, snapId, inbox, lastRun, pc, run, quiet, seen,
                   mails, copy>>

\* From the end of the read section to the mails no other task runs.
Unlocked == pc # "dispatch"

TakeBackup ==
    /\ Unlocked /\ copy = Null /\ upsets < MaxUpsets
    /\ copy' = Stored
    /\ UNCHANGED <<kind, stored, pc, run, mails, upsets>>

RestoreMonolith ==
    /\ Unlocked /\ copy # Null /\ upsets < MaxUpsets
    /\ config' = copy.config /\ baseline' = copy.baseline /\ snapId' = copy.snapId
    /\ inbox' = copy.inbox /\ lastRun' = copy.lastRun
    /\ quiet' = copy.quiet /\ seen' = copy.seen
    /\ mailed' = mailed \cap copy.inbox
    /\ upsets' = upsets + 1
    /\ UNCHANGED <<kind, pc, run, twice, lost, copy>>

Next ==
    \/ Start \/ LookupAnswers \/ FanOutAnswers \/ FetchFails
    \/ Commit \/ CommitOversize \/ CommitFails
    \/ TellPartial \/ TellPartialFails \/ Dispatch
    \/ Crash \/ Patch \/ TakeBackup \/ RestoreMonolith

Spec == Init /\ [][Next]_vars

-----------------------------------------------------------------------------
(* What the watch promises. *)

TypeOK ==
    /\ kind \in {"dosar", "name"} /\ config \in Configs
    /\ pc \in {"idle", "fetch", "commit", "partial", "dispatch"}
    /\ {snapId, lastRun} \subseteq Nat /\ lastRun <= MaxRuns
    /\ mailed \subseteq inbox /\ seen \subseteq Dosare
    /\ twice \in BOOLEAN

Tells(alert, k) ==
    \/ alert.to = k
    \/ /\ alert.kind \in {"solutie_aparuta", "termen_dupa_solutie"}
       /\ k.sol # "" /\ alert.from = Sub(k)

\* Every hearing the baseline holds, with the ruling it holds, is named by an
\* alert of the inbox, or was taken over in silence: baseline and alerts commit
\* together, and the three passes that share out the new hearings and the
\* rulings drop none (diffDosarSoap, the transaction of dosarSoapRunner).
NothingUntold ==
    (kind = "dosar" /\ baseline # Null) =>
        \A k \in Elements(baseline.keys) : k \in quiet \/ \E a \in inbox : Tells(a, k)

Committed == pc = "commit" /\ snapId' = snapId + 1 /\ UNCHANGED lastRun
Told(about, subj) == \E a \in inbox' \ inbox : a.kind = about /\ a.subj = subj

FileTold(prev, new) ==
    prev # Null /\ prev.fp = new.fp =>
        /\ prev.present /\ ~new.present /\ run.config.gone => Told("dosar_disappeared", Null)
        /\ ~prev.present /\ new.present => Told("dosar_new", Null)

NameTold(prev, new, d) ==
    LET before == Relevant(prev, d, run.config)
        now == Relevant(new, d, run.config)
    IN  IF d \in DOMAIN prev /\ d \in DOMAIN new
        THEN /\ prev[d] # new[d] /\ (before \/ now) => Told("stadiu_changed", d)
             /\ before # now => \/ Told("dosar_relevant_now", d)
                                \/ Told("dosar_no_longer_relevant", d)
        ELSE /\ now /\ d \notin Historic => Told("dosar_new", d)
             /\ before /\ run.config.gone => Told("dosar_disappeared", d)

\* Each time the baseline goes from there to gone, back, to another stadiu or
\* across the filter, a new alert says so, the second time as the first: its
\* dedup key, anchored on the baseline, is no key an earlier transition used
\* (transitionAnchor, dedupKey of nameSoap.ts).
TransitionsTold ==
    [][Committed =>
         IF kind = "dosar" THEN FileTold(baseline, baseline')
         ELSE \A d \in Dosare :
                NameTold(IF baseline = Null THEN <<>> ELSE baseline, baseline', d)]_vars

Stadii(keys) == {k.stadiu : k \in Elements(keys)}

\* An alarm is about the world, not about an answer that did not come: a file
\* has gone only if its institution answered without it, it is new only if its
\* institution did not have it when it last answered (failedInstitutii of
\* diffNameSoap), and a file followed at one court does not go because the
\* rows come in another order (pickWatchedDosar).
NoFalseAlarm ==
    [][\A a \in inbox' \ inbox :
         /\ kind = "name" /\ a.kind = "dosar_disappeared" =>
                Home[a.subj] \notin run.failed /\ a.subj \notin DOMAIN run.found
         /\ kind = "name" /\ a.kind = "dosar_new" => a.subj \notin seen
         /\ kind = "dosar" /\ a.kind = "dosar_disappeared" =>
                Stadii(baseline.keys) \cap {row.stadiu : row \in Elements(run.found)} = {}]_vars

\* However often a run finds an alert again, after a retry, a rollback or a
\* restore of an older inbox, its row is mailed once; and not at all only if
\* the process died, or a restore took the run's row away, between the commit
\* and the mails (dispatchInsertedAlertEmails takes the inserted ones).
MailedOnce == ~twice /\ (pc = "idle" => inbox \ mailed \subseteq lost)
=============================================================================
