---------------------------- MODULE BackupRestore ----------------------------
(***************************************************************************)
(* One user's RNPM database file and its backups: searches and edits that  *)
(* write to it, backups, restores, compactions and "delete all", with      *)
(* failing steps and kills of the process at every point (db/backup.ts,    *)
(* db/backupPrune.ts, db/rnpmDb.ts, db/rnpmActivity.ts).  The monolith is  *)
(* restored by the same code, with a global latch in place of the user's.  *)
(*                                                                         *)
(* SQLite is its contract: the file reads as what its WAL says, the last   *)
(* connection to close copies the WAL into the file and removes it, and a  *)
(* WAL found beside another file than its own spoils it.  An operation     *)
(* holds the maintenance write lock from its first step to its last, so    *)
(* there is one at a time; a step ends where another request may run.      *)
(***************************************************************************)
EXTENDS Naturals, FiniteSets

CONSTANTS
    Rows,         \* rows of the user's database
    Searches,     \* searches of the user
    Retain,       \* RNPM_RETAIN: how many backups of each pool are kept
    Env,          \* {"lost", "orphan"}: what may happen besides
    MaxBackups,   \* bound: backups ever taken
    MaxFaults,    \* bound: steps that fail
    Absent, Bad,  \* no file; a file that integrity_check rejects
    NoWal, None

Pools == {"dated", "manual", "preRestore"}

ASSUME BackupAssumption ==
    /\ Retain \in [Pools -> Nat \ {0}]
    /\ MaxBackups \in Nat /\ MaxFaults \in Nat
    /\ \A c \in SUBSET Rows : c \notin {Absent, Bad, NoWal, None}
    /\ Absent \notin {Bad, NoWal, None} /\ Bad \notin {NoWal, None} /\ NoWal # None
    /\ None \notin [pool : Pools, id : 1..MaxBackups, content : SUBSET Rows]

VARIABLES
    main,      \* what the database file holds
    wal,       \* what it reads as with its WAL, if there is one
    open,      \* the registry has a handle on it
    latch,     \* isRnpmRestoreInProgress
    searches,  \* activeSearches
    op,        \* the operation that holds the write lock
    tmp,       \* the file that VACUUM INTO has written
    jail,      \* the user's backups
    taken,     \* backups taken so far
    faults,    \* failed steps so far
    slack,     \* much of the file is free pages
    asked,     \* automatic compactions that wait for the write lock
    committed, \* what the last commit or restore has left in the database
    undo,      \* what the last restore has replaced
    outcome    \* of the last operation

file == <<main, wal, open>>
backups == <<jail, taken>>
ghosts == <<committed, undo, outcome>>
vars == <<file, latch, searches, op, tmp, backups, faults, slack, asked, ghosts>>

Contents == SUBSET Rows
NoOp == [kind |-> "none"]
Idle == op = NoOp
At(kind, pc) == ~Idle /\ op.kind \in kind /\ op.pc = pc
Goto(pc) == op' = [op EXCEPT !.pc = pc]

View == IF main \in {Absent, Bad} \/ wal = NoWal THEN main ELSE wal

Init ==
    /\ main \in {Absent, {}} /\ wal = NoWal /\ committed = main
    /\ open = FALSE /\ latch = FALSE /\ searches = {}
    /\ op = NoOp /\ tmp = None /\ outcome = "none"
    /\ jail = {} /\ taken = 0 /\ faults = 0 /\ undo = None
    /\ slack = FALSE /\ asked = 0

-----------------------------------------------------------------------------
(* Reading and writing. *)

\* MUTANT: the registry does not look at the latch.
CanOpenAnyway == main # Bad

\* getRnpmDb: refused under the latch; a missing file is created.
CanOpen == ~latch /\ main # Bad

Rest == IF main = Absent THEN {} ELSE View

Commit(content) ==
    /\ open' = TRUE
    /\ main' = IF main = Absent THEN {} ELSE main
    /\ wal' = content /\ committed' = content
    /\ UNCHANGED <<latch, searches, op, tmp, backups, faults, undo, outcome>>

\* A page of stored rows, or any other request that only reads.
Read == CanOpen /\ ~open /\ Commit(Rest) /\ UNCHANGED <<slack, asked>>

\* A route deletes a row; it takes no lock.
Edit(r) ==
    /\ CanOpen /\ r \in Rest /\ Commit(Rest \ {r})
    /\ slack' = TRUE /\ UNCHANGED asked

\* passiveCheckpointRnpmWal; without a handle, the last connection is its own.
Checkpoint ==
    /\ main \notin {Absent, Bad} /\ wal # NoWal
    /\ open \/ ~latch
    /\ main' = View /\ wal' = IF open THEN wal ELSE NoWal
    /\ UNCHANGED <<open, latch, searches, op, tmp, backups, faults, slack, asked,
                   ghosts>>

\* measureRnpmFreelistIfPresent after a delete.
AskCompaction ==
    /\ open /\ CanOpen /\ slack /\ asked < 2
    /\ asked' = asked + 1
    /\ UNCHANGED <<file, latch, searches, op, tmp, backups, faults, slack, ghosts>>

\* beginRnpmSearch.
SearchBegins(s) ==
    /\ ~latch /\ s \notin searches
    /\ searches' = searches \cup {s}
    /\ UNCHANGED <<file, latch, op, tmp, backups, faults, slack, asked, ghosts>>

\* persistAvizWithDetail, under the maintenance read lock.
SearchSaves(s, r) ==
    /\ s \in searches /\ Idle /\ CanOpen
    /\ r \notin Rest /\ Commit(Rest \cup {r})
    /\ UNCHANGED <<slack, asked>>

SearchEnds(s) ==
    /\ s \in searches
    /\ searches' = searches \ {s}
    /\ UNCHANGED <<file, latch, op, tmp, backups, faults, slack, asked, ghosts>>

-----------------------------------------------------------------------------
(* Parts of operations. *)

\* The write lock, then beginRnpmRestore.
Begin(o) ==
    /\ Idle /\ searches = {}
    /\ latch' = TRUE /\ op' = o /\ outcome' = "none"

\* endRnpmRestore, and the write lock is given back.
End(result) == op' = NoOp /\ latch' = FALSE /\ tmp' = None /\ outcome' = result

Fault == faults < MaxFaults /\ faults' = faults + 1

\* What closing the registry's handle leaves: it is the last connection.
CloseHandle ==
    /\ open' = FALSE
    /\ IF open THEN main' = View /\ wal' = NoWal ELSE UNCHANGED <<main, wal>>

\* rename over the live file; a WAL that is still there is the old one's.
Rename(content) ==
    main' = IF wal = NoWal THEN content ELSE Bad

Backup(pool, content) == [pool |-> pool, id |-> taken + 1, content |-> content]

\* MUTANT: the cap in bytes knows neither protected nor newest files.
PruneBlindly(all, protected) ==
    LET NewerThan(b) == {c \in all : c.pool = b.pool /\ c.id > b.id}
    IN  \E last \in {0} \cup {b.id : b \in all} :
          jail' = {b \in all : b.id > last /\ Cardinality(NewerThan(b)) < Retain[b.pool]}

\* pruneBackupJail: what exceeds its pool's retention goes; then, while the
\* jail is above its cap in bytes, the oldest files that are neither protected
\* nor the newest of their pool.
Prune(all, protected) ==
    LET NewerThan(b) == {c \in all : c.pool = b.pool /\ c.id > b.id}
        counted == {b \in all : \/ b \in protected
                                \/ Cardinality(NewerThan(b)) < Retain[b.pool]}
        loose == {b \in counted \ protected : NewerThan(b) # {}}
    IN  \E last \in {0} \cup {b.id : b \in loose} :
          jail' = {b \in counted : b \in loose => b.id > last}

\* No WAL was left behind by a killed process.
Settled == "orphan" \in Env \/ open \/ wal = NoWal

-----------------------------------------------------------------------------
(* Restore: restoreRnpmFromBackup, restoreTargetImpl. *)

BeginRestore(b) ==
    /\ Settled /\ taken < MaxBackups
    /\ Begin([kind |-> "restore", pc |-> "snapshot", src |-> b, pre |-> None,
              before |-> View])
    /\ undo' = None
    /\ UNCHANGED <<file, searches, tmp, backups, faults, slack, asked, committed>>

\* The snapshot that a rollback needs, if there is a file.
SnapshotLive ==
    /\ At({"restore"}, "snapshot")
    /\ IF main = Absent
       THEN Goto("stage") /\ UNCHANGED backups
       ELSE /\ main # Bad
            /\ LET b == Backup("preRestore", View)
               IN  /\ jail' = jail \cup {b}
                   /\ op' = [op EXCEPT !.pc = "stage", !.pre = b]
            /\ taken' = taken + 1
    /\ UNCHANGED <<file, latch, searches, tmp, faults, slack, asked, ghosts>>

SnapshotFails ==
    /\ At({"restore"}, "snapshot") /\ main # Absent
    /\ End("failed")
    /\ IF main = Bad THEN UNCHANGED faults ELSE Fault
    /\ UNCHANGED <<file, searches, backups, slack, asked, committed, undo>>

\* The backup is copied to the staging directory and verified there.
Stage ==
    /\ At({"restore"}, "stage") /\ Goto("close")
    /\ UNCHANGED <<file, latch, searches, tmp, backups, faults, slack, asked,
                   ghosts>>

Used == {op.src, op.pre} \ {None}

StageFails ==
    /\ At({"restore"}, "stage") /\ Fault
    /\ Prune(jail, Used)
    /\ End("failed")
    /\ UNCHANGED <<file, searches, taken, slack, asked, committed, undo>>

CloseLive ==
    /\ At({"restore"}, "close") /\ Goto("unlink")
    /\ CloseHandle
    /\ UNCHANGED <<latch, searches, tmp, backups, faults, slack, asked, ghosts>>

\* The sidecars of the file that is about to be replaced.
Unlink ==
    /\ At({"restore", "compact", "auto", "clear"}, "unlink") /\ Goto("rename")
    /\ wal' = NoWal
    /\ UNCHANGED <<main, open, latch, searches, tmp, backups, faults, slack,
                   asked, ghosts>>

\* The staged file becomes the live one, or what the disk makes of it.
Publish ==
    /\ At({"restore"}, "rename") /\ Goto("probe")
    /\ \/ Rename(op.src.content) /\ committed' = op.src.content /\ UNCHANGED faults
       \/ main' = Bad /\ committed' = Bad /\ Fault
    /\ undo' = IF main = Absent THEN None ELSE View
    /\ slack' = FALSE
    /\ UNCHANGED <<wal, open, latch, searches, tmp, backups, asked, outcome>>

\* A sidecar or the rename is refused.
SwapFails ==
    /\ At({"restore", "compact", "auto", "clear"}, op.pc)
    /\ op.pc \in {"unlink", "rename"}
    /\ Fault /\ End("failed")
    /\ UNCHANGED <<file, searches, backups, slack, asked, committed, undo>>

ProbeOk ==
    /\ At({"restore"}, "probe") /\ main # Bad
    /\ Prune(jail, Used)
    /\ End("ok")
    /\ UNCHANGED <<file, searches, taken, faults, slack, asked, committed, undo>>

\* Without a file before there is nothing to go back to.
ProbeFails ==
    /\ At({"restore"}, "probe")
    /\ IF main = Bad THEN UNCHANGED faults ELSE Fault
    /\ IF op.pre = None THEN End("failed")
       ELSE Goto("revert") /\ UNCHANGED <<latch, tmp, outcome>>
    /\ UNCHANGED <<file, searches, backups, slack, asked, committed, undo>>

\* MUTANT: the revert takes what was to be restored.
RevertToSource ==
    /\ At({"restore"}, "revert")
    /\ wal' = NoWal /\ main' = op.src.content /\ committed' = op.src.content
    /\ End("failed")
    /\ UNCHANGED <<open, searches, backups, faults, slack, asked, undo>>

\* Sidecars go, the snapshot is copied beside and renamed over the live file.
Revert ==
    /\ At({"restore"}, "revert")
    /\ wal' = NoWal /\ main' = op.pre.content /\ committed' = op.pre.content
    /\ End("failed")
    /\ UNCHANGED <<open, searches, backups, faults, slack, asked, undo>>

RevertFails ==
    /\ At({"restore"}, "revert") /\ Fault
    /\ End("broken")
    /\ UNCHANGED <<file, searches, backups, slack, asked, committed, undo>>

-----------------------------------------------------------------------------
(* Compaction. *)

Rewrite(kind) == [kind |-> kind, pc |-> "vacuum", src |-> None, pre |-> None,
                  before |-> View]

\* compactRnpmDbViaWorker.
BeginCompact ==
    /\ main # Absent /\ Settled
    /\ Begin(Rewrite("compact"))
    /\ CloseHandle
    /\ UNCHANGED <<searches, tmp, backups, faults, slack, asked, committed, undo>>

\* MUTANT: the measure of before the lock is trusted.
BeginAutoUnmeasured ==
    /\ asked > 0 /\ asked' = asked - 1
    /\ main \notin {Absent, Bad}
    /\ Begin(Rewrite("auto"))
    /\ open' = FALSE /\ main' = View /\ wal' = NoWal
    /\ UNCHANGED <<searches, tmp, backups, faults, slack, committed, undo>>

\* compactRnpmIfStillNeeded: a handle opened directly measures again.
BeginAuto ==
    /\ asked > 0 /\ asked' = asked - 1
    /\ main \notin {Absent, Bad} /\ slack
    /\ Begin(Rewrite("auto"))
    /\ open' = FALSE /\ main' = View /\ wal' = NoWal
    /\ UNCHANGED <<searches, tmp, backups, faults, slack, committed, undo>>

\* Refused because of a search, or for want of a file that opens.
RefuseAuto ==
    /\ Idle /\ asked > 0 /\ asked' = asked - 1
    /\ searches # {} \/ main \in {Absent, Bad}
    /\ UNCHANGED <<file, latch, searches, op, tmp, backups, faults, slack, ghosts>>

\* The second measure finds nothing to free; it was taken on the file alone.
SkipAuto ==
    /\ Idle /\ asked > 0 /\ asked' = asked - 1
    /\ searches = {} /\ main \notin {Absent, Bad} /\ ~slack
    /\ open' = FALSE /\ main' = View /\ wal' = NoWal
    /\ UNCHANGED <<latch, searches, op, tmp, backups, faults, slack, ghosts>>

\* deleteAllRnpmAndCompact: the rows are deleted on a direct handle.
BeginClear ==
    /\ main \notin {Absent, Bad}
    /\ Begin(Rewrite("clear"))
    /\ open' = FALSE /\ main' = {} /\ wal' = NoWal /\ committed' = {}
    /\ slack' = TRUE
    /\ UNCHANGED <<searches, tmp, backups, faults, asked, undo>>

Rewrites == {"compact", "auto", "clear"}

\* VACUUM INTO a file beside; it fails on a damaged one.
Vacuum ==
    /\ At(Rewrites, "vacuum") /\ main # Bad /\ Goto("unlink")
    /\ tmp' = View
    /\ UNCHANGED <<file, latch, searches, backups, faults, slack, asked, ghosts>>

VacuumFails ==
    /\ At(Rewrites, "vacuum")
    /\ IF main = Bad THEN UNCHANGED faults ELSE Fault
    /\ End("failed")
    /\ UNCHANGED <<file, searches, backups, slack, asked, committed, undo>>

Swap ==
    /\ At(Rewrites, "rename")
    /\ Rename(tmp) /\ slack' = FALSE
    /\ End("ok")
    /\ UNCHANGED <<wal, open, searches, backups, faults, asked, committed, undo>>

-----------------------------------------------------------------------------
(* Backups. *)

\* createRnpmManualBackup provisions the file; the daily backup does not.
BeginBackup(pool) ==
    /\ Idle /\ main # Bad /\ taken < MaxBackups
    /\ IF pool = "manual"
       THEN /\ open' = TRUE /\ wal' = Rest /\ committed' = Rest
            /\ main' = IF main = Absent THEN {} ELSE main
       ELSE main # Absent /\ UNCHANGED <<file, committed>>
    /\ op' = [kind |-> "backup", pc |-> pool] /\ tmp' = Rest
    /\ outcome' = "none"
    /\ UNCHANGED <<latch, searches, backups, faults, slack, asked, undo>>

\* The snapshot gets its name; then the jail is pruned.
EndBackup ==
    /\ ~Idle /\ op.kind = "backup"
    /\ LET b == Backup(op.pc, tmp) IN Prune(jail \cup {b}, {b})
    /\ taken' = taken + 1
    /\ End("ok")
    /\ UNCHANGED <<file, searches, faults, slack, asked, committed, undo>>

\* deleteRnpmBackups.
DeleteBackups ==
    /\ Idle /\ jail # {}
    /\ jail' = {} /\ undo' = None
    /\ UNCHANGED <<file, latch, searches, op, tmp, taken, faults, slack, asked,
                   committed, outcome>>

-----------------------------------------------------------------------------
(* The world around. *)

\* The process is killed and starts again: the WAL stays as it is.
Kill ==
    /\ open \/ ~Idle \/ searches # {}
    /\ open' = FALSE /\ latch' = FALSE /\ searches' = {} /\ asked' = 0
    /\ op' = NoOp /\ tmp' = None /\ outcome' = "none"
    /\ UNCHANGED <<main, wal, backups, faults, slack, committed, undo>>

\* markRnpmShuttingDown, when the operations have settled.
Shutdown ==
    /\ Idle /\ open
    /\ CloseHandle
    /\ searches' = {} /\ asked' = 0
    /\ UNCHANGED <<latch, op, tmp, backups, faults, slack, ghosts>>

\* An operator or the disk loses the file.
LoseFile ==
    /\ "lost" \in Env /\ Idle /\ ~open /\ main # Absent
    /\ main' = Absent /\ wal' = NoWal /\ committed' = Absent /\ undo' = None
    /\ UNCHANGED <<open, latch, searches, op, tmp, backups, faults, slack, asked,
                   outcome>>

Restore ==
    \/ SnapshotLive \/ SnapshotFails \/ Stage \/ StageFails \/ CloseLive
    \/ Publish \/ ProbeOk \/ ProbeFails \/ Revert \/ RevertFails

Next ==
    \/ Read \/ Checkpoint \/ AskCompaction \/ \E r \in Rows : Edit(r)
    \/ \E s \in Searches :
         SearchBegins(s) \/ SearchEnds(s) \/ \E r \in Rows : SearchSaves(s, r)
    \/ \E b \in jail : BeginRestore(b)
    \/ Restore \/ Unlink \/ SwapFails
    \/ BeginCompact \/ BeginAuto \/ RefuseAuto \/ SkipAuto \/ BeginClear
    \/ Vacuum \/ VacuumFails \/ Swap
    \/ \E pool \in {"dated", "manual"} : BeginBackup(pool)
    \/ EndBackup \/ DeleteBackups
    \/ Kill \/ Shutdown \/ LoseFile

Spec == Init /\ [][Next]_vars

-----------------------------------------------------------------------------
(* Properties. *)

Backups == [pool : Pools, id : 1..MaxBackups, content : Contents]

Operations ==
    {NoOp}
    \cup [kind : {"backup"}, pc : {"dated", "manual"}]
    \cup [kind : {"restore"} \cup Rewrites,
          pc : {"snapshot", "stage", "close", "unlink", "rename", "probe",
                "revert", "vacuum"},
          src : {None} \cup Backups, pre : {None} \cup Backups,
          before : {Absent, Bad} \cup Contents]

TypeOK ==
    /\ main \in {Absent, Bad} \cup Contents
    /\ wal \in {NoWal} \cup Contents
    /\ open \in BOOLEAN /\ latch \in BOOLEAN /\ slack \in BOOLEAN
    /\ searches \subseteq Searches
    /\ op \in Operations
    /\ tmp \in {None} \cup Contents
    /\ jail \subseteq Backups
    /\ taken \in 0..MaxBackups /\ faults \in 0..MaxFaults /\ asked \in 0..2
    /\ committed \in {Absent, Bad} \cup Contents
    /\ undo \in {Bad, None} \cup Contents
    /\ outcome \in {"none", "ok", "failed", "broken"}

\* At every moment, in the middle of an operation and after a kill too, the
\* file reads as what was last committed or restored: no step of a restore, a
\* compaction or a "delete all" drops a row or mixes an old WAL into a new file
\* (backup.ts:546-577, 1018-1029).
CommitsSurvive == View = committed

\* What a restore has replaced, up to the last commit before the rename, is in
\* the jail as its rollback until the next restore begins, whatever is pruned
\* or backed up meanwhile (backup.ts:446-464, 694-698).
RollbackKept ==
    undo \notin {None, Bad} =>
      \E b \in jail : b.pool = "preRestore" /\ b.content = undo

\* A restore that fails leaves the database as it was, unless the revert
\* fails as well or there was no file before (backup.ts:542-679).
FailedRestoreIsHarmless ==
    [][~Idle /\ op.kind = "restore" /\ op.before # Absent /\ outcome' = "failed"
         => View' = op.before]_vars

\* The file is replaced under nobody: no search is in flight from the check
\* to the rename, and no handle is open; and an automatic compaction, which was
\* asked for before it waited for the lock, still has something to free
\* (backup.ts:944-948, 1131-1150).
ReplacedOnlyWhenDue ==
    [][Publish \/ Swap \/ Revert =>
         searches = {} /\ ~open /\ (op.kind = "auto" => slack)]_vars
=============================================================================
