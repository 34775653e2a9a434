------------------------------ MODULE RnpmProofs ------------------------------
(***************************************************************************)
(* The RNPM store and the searches that fill it.  Restores, compactions    *)
(* and failures never lose what was committed or restored last, for every  *)
(* set of rows, searches and backups, as long as no operation begins       *)
(* beside the WAL of a killed process.  An answer to a search is exact,    *)
(* whatever RNPM lists, page by page, through expired sessions, recovered  *)
(* rows and splits; and rows are stored only while a search is counted.    *)
(***************************************************************************)
EXTENDS BackupRestore, RnpmSearch, FiniteSums, SequenceTheorems, TLAPS

\* An operation that replaces the file.
Replacing == ~Idle /\ op.kind # "backup"

\* It holds the latch, no search is in flight, and the WAL has its handle.
Held ==
    /\ latch <=> Replacing
    /\ Replacing => searches = {} /\ (open \/ wal = NoWal)
    /\ ~Idle => outcome = "none"

\* What each stage of a restore has established.
Restoring ==
    ~Idle /\ op.kind = "restore" =>
      /\ op.src \in Backups
      /\ op.pc \in {"snapshot", "stage", "close", "unlink", "rename", "probe", "revert"}
      /\ op.pc = "snapshot" => op.pre = None /\ taken < MaxBackups
      /\ op.pc \in {"unlink", "rename", "probe", "revert"} => ~open /\ wal = NoWal
      /\ op.pc \notin {"probe", "revert"} => View = op.before /\ undo = None
      /\ op.pc = "revert" => op.pre # None
      /\ op.pc # "snapshot" /\ op.before # Absent => op.pre # None
      /\ op.pc # "snapshot" /\ op.pre # None =>
           /\ op.pre \in jail /\ op.pre.pool = "preRestore" /\ op.pre.content = op.before
           /\ \A c \in jail : c.pool = "preRestore" => c.id <= op.pre.id

\* A compaction has no handle open; what it has written is what is there.
Rewriting ==
    ~Idle /\ op.kind \in Rewrites =>
      /\ ~open /\ wal = NoWal /\ main # Absent
      /\ op.pc \in {"vacuum", "unlink", "rename"}
      /\ op.pc # "vacuum" => tmp = main /\ tmp \in Contents
      /\ op.kind = "auto" => slack

\* A backup under way will fit, and its snapshot is whole.
BackingUp ==
    ~Idle /\ op.kind = "backup" => tmp \in Contents /\ taken < MaxBackups

\* The rollback of the last restore is the newest of its pool.
RollbackIsNewest ==
    undo \notin {None, Bad} =>
      \E b \in jail : /\ b.pool = "preRestore" /\ b.content = undo
                      /\ \A c \in jail : c.pool = "preRestore" => c.id <= b.id

BackupInv ==
    /\ TypeOK /\ CommitsSurvive /\ Held /\ Restoring /\ Rewriting /\ BackingUp
    /\ RollbackIsNewest
    /\ \A b \in jail : b.id <= taken

-----------------------------------------------------------------------------
\* Operations

Stages == {"snapshot", "stage", "close", "unlink", "rename", "probe", "revert", "vacuum"}

\* The operations that replace the file.
Replacements ==
    [kind : {"restore"} \cup Rewrites, pc : Stages, src : {None} \cup Backups,
     pre : {None} \cup Backups, before : {Absent, Bad} \cup Contents]

\* What kind of record op is.
LEMMA OpKinds ==
  ASSUME op \in Operations
  PROVE  /\ Idle <=> op.kind = "none"
         /\ op.kind \in {"none", "backup", "restore"} \cup Rewrites
         /\ Replacing => op \in Replacements /\ op.kind \in {"restore"} \cup Rewrites
BY DEF Operations, Idle, NoOp, Replacing, Replacements, Stages, Rewrites

\* A step forward of such an operation.
LEMMA StepForward ==
  ASSUME NEW o \in Replacements, NEW p \in Stages, NEW n, n = [o EXCEPT !.pc = p]
  PROVE  /\ n \in Replacements /\ n \in Operations /\ n # NoOp
         /\ n.kind = o.kind /\ n.pc = p /\ n.src = o.src /\ n.pre = o.pre
         /\ n.before = o.before
BY DEF Replacements, Operations, Stages, Rewrites, NoOp

\* The values that stand for no file, no WAL and no backup are no contents.
LEMMA Distinct ==
  /\ Absent \notin Contents /\ Bad \notin Contents /\ NoWal \notin Contents
  /\ None \notin Contents
  /\ Absent # Bad /\ Absent # NoWal /\ Absent # None /\ Bad # NoWal /\ Bad # None
  /\ NoWal # None
BY BackupAssumption DEF Contents

\* What the file reads as.
LEMMA ViewFacts ==
  ASSUME TypeOK
  PROVE  /\ View \in {Absent, Bad} \cup Contents
         /\ View = Absent <=> main = Absent
         /\ View = Bad <=> main = Bad
         /\ wal = NoWal => View = main
         /\ main # Bad => Rest \in Contents
BY Distinct DEF TypeOK, View, Rest, Contents

-----------------------------------------------------------------------------
\* Steps that touch neither the files nor the operation.
LEMMA QuietStep ==
  ASSUME BackupInv,
         UNCHANGED <<file, latch, op, tmp, backups, faults, slack, ghosts>>,
         searches' \subseteq Searches, asked' \in 0..2,
         Replacing => searches' = {}
  PROVE  BackupInv'
<1> USE DEF BackupInv, file, backups, ghosts
<1>1. TypeOK' /\ CommitsSurvive'
  BY DEF TypeOK, CommitsSurvive, View
<1>2. Held'
  BY DEF Held, Replacing, Idle
<1>3. Restoring' /\ Rewriting' /\ BackingUp'
  BY DEF Restoring, Rewriting, BackingUp, Idle, View
<1>4. RollbackIsNewest'
  BY DEF RollbackIsNewest
<1> QED BY <1>1, <1>2, <1>3, <1>4

\* A transaction of a search or of a request.
LEMMA CommitStep ==
  ASSUME BackupInv, NEW content \in Contents, Commit(content), CanOpen,
         slack' \in BOOLEAN, asked' = asked
  PROVE  BackupInv'
<1> USE DEF BackupInv, backups
<1>1. main # Bad /\ ~latch
  BY DEF CanOpen
<1>2. TypeOK'
  BY <1>1 DEF TypeOK, Commit, Contents
<1>3. main' \notin {Absent, Bad} /\ wal' = content /\ wal' # NoWal /\ committed' = content
  BY <1>1, Distinct DEF TypeOK, Commit, Contents
<1>4. CommitsSurvive'
  BY <1>3 DEF CommitsSurvive, View
<1>5. ~Replacing /\ op' = op /\ latch' = latch /\ outcome' = outcome
  BY <1>1 DEF Held, Commit
<1>6. Held'
  BY <1>5 DEF Held, Replacing, Idle
<1>7. op.kind # "restore" /\ op.kind \notin Rewrites
  BY <1>5, OpKinds DEF TypeOK, Replacing, Idle, NoOp, Rewrites
<1>8. Restoring' /\ Rewriting' /\ BackingUp'
  BY <1>5, <1>7 DEF Restoring, Rewriting, BackingUp, Idle, Commit
<1>9. RollbackIsNewest' /\ \A b \in jail' : b.id <= taken'
  BY DEF RollbackIsNewest, Commit
<1> QED BY <1>2, <1>4, <1>6, <1>8, <1>9

\* An operation ends; the file stays as it is.
LEMMA EndStep ==
  ASSUME BackupInv, NEW result \in {"ok", "failed", "broken"}, End(result),
         UNCHANGED <<main, wal, searches, taken, slack, asked, committed, undo>>,
         open' = open, jail' \subseteq jail, faults' \in 0..MaxFaults,
         RollbackIsNewest'
  PROVE  BackupInv'
<1> USE DEF BackupInv, End
<1>1. op' = NoOp /\ NoOp \in Operations /\ Idle' /\ ~Replacing'
  BY DEF Operations, Idle, Replacing
<1>2. TypeOK' /\ CommitsSurvive'
  BY <1>1 DEF TypeOK, CommitsSurvive, View
<1>3. Held' /\ Restoring' /\ Rewriting' /\ BackingUp'
  BY <1>1 DEF Held, Restoring, Rewriting, BackingUp
<1>4. \A b \in jail' : b.id <= taken'
  OBVIOUS
<1> QED BY <1>2, <1>3, <1>4

-----------------------------------------------------------------------------
\* Reading and writing

LEMMA RequestsKeepInv ==
  ASSUME BackupInv, Read \/ (\E r \in Rows : Edit(r))
  PROVE  BackupInv'
<1> USE DEF BackupInv
<1>1. CanOpen /\ Rest \in Contents
  BY ViewFacts DEF Read, Edit, CanOpen
<1>2. CASE Read
  BY <1>1, <1>2, CommitStep DEF Read, TypeOK
<1>3. ASSUME NEW r \in Rows, Edit(r) PROVE BackupInv'
  <2>1. Rest \ {r} \in Contents
    BY <1>1 DEF Contents
  <2> QED BY <1>1, <1>3, <2>1, CommitStep DEF Edit
<1> QED BY <1>2, <1>3

LEMMA SearchSavesKeepsInv ==
  ASSUME BackupInv, NEW q \in Searches, NEW r \in Rows, SearchSaves(q, r)
  PROVE  BackupInv'
<1> USE DEF BackupInv
<1>1. CanOpen /\ Rest \cup {r} \in Contents
  BY ViewFacts DEF SearchSaves, CanOpen, Contents
<1> QED BY <1>1, CommitStep DEF SearchSaves, TypeOK

LEMMA SearchesKeepInv ==
  ASSUME BackupInv, NEW q \in Searches, SearchBegins(q) \/ SearchEnds(q)
  PROVE  BackupInv'
<1>1. CASE SearchBegins(q)
  BY <1>1, QuietStep DEF SearchBegins, BackupInv, TypeOK, Held
<1>2. CASE SearchEnds(q)
  BY <1>2, QuietStep DEF SearchEnds, BackupInv, TypeOK, Held
<1> QED BY <1>1, <1>2

LEMMA CheckpointKeepsInv ==
  ASSUME BackupInv, Checkpoint
  PROVE  BackupInv'
<1> USE DEF BackupInv, Checkpoint, backups, ghosts
<1>1. main' = View /\ main' \in Contents /\ View' = View /\ wal' \in {NoWal, wal}
  BY ViewFacts, Distinct DEF TypeOK, View
<1>2. TypeOK' /\ CommitsSurvive'
  BY <1>1 DEF TypeOK, CommitsSurvive
<1>3. Held'
  BY DEF Held, Replacing, Idle
<1>4. ~open => ~Replacing
  BY DEF Held
<1>5. Restoring'
  BY <1>1, <1>4 DEF Restoring, Idle, Replacing
<1>6. Rewriting'
  BY <1>4 DEF Rewriting, Replacing, Idle, Rewrites
<1>7. BackingUp' /\ RollbackIsNewest'
  BY DEF BackingUp, RollbackIsNewest, Idle
<1> QED BY <1>2, <1>3, <1>5, <1>6, <1>7

-----------------------------------------------------------------------------
\* Restore

LEMMA BeginRestoreKeepsInv ==
  ASSUME BackupInv, "orphan" \notin Env, NEW b \in jail, BeginRestore(b)
  PROVE  BackupInv'
<1> USE DEF BackupInv, BeginRestore, Begin, file, backups
<1> DEFINE o == [kind |-> "restore", pc |-> "snapshot", src |-> b, pre |-> None,
                 before |-> View]
<1>1. o \in Operations /\ o # NoOp
  BY ViewFacts DEF Operations, NoOp, Rewrites, TypeOK
<1>2. op' = o /\ ~Idle' /\ Replacing' /\ View' = View
  BY <1>1 DEF Idle, Replacing, View
<1>3. TypeOK' /\ CommitsSurvive'
  BY <1>1, <1>2 DEF TypeOK, CommitsSurvive
<1>4. Held'
  BY <1>2 DEF Held, Settled
<1>5. Restoring'
  BY <1>2 DEF Restoring, TypeOK
<1>6. Rewriting' /\ BackingUp'
  BY <1>2 DEF Rewriting, BackingUp, Rewrites
<1>7. RollbackIsNewest'
  BY DEF RollbackIsNewest
<1> QED BY <1>3, <1>4, <1>5, <1>6, <1>7

\* A restore under way is a record that can step forward.
LEMMA AtRestore ==
  ASSUME BackupInv, NEW p \in Stages, At({"restore"}, p)
  PROVE  /\ op \in Replacements /\ op.kind = "restore" /\ op.pc = p /\ ~Idle /\ Replacing
         /\ latch /\ searches = {} /\ outcome = "none"
BY OpKinds DEF BackupInv, TypeOK, At, Replacing, Held

LEMMA AtRewrite ==
  ASSUME BackupInv, NEW p \in Stages, At(Rewrites, p)
  PROVE  /\ op \in Replacements /\ op.kind \in Rewrites /\ op.pc = p /\ ~Idle /\ Replacing
         /\ latch /\ searches = {} /\ outcome = "none"
BY OpKinds DEF BackupInv, TypeOK, At, Replacing, Held, Rewrites

\* What the pruning of the jail leaves: what is protected, and the newest of
\* each pool.
LEMMA PruneKeeps ==
  ASSUME NEW all \in SUBSET Backups, NEW protected, Prune(all, protected)
  PROVE  /\ jail' \subseteq all /\ all \cap protected \subseteq jail'
         /\ \A b \in all :
              (\A c \in all : c.pool = b.pool => c.id <= b.id) => b \in jail'
<1> DEFINE NewerThan(b) == {c \in all : c.pool = b.pool /\ c.id > b.id}
           keep == {b \in all : \/ b \in protected
                                \/ Cardinality(NewerThan(b)) < Retain[b.pool]}
           loose == {b \in keep \ protected : NewerThan(b) # {}}
<1>1. PICK last : jail' = {b \in keep : b \in loose => b.id > last}
  BY DEF Prune
<1>2. ASSUME NEW b \in all, \A c \in all : c.pool = b.pool => c.id <= b.id
      PROVE  b \in keep /\ b \notin loose
  <2>1. NewerThan(b) = {}
    BY <1>2 DEF Backups
  <2>2. Cardinality(NewerThan(b)) = 0
    BY <2>1, FS_EmptySet
  <2>3. Retain[b.pool] \in Nat \ {0}
    BY BackupAssumption DEF Backups
  <2> QED BY <2>1, <2>2, <2>3
<1>3. all \cap protected \subseteq keep \ loose
  OBVIOUS
<1> QED BY <1>1, <1>2, <1>3

LEMMA SnapshotLiveKeepsInv ==
  ASSUME BackupInv, SnapshotLive
  PROVE  BackupInv'
<1> USE DEF BackupInv, file, backups, ghosts
<1>1. /\ op \in Replacements /\ op.kind = "restore" /\ op.pc = "snapshot" /\ ~Idle /\ Replacing
      /\ latch /\ searches = {} /\ outcome = "none" /\ taken < MaxBackups /\ undo = None
      /\ View = op.before
  BY AtRestore DEF SnapshotLive, Stages, Restoring
<1>2. CASE main = Absent
  <2>1. op' = [op EXCEPT !.pc = "stage"] /\ jail' = jail /\ taken' = taken
    BY <1>2 DEF SnapshotLive, Goto
  <2>2. /\ op' \in Operations /\ op' # NoOp /\ op'.kind = "restore" /\ op'.pc = "stage"
        /\ op'.src = op.src /\ op'.pre = op.pre /\ op'.before = op.before
    BY <1>1, <2>1, StepForward DEF Stages
  <2>3. op.before = Absent
    BY <1>1, <1>2, ViewFacts
  <2>4. TypeOK' /\ CommitsSurvive' /\ Held'
    BY <1>1, <1>2, <2>1, <2>2
       DEF SnapshotLive, TypeOK, CommitsSurvive, View, Held, Replacing, Idle
  <2>5. op.pre = None
    BY <1>1 DEF Restoring
  <2>6. Restoring'
    BY <1>1, <2>1, <2>2, <2>3, <2>5 DEF SnapshotLive, Restoring, View
  <2>7. Rewriting' /\ BackingUp' /\ RollbackIsNewest'
    BY <1>1, <2>1, <2>2 DEF SnapshotLive, Rewriting, BackingUp, Rewrites, RollbackIsNewest
  <2> QED BY <2>1, <2>4, <2>6, <2>7
<1>3. CASE main # Absent
  <2> DEFINE b == Backup("preRestore", View)
  <2>1. /\ main # Bad /\ jail' = jail \cup {b} /\ taken' = taken + 1
        /\ op' = [op EXCEPT !.pc = "stage", !.pre = b]
    BY <1>3 DEF SnapshotLive
  <2>2. View \in Contents
    BY <1>3, <2>1, ViewFacts
  <2>3. /\ b \in Backups /\ b.pool = "preRestore" /\ b.content = View /\ b.id = taken + 1
        /\ b # None
    <3>1. taken + 1 \in 1..MaxBackups
      BY <1>1, BackupAssumption DEF TypeOK
    <3>2. b \in Backups /\ b.pool = "preRestore" /\ b.content = View /\ b.id = taken + 1
      BY <2>2, <3>1 DEF Backup, Backups, Pools
    <3> QED BY <3>2, BackupAssumption DEF Backups, Contents
  <2>4. /\ op' \in Operations /\ op' # NoOp /\ op'.kind = "restore" /\ op'.pc = "stage"
        /\ op'.src = op.src /\ op'.pre = b /\ op'.before = op.before
    BY <1>1, <2>1, <2>3 DEF Replacements, Operations, NoOp, Stages
  <2>5. TypeOK'
    <3>1. taken' \in 0..MaxBackups
      BY <1>1, <2>1, BackupAssumption DEF TypeOK
    <3> QED BY <1>1, <2>1, <2>3, <2>4, <3>1 DEF SnapshotLive, TypeOK
  <2>6. CommitsSurvive' /\ Held'
    BY <1>1, <2>4 DEF SnapshotLive, CommitsSurvive, View, Held, Replacing, Idle
  <2>7. \A c \in jail' : c.id <= taken'
    BY <2>1, <2>3 DEF TypeOK, Backups
  <2>8. Restoring'
    BY <1>1, <2>1, <2>3, <2>4, <2>7 DEF SnapshotLive, Restoring, View
  <2>9. Rewriting' /\ BackingUp' /\ RollbackIsNewest'
    BY <1>1, <2>4 DEF SnapshotLive, Rewriting, BackingUp, Rewrites, RollbackIsNewest
  <2> QED BY <2>5, <2>6, <2>7, <2>8, <2>9
<1> QED BY <1>2, <1>3

LEMMA SnapshotFailsKeepsInv ==
  ASSUME BackupInv, SnapshotFails
  PROVE  BackupInv'
<1>1. faults' \in 0..MaxFaults
  BY BackupAssumption DEF SnapshotFails, Fault, BackupInv, TypeOK
<1>2. RollbackIsNewest'
  BY DEF SnapshotFails, backups, BackupInv, RollbackIsNewest
<1>3. /\ End("failed") /\ open' = open /\ jail' = jail
      /\ UNCHANGED <<main, wal, searches, taken, slack, asked, committed, undo>>
  BY DEF SnapshotFails, file, backups
<1> QED BY <1>1, <1>2, <1>3, EndStep

LEMMA StageKeepsInv ==
  ASSUME BackupInv, Stage
  PROVE  BackupInv'
<1> USE DEF BackupInv, file, backups, ghosts
<1>1. /\ op \in Replacements /\ op.kind = "restore" /\ op.pc = "stage" /\ ~Idle /\ Replacing
      /\ op' = [op EXCEPT !.pc = "close"]
  BY AtRestore DEF Stage, Stages, Goto
<1>2. /\ op' \in Operations /\ op' # NoOp /\ op'.kind = "restore" /\ op'.pc = "close"
      /\ op'.src = op.src /\ op'.pre = op.pre /\ op'.before = op.before
  BY <1>1, StepForward DEF Stages
<1>3. TypeOK' /\ CommitsSurvive' /\ Held'
  BY <1>1, <1>2 DEF Stage, TypeOK, CommitsSurvive, View, Held, Replacing, Idle
<1>4. Restoring'
  BY <1>1, <1>2 DEF Stage, Restoring, View
<1>5. Rewriting' /\ BackingUp' /\ RollbackIsNewest'
  BY <1>2 DEF Stage, Rewriting, BackingUp, Rewrites, RollbackIsNewest
<1> QED BY <1>3, <1>4, <1>5 DEF Stage

LEMMA StageFailsKeepsInv ==
  ASSUME BackupInv, StageFails
  PROVE  BackupInv'
<1>1. faults' \in 0..MaxFaults
  BY BackupAssumption DEF StageFails, Fault, BackupInv, TypeOK
<1>2. jail' \subseteq jail
  BY PruneKeeps DEF StageFails, BackupInv, TypeOK
<1>3. undo = None
  BY AtRestore DEF StageFails, Stages, BackupInv, Restoring
<1>4. RollbackIsNewest'
  BY <1>3 DEF StageFails, RollbackIsNewest
<1> QED BY <1>1, <1>2, <1>4, EndStep DEF StageFails, file

LEMMA CloseLiveKeepsInv ==
  ASSUME BackupInv, CloseLive
  PROVE  BackupInv'
<1> USE DEF BackupInv, backups, ghosts
<1>1. /\ op \in Replacements /\ op.kind = "restore" /\ op.pc = "close" /\ ~Idle /\ Replacing
      /\ op' = [op EXCEPT !.pc = "unlink"] /\ (open \/ wal = NoWal)
  BY AtRestore DEF CloseLive, Stages, Goto, Held
<1>2. /\ op' \in Operations /\ op' # NoOp /\ op'.kind = "restore" /\ op'.pc = "unlink"
      /\ op'.src = op.src /\ op'.pre = op.pre /\ op'.before = op.before
  BY <1>1, StepForward DEF Stages
<1>3. /\ View' = View /\ main' \in {Absent, Bad} \cup Contents /\ wal' = NoWal /\ ~open'
  BY <1>1, ViewFacts, Distinct DEF CloseLive, CloseHandle, TypeOK, View
<1>4. TypeOK' /\ CommitsSurvive' /\ Held'
  BY <1>1, <1>2, <1>3
     DEF CloseLive, CloseHandle, TypeOK, CommitsSurvive, Held, Replacing, Idle
<1>5. Restoring'
  BY <1>1, <1>2, <1>3 DEF CloseLive, Restoring
<1>6. Rewriting' /\ BackingUp' /\ RollbackIsNewest'
  BY <1>2 DEF CloseLive, Rewriting, BackingUp, Rewrites, RollbackIsNewest
<1> QED BY <1>4, <1>5, <1>6 DEF CloseLive

LEMMA UnlinkKeepsInv ==
  ASSUME BackupInv, Unlink
  PROVE  BackupInv'
<1> USE DEF BackupInv, backups, ghosts
<1>1. /\ op \in Replacements /\ op.kind \in {"restore"} \cup Rewrites /\ op.pc = "unlink"
      /\ ~Idle /\ Replacing /\ op' = [op EXCEPT !.pc = "rename"] /\ ~open /\ wal = NoWal
  BY OpKinds DEF Unlink, At, Goto, TypeOK, Replacing, Restoring, Rewriting, Rewrites
<1>2. /\ op' \in Operations /\ op' # NoOp /\ op'.kind = op.kind /\ op'.pc = "rename"
      /\ op'.src = op.src /\ op'.pre = op.pre /\ op'.before = op.before
  BY <1>1, StepForward DEF Stages
<1>3. TypeOK' /\ CommitsSurvive' /\ Held'
  BY <1>1, <1>2 DEF Unlink, TypeOK, CommitsSurvive, View, Held, Replacing, Idle
<1>4. Restoring'
  BY <1>1, <1>2 DEF Unlink, Restoring, View
<1>5. Rewriting' /\ BackingUp' /\ RollbackIsNewest'
  BY <1>1, <1>2 DEF Unlink, Rewriting, BackingUp, Rewrites, RollbackIsNewest
<1> QED BY <1>3, <1>4, <1>5 DEF Unlink

LEMMA PublishKeepsInv ==
  ASSUME BackupInv, Publish
  PROVE  BackupInv'
<1> USE DEF BackupInv, backups, Publish
<1>1. /\ op \in Replacements /\ op.kind = "restore" /\ op.pc = "rename" /\ ~Idle /\ Replacing
      /\ op' = [op EXCEPT !.pc = "probe"] /\ ~open /\ wal = NoWal /\ View = op.before
      /\ op.src \in Backups
  BY AtRestore DEF Stages, Goto, Restoring
<1>2. /\ op' \in Operations /\ op' # NoOp /\ op'.kind = "restore" /\ op'.pc = "probe"
      /\ op'.src = op.src /\ op'.pre = op.pre /\ op'.before = op.before
  BY <1>1, StepForward DEF Stages
<1>3. /\ main' = committed' /\ main' \in {Bad} \cup Contents /\ wal' = NoWal
      /\ faults' \in 0..MaxFaults
  BY <1>1, BackupAssumption DEF Rename, Fault, TypeOK, Backups
<1>4. undo' = IF op.before = Absent THEN None ELSE op.before
  BY <1>1, ViewFacts
<1>5. op.before # Absent => /\ op.pre \in jail /\ op.pre.pool = "preRestore"
                            /\ op.pre.content = op.before
                            /\ \A c \in jail : c.pool = "preRestore" => c.id <= op.pre.id
  BY <1>1 DEF Restoring
<1>6. undo' \in {Bad, None} \cup Contents
  BY <1>1, <1>4 DEF Replacements
<1>7. TypeOK'
  BY <1>1, <1>2, <1>3, <1>6 DEF TypeOK
<1>8. CommitsSurvive' /\ Held'
  BY <1>1, <1>2, <1>3 DEF CommitsSurvive, View, Held, Replacing, Idle
<1>9. Restoring'
  BY <1>1, <1>2, <1>5 DEF Restoring
<1>10. Rewriting' /\ BackingUp'
  BY <1>2 DEF Rewriting, BackingUp, Rewrites
<1>11. RollbackIsNewest'
  BY <1>4, <1>5 DEF RollbackIsNewest
<1> QED BY <1>7, <1>8, <1>9, <1>10, <1>11

LEMMA SwapFailsKeepsInv ==
  ASSUME BackupInv, SwapFails
  PROVE  BackupInv'
<1>1. faults' \in 0..MaxFaults
  BY BackupAssumption DEF SwapFails, Fault, BackupInv, TypeOK
<1>2. RollbackIsNewest'
  BY DEF SwapFails, backups, BackupInv, RollbackIsNewest
<1> QED BY <1>1, <1>2, EndStep DEF SwapFails, file, backups

LEMMA ProbeOkKeepsInv ==
  ASSUME BackupInv, ProbeOk
  PROVE  BackupInv'
<1>1. jail' \subseteq jail
      /\ \A b \in jail : (\A c \in jail : c.pool = b.pool => c.id <= b.id) => b \in jail'
  BY PruneKeeps DEF ProbeOk, BackupInv, TypeOK
<1>2. RollbackIsNewest'
  <2> SUFFICES ASSUME undo \notin {None, Bad} PROVE RollbackIsNewest'
    BY DEF ProbeOk, RollbackIsNewest
  <2>1. PICK b \in jail : /\ b.pool = "preRestore" /\ b.content = undo
                          /\ \A c \in jail : c.pool = "preRestore" => c.id <= b.id
    BY DEF BackupInv, RollbackIsNewest
  <2>2. b \in jail'
    BY <1>1, <2>1
  <2> QED BY <1>1, <2>1, <2>2 DEF ProbeOk, RollbackIsNewest
<1>3. faults' \in 0..MaxFaults
  BY DEF ProbeOk, BackupInv, TypeOK
<1> QED BY <1>1, <1>2, <1>3, EndStep DEF ProbeOk, file

LEMMA ProbeFailsKeepsInv ==
  ASSUME BackupInv, ProbeFails
  PROVE  BackupInv'
<1> USE DEF file, backups
<1>1. /\ op \in Replacements /\ op.kind = "restore" /\ op.pc = "probe" /\ ~Idle /\ Replacing
      /\ latch
  BY AtRestore DEF ProbeFails, Stages
<1>2. faults' \in 0..MaxFaults
  BY BackupAssumption DEF ProbeFails, Fault, BackupInv, TypeOK
<1>3. RollbackIsNewest'
  BY DEF ProbeFails, BackupInv, RollbackIsNewest
<1>4. CASE op.pre = None
  <2>1. /\ End("failed") /\ open' = open /\ jail' = jail
        /\ UNCHANGED <<main, wal, searches, taken, slack, asked, committed, undo>>
    BY <1>4 DEF ProbeFails
  <2> QED BY <1>2, <1>3, <2>1, EndStep
<1>5. CASE op.pre # None
  <2>1. op' = [op EXCEPT !.pc = "revert"] /\ UNCHANGED <<latch, tmp, outcome>>
    BY <1>5 DEF ProbeFails, Goto
  <2>2. /\ op' \in Operations /\ op' # NoOp /\ op'.kind = "restore" /\ op'.pc = "revert"
        /\ op'.src = op.src /\ op'.pre = op.pre /\ op'.before = op.before
    BY <1>1, <2>1, StepForward DEF Stages
  <2>3. TypeOK' /\ CommitsSurvive' /\ Held'
    BY <1>1, <1>2, <2>1, <2>2
       DEF ProbeFails, BackupInv, TypeOK, CommitsSurvive, View, Held, Replacing, Idle
  <2>4. Restoring'
    BY <1>1, <1>5, <2>2 DEF ProbeFails, BackupInv, Restoring
  <2>5. Rewriting' /\ BackingUp'
    BY <2>2 DEF Rewriting, BackingUp, Rewrites
  <2> QED BY <1>3, <2>3, <2>4, <2>5 DEF BackupInv, ProbeFails
<1> QED BY <1>4, <1>5

LEMMA RevertKeepsInv ==
  ASSUME BackupInv, Revert
  PROVE  BackupInv'
<1> USE DEF BackupInv, backups, Revert, End
<1>1. /\ op \in Replacements /\ op.pc = "revert" /\ op.pre \in jail /\ ~open
      /\ op.pre.content \in Contents
  BY AtRestore DEF Stages, Restoring, TypeOK, Backups
<1>2. op' = NoOp /\ NoOp \in Operations /\ Idle' /\ ~Replacing'
  BY DEF Operations, Idle, Replacing
<1>3. TypeOK' /\ CommitsSurvive'
  BY <1>1, <1>2, Distinct DEF TypeOK, CommitsSurvive, View
<1>4. Held' /\ Restoring' /\ Rewriting' /\ BackingUp' /\ RollbackIsNewest'
  BY <1>2 DEF Held, Restoring, Rewriting, BackingUp, RollbackIsNewest
<1> QED BY <1>3, <1>4

LEMMA RevertFailsKeepsInv ==
  ASSUME BackupInv, RevertFails
  PROVE  BackupInv'
<1>1. faults' \in 0..MaxFaults
  BY BackupAssumption DEF RevertFails, Fault, BackupInv, TypeOK
<1>2. RollbackIsNewest'
  BY DEF RevertFails, backups, BackupInv, RollbackIsNewest
<1> QED BY <1>1, <1>2, EndStep DEF RevertFails, file, backups

-----------------------------------------------------------------------------
\* Compaction

\* A compaction begins: its handle is closed, and the WAL is in the file.
LEMMA RewriteBegins ==
  ASSUME BackupInv, NEW kind \in Rewrites, Begin(Rewrite(kind)),
         open' = FALSE, wal' = NoWal, main' \notin {Absent},
         main' \in {Absent, Bad} \cup Contents, committed' = main',
         UNCHANGED <<searches, tmp, jail, taken, faults, undo>>,
         slack' \in BOOLEAN, kind = "auto" => slack', asked' \in 0..2
  PROVE  BackupInv'
<1> USE DEF BackupInv, Begin, Rewrite
<1>1. op' = Rewrite(kind) /\ op' \in Operations /\ op' # NoOp
  BY ViewFacts DEF Operations, NoOp, Rewrites, TypeOK
<1>2. op'.kind = kind /\ op'.pc = "vacuum" /\ kind \notin {"restore", "backup"}
  BY DEF Rewrites
<1>3. TypeOK' /\ CommitsSurvive'
  BY <1>1 DEF TypeOK, CommitsSurvive, View
<1>4. Held'
  BY <1>1, <1>2 DEF Held, Replacing, Idle
<1>5. Restoring' /\ Rewriting' /\ BackingUp'
  BY <1>2 DEF Restoring, Rewriting, BackingUp
<1>6. RollbackIsNewest'
  BY DEF RollbackIsNewest
<1> QED BY <1>3, <1>4, <1>5, <1>6

LEMMA RewritesBeginKeepsInv ==
  ASSUME BackupInv, "orphan" \notin Env, BeginCompact \/ BeginAuto \/ BeginClear
  PROVE  BackupInv'
<1> USE DEF BackupInv, backups
<1>1. ASSUME main # Absent, main' = View, wal' = NoWal
      PROVE  /\ main' # Absent /\ main' \in {Absent, Bad} \cup Contents
             /\ main' = committed
  BY <1>1, ViewFacts DEF CommitsSurvive
<1>2. CASE BeginCompact
  <2>1. open' = FALSE /\ wal' = NoWal /\ main' = View /\ main # Absent
    BY <1>2, ViewFacts DEF BeginCompact, CloseHandle, Settled
  <2>2. "compact" \in Rewrites /\ "compact" # "auto"
    BY DEF Rewrites
  <2> QED BY <1>1, <1>2, <2>1, <2>2, RewriteBegins DEF BeginCompact, TypeOK
<1>3. CASE BeginAuto
  <2>1. open' = FALSE /\ wal' = NoWal /\ main' = View /\ main # Absent /\ asked' \in 0..2
    BY <1>3 DEF BeginAuto, TypeOK
  <2>2. "auto" \in Rewrites
    BY DEF Rewrites
  <2> QED BY <1>1, <1>3, <2>1, <2>2, RewriteBegins DEF BeginAuto, TypeOK
<1>4. CASE BeginClear
  <2>1. {} \in Contents /\ "clear" \in Rewrites /\ "clear" # "auto"
    BY DEF Contents, Rewrites
  <2>2. open' = FALSE /\ wal' = NoWal /\ main' = {} /\ main' # Absent /\ committed' = main'
    BY <1>4, <2>1, Distinct DEF BeginClear
  <2> QED BY <1>4, <2>1, <2>2, RewriteBegins DEF BeginClear, TypeOK
<1> QED BY <1>2, <1>3, <1>4

LEMMA RefuseAutoKeepsInv ==
  ASSUME BackupInv, RefuseAuto
  PROVE  BackupInv'
<1>1. asked' \in 0..2
  BY DEF RefuseAuto, BackupInv, TypeOK
<1> QED BY <1>1, QuietStep DEF RefuseAuto, BackupInv, TypeOK, Held

LEMMA SkipAutoKeepsInv ==
  ASSUME BackupInv, SkipAuto
  PROVE  BackupInv'
<1> USE DEF BackupInv, SkipAuto, backups, ghosts
<1>1. /\ main' \in Contents /\ main' = View /\ wal' = NoWal /\ asked' \in 0..2
  BY ViewFacts DEF TypeOK
<1>2. TypeOK' /\ CommitsSurvive'
  BY <1>1 DEF TypeOK, CommitsSurvive, View
<1>3. Held' /\ Restoring' /\ Rewriting' /\ BackingUp' /\ RollbackIsNewest'
  BY DEF Held, Replacing, Restoring, Rewriting, BackingUp, RollbackIsNewest, Idle
<1> QED BY <1>2, <1>3

LEMMA VacuumKeepsInv ==
  ASSUME BackupInv, Vacuum
  PROVE  BackupInv'
<1> USE DEF BackupInv, file, backups, ghosts
<1>1. /\ op \in Replacements /\ op.kind \in Rewrites /\ op.pc = "vacuum" /\ ~Idle /\ Replacing
      /\ op' = [op EXCEPT !.pc = "unlink"]
  BY AtRewrite DEF Vacuum, Stages, Goto
<1>2. /\ op' \in Operations /\ op' # NoOp /\ op'.kind = op.kind /\ op'.pc = "unlink"
  BY <1>1, StepForward DEF Stages
<1>3. tmp' = main /\ tmp' \in Contents
  BY <1>1, ViewFacts DEF Vacuum, Rewriting
<1>4. TypeOK' /\ CommitsSurvive' /\ Held'
  BY <1>1, <1>2, <1>3 DEF Vacuum, TypeOK, CommitsSurvive, View, Held, Replacing, Idle
<1>5. Restoring' /\ BackingUp' /\ RollbackIsNewest'
  BY <1>1, <1>2 DEF Vacuum, Restoring, BackingUp, Rewrites, RollbackIsNewest
<1>6. Rewriting'
  BY <1>1, <1>2, <1>3 DEF Vacuum, Rewriting
<1> QED BY <1>4, <1>5, <1>6 DEF Vacuum

LEMMA VacuumFailsKeepsInv ==
  ASSUME BackupInv, VacuumFails
  PROVE  BackupInv'
<1>1. faults' \in 0..MaxFaults
  BY BackupAssumption DEF VacuumFails, Fault, BackupInv, TypeOK
<1>2. RollbackIsNewest'
  BY DEF VacuumFails, backups, BackupInv, RollbackIsNewest
<1>3. /\ End("failed") /\ open' = open /\ jail' = jail
      /\ UNCHANGED <<main, wal, searches, taken, slack, asked, committed, undo>>
  BY DEF VacuumFails, file, backups
<1> QED BY <1>1, <1>2, <1>3, EndStep

LEMMA SwapKeepsInv ==
  ASSUME BackupInv, Swap
  PROVE  BackupInv'
<1> USE DEF BackupInv, backups, Swap, End
<1>1. main' = main /\ wal' = NoWal
  BY AtRewrite DEF Stages, Rewriting, Rename
<1>2. op' = NoOp /\ NoOp \in Operations /\ Idle' /\ ~Replacing'
  BY DEF Operations, Idle, Replacing
<1>3. TypeOK' /\ CommitsSurvive'
  BY <1>1, <1>2 DEF TypeOK, CommitsSurvive, View
<1>4. Held' /\ Restoring' /\ Rewriting' /\ BackingUp' /\ RollbackIsNewest'
  BY <1>2 DEF Held, Restoring, Rewriting, BackingUp, RollbackIsNewest
<1> QED BY <1>3, <1>4

-----------------------------------------------------------------------------
\* Backups, and the world around

LEMMA BeginBackupKeepsInv ==
  ASSUME BackupInv, NEW pool \in {"dated", "manual"}, BeginBackup(pool)
  PROVE  BackupInv'
<1> USE DEF BackupInv, backups, BeginBackup
<1> DEFINE o == [kind |-> "backup", pc |-> pool]
<1>1. op' = o /\ o \in Operations /\ o # NoOp /\ ~Replacing /\ ~Replacing' /\ ~latch
  BY DEF Operations, NoOp, Replacing, Idle, Held
<1>2. tmp' \in Contents /\ main # Bad
  BY ViewFacts
<1>3. /\ main' \in {Absent, Bad} \cup Contents /\ wal' \in {NoWal} \cup Contents
      /\ open' \in BOOLEAN /\ View' = committed' /\ committed' \in {Absent, Bad} \cup Contents
  <2>1. CASE pool = "manual"
    <3>1. main' \in Contents /\ wal' = Rest /\ Rest \in Contents /\ committed' = Rest
      BY <2>1, ViewFacts DEF TypeOK, Contents
    <3> QED BY <2>1, <3>1, Distinct DEF View
  <2>2. CASE pool # "manual"
    BY <2>2 DEF file, TypeOK, CommitsSurvive, View
  <2> QED BY <2>1, <2>2
<1>4. TypeOK' /\ CommitsSurvive'
  BY <1>1, <1>2, <1>3 DEF TypeOK, CommitsSurvive
<1>5. Held'
  BY <1>1 DEF Held
<1>6. Restoring' /\ Rewriting' /\ BackingUp' /\ RollbackIsNewest'
  BY <1>1, <1>2 DEF Restoring, Rewriting, BackingUp, Rewrites, RollbackIsNewest
<1> QED BY <1>4, <1>5, <1>6

LEMMA EndBackupKeepsInv ==
  ASSUME BackupInv, EndBackup
  PROVE  BackupInv'
<1> USE DEF BackupInv, EndBackup, End
<1> DEFINE b == Backup(op.pc, tmp)
<1>1. op.pc \in {"dated", "manual"} /\ tmp \in Contents /\ taken < MaxBackups
  BY DEF TypeOK, Operations, NoOp, Rewrites, BackingUp
<1>2. b \in Backups /\ b.pool # "preRestore" /\ b.id = taken + 1
  BY <1>1, BackupAssumption DEF Backup, Backups, Pools, TypeOK
<1>3. /\ jail' \subseteq jail \cup {b}
      /\ \A c \in jail \cup {b} :
           (\A d \in jail \cup {b} : d.pool = c.pool => d.id <= c.id) => c \in jail'
  BY <1>2, PruneKeeps DEF TypeOK
<1>4. taken' \in 0..MaxBackups /\ taken' = taken + 1
  BY <1>1, BackupAssumption DEF TypeOK
<1>5. op' = NoOp /\ NoOp \in Operations /\ Idle' /\ ~Replacing'
  BY DEF Operations, Idle, Replacing
<1>6. TypeOK' /\ CommitsSurvive'
  BY <1>2, <1>3, <1>4, <1>5 DEF TypeOK, CommitsSurvive, View, file
<1>7. Held' /\ Restoring' /\ Rewriting' /\ BackingUp'
  BY <1>5 DEF Held, Restoring, Rewriting, BackingUp
<1>8. RollbackIsNewest'
  <2> SUFFICES ASSUME undo \notin {None, Bad} PROVE RollbackIsNewest'
    BY DEF RollbackIsNewest
  <2>1. PICK c \in jail : /\ c.pool = "preRestore" /\ c.content = undo
                          /\ \A d \in jail : d.pool = "preRestore" => d.id <= c.id
    BY DEF RollbackIsNewest
  <2>2. c \in jail'
    BY <1>2, <1>3, <2>1
  <2> QED BY <1>2, <1>3, <2>1, <2>2 DEF RollbackIsNewest
<1>9. \A c \in jail' : c.id <= taken'
  BY <1>2, <1>3, <1>4 DEF TypeOK, Backups
<1> QED BY <1>6, <1>7, <1>8, <1>9

LEMMA IdleStepsKeepInv ==
  ASSUME BackupInv, DeleteBackups \/ Shutdown \/ LoseFile
  PROVE  BackupInv'
<1> USE DEF BackupInv
<1>1. CASE DeleteBackups
  BY <1>1
     DEF DeleteBackups, file, TypeOK, CommitsSurvive, View, Held, Replacing, Restoring,
              Rewriting, BackingUp, RollbackIsNewest, Idle
<1>2. CASE Shutdown
  <2>1. main' = View /\ wal' = NoWal /\ open' = FALSE
    BY <1>2 DEF Shutdown, CloseHandle
  <2>2. View' = View /\ main' \in {Absent, Bad} \cup Contents
    BY <2>1, ViewFacts, Distinct DEF View
  <2>3. TypeOK' /\ CommitsSurvive'
    <3>1. searches' = {} /\ asked' = 0 /\ open' \in BOOLEAN
      BY <1>2, <2>1 DEF Shutdown
    <3>2. asked' \in 0..2
      BY <3>1
    <3> QED BY <1>2, <2>1, <2>2, <3>1, <3>2
       DEF Shutdown, backups, ghosts, TypeOK, CommitsSurvive
  <2>4. Held' /\ Restoring' /\ Rewriting' /\ BackingUp' /\ RollbackIsNewest'
    BY <1>2, <2>1 DEF Shutdown, backups, ghosts, Held, Replacing, Restoring, Rewriting,
                      BackingUp, RollbackIsNewest, Idle
  <2> QED BY <1>2, <2>3, <2>4 DEF Shutdown, backups
<1>3. CASE LoseFile
  BY <1>3 DEF LoseFile, backups, TypeOK, CommitsSurvive, View, Held, Replacing, Restoring,
              Rewriting, BackingUp, RollbackIsNewest, Idle
<1> QED BY <1>1, <1>2, <1>3

LEMMA KillKeepsInv ==
  ASSUME BackupInv, Kill
  PROVE  BackupInv'
<1> USE DEF BackupInv, Kill, backups
<1>1. op' = NoOp /\ NoOp \in Operations /\ Idle' /\ ~Replacing'
  BY DEF Operations, Idle, Replacing
<1>2. TypeOK'
  <2>1. /\ open' = FALSE /\ latch' = FALSE /\ searches' = {} /\ asked' = 0 /\ tmp' = None
        /\ outcome' = "none"
    OBVIOUS
  <2>2. UNCHANGED <<main, wal, jail, taken, faults, slack, committed, undo>>
    OBVIOUS
  <2>3. /\ open' \in BOOLEAN /\ latch' \in BOOLEAN /\ slack' \in BOOLEAN
        /\ searches' \subseteq Searches
    BY <2>1, <2>2 DEF TypeOK
  <2>6. asked' \in 0..2
    <3> HIDE DEF Kill, BackupInv
    <3> QED BY <2>1
  <2>4. /\ tmp' \in {None} \cup Contents /\ outcome' \in {"none", "ok", "failed", "broken"}
        /\ op' \in Operations
    BY <1>1, <2>1
  <2>5. /\ main' \in {Absent, Bad} \cup Contents /\ wal' \in {NoWal} \cup Contents
        /\ jail' \subseteq Backups /\ taken' \in 0..MaxBackups /\ faults' \in 0..MaxFaults
        /\ committed' \in {Absent, Bad} \cup Contents /\ undo' \in {Bad, None} \cup Contents
    BY <2>2 DEF TypeOK
  <2> QED BY <2>3, <2>4, <2>5, <2>6 DEF TypeOK
<1>3. CommitsSurvive'
  BY DEF CommitsSurvive, View
<1>4. Held' /\ Restoring' /\ Rewriting' /\ BackingUp'
  BY <1>1 DEF Held, Restoring, Rewriting, BackingUp
<1>5. RollbackIsNewest'
  BY DEF RollbackIsNewest
<1> QED BY <1>2, <1>3, <1>4, <1>5

-----------------------------------------------------------------------------
LEMMA InitBackupInv == Init => BackupInv
<1> SUFFICES ASSUME Init PROVE BackupInv
  OBVIOUS
<1> USE BackupAssumption DEF Init
<1>1. NoOp \in Operations /\ Idle /\ ~Replacing
  BY DEF Operations, Idle, Replacing
<1>2. TypeOK
  <2>1. /\ main \in {Absent, Bad} \cup Contents /\ committed = main /\ wal = NoWal
        /\ op \in Operations 
    BY <1>1 DEF Contents
  <2>2. taken \in 0..MaxBackups /\ faults \in 0..MaxFaults /\ asked \in 0..2
    OBVIOUS
  <2>3. open \in BOOLEAN /\ latch \in BOOLEAN /\ slack \in BOOLEAN /\ searches = {}
    OBVIOUS
  <2>4. tmp = None /\ jail = {} /\ undo = None /\ outcome = "none"
    OBVIOUS
  <2> HIDE DEF Init
  <2> QED BY <2>1, <2>2, <2>3, <2>4 DEF TypeOK
<1>3. CommitsSurvive
  BY DEF CommitsSurvive, View
<1>4. Held /\ Restoring /\ Rewriting /\ BackingUp /\ RollbackIsNewest
  BY <1>1 DEF Held, Restoring, Rewriting, BackingUp, RollbackIsNewest
<1> QED BY <1>2, <1>3, <1>4 DEF BackupInv

LEMMA NextKeepsBackupInv ==
  ASSUME "orphan" \notin Env, BackupInv, [Next]_vars
  PROVE  BackupInv'
<1>1. ASSUME NEW q \in Searches, SearchBegins(q) \/ SearchEnds(q) PROVE BackupInv'
  BY <1>1, SearchesKeepInv
<1>2. ASSUME NEW q \in Searches, NEW r \in Rows, SearchSaves(q, r) PROVE BackupInv'
  BY <1>2, SearchSavesKeepsInv
<1>3. CASE Read \/ (\E r \in Rows : Edit(r))
  BY <1>3, RequestsKeepInv
<1>4. CASE AskCompaction
  BY <1>4, QuietStep DEF AskCompaction, BackupInv, TypeOK, Held
<1>5. CASE Checkpoint
  BY <1>5, CheckpointKeepsInv
<1>6. ASSUME NEW b \in jail, BeginRestore(b) PROVE BackupInv'
  BY <1>6, BeginRestoreKeepsInv
<1>7. CASE Restore
  <2>1. CASE SnapshotLive \/ SnapshotFails \/ Stage \/ StageFails \/ CloseLive
    BY <2>1, SnapshotLiveKeepsInv, SnapshotFailsKeepsInv, StageKeepsInv, StageFailsKeepsInv,
       CloseLiveKeepsInv
  <2>2. CASE Publish \/ ProbeOk \/ ProbeFails \/ Revert \/ RevertFails
    BY <2>2, PublishKeepsInv, ProbeOkKeepsInv, ProbeFailsKeepsInv, RevertKeepsInv,
       RevertFailsKeepsInv
  <2> QED BY <1>7, <2>1, <2>2 DEF Restore
<1>8. CASE Unlink \/ SwapFails
  BY <1>8, UnlinkKeepsInv, SwapFailsKeepsInv
<1>9. CASE BeginCompact \/ BeginAuto \/ BeginClear
  BY <1>9, RewritesBeginKeepsInv
<1>10. CASE RefuseAuto \/ SkipAuto \/ Vacuum \/ VacuumFails \/ Swap
  BY <1>10, RefuseAutoKeepsInv, SkipAutoKeepsInv, VacuumKeepsInv, VacuumFailsKeepsInv,
     SwapKeepsInv
<1>11. ASSUME NEW pool \in {"dated", "manual"}, BeginBackup(pool) PROVE BackupInv'
  BY <1>11, BeginBackupKeepsInv
<1>12. CASE EndBackup \/ Kill
  BY <1>12, EndBackupKeepsInv, KillKeepsInv
<1>13. CASE DeleteBackups \/ Shutdown \/ LoseFile
  BY <1>13, IdleStepsKeepInv
<1>14. CASE UNCHANGED vars
  BY <1>14, QuietStep DEF vars, BackupInv, TypeOK, Held
<1> QED BY <1>1, <1>2, <1>3, <1>4, <1>5, <1>6, <1>7, <1>8, <1>9, <1>10, <1>11, <1>12, <1>13,
          <1>14 DEF Next

\* The invariant, types included, when no operation begins beside the WAL of a
\* killed process.
THEOREM BackupInvariant ==
  ASSUME "orphan" \notin Env
  PROVE  Spec => []BackupInv
<1>1. Init => BackupInv
  BY InitBackupInv
<1>2. BackupInv /\ [Next]_vars => BackupInv'
  BY NextKeepsBackupInv
<1> QED BY <1>1, <1>2, PTL DEF Spec

\* At every moment, after a kill too, the file reads as what was last committed
\* or restored (backup.ts:546-577, 1018-1029).
THEOREM CommitsSurviveHolds ==
  ASSUME "orphan" \notin Env
  PROVE  Spec => []CommitsSurvive
<1>1. BackupInv => CommitsSurvive
  BY DEF BackupInv
<1> QED BY <1>1, BackupInvariant, PTL

\* What the last restore has replaced is in the jail until the next restore,
\* however backups are taken and pruned (backup.ts:446-464, 694-698).
THEOREM RollbackKeptHolds ==
  ASSUME "orphan" \notin Env
  PROVE  Spec => []RollbackKept
<1>1. BackupInv => RollbackKept
  BY DEF BackupInv, RollbackIsNewest, RollbackKept
<1> QED BY <1>1, BackupInvariant, PTL

\* A restore that fails leaves the database as it was, unless the revert fails
\* too or there was no file before (backup.ts:542-679).
THEOREM FailedRestoreIsHarmlessHolds ==
  ASSUME "orphan" \notin Env
  PROVE  Spec => FailedRestoreIsHarmless
<1> DEFINE Harm == ~Idle /\ op.kind = "restore" /\ op.before # Absent /\ outcome' = "failed"
<1>1. ASSUME BackupInv, Next, Harm
      PROVE  View' = op.before
  <2>1. /\ outcome = "none" /\ op.kind \notin Rewrites \cup {"backup"}
        /\ (op.pc \notin {"probe", "revert"} => View = op.before)
        /\ (op.pc # "snapshot" => op.pre # None /\ op.pre.content = op.before)
        /\ (op.pc = "revert" => wal = NoWal)
    BY <1>1 DEF BackupInv, Held, Restoring, Rewrites
  <2>2. SnapshotFails \/ StageFails \/ SwapFails \/ ProbeFails \/ Revert
    <3>1. ~Read /\ ~Checkpoint /\ ~AskCompaction /\ \A r \in Rows : ~Edit(r)
      BY <1>1, <2>1 DEF Read, Edit, Commit, Checkpoint, AskCompaction, ghosts
    <3>2. \A q \in Searches : /\ ~SearchBegins(q) /\ ~SearchEnds(q)
                              /\ \A r \in Rows : ~SearchSaves(q, r)
      BY <1>1, <2>1 DEF SearchBegins, SearchEnds, SearchSaves, ghosts
    <3>3. ~SnapshotLive /\ ~Stage /\ ~CloseLive /\ ~Publish /\ ~ProbeOk /\ ~RevertFails
      BY <1>1, <2>1
         DEF SnapshotLive, Stage, CloseLive, Publish, ProbeOk, RevertFails, End, ghosts
    <3>4. ~Unlink /\ ~RefuseAuto /\ ~SkipAuto /\ ~DeleteBackups /\ ~Kill /\ ~Shutdown /\ ~LoseFile
      BY <1>1, <2>1
         DEF Unlink, RefuseAuto, SkipAuto, DeleteBackups, Kill, Shutdown, LoseFile,
                        ghosts
    <3>5. /\ ~BeginCompact /\ ~BeginAuto /\ ~BeginClear /\ \A b \in jail : ~BeginRestore(b)
          /\ \A pool \in {"dated", "manual"} : ~BeginBackup(pool)
      BY <1>1 DEF BeginCompact, BeginAuto, BeginClear, BeginRestore, BeginBackup, Begin
    <3>6. ~Vacuum /\ ~VacuumFails /\ ~Swap /\ ~EndBackup
      BY <1>1, <2>1 DEF Vacuum, VacuumFails, Swap, EndBackup, At, Rewrites
    <3> QED BY <1>1, <3>1, <3>2, <3>3, <3>4, <3>5, <3>6 DEF Next, Restore
  <2>3. CASE SnapshotFails \/ StageFails \/ SwapFails
    <3>1. op.pc \in {"snapshot", "stage", "unlink", "rename"} /\ main' = main /\ wal' = wal
      BY <2>3 DEF SnapshotFails, StageFails, SwapFails, At, file
    <3> QED BY <2>1, <3>1 DEF View
  <2>4. CASE ProbeFails
    <3>1. op.pc = "probe" /\ op.pre = None
      BY <1>1, <2>1, <2>4 DEF ProbeFails, At
    <3> QED BY <2>1, <3>1
  <2>5. CASE Revert
    BY <2>1, <2>5 DEF Revert, At, View
  <2> QED BY <2>2, <2>3, <2>4, <2>5
<1>2. BackupInv /\ [Next]_vars => [Harm => View' = op.before]_vars
  BY <1>1
<1> QED BY <1>2, BackupInvariant, PTL DEF Spec, FailedRestoreIsHarmless

\* The file is replaced under no search and no handle, and by an automatic
\* compaction only if there is something to free (backup.ts:944-948, 1131-1150).
THEOREM ReplacedOnlyWhenDueHolds ==
  ASSUME "orphan" \notin Env
  PROVE  Spec => ReplacedOnlyWhenDue
<1> DEFINE Due == searches = {} /\ ~open /\ (op.kind = "auto" => slack)
<1>1. ASSUME BackupInv, Publish \/ Swap \/ Revert
      PROVE  Due
  <2>1. CASE Publish \/ Revert
    <3>1. /\ ~Idle /\ Replacing /\ op.kind = "restore" /\ op.pc \in {"rename", "revert"}
      BY <2>1 DEF Publish, Revert, At, Replacing
    <3> QED BY <1>1, <3>1 DEF BackupInv, Held, Restoring
  <2>2. CASE Swap
    <3>1. ~Idle /\ Replacing /\ op.kind \in Rewrites
      BY <2>2 DEF Swap, At, Replacing, Rewrites
    <3> QED BY <1>1, <3>1 DEF BackupInv, Held, Rewriting
  <2> QED BY <1>1, <2>1, <2>2
<1>2. BackupInv /\ [Next]_vars => [Publish \/ Swap \/ Revert => Due]_vars
  BY <1>1
<1> QED BY <1>2, BackupInvariant, PTL DEF Spec, ReplacedOnlyWhenDue

-----------------------------------------------------------------------------
(* A search: what RNPM lists. *)

Answers == [total : Nat, rows : Seq(Documents), pagesTotal : Nat]
Number == Nat \ {0}

\* Rows of the pages before one.
LEMMA PagesReach ==
  ASSUME NEW a \in Answers, NEW n \in Nat
  PROVE  /\ n * PageSize \in Nat /\ (n + 1) * PageSize = n * PageSize + PageSize
         /\ Upto(a, n) \in 0..Len(a.rows)
         /\ Upto(a, n) <= Upto(a, n + 1)
         /\ n * PageSize <= Len(a.rows) => Upto(a, n) = n * PageSize
<1>1. PageSize \in Nat \ {0}
  BY SearchAssumption
<1>2. n * PageSize \in Nat /\ (n + 1) * PageSize = n * PageSize + PageSize
  BY <1>1
<1>3. Len(a.rows) \in Nat
  BY DEF Answers
<1> QED BY <1>1, <1>2, <1>3 DEF Upto

LEMMA PagesOrdered ==
  ASSUME NEW n \in Nat, NEW m \in Nat, n <= m
  PROVE  n * PageSize <= m * PageSize
<1>1. PageSize \in Nat /\ m - n \in Nat
  BY SearchAssumption
<1>2. m * PageSize = n * PageSize + (m - n) * PageSize /\ (m - n) * PageSize >= 0
  BY <1>1
<1> QED BY <1>1, <1>2

\* A page that follows what is listed makes it longer by that page.
LEMMA ListedGrows ==
  ASSUME NEW a \in Answers, NEW from \in Number, NEW n \in Number, from <= n
  PROVE  /\ Listed(a, from, n) \in Seq(Documents) /\ Page(a, n) \in Seq(Documents)
         /\ Listed(a, from, n) \o Page(a, n) = Listed(a, from, n + 1)
<1> DEFINE m == (from - 1) * PageSize + 1
           k == Upto(a, n - 1)
           e == Upto(a, n)
           p == (n - 1) * PageSize + 1
<1>0. a.rows \in Seq(Documents) /\ Len(a.rows) \in Nat
  BY DEF Answers
<1>1. m \in Number /\ p \in Number /\ m <= p
  <2>1. from - 1 \in Nat /\ n - 1 \in Nat /\ from - 1 <= n - 1
    BY DEF Number
  <2>2. (from - 1) * PageSize \in Nat /\ (n - 1) * PageSize \in Nat
    BY <2>1, PagesReach
  <2>3. (from - 1) * PageSize <= (n - 1) * PageSize
    BY <2>1, PagesOrdered
  <2> QED BY <2>2, <2>3 DEF Number
<1>2. k \in 0..Len(a.rows) /\ e \in 0..Len(a.rows) /\ k <= e
      /\ (p <= Len(a.rows) + 1 => p = k + 1)
  <2>1. (n - 1) + 1 = n /\ n - 1 \in Nat /\ n \in Nat
    BY DEF Number
  <2>2. /\ k \in 0..Len(a.rows) /\ k <= Upto(a, (n - 1) + 1)
        /\ (n - 1) * PageSize \in Nat
        /\ (n - 1) * PageSize <= Len(a.rows) => k = (n - 1) * PageSize
    BY <2>1, PagesReach
  <2>3. e \in 0..Len(a.rows)
    BY <2>1, PagesReach
  <2>4. k <= e
    BY <2>1, <2>2
  <2> HIDE DEF k, e
  <2> QED BY <1>0, <2>2, <2>3, <2>4
<1>3. k < p
  <2>1. n - 1 \in Nat
    BY DEF Number
  <2>2. /\ k \in 0..Len(a.rows) /\ (n - 1) * PageSize \in Nat
        /\ (n - 1) * PageSize <= Len(a.rows) => k = (n - 1) * PageSize
    BY <2>1, PagesReach
  <2> HIDE DEF k
  <2> QED BY <1>0, <2>2
<1>4. /\ Listed(a, from, n) = SubSeq(a.rows, m, k) /\ Page(a, n) = SubSeq(a.rows, p, e)
      /\ Listed(a, from, n + 1) = SubSeq(a.rows, m, e)
  BY DEF Listed, Page, Number
<1> HIDE DEF m, k, e, p
<1>5. \A i \in Nat, j \in 0..Len(a.rows) : i > 0 => SubSeq(a.rows, i, j) \in Seq(Documents)
  <2> TAKE i \in Nat, j \in 0..Len(a.rows)
  <2> HAVE i > 0
  <2>1. \A x \in i..j : a.rows[x] \in Documents
    BY <1>0
  <2> QED BY <1>0, <2>1, SubSeqProperties
<1>6. CASE m <= Len(a.rows) + 1 /\ p <= Len(a.rows) + 1
  <2>1. k \in m - 1..Len(a.rows) /\ m \in 1..Len(a.rows) + 1 /\ e \in k..Len(a.rows)
    BY <1>0, <1>1, <1>2, <1>6 DEF Number
  <2>2. SubSeq(a.rows, m, k) \o SubSeq(a.rows, k + 1, e) = SubSeq(a.rows, m, e)
    BY <1>0, <2>1, ConcatAdjacentSubSeq
  <2>3. SubSeq(a.rows, m, k) \in Seq(Documents) /\ SubSeq(a.rows, p, e) \in Seq(Documents)
    BY <1>0, <1>1, <1>2, <1>5 DEF Number
  <2>4. p = k + 1
    BY <1>2, <1>6
  <2> QED BY <1>4, <2>2, <2>3, <2>4
<1>7. CASE p > Len(a.rows) + 1
  <2>1. SubSeq(a.rows, p, e) = <<>>
    BY <1>0, <1>1, <1>2, <1>7, SubSeqEmpty DEF Number
  <2>2. k = Len(a.rows) /\ e = k
    BY <1>0, <1>1, <1>2, <1>7 DEF Number, k, p, e, Upto
  <2>3. SubSeq(a.rows, m, k) \o <<>> = SubSeq(a.rows, m, k)
    BY <1>0, <1>1, <1>2, <1>5, ConcatEmptySeq DEF Number
  <2> QED BY <1>0, <1>1, <1>2, <1>4, <1>5, <2>1, <2>2, <2>3 DEF Number
<1> QED BY <1>0, <1>1, <1>2, <1>6, <1>7 DEF Number

\* The pages that a number of rows takes.
LEMMA PagesSuffice ==
  ASSUME NEW n \in Nat
  PROVE  /\ PagesFor(n) \in Nat /\ n <= PagesFor(n) * PageSize
         /\ n = 0 => PagesFor(n) = 0
<1>1. PageSize \in Nat /\ PageSize > 0
  BY SearchAssumption
<1>2. \A x \in Nat : /\ x \div PageSize \in Nat
                     /\ (x \div PageSize) * PageSize <= x
                     /\ x < (x \div PageSize) * PageSize + PageSize
  BY <1>1
<1>3. n + PageSize - 1 \in Nat
  BY <1>1
<1>4. PagesFor(n) \in Nat /\ n <= PagesFor(n) * PageSize
  BY <1>1, <1>2, <1>3 DEF PagesFor
<1>5. (PageSize - 1) \div PageSize = 0
  BY <1>1
<1> QED BY <1>1, <1>4, <1>5 DEF PagesFor

\* After the last page everything is listed, and there is no other before.
LEMMA LastPage ==
  ASSUME NEW a \in Answers, a.total = Len(a.rows), a.pagesTotal >= PagesFor(a.total),
         NEW from \in Number, NEW n \in Number, n > 1
  PROVE  LET last == PagesFor(Len(a.rows))
         IN  IF n <= Clamped(a) THEN n <= last
             ELSE Listed(a, from, n) = Listed(a, from, last + 1)
<1> DEFINE last == PagesFor(Len(a.rows))
<1>0. Len(a.rows) \in Nat /\ a.pagesTotal \in Nat
  BY DEF Answers
<1>1. last \in Nat /\ Len(a.rows) <= last * PageSize /\ (Len(a.rows) = 0 => last = 0)
  BY <1>0, PagesSuffice
<1>2. n <= Clamped(a) => n <= last
  BY <1>0, <1>1 DEF Clamped, Number
<1>3. CASE n > Clamped(a)
  <2>1. last <= n - 1 /\ n - 1 \in Nat
    BY <1>0, <1>1, <1>3 DEF Clamped, Number
  <2>2. last * PageSize <= (n - 1) * PageSize
    BY <1>1, <2>1, PagesOrdered
  <2>3. /\ last * PageSize \in Nat /\ (n - 1) * PageSize \in Nat
    BY <1>1, <2>1, PagesReach
  <2>4. Upto(a, n - 1) = Len(a.rows) /\ Upto(a, last) = Len(a.rows)
    BY <1>0, <1>1, <2>2, <2>3 DEF Upto
  <2>5. (last + 1) - 1 = last
    BY <1>1
  <2>6. Listed(a, from, n) = SubSeq(a.rows, (from - 1) * PageSize + 1, Len(a.rows))
    BY <2>4 DEF Listed
  <2>7. Listed(a, from, last + 1) = SubSeq(a.rows, (from - 1) * PageSize + 1, Len(a.rows))
    BY <2>4, <2>5 DEF Listed
  <2>8. ~(n <= Clamped(a))
    BY <1>0, <1>1, <1>3 DEF Clamped, Number
  <2> QED BY <2>6, <2>7, <2>8
<1>4. CASE n <= Clamped(a)
  BY <1>2, <1>4
<1>5. Clamped(a) \in Nat
  BY <1>0, <1>1 DEF Clamped
<1> QED BY <1>3, <1>4, <1>5 DEF Number

Entering == {"captcha", "captchaFirst", "first", "refirst"}
Turning == {"storage", "captchaMore", "more", "remore"}
Listing == {"batch", "details"}
Ending == {"recover", "recovering"}

Id == Documents \cup {Null}

SearchRecord ==
  [pc : Entering \cup Turning \cup Listing \cup Ending \cup {"ended"},
   query : DOMAIN world.answer, sid : Nat \cup {Null}, page : Number, start : Number,
   given : BOOLEAN, docs : Seq(Documents), ids : Seq(Id),
   failed : [Documents -> Nat], again : SUBSET Nat, at : Nat, captchas : Nat,
   outcome : {"none", "ok", "limit", "error", "expired", "storage", "abort"}]

\* The pages up to the one before s.page are in hand, or up to this one while
\* its rows are fetched; none, as long as RNPM has not answered.
Turned == s.pc \in Turning \cup Ending \/ (s.pc = "ended" /\ s.outcome = "ok")

Gathered ==
  /\ s.start <= s.page
  /\ s.pc \in Entering => s.page = s.start /\ s.docs = <<>> /\ s.again = {} /\ s.at = 0
  /\ s.pc \in Listing => s.docs = Listed(Answer, s.start, s.page + 1)
  /\ Turned => /\ s.docs = Listed(Answer, s.start, s.page)
               /\ s.start < s.page /\ Len(s.docs) <= s.at
  /\ Turned \/ s.pc \in Listing => Answer.total <= MaxTotal

\* Every row that was gone through has its id, or is one of the failed ones.
Lost == {n \in DOMAIN s.docs : n <= s.at /\ s.ids[n] = Null}

Marked ==
  /\ Len(s.ids) = Len(s.docs)
  /\ \A n \in DOMAIN s.docs : s.ids[n] = s.docs[n] \/ s.ids[n] = Null
  /\ \A n \in DOMAIN s.docs : n > s.at => s.ids[n] = Null
  /\ s.again \subseteq Lost
  /\ s.failed = [d \in Documents |-> Copies(d, Lost)]

Fetching ==
  /\ s.pc = "details" => DOMAIN worker = Batch
  /\ s.pc = "recovering" => DOMAIN worker \subseteq Lost \ s.again
  /\ s.pc \notin {"details", "recovering"} => DOMAIN worker = {}

LookInv ==
  /\ world \in Worlds /\ lastId \in Nat
  /\ s \in SearchRecord \cup {NoSearch}
  /\ Active => Gathered /\ Marked
  /\ Fetching

LEMMA LookTyped ==
  ASSUME LookInv, Active
  PROVE  /\ s \in SearchRecord /\ Answer \in Answers
         /\ Len(s.docs) \in Nat /\ DOMAIN s.docs = 1..Len(s.docs)
         /\ DOMAIN s.ids = DOMAIN s.docs
<1>1. s \in SearchRecord
  BY DEF LookInv, Active, NoSearch
<1>2. Answer \in Answers
  BY <1>1, SearchAssumption DEF LookInv, SearchRecord, Answer, Answers
<1> QED BY <1>1, <1>2 DEF SearchRecord, LookInv, Marked

\* What is not looked at again stays marked as it is.
LEMMA MarksKept ==
  ASSUME LookInv, Active, s' \in SearchRecord', UNCHANGED world,
         s'.docs = s.docs, s'.ids = s.ids, s'.again = s.again, s'.at = s.at,
         s'.failed = s.failed
  PROVE  Marked' /\ Lost' = Lost
<1>1. Lost' = Lost
  BY DEF Lost
<1> QED BY <1>1 DEF LookInv, Marked, Copies

\* A step that turns no page and fetches nothing.
LEMMA TurnKeeps ==
  ASSUME LookInv, Active, UNCHANGED <<world, lastId>>, NEW pc, NEW n, NEW o,
         n \in Nat, o \in {"none", "ok", "limit", "error", "expired", "storage", "abort"},
         pc \in Entering \cup Turning \cup Ending \cup {"ended"},
         s' = [s EXCEPT !.pc = pc, !.captchas = n, !.outcome = o],
         DOMAIN worker' = {}, pc # "recovering",
         \/ pc \in Entering /\ s.pc \in Entering
         \/ pc \in Turning /\ s.pc \in Turning
         \/ pc = "ended" /\ (o # "ok" \/ s.pc \in Ending)
  PROVE  LookInv'
<1>1. s' \in SearchRecord' /\ Active'
  BY LookTyped DEF SearchRecord, Active, Entering, Turning, Ending
<1>2. /\ s'.docs = s.docs /\ s'.ids = s.ids /\ s'.again = s.again /\ s'.at = s.at
      /\ s'.failed = s.failed /\ s'.query = s.query /\ s'.start = s.start
      /\ s'.page = s.page /\ s'.pc = pc /\ s'.outcome = o
  BY LookTyped DEF SearchRecord
<1>3. Marked'
  BY <1>1, <1>2, MarksKept
<1>4. Gathered'
  BY <1>2 DEF LookInv, Gathered, Turned, Listed, Upto, Answer, Entering, Turning, Listing, Ending
<1>5. Fetching'
  BY <1>2 DEF Fetching, Entering, Turning, Ending
<1> QED BY <1>1, <1>3, <1>4, <1>5 DEF LookInv

\* A search begins with nothing in hand.
LEMMA StartKeeps ==
  ASSUME LookInv, UNCHANGED <<world, worker>>, lastId' \in Nat, DOMAIN worker = {},
         NEW q \in DOMAIN world.answer, NEW n \in Number, NEW g \in BOOLEAN,
         NEW sid \in Nat \cup {Null}, StartSearch(q, n, g, sid)
  PROVE  LookInv'
<1>1. s' \in SearchRecord'
  BY DEF StartSearch, NewSearch, SearchRecord, Entering, Number
<1>2. /\ s'.docs = <<>> /\ s'.ids = <<>> /\ s'.again = {} /\ s'.at = 0
      /\ s'.failed = [d \in Documents |-> 0] /\ s'.pc \in {"first", "captcha"}
      /\ s'.page = s'.start /\ s'.page \in Number
  BY DEF StartSearch, NewSearch, Number
<1>3. Gathered'
  BY <1>2 DEF Gathered, Turned, Entering, Turning, Listing, Ending, Number
<1>4. Lost' = {}
  BY <1>2 DEF Lost
<1>5. \A d : Copies(d, Lost)' = 0
  BY <1>4, FS_EmptySet DEF Copies
<1>6. Marked'
  BY <1>2, <1>4, <1>5 DEF Marked
<1>7. Fetching'
  BY <1>2 DEF Fetching
<1> QED BY <1>1, <1>3, <1>6, <1>7 DEF LookInv

\* Rows and as many times one value are added to two sequences of the same length.
Longer(D, I, docs, ids, rows, nulls, none) ==
  /\ Len(rows) \in Nat
  /\ docs \o rows \in Seq(D) /\ ids \o nulls \in Seq(I)
  /\ Len(docs \o rows) = Len(docs) + Len(rows)
  /\ Len(ids \o nulls) = Len(docs) + Len(rows)
  /\ \A n \in 1..Len(docs) : (docs \o rows)[n] = docs[n] /\ (ids \o nulls)[n] = ids[n]
  /\ \A n \in Len(docs) + 1..Len(docs) + Len(rows) : (ids \o nulls)[n] = none

LEMMA Padded ==
  ASSUME NEW D, NEW I, NEW docs \in Seq(D), NEW ids \in Seq(I), Len(ids) = Len(docs),
         NEW rows \in Seq(D), NEW none, NEW nulls \in Seq(I), Len(nulls) = Len(rows),
         \A n \in 1..Len(rows) : nulls[n] = none
  PROVE  Longer(D, I, docs, ids, rows, nulls, none)
<1>1. Len(rows) \in Nat /\ Len(docs) \in Nat
  OBVIOUS
<1>3. /\ docs \o rows \in Seq(D) /\ Len(docs \o rows) = Len(docs) + Len(rows)
      /\ \A n \in 1..Len(docs) + Len(rows) :
           (docs \o rows)[n] = IF n <= Len(docs) THEN docs[n] ELSE rows[n - Len(docs)]
  BY ConcatProperties
<1>4. /\ ids \o nulls \in Seq(I) /\ Len(ids \o nulls) = Len(ids) + Len(nulls)
      /\ \A n \in 1..Len(ids) + Len(nulls) :
           (ids \o nulls)[n] = IF n <= Len(ids) THEN ids[n] ELSE nulls[n - Len(ids)]
  BY ConcatProperties
<1>5. ASSUME NEW n \in Len(docs) + 1..Len(docs) + Len(rows) PROVE (ids \o nulls)[n] = none
  <2>1. n \in 1..Len(ids) + Len(nulls) /\ ~(n <= Len(ids)) /\ n - Len(docs) \in 1..Len(rows)
    BY <1>1
  <2> QED BY <1>4, <2>1
<1>6. ASSUME NEW n \in 1..Len(docs)
      PROVE  (docs \o rows)[n] = docs[n] /\ (ids \o nulls)[n] = ids[n]
  <2>1. n \in 1..Len(ids) + Len(nulls) /\ n <= Len(docs) /\ n \in 1..Len(docs) + Len(rows)
    BY <1>1
  <2> QED BY <1>3, <1>4, <2>1
<1> QED BY <1>1, <1>3, <1>4, <1>5, <1>6 DEF Longer

\* The rows of a page, none of which has been fetched, are added to the others.
Lists(sid, rows) ==
  s' = [s EXCEPT !.pc = "batch", !.sid = sid, !.docs = @ \o rows,
                 !.ids = @ \o [r \in DOMAIN rows |-> Null], !.at = Len(s.docs)]

LEMMA ListKeeps ==
  ASSUME LookInv, Active, UNCHANGED world, lastId' \in Nat, DOMAIN worker' = {},
         s.pc \in Entering \cup Turning, Answer.total <= MaxTotal,
         NEW sid \in Nat \cup {Null}, NEW rows, rows = Page(Answer, s.page),
         Lists(sid, rows)
  PROVE  LookInv'
<1>0. /\ s \in SearchRecord /\ Answer \in Answers /\ s.page \in Number /\ s.start \in Number
      /\ s.start <= s.page
  BY LookTyped DEF SearchRecord, LookInv, Gathered
<1>1. rows \in Seq(Documents)
  BY <1>0, ListedGrows
<1>2. PICK nulls : nulls = [r \in DOMAIN rows |-> Null]
  OBVIOUS
<1>3. /\ Len(rows) \in Nat
      /\ s.docs \o rows \in Seq(Documents) /\ s.ids \o nulls \in Seq(Id)
      /\ Len(s.docs \o rows) = Len(s.docs) + Len(rows)
      /\ Len(s.ids \o nulls) = Len(s.docs) + Len(rows)
      /\ \A n \in 1..Len(s.docs) : /\ (s.docs \o rows)[n] = s.docs[n]
                                   /\ (s.ids \o nulls)[n] = s.ids[n]
      /\ \A n \in Len(s.docs) + 1..Len(s.docs) + Len(rows) : (s.ids \o nulls)[n] = Null
  <2>1. s.docs \in Seq(Documents) /\ s.ids \in Seq(Id) /\ Len(s.ids) = Len(s.docs)
    BY <1>0 DEF SearchRecord, LookInv, Marked
  <2>2. nulls \in Seq(Id) /\ Len(nulls) = Len(rows) /\ \A n \in 1..Len(rows) : nulls[n] = Null
    BY <1>1, <1>2 DEF Id
  <2>3. Longer(Documents, Id, s.docs, s.ids, rows, nulls, Null)
    BY <1>1, <2>1, <2>2, Padded
  <2> QED BY <2>3 DEF Longer
<1>4. /\ s'.docs = s.docs \o rows /\ s'.ids = s.ids \o nulls /\ s'.at = Len(s.docs)
      /\ s'.again = s.again /\ s'.failed = s.failed /\ s'.query = s.query
      /\ s'.start = s.start /\ s'.page = s.page /\ s'.pc = "batch"
  BY <1>0, <1>2 DEF SearchRecord, Lists
<1>5. s' \in SearchRecord'
  BY <1>0, <1>2, <1>3, LookTyped DEF SearchRecord, Listing, Lists
<1>6. s.docs = Listed(Answer, s.start, s.page) /\ Len(s.docs) \in Nat /\ DOMAIN s.docs = 1..Len(s.docs)
  <2>1. s.pc \in Entering => Listed(Answer, s.start, s.page) = <<>>
    <3> SUFFICES ASSUME s.pc \in Entering PROVE Listed(Answer, s.start, s.start) = <<>>
      BY DEF LookInv, Gathered
    <3>1. Upto(Answer, s.start - 1) <= (s.start - 1) * PageSize
          /\ (s.start - 1) * PageSize \in Nat /\ Upto(Answer, s.start - 1) \in Nat
      <4>1. s.start - 1 \in Nat /\ Len(Answer.rows) \in Nat
        BY <1>0 DEF Number, Answers
      <4>2. (s.start - 1) * PageSize \in Nat
        BY <1>0, <4>1, PagesReach
      <4> QED BY <4>1, <4>2 DEF Upto
    <3> QED BY <3>1, SubSeqEmpty DEF Listed
  <2> QED BY <2>1, LookTyped DEF LookInv, Gathered, Turned
<1>7. Gathered'
  <2>1. s'.docs = Listed(Answer, s.start, s.page + 1)
    <3>1. Listed(Answer, s.start, s.page) \o Page(Answer, s.page) =
            Listed(Answer, s.start, s.page + 1)
      BY <1>0, ListedGrows
    <3> QED BY <1>4, <1>6, <3>1
  <2> QED BY <1>0, <1>4, <2>1
     DEF Gathered, Turned, Listed, Upto, Answer, Entering, Turning,
                               Listing, Ending
<1>8. Lost' = Lost
  <2>1. \A n \in DOMAIN s.docs : n <= s.at
    <3>1. s.pc \in Entering => Len(s.docs) = 0
      BY DEF LookInv, Gathered
    <3>2. s.pc \in Turning => Len(s.docs) <= s.at
      BY DEF LookInv, Gathered, Turned
    <3>3. s.at \in Nat
      BY <1>0 DEF SearchRecord
    <3> QED BY <1>6, <3>1, <3>2, <3>3
  <2>2. DOMAIN s'.docs = 1..Len(s.docs) + Len(rows)
    BY <1>3, <1>4
  <2> QED BY <1>2, <1>3, <1>4, <1>6, <2>1, <2>2 DEF Lost
<1>9. \A d : Copies(d, Lost)' = Copies(d, Lost)
  <2>1. \A n \in Lost : s'.docs[n] = s.docs[n]
    BY <1>3, <1>4, <1>6 DEF Lost
  <2> QED BY <1>8, <2>1 DEF Copies
<1>10. Marked'
  <2>1. DOMAIN s'.docs = 1..Len(s.docs) + Len(rows) /\ DOMAIN s.docs = 1..Len(s.docs)
    BY <1>3, <1>4, <1>6
  <2>2. \A n \in DOMAIN s'.docs : s'.ids[n] = s'.docs[n] \/ s'.ids[n] = Null
    BY <1>2, <1>3, <1>4, <1>6, <2>1 DEF LookInv, Marked
  <2>3. \A n \in DOMAIN s'.docs : n > s'.at => s'.ids[n] = Null
    BY <1>2, <1>3, <1>4, <1>6, <2>1
  <2>4. s'.failed = [d \in Documents |-> Copies(d, Lost)']
    BY <1>4, <1>9 DEF LookInv, Marked
  <2>5. s'.again \subseteq Lost'
    BY <1>4, <1>8 DEF LookInv, Marked
  <2>6. Len(s'.ids) = Len(s'.docs)
    BY <1>3, <1>4
  <2> QED BY <2>2, <2>3, <2>4, <2>5, <2>6 DEF Marked
<1>11. Fetching'
  BY <1>4 DEF Fetching
<1> QED BY <1>5, <1>7, <1>10, <1>11 DEF LookInv

\* A page whose rows have all been gone through is turned.
LEMMA PageTurns ==
  ASSUME LookInv, Active, UNCHANGED <<world, lastId, worker>>, PageDone, NEW pc, NEW o,
         o \in {"none", "ok", "limit", "error", "expired", "storage", "abort"},
         pc \in {"storage", "recover"} \/ (pc = "ended" /\ o = "ok"),
         s' = [s EXCEPT !.pc = pc, !.page = @ + 1, !.outcome = o]
  PROVE  LookInv'
<1>0. s \in SearchRecord /\ s.page \in Number /\ s.start \in Number /\ s.pc = "batch"
  BY LookTyped DEF SearchRecord, PageDone
<1>1. s' \in SearchRecord' /\ Active'
  <2>1. s.page + 1 \in Number
    BY <1>0 DEF Number
  <2>2. pc \in Entering \cup Turning \cup Listing \cup Ending \cup {"ended"} /\ pc # "none"
    BY DEF Turning, Ending
  <2> QED BY <1>0, <2>1, <2>2 DEF SearchRecord, Active
<1>2. /\ s'.docs = s.docs /\ s'.ids = s.ids /\ s'.again = s.again /\ s'.at = s.at
      /\ s'.failed = s.failed /\ s'.query = s.query /\ s'.start = s.start
      /\ s'.page = s.page + 1 /\ s'.pc = pc /\ s'.outcome = o
  BY <1>0 DEF SearchRecord
<1>3. Marked'
  BY <1>1, <1>2, MarksKept
<1>4. Len(s.docs) <= s.at
  BY <1>0, LookTyped DEF PageDone, SearchRecord
<1>5. Gathered'
  BY <1>0, <1>2, <1>4
     DEF LookInv, Gathered, Turned, Listed, Upto, Answer, Entering, Turning,
                          Listing, Ending, Number
<1>6. Fetching'
  BY <1>0, <1>2 DEF LookInv, Fetching
<1> QED BY <1>1, <1>3, <1>5, <1>6 DEF LookInv

\* Fetches begin: those of the next rows, or of rows to try again.
LEMMA FetchesBegin ==
  ASSUME LookInv, UNCHANGED <<world, lastId>>, FetchBatch \/ FetchAgain
  PROVE  LookInv'
<1>0. s \in SearchRecord /\ Active
  BY LookTyped DEF FetchBatch, FetchAgain, Active
<1>1. CASE FetchBatch
  <2>1. s' \in SearchRecord' /\ Active'
    BY <1>0, <1>1 DEF FetchBatch, SearchRecord, Active, Listing
  <2>2. /\ s'.docs = s.docs /\ s'.ids = s.ids /\ s'.again = s.again /\ s'.at = s.at
        /\ s'.failed = s.failed /\ s'.query = s.query /\ s'.start = s.start
        /\ s'.page = s.page /\ s'.pc = "details" /\ s.pc = "batch"
    BY <1>0, <1>1 DEF FetchBatch, SearchRecord
  <2>3. Marked'
    BY <1>0, <2>1, <2>2, MarksKept
  <2>4. Gathered'
    BY <1>0, <2>2 DEF LookInv, Gathered, Turned, Listed, Upto, Answer, Entering, Turning,
                      Listing, Ending
  <2>5. Fetching'
    BY <1>1, <2>2 DEF FetchBatch, Fetching, Batch
  <2> QED BY <2>1, <2>3, <2>4, <2>5 DEF LookInv
<1>2. CASE FetchAgain
  <2>1. s' \in SearchRecord' /\ Active'
    BY <1>0, <1>2 DEF FetchAgain, SearchRecord, Active, Ending
  <2>2. /\ s'.docs = s.docs /\ s'.ids = s.ids /\ s'.again = s.again \ NextAgain /\ s'.at = s.at
        /\ s'.failed = s.failed /\ s'.query = s.query /\ s'.start = s.start
        /\ s'.page = s.page /\ s'.pc = "recovering" /\ s.pc = "recover"
    BY <1>0, <1>2 DEF FetchAgain, SearchRecord
  <2>3. Lost' = Lost
    BY <2>2 DEF Lost
  <2>4. Marked'
    BY <1>0, <2>2, <2>3 DEF LookInv, Marked, Copies
  <2>5. Gathered'
    BY <1>0, <2>2 DEF LookInv, Gathered, Turned, Listed, Upto, Answer, Entering, Turning,
                      Listing, Ending
  <2>6. NextAgain \subseteq Lost
    BY <1>0 DEF LookInv, Marked, NextAgain
  <2>7. Fetching'
    BY <1>2, <2>2, <2>3, <2>6 DEF FetchAgain, Fetching
  <2> QED BY <2>1, <2>4, <2>5, <2>7 DEF LookInv
<1> QED BY <1>1, <1>2

\* What they come to.
LEMMA FetchesGoOn ==
  ASSUME LookInv, UNCHANGED <<world, lastId, s>>, DOMAIN worker' = DOMAIN worker
  PROVE  LookInv'
BY DEF LookInv, SearchRecord, Active, Gathered, Turned, Listed, Upto, Answer, Marked, Copies, Lost,
       Fetching, Batch

\* How often a document is in two sets of rows that share none.
LEMMA CopiesAdd ==
  ASSUME NEW A, NEW B, IsFiniteSet(A), IsFiniteSet(B), A \cap B = {}, NEW d
  PROVE  /\ Copies(d, A) \in Nat /\ Copies(d, B) \in Nat
         /\ Copies(d, A \cup B) = Copies(d, A) + Copies(d, B)
<1> DEFINE a == {n \in A : s.docs[n] = d}
           b == {n \in B : s.docs[n] = d}
<1>1. IsFiniteSet(a) /\ IsFiniteSet(b)
  BY FS_Subset
<1>2. a \cap b = {} /\ {n \in A \cup B : s.docs[n] = d} = a \cup b
  OBVIOUS
<1>3. Cardinality(a) \in Nat /\ Cardinality(b) \in Nat
  BY <1>1, FS_CardinalityType
<1>4. Cardinality(a \cup b) = Cardinality(a) + Cardinality(b)
  <2> HIDE DEF a, b
  <2>1. Cardinality(a \cap b) = 0
    BY <1>2, FS_EmptySet
  <2>2. Cardinality(a \cup b) = Cardinality(a) + Cardinality(b) - Cardinality(a \cap b)
    BY <1>1, FS_Union
  <2> QED BY <1>3, <2>1, <2>2
<1> QED BY <1>2, <1>3, <1>4 DEF Copies

\* The fetches of a page's rows have ended, each one with an id or a failure.
LEMMA CollectKeeps ==
  ASSUME LookInv, UNCHANGED <<world, lastId>>, Collect
  PROVE  LookInv'
<1> DEFINE bad == With("bad")
           ok == With("ok")
<1>0. s \in SearchRecord /\ Active /\ s.at \in Nat /\ Concurrency \in Nat \ {0}
  BY LookTyped, SearchAssumption DEF Collect, Active, SearchRecord
<1>1. /\ s.pc = "details" /\ Batch = ok \cup bad /\ ok \cap bad = {} /\ DOMAIN worker = Batch
  BY DEF Collect, AllBack, With, LookInv, Fetching
<1>2. /\ DOMAIN s.docs = 1..Len(s.docs) /\ Len(s.docs) \in Nat /\ DOMAIN s.ids = DOMAIN s.docs
      /\ Len(s.ids) = Len(s.docs)
  BY <1>0, LookTyped DEF LookInv, Marked
<1>3. /\ s'.docs = s.docs /\ s'.ids = WithIds /\ s'.at = s.at + Concurrency
      /\ s'.again = s.again \cup {n \in bad : s.docs[n] \notin NoUuid}
      /\ s'.failed = [d \in Documents |-> s.failed[d] + Copies(d, bad)]
      /\ s'.query = s.query /\ s'.start = s.start /\ s'.page = s.page /\ s'.pc = "batch"
  BY <1>0 DEF Collect, SearchRecord
<1>4. /\ WithIds \in Seq(Id) /\ Len(WithIds) = Len(s.docs) /\ DOMAIN WithIds = DOMAIN s.docs
      /\ \A n \in DOMAIN s.docs : WithIds[n] = IF n \in ok THEN s.docs[n] ELSE s.ids[n]
  <2>1. \A n \in DOMAIN s.docs : s.docs[n] \in Id /\ s.ids[n] \in Id
    BY <1>0, <1>2 DEF SearchRecord, Id
  <2> QED BY <1>2, <2>1 DEF WithIds
<1>5. \A n \in DOMAIN s.docs : s.docs[n] # Null
  BY <1>0, <1>2, SearchAssumption DEF SearchRecord
<1>6. Lost' = Lost \cup bad /\ Lost \cap bad = {} /\ bad \subseteq DOMAIN s.docs
  <2>1. \A n \in DOMAIN s.docs : n <= s'.at <=> n <= s.at \/ n \in Batch
    BY <1>0, <1>2, <1>3 DEF Batch
  <2>2. \A n \in Batch : n \in DOMAIN s.docs /\ n > s.at /\ s.ids[n] = Null /\ ~(n <= s.at)
    BY <1>0, <1>2 DEF Batch, LookInv, Marked
  <2>3. Lost' = {n \in DOMAIN s.docs : n <= s'.at /\ WithIds[n] = Null}
    BY <1>3 DEF Lost
  <2>4. \A n \in DOMAIN s.docs : n \in Lost' <=> n \in Lost \cup bad
    BY <1>1, <1>4, <1>5, <2>1, <2>2, <2>3 DEF Lost
  <2> QED BY <1>1, <2>2, <2>3, <2>4 DEF Lost
<1>7. IsFiniteSet(Lost) /\ IsFiniteSet(bad)
  <2>1. IsFiniteSet(1..Len(s.docs))
    BY <1>2, FS_Interval
  <2>2. Lost \subseteq 1..Len(s.docs) /\ bad \subseteq 1..Len(s.docs)
    BY <1>2, <1>6 DEF Lost
  <2> QED BY <2>1, <2>2, FS_Subset
<1>8. \A d : /\ Copies(d, Lost)' = Copies(d, Lost) + Copies(d, bad)
             /\ Copies(d, Lost) \in Nat /\ Copies(d, bad) \in Nat
  <2> HIDE DEF bad
  <2>1. \A d : Copies(d, Lost)' = Copies(d, Lost \cup bad)
    BY <1>3, <1>6 DEF Copies
  <2> QED BY <1>6, <1>7, <2>1, CopiesAdd
<1> HIDE DEF bad, ok
<1>9. \A d \in Documents : s.failed[d] = Copies(d, Lost)
  BY <1>0 DEF LookInv, Marked
<1>10. s'.failed \in [Documents -> Nat] /\ s'.failed = [d \in Documents |-> Copies(d, Lost)']
  BY <1>3, <1>8, <1>9
<1>11. s'.again \subseteq Lost' /\ s'.again \subseteq Nat
  BY <1>0, <1>2, <1>3, <1>6 DEF LookInv, Marked, SearchRecord
<1>12. s' \in SearchRecord' /\ Active'
  <2>1. s' = [s EXCEPT !.pc = "batch", !.at = s'.at, !.ids = s'.ids, !.failed = s'.failed,
                       !.again = s'.again]
    BY <1>0, <1>3 DEF Collect, SearchRecord
  <2>2. s'.at \in Nat /\ s'.ids \in Seq(Id)
    BY <1>0, <1>3, <1>4
  <2> QED BY <1>0, <1>3, <1>10, <1>11, <2>1, <2>2 DEF SearchRecord, Active, Listing
<1>13. Marked'
  <2>1. \A n \in DOMAIN s'.docs : s'.ids[n] = s'.docs[n] \/ s'.ids[n] = Null
    BY <1>0, <1>3, <1>4 DEF LookInv, Marked
  <2>2. \A n \in DOMAIN s'.docs : n > s'.at => s'.ids[n] = Null
    <3>1. \A n \in DOMAIN s.docs : n > s'.at => n > s.at /\ n \notin Batch
      BY <1>0, <1>2, <1>3 DEF Batch
    <3> QED BY <1>0, <1>1, <1>3, <1>4, <3>1 DEF LookInv, Marked
  <2> QED BY <1>3, <1>4, <1>10, <1>11, <2>1, <2>2 DEF Marked
<1>14. Gathered'
  BY <1>0, <1>1, <1>3
     DEF LookInv, Gathered, Turned, Listed, Upto, Answer, Entering, Turning,
                          Listing, Ending
<1>15. Fetching'
  BY <1>3 DEF Collect, NoFetch, Fetching
<1> QED BY <1>12, <1>13, <1>14, <1>15 DEF LookInv

\* Those of the second pass have: what has an id now has failed no longer.
LEMMA CollectAgainKeeps ==
  ASSUME LookInv, UNCHANGED <<world, lastId>>, CollectAgain
  PROVE  LookInv'
<1> DEFINE ok == With("ok")
<1>0. s \in SearchRecord /\ Active /\ s.at \in Nat
  BY LookTyped DEF CollectAgain, Active, SearchRecord
<1>1. s.pc = "recovering" /\ ok \subseteq Lost \ s.again
  BY DEF CollectAgain, With, LookInv, Fetching
<1>2. /\ DOMAIN s.docs = 1..Len(s.docs) /\ Len(s.docs) \in Nat /\ DOMAIN s.ids = DOMAIN s.docs
      /\ Len(s.ids) = Len(s.docs)
  BY <1>0, LookTyped DEF LookInv, Marked
<1>3. /\ s'.docs = s.docs /\ s'.ids = WithIds /\ s'.at = s.at /\ s'.again = s.again
      /\ s'.failed = [d \in Documents |-> Less(s.failed[d], Copies(d, ok))]
      /\ s'.query = s.query /\ s'.start = s.start /\ s'.page = s.page /\ s'.pc = "recover"
  BY <1>0 DEF CollectAgain, SearchRecord
<1>4. /\ WithIds \in Seq(Id) /\ Len(WithIds) = Len(s.docs) /\ DOMAIN WithIds = DOMAIN s.docs
      /\ \A n \in DOMAIN s.docs : WithIds[n] = IF n \in ok THEN s.docs[n] ELSE s.ids[n]
  <2>1. \A n \in DOMAIN s.docs : s.docs[n] \in Id /\ s.ids[n] \in Id
    BY <1>0, <1>2 DEF SearchRecord, Id
  <2> QED BY <1>2, <2>1 DEF WithIds
<1>5. \A n \in DOMAIN s.docs : s.docs[n] # Null
  BY <1>0, <1>2, SearchAssumption DEF SearchRecord
<1> HIDE DEF ok
<1>6. Lost' = Lost \ ok /\ Lost = Lost' \cup ok /\ Lost' \cap ok = {}
  <2>1. Lost' = {n \in DOMAIN s.docs : n <= s.at /\ WithIds[n] = Null}
    BY <1>3 DEF Lost
  <2>2. \A n \in DOMAIN s.docs : n \in Lost' <=> n \in Lost \ ok
    BY <1>4, <1>5, <2>1 DEF Lost
  <2>3. Lost' = Lost \ ok
    BY <2>1, <2>2 DEF Lost
  <2> QED BY <1>1, <2>3
<1>7. IsFiniteSet(Lost) /\ IsFiniteSet(ok) /\ IsFiniteSet(Lost')
  <2>1. IsFiniteSet(1..Len(s.docs)) /\ Lost \subseteq 1..Len(s.docs)
    BY <1>2, FS_Interval DEF Lost
  <2>2. ok \subseteq 1..Len(s.docs) /\ Lost' \subseteq 1..Len(s.docs)
    BY <1>1, <1>6, <2>1
  <2> QED BY <2>1, <2>2, FS_Subset
<1>8. \A d : /\ Copies(d, Lost) = Copies(d, Lost)' + Copies(d, ok)
             /\ Copies(d, Lost)' \in Nat /\ Copies(d, ok) \in Nat
  <2>1. \A d : Copies(d, Lost)' = Copies(d, Lost \ ok)
    BY <1>3, <1>6 DEF Copies
  <2>2. Lost = (Lost \ ok) \cup ok /\ (Lost \ ok) \cap ok = {} /\ IsFiniteSet(Lost \ ok)
    BY <1>6, <1>7
  <2>3. \A d : /\ Copies(d, Lost \ ok) \in Nat /\ Copies(d, ok) \in Nat
               /\ Copies(d, (Lost \ ok) \cup ok) = Copies(d, Lost \ ok) + Copies(d, ok)
    BY <1>7, <2>2, CopiesAdd
  <2> QED BY <2>1, <2>2, <2>3
<1>9. \A d \in Documents : s.failed[d] = Copies(d, Lost)
  BY <1>0 DEF LookInv, Marked
<1>10. s'.failed \in [Documents -> Nat] /\ s'.failed = [d \in Documents |-> Copies(d, Lost)']
  <2>1. \A d \in Documents : Less(s.failed[d], Copies(d, ok)) = Copies(d, Lost)'
    BY <1>8, <1>9 DEF Less
  <2> QED BY <1>3, <1>8, <2>1
<1>11. s'.again \subseteq Lost' /\ s'.again \subseteq Nat
  BY <1>0, <1>1, <1>3, <1>6 DEF LookInv, Marked, SearchRecord
<1>12. s' \in SearchRecord' /\ Active'
  <2>1. s' = [s EXCEPT !.pc = "recover", !.ids = s'.ids, !.failed = s'.failed]
    BY <1>0, <1>3 DEF CollectAgain, SearchRecord
  <2>2. s'.ids \in Seq(Id)
    BY <1>3, <1>4
  <2> QED BY <1>0, <1>3, <1>10, <2>1, <2>2 DEF SearchRecord, Active, Ending
<1>13. Marked'
  <2>1. \A n \in DOMAIN s'.docs : s'.ids[n] = s'.docs[n] \/ s'.ids[n] = Null
    BY <1>0, <1>3, <1>4 DEF LookInv, Marked
  <2>2. \A n \in DOMAIN s'.docs : n > s'.at => s'.ids[n] = Null
    <3>1. \A n \in DOMAIN s.docs : n > s.at => n \notin ok
      BY <1>0, <1>1, <1>2 DEF Lost
    <3> QED BY <1>0, <1>3, <1>4, <3>1 DEF LookInv, Marked
  <2> QED BY <1>3, <1>4, <1>10, <1>11, <2>1, <2>2 DEF Marked
<1>14. Gathered'
  BY <1>0, <1>1, <1>3
     DEF LookInv, Gathered, Turned, Listed, Upto, Answer, Entering, Turning,
                          Listing, Ending
<1>15. Fetching'
  BY <1>3 DEF CollectAgain, NoFetch, Fetching
<1> QED BY <1>12, <1>13, <1>14, <1>15 DEF LookInv

\* What a step of a search does to the rest: a captcha is counted, and the end.
Minded ==
  /\ UNCHANGED <<world, req, resp>> /\ Active /\ Active' /\ s.pc # "ended"
  /\ s'.query = s.query
  /\ \/ s'.captchas = s.captchas /\ spent' = spent
     \/ s'.captchas = s.captchas + 1 /\ spent' = spent + 1
  /\ counted' = IF s'.pc = "ended" THEN counted - 1 ELSE counted

\* A search that ends without an answer.
LEMMA EndKeeps ==
  ASSUME LookInv, Active, s.pc # "ended", UNCHANGED <<world, lastId, req, resp, spent>>,
         NEW o, o \in {"limit", "error", "expired", "storage", "abort"}, EndSearch(o)
  PROVE  LookInv' /\ Minded
<1>0. s \in SearchRecord
  BY LookTyped
<1>1. s' = [s EXCEPT !.pc = "ended", !.captchas = s.captchas, !.outcome = o]
  BY <1>0 DEF EndSearch, SearchRecord
<1>2. DOMAIN worker' = {} /\ s.captchas \in Nat /\ counted' = counted - 1
  BY <1>0 DEF EndSearch, NoFetch, SearchRecord
<1>3. s'.pc = "ended" /\ s'.captchas = s.captchas /\ s'.query = s.query
  BY <1>0, <1>1 DEF SearchRecord
<1>4. LookInv'
  BY <1>1, <1>2, TurnKeeps
<1> QED BY <1>2, <1>3, <1>4 DEF Minded, Active

\* One that goes on to its next call.
LEMMA CallKeeps ==
  ASSUME LookInv, Active, UNCHANGED <<world, lastId, worker, req, resp, counted>>,
         NEW pc, NEW n, n \in Nat,
         s' = [s EXCEPT !.pc = pc, !.captchas = n],
         \/ n = s.captchas /\ spent' = spent
         \/ n = s.captchas + 1 /\ spent' = spent + 1,
         \/ pc \in Entering /\ s.pc \in Entering
         \/ pc \in Turning /\ s.pc \in Turning
  PROVE  LookInv' /\ Minded
<1>0. s \in SearchRecord
  BY LookTyped
<1>1. s' = [s EXCEPT !.pc = pc, !.captchas = n, !.outcome = s.outcome]
  BY <1>0 DEF SearchRecord
<1>2. /\ DOMAIN worker' = {} /\ s.outcome \in {"none", "ok", "limit", "error", "expired", "storage", "abort"}
      /\ pc \in Entering \cup Turning \cup Ending \cup {"ended"} /\ pc # "recovering"
  BY <1>0 DEF LookInv, Fetching, Entering, Turning, SearchRecord
<1>3. s'.pc = pc /\ s'.captchas = n /\ s'.query = s.query
  BY <1>0, <1>1 DEF SearchRecord
<1>4. LookInv'
  BY <1>1, <1>2, TurnKeeps
<1>5. s.pc # "ended" /\ pc # "ended" /\ pc # "none"
  BY DEF Entering, Turning
<1> QED BY <1>3, <1>4, <1>5 DEF Minded, Active

LEMMA SearchKeeps ==
  ASSUME LookInv, Search
  PROVE  LookInv' /\ Minded
<1> USE DEF upstream, client, lock, store
<1>0. Active => s \in SearchRecord /\ s.captchas \in Nat /\ s.captchas + 1 \in Nat
  BY LookTyped DEF SearchRecord
<1>1. CASE CaptchaSolved
  <2>1. s.pc \in {"captcha", "captchaFirst", "captchaMore"} /\ Active
    BY <1>1 DEF CaptchaSolved, Retries, Active
  <2>2. s' = [s EXCEPT !.pc = Retries[s.pc], !.captchas = s.captchas + 1]
    BY <1>1 DEF CaptchaSolved
  <2>3. \/ Retries[s.pc] \in Entering /\ s.pc \in Entering
        \/ Retries[s.pc] \in Turning /\ s.pc \in Turning
    BY <2>1 DEF Retries, Entering, Turning
  <2> QED BY <1>0, <1>1, <2>1, <2>2, <2>3, CallKeeps DEF CaptchaSolved
<1>2. CASE CaptchaFails
  BY <1>2, EndKeeps DEF CaptchaFails, Retries, Active
<1>3. CASE FirstAnswers
  <2>0. Active /\ s.pc \in Entering /\ s.pc # "ended"
    BY <1>3 DEF FirstAnswers, Active, Entering
  <2>1. CASE Answer.total > MaxTotal
    BY <1>3, <2>0, <2>1, EndKeeps DEF FirstAnswers
  <2>2. CASE ~(Answer.total > MaxTotal)
    <3> DEFINE sid == IF s.sid = Null THEN lastId + 1 ELSE s.sid
               rows == Page(Answer, s.page)
    <3>1. /\ s' = [s EXCEPT !.pc = "batch", !.sid = sid, !.docs = rows,
                           !.ids = [r \in DOMAIN rows |-> Null]]
          /\ lastId' = (IF s.sid = Null THEN sid ELSE lastId)
          /\ UNCHANGED <<world, counted, worker, req, resp, spent>>
      BY <1>3, <2>2 DEF FirstAnswers
    <3>2. sid \in Nat \cup {Null} /\ lastId' \in Nat
      BY <1>0, <2>0, <3>1 DEF LookInv, SearchRecord
    <3>3. s.docs = <<>> /\ s.ids = <<>> /\ s.at = 0 /\ Len(s.docs) = 0
      <4>1. s.docs = <<>> /\ s.at = 0 /\ Len(s.ids) = 0 /\ s.ids \in Seq(Id)
        BY <1>0, <2>0 DEF LookInv, Gathered, Marked, SearchRecord
      <4> QED BY <4>1
    <3>4. rows \in Seq(Documents)
      <4>1. s.page \in Number /\ s.page <= s.page /\ Answer \in Answers
        BY <1>0, <2>0, LookTyped DEF SearchRecord, Number
      <4> QED BY <4>1, ListedGrows
    <3> HIDE DEF rows, sid
    <3>5. <<>> \o rows = rows
      BY <3>4, ConcatEmptySeq
    <3>6. <<>> \o [r \in DOMAIN rows |-> Null] = [r \in DOMAIN rows |-> Null]
      <4>1. [r \in DOMAIN rows |-> Null] \in Seq({Null})
        BY <3>4
      <4> QED BY <4>1, ConcatEmptySeq
    <3>7. Lists(sid, rows)
      BY <1>0, <2>0, <3>1, <3>3, <3>5, <3>6 DEF Lists, SearchRecord
    <3>8. s'.pc = "batch" /\ s'.query = s.query /\ s'.captchas = s.captchas
      BY <1>0, <2>0, <3>1 DEF SearchRecord
    <3>9. DOMAIN worker' = {} /\ Answer.total <= MaxTotal
      <4>1. Answer.total \in Nat /\ MaxTotal \in Nat
        BY <2>0, LookTyped, SearchAssumption DEF Answers
      <4> QED BY <2>0, <2>2, <3>1, <4>1 DEF LookInv, Fetching, Entering
    <3>10. LookInv'
      BY <2>0, <3>1, <3>2, <3>7, <3>9, ListKeeps DEF rows
    <3> QED BY <2>0, <3>1, <3>8, <3>10 DEF Minded, Active
  <2> QED BY <2>1, <2>2
<1>4. CASE MoreAnswers
  <2>0. Active /\ s.pc \in Turning /\ s.pc # "ended"
    BY <1>4 DEF MoreAnswers, Active, Turning
  <2>1. Lists(s.sid, Page(Answer, s.page))
    BY <1>0, <1>4, <2>0 DEF MoreAnswers, List, Lists, SearchRecord
  <2>2. /\ s.sid \in Nat \cup {Null} /\ Answer.total <= MaxTotal /\ DOMAIN worker' = {}
        /\ lastId' \in Nat /\ UNCHANGED <<world, counted, req, resp, spent>>
    BY <1>0, <1>4, <2>0
       DEF MoreAnswers, LookInv, Gathered, Turned, Fetching, SearchRecord, Turning
  <2>3. LookInv'
    BY <2>0, <2>1, <2>2, ListKeeps
  <2>4. s'.pc = "batch" /\ s'.query = s.query /\ s'.captchas = s.captchas
    BY <1>0, <1>4, <2>0 DEF MoreAnswers, List, SearchRecord
  <2> QED BY <2>0, <2>2, <2>3, <2>4 DEF Minded, Active
<1>5. CASE SessionExpired
  <2>0. Active /\ s.pc # "ended"
    BY <1>5 DEF SessionExpired, Searching, Active
  <2>1. CASE s.pc \in {"first", "more"}
    <3>1. s' = [s EXCEPT !.pc = Recaptcha[s.pc], !.captchas = s.captchas]
      BY <1>0, <1>5, <2>0, <2>1 DEF SessionExpired, Recaptcha, SearchRecord
    <3>2. \/ Recaptcha[s.pc] \in Entering /\ s.pc \in Entering
          \/ Recaptcha[s.pc] \in Turning /\ s.pc \in Turning
      BY <2>1 DEF Recaptcha, Entering, Turning
    <3> QED BY <1>0, <1>5, <2>0, <2>1, <3>1, <3>2, CallKeeps DEF SessionExpired, Recaptcha
  <2>2. CASE s.pc \notin {"first", "more"}
    BY <1>5, <2>0, <2>2, EndKeeps DEF SessionExpired, Recaptcha
  <2> QED BY <2>1, <2>2
<1>6. CASE SearchFails
  <2>0. Active /\ s.pc # "ended"
    BY <1>6 DEF SearchFails, Searching, Active
  <2>1. CASE EndSearch("error")
    BY <1>6, <2>0, <2>1, EndKeeps DEF SearchFails
  <2>2. CASE ~EndSearch("error")
    <3>1. s' = [s EXCEPT !.pc = "captchaFirst", !.captchas = s.captchas] /\ s.pc = "first"
      BY <1>0, <1>6, <2>0, <2>2 DEF SearchFails, SearchRecord
    <3> QED BY <1>0, <1>6, <2>0, <2>2, <3>1, CallKeeps DEF SearchFails, Entering
  <2> QED BY <2>1, <2>2
<1>7. CASE FetchBatch \/ FetchAgain
  <2>1. UNCHANGED <<world, lastId, req, resp, spent, counted>> /\ Active /\ s.pc # "ended"
    BY <1>7 DEF FetchBatch, FetchAgain, Active
  <2>2. s'.query = s.query /\ s'.captchas = s.captchas /\ s'.pc \in {"details", "recovering"}
    BY <1>0, <1>7, <2>1 DEF FetchBatch, FetchAgain, SearchRecord
  <2> QED BY <1>7, <2>1, <2>2, FetchesBegin DEF Minded, Active
<1>8. CASE \E n \in DOMAIN worker : DetailArrives(n) \/ DetailFails(n) \/ SaveDetail(n)
  <2>1. UNCHANGED <<world, lastId, s, req, resp, spent, counted>> /\ DOMAIN worker' = DOMAIN worker
    BY <1>8 DEF DetailArrives, DetailFails, SaveDetail
  <2>2. Active /\ s.pc # "ended"
    BY <1>8 DEF LookInv, Fetching, Active
  <2> QED BY <2>1, <2>2, FetchesGoOn DEF Minded, Active
<1>9. CASE Collect \/ CollectAgain
  <2>1. UNCHANGED <<world, lastId, req, resp, spent, counted>> /\ Active /\ s.pc # "ended"
    BY <1>9 DEF Collect, CollectAgain, Active
  <2>2. s'.query = s.query /\ s'.captchas = s.captchas /\ s'.pc \in {"batch", "recover"}
    BY <1>0, <1>9, <2>1 DEF Collect, CollectAgain, SearchRecord
  <2> QED BY <1>9, <2>1, <2>2, CollectKeeps, CollectAgainKeeps DEF Minded, Active
<1>10. CASE NextPage \/ BeginRecovery
  <2>0. UNCHANGED <<world, lastId, worker, req, resp, spent, counted>> /\ PageDone /\ Active
        /\ s.pc = "batch"
    BY <1>10 DEF NextPage, BeginRecovery, PageDone, Active
  <2>1. \E pc \in {"storage", "recover"} :
             s' = [s EXCEPT !.pc = pc, !.page = @ + 1, !.outcome = s.outcome]
    BY <1>0, <1>10, <2>0 DEF NextPage, BeginRecovery, SearchRecord
  <2>2. PICK pc \in {"storage", "recover"} :
             s' = [s EXCEPT !.pc = pc, !.page = @ + 1, !.outcome = s.outcome]
    BY <2>1
  <2>3. s.outcome \in {"none", "ok", "limit", "error", "expired", "storage", "abort"}
    BY <1>0, <2>0 DEF SearchRecord
  <2>4. LookInv'
    BY <2>0, <2>2, <2>3, PageTurns
  <2>5. s'.pc = pc /\ s'.query = s.query /\ s'.captchas = s.captchas
    BY <1>0, <2>0, <2>2 DEF SearchRecord
  <2> QED BY <2>0, <2>4, <2>5 DEF Minded, Active
<1>11. CASE StorageOk
  <2>1. Active /\ s' = [s EXCEPT !.pc = "more", !.captchas = s.captchas] /\ s.pc = "storage"
    BY <1>0, <1>11 DEF StorageOk, SearchRecord, Active
  <2> QED BY <1>0, <1>11, <2>1, CallKeeps DEF StorageOk, Turning
<1>12. CASE StorageFull
  BY <1>12, EndKeeps DEF StorageFull, Active
<1>13. CASE SearchReturns
  <2>0. /\ UNCHANGED <<world, lastId, worker, req, resp, spent>> /\ counted' = counted - 1
        /\ Active /\ s.pc \in {"batch", "recover"}
    BY <1>13 DEF SearchReturns, PageDone, Active
  <2>1. s'.pc = "ended" /\ s'.query = s.query /\ s'.captchas = s.captchas
    BY <1>0, <1>13, <2>0 DEF SearchReturns, SearchRecord
  <2>2. CASE s.pc = "batch"
    <3>1. PageDone /\ s' = [s EXCEPT !.pc = "ended", !.page = @ + 1, !.outcome = "ok"]
      BY <1>0, <1>13, <2>0, <2>2 DEF SearchReturns, SearchRecord
    <3>2. LookInv'
      BY <2>0, <3>1, PageTurns
    <3> QED BY <2>0, <2>1, <3>2 DEF Minded, Active
  <2>3. CASE s.pc = "recover"
    <3>1. s' = [s EXCEPT !.pc = "ended", !.captchas = s.captchas, !.outcome = "ok"]
      BY <1>0, <1>13, <2>0, <2>3 DEF SearchReturns, PageDone, SearchRecord
    <3>2. DOMAIN worker' = {}
      BY <2>0, <2>3 DEF LookInv, Fetching
    <3>3. LookInv'
      BY <1>0, <2>0, <2>3, <3>1, <3>2, TurnKeeps DEF Ending
    <3> QED BY <2>0, <2>1, <3>3 DEF Minded, Active
  <2> QED BY <2>0, <2>2, <2>3
<1>14. CASE SearchAborts
  <2>1. Active /\ s.pc # "ended"
    BY <1>14 DEF SearchAborts, Searching, Retries, Active, LookInv, Fetching, With
  <2> QED BY <1>14, <2>1, EndKeeps DEF SearchAborts
<1> QED
  BY <1>1, <1>2, <1>3, <1>4, <1>5, <1>6, <1>7, <1>8, <1>9, <1>10, <1>11, <1>12, <1>13, <1>14
     DEF Search

Status == {"ok", "empty", "blocked", "error", "partial", "recovered"}
StatRecord == [label : Nat, status : Status, count : Nat]

\* The first i kinds are told of, in order, with as many rows as there are.
RowsTold(stats) == SumFunction([n \in DOMAIN stats |-> stats[n].count])

Tells(stats, i, docs) ==
  /\ stats \in Seq(StatRecord) /\ Len(stats) = i
  /\ \A n \in 1..i : stats[n].label = n
  /\ docs \in Seq(Documents) /\ Len(docs) = RowsTold(stats)

LEMMA NothingTold == Tells(<<>>, 0, <<>>)
<1>1. RowsTold(<<>>) = 0
  <2> DEFINE f == [n \in DOMAIN <<>> |-> <<>>[n].count]
  <2>1. f \in [{} -> Nat] /\ \A x \in {} : f[x] = 0
    OBVIOUS
  <2>2. IsFiniteSet({})
    BY FS_EmptySet
  <2> HIDE DEF f
  <2>3. SumFunction(f) = 0
    BY <2>1, <2>2, SumOfZeros
  <2> QED BY <2>3 DEF RowsTold, f
<1> QED BY <1>1 DEF Tells

SumsUp(f, h, x) == SumFunction(f) = SumFunction(h) + f[x]

LEMMA SumAppend ==
  ASSUME NEW S, IsFiniteSet(S), NEW h \in [S -> Nat], NEW x, x \notin S,
         NEW f \in [S \cup {x} -> Nat], \A y \in S : f[y] = h[y]
  PROVE  SumsUp(f, h, x)
BY SumAdds DEF SumsUp

\* One more kind, with its rows.
LEMMA TellsMore ==
  ASSUME NEW stats, NEW i \in Number, NEW docs, Tells(stats, i - 1, docs),
         NEW stat \in StatRecord, stat.label = i, NEW rows \in Seq(Documents),
         Len(rows) = stat.count
  PROVE  Tells(Append(stats, stat), i, docs \o rows)
<1>1. /\ stats \in Seq(StatRecord) /\ Len(stats) = i - 1 /\ docs \in Seq(Documents)
      /\ Len(docs) = RowsTold(stats) /\ i \in Nat /\ stat.count \in Nat
      /\ \A n \in 1..i - 1 : stats[n].label = n
  BY DEF Tells, StatRecord, Number
<1>2. PICK more : more = Append(stats, stat)
  OBVIOUS
<1>3. /\ more \in Seq(StatRecord) /\ Len(more) = i /\ more[i] = stat
      /\ \A n \in 1..i - 1 : more[n] = stats[n]
  BY <1>1, <1>2, AppendProperties DEF Number
<1>4. \A n \in 1..i : more[n].label = n
  <2>1. \A n \in 1..i : n \in 1..i - 1 \/ n = i
    BY <1>1
  <2> QED BY <1>1, <1>3, <2>1
<1>5. RowsTold(more) = RowsTold(stats) + stat.count
  <2>1. PICK h : h = [n \in DOMAIN stats |-> stats[n].count]
    OBVIOUS
  <2>2. PICK f : f = [n \in DOMAIN more |-> more[n].count]
    OBVIOUS
  <2>3. h \in [1..i - 1 -> Nat] /\ \A n \in 1..i - 1 : h[n] = stats[n].count
    <3>1. DOMAIN stats = 1..i - 1 /\ \A n \in 1..i - 1 : stats[n] \in StatRecord
      BY <1>1
    <3>2. \A n \in 1..i - 1 : stats[n].count \in Nat
      BY <3>1 DEF StatRecord
    <3> QED BY <2>1, <3>1, <3>2
  <2>4. DOMAIN more = 1..i /\ \A n \in 1..i : more[n] \in StatRecord
    BY <1>1, <1>3
  <2>5. f \in [1..i -> Nat] /\ (\A n \in 1..i : f[n] = more[n].count)
    <3>1. \A n \in 1..i : more[n].count \in Nat
      BY <2>4 DEF StatRecord
    <3> QED BY <2>2, <2>4, <3>1
  <2>6. ASSUME NEW n \in 1..i - 1 PROVE f[n] = h[n]
    <3>1. n \in 1..i
      BY DEF Number
    <3>2. f[n] = more[n].count /\ more[n] = stats[n] /\ h[n] = stats[n].count
      BY <1>3, <2>3, <2>5, <3>1
    <3> QED BY <3>2
  <2>7. f[i] = stat.count
    <3>1. i \in 1..i
      BY <1>1 DEF Number
    <3> QED BY <1>3, <2>5, <3>1
  <2>8. SumFunction(f) = SumFunction(h) + f[i]
    <3> DEFINE S == 1..i - 1
    <3>1. PICK x : x = i
      OBVIOUS
    <3>2. IsFiniteSet(S)
      BY <1>1, FS_Interval
    <3>3. x \notin S /\ 1..i = S \cup {x}
      BY <1>1, <3>1 DEF Number
    <3>4. \A y \in S : f[y] = h[y]
      BY <2>6
    <3>5. h \in [S -> Nat] /\ f \in [S \cup {x} -> Nat]
      BY <2>3, <2>5, <3>3
    <3>6. x \notin S
      BY <3>3
    <3> HIDE DEF S
    <3>7. SumsUp(f, h, x)
      BY <3>2, <3>4, <3>5, <3>6, SumAppend
    <3> QED BY <3>1, <3>7 DEF SumsUp
  <2> QED BY <2>1, <2>2, <2>7, <2>8 DEF RowsTold
<1>6. docs \o rows \in Seq(Documents) /\ Len(docs \o rows) = Len(docs) + Len(rows)
  BY <1>1, ConcatProperties
<1> QED BY <1>1, <1>2, <1>3, <1>4, <1>5, <1>6 DEF Tells

\* The kinds that were not asked for are told of too.
LEMMA TellsTheRest ==
  ASSUME NEW stats, NEW docs, NEW i \in Number, world \in Worlds, i <= world.kinds + 1,
         Tells(stats, i - 1, docs)
  PROVE  Tells(stats \o StoppedFrom(i), world.kinds, docs)
<1> DEFINE k == world.kinds
<1>0. k \in Nat /\ Cardinality(Kinds) = k /\ i \in Nat /\ k + 1 - i \in Nat
  <2>1. k \in Nat
    BY SearchAssumption
  <2>2. Cardinality(1..k) = k
    BY <2>1, FS_Interval
  <2> QED BY <2>1, <2>2 DEF Kinds, Number
<1> HIDE DEF k
<1>1. /\ stats \in Seq(StatRecord) /\ Len(stats) = i - 1 /\ docs \in Seq(Documents)
      /\ Len(docs) = RowsTold(stats) /\ \A n \in 1..i - 1 : stats[n].label = n
  BY <1>0 DEF Tells
<1>2. PICK rest : rest = StoppedFrom(i)
  OBVIOUS
<1>3. rest \in Seq(StatRecord) /\ Len(rest) = k + 1 - i
      /\ \A n \in 1..k + 1 - i : rest[n].label = i + n - 1 /\ rest[n].count = 0
  <2>1. \A n \in 1..k + 1 - i : i + n - 1 \in Nat
    BY <1>0
  <2>2. \A n \in 1..k + 1 - i : Stat(i + n - 1, "error", 0) \in StatRecord
    BY <2>1 DEF Stat, StatRecord, Status
  <2>3. rest = [n \in 1..k + 1 - i |-> Stat(i + n - 1, "error", 0)]
    BY <1>0, <1>2 DEF StoppedFrom
  <2>4. rest \in Seq(StatRecord) /\ Len(rest) = k + 1 - i
        /\ \A n \in 1..k + 1 - i : rest[n] = Stat(i + n - 1, "error", 0)
    BY <1>0, <2>2, <2>3
  <2> QED BY <2>4 DEF Stat
<1>4. PICK all : all = stats \o rest
  OBVIOUS
<1>5. /\ all \in Seq(StatRecord) /\ Len(all) = k
      /\ \A n \in 1..k : all[n] = IF n <= i - 1 THEN stats[n] ELSE rest[n - (i - 1)]
  <2>1. /\ all \in Seq(StatRecord) /\ Len(all) = Len(stats) + Len(rest)
        /\ \A n \in 1..Len(stats) + Len(rest) :
             all[n] = IF n <= Len(stats) THEN stats[n] ELSE rest[n - Len(stats)]
    BY <1>1, <1>3, <1>4, ConcatProperties
  <2>2. Len(stats) = i - 1 /\ Len(stats) + Len(rest) = k
    BY <1>0, <1>1, <1>3
  <2> QED BY <2>1, <2>2
<1>6. /\ \A n \in 1..i - 1 : n \in 1..k /\ all[n] = stats[n]
      /\ \A n \in (1..k) \ (1..i - 1) : all[n].label = n /\ all[n].count = 0
  <2>1. \A n \in 1..i - 1 : n \in 1..k /\ n <= i - 1
    BY <1>0
  <2>2. \A n \in (1..k) \ (1..i - 1) :
           ~(n <= i - 1) /\ n - (i - 1) \in 1..k + 1 - i /\ i + (n - (i - 1)) - 1 = n
    BY <1>0
  <2>3. \A n \in (1..k) \ (1..i - 1) : all[n] = rest[n - (i - 1)]
    BY <1>5, <2>2
  <2>4. \A n \in (1..k) \ (1..i - 1) : all[n].label = i + (n - (i - 1)) - 1 /\ all[n].count = 0
    BY <1>3, <2>2, <2>3
  <2> QED BY <1>5, <2>1, <2>2, <2>4
<1>7. \A n \in 1..k : all[n].label = n
  BY <1>1, <1>6
<1>8. RowsTold(all) = RowsTold(stats)
  <2>1. PICK h : h = [n \in DOMAIN stats |-> stats[n].count]
    OBVIOUS
  <2>2. PICK f : f = [n \in DOMAIN all |-> all[n].count]
    OBVIOUS
  <2>3. h \in [1..i - 1 -> Nat] /\ \A n \in 1..i - 1 : h[n] = stats[n].count
    <3>1. DOMAIN stats = 1..i - 1 /\ \A n \in 1..i - 1 : stats[n] \in StatRecord
      BY <1>0, <1>1
    <3>2. \A n \in 1..i - 1 : stats[n].count \in Nat
      BY <3>1 DEF StatRecord
    <3> QED BY <2>1, <3>1, <3>2
  <2>4. f \in [1..k -> Nat] /\ \A n \in 1..k : f[n] = all[n].count
    <3>1. DOMAIN all = 1..k /\ \A n \in 1..k : all[n] \in StatRecord
      BY <1>0, <1>5
    <3>2. \A n \in 1..k : all[n].count \in Nat
      BY <3>1 DEF StatRecord
    <3> QED BY <2>2, <3>1, <3>2
  <2> DEFINE S == 1..i - 1
             T == 1..k
  <2>5. (\A n \in S : f[n] = h[n]) /\ (\A n \in T \ S : f[n] = 0)
    BY <1>6, <2>3, <2>4
  <2>6. IsFiniteSet(T) /\ S \in SUBSET T
    <3>1. IsFiniteSet(1..k)
      BY <1>0, FS_Interval
    <3> QED BY <1>0, <1>6, <3>1
  <2>7. h \in [S -> Nat] /\ f \in [T -> Nat]
    BY <2>3, <2>4
  <2> HIDE DEF S, T
  <2>8. SumFunction(f) = SumFunction(h)
    BY <2>5, <2>6, <2>7, SumKeeps
  <2> QED BY <2>1, <2>2, <2>8 DEF RowsTold
<1> QED BY <1>1, <1>2, <1>4, <1>5, <1>7, <1>8 DEF Tells, k

-----------------------------------------------------------------------------
(* The routes. *)

ReqRecord ==
  [pc : {"storage", "guard", "run", "next", "check"}, start : Number, given : BOOLEAN,
   sid : Nat \cup {Null}, i : Number, j : Nat, stats : Seq(StatRecord),
   nested : Seq([status : Status, told : Nat]), refusals : Nat,
   docs : Seq(Documents), held : Seq(Documents)]

Splitting == ~Single /\ req.pc \in {"run", "next", "check"}

\* A request that is at work has told of the kinds before the one it is at.
Telling ==
  /\ Tells(req.stats, req.i - 1, req.docs)
  /\ req.i <= world.kinds + 1
  /\ ~Single /\ req.pc \in {"run", "check"} => req.i <= world.kinds
  /\ ~Single /\ req.j > 0 => <<req.i, req.j>> \in DOMAIN world.answer

Requested ==
  /\ req \in ReqRecord \cup {NoReq}
  /\ req.pc = "run" <=> Active
  /\ req.pc # "idle" => resp = Null /\ Telling

\* What a single search has solved is what was solved for it.
Spending ==
  /\ spent \in Nat
  /\ Single => /\ req.pc \notin {"next", "check"}
               /\ req.pc \in {"storage", "guard"} => spent = 0
               /\ Active => s.query = <<>> /\ s.captchas = spent

Answered ==
  /\ resp # Null /\ Single => resp.next \in Number \cup {Null} /\ resp.sid \in Nat \cup {Null}
  /\ AnswerIsExact

\* Each search at work is counted, and the split around it.
Counting ==
  counted = (IF Splitting THEN 1 ELSE 0) + (IF s.pc \in {"none", "ended"} THEN 0 ELSE 1)

RequestInv == Requested /\ Spending /\ Answered /\ Counting
SearchInv == LookInv /\ RequestInv

LEMMA LookStays ==
  ASSUME LookInv, UNCHANGED <<world, s, worker>>, lastId' \in Nat
  PROVE  LookInv'
BY DEF LookInv, SearchRecord, Active, Gathered, Marked, Fetching, Turned, Answer, Listed,
       Upto, Lost, Copies, Batch

LEMMA DropKeeps ==
  ASSUME LookInv, UNCHANGED <<world, worker>>, lastId' \in Nat, s.pc \in {"none", "ended"},
         s' = NoSearch
  PROVE  LookInv'
BY DEF LookInv, Fetching, Active, NoSearch

\* The answer stays exact as long as it is not replaced.
LEMMA AnswerStays ==
  ASSUME Answered, UNCHANGED <<world, resp, spent>>
  PROVE  Answered'
BY DEF Answered, AnswerIsExact, SingleIsExact, SplitIsExact, Single, Listed, Upto, PagesFor, Kinds

LEMMA NoAnswer ==
  ASSUME resp' = Null
  PROVE  Answered'
BY DEF Answered, AnswerIsExact, SingleIsExact, SplitIsExact

LEMMA SearchGoesOn ==
  ASSUME SearchInv, Search
  PROVE  SearchInv'
<1>1. LookInv' /\ Minded
  BY SearchKeeps DEF SearchInv
<1>2. Active /\ Active' /\ UNCHANGED <<world, req, resp>>
  BY <1>1 DEF Minded
<1>3. req.pc = "run" /\ resp = Null
  BY <1>2 DEF SearchInv, RequestInv, Requested
<1>4. Requested'
  BY <1>2
     DEF SearchInv, RequestInv, Requested, ReqRecord, Telling, Tells, Single, RowsTold
<1>5. Spending'
  BY <1>1, <1>2, <1>3 DEF SearchInv, RequestInv, Spending, Single, Minded
<1>6. Answered'
  BY <1>2, <1>3, NoAnswer
<1>7. Counting'
  BY <1>1, <1>2, <1>3
     DEF SearchInv, RequestInv, Counting, Splitting, Single, Minded, Active
<1> QED BY <1>1, <1>4, <1>5, <1>6, <1>7 DEF SearchInv, RequestInv

\* What goes on around a request does not reach it.
LEMMA AroundKeeps ==
  ASSUME SearchInv, UNCHANGED <<world, s, worker, req, resp, spent, counted>>, lastId' \in Nat
  PROVE  SearchInv'
<1>1. LookInv'
  BY LookStays DEF SearchInv
<1>2. Requested'
  BY DEF SearchInv, RequestInv, Requested, ReqRecord, Telling, Tells, Single, RowsTold, Active
<1>3. Spending' /\ Counting'
  BY DEF SearchInv, RequestInv, Spending, Counting, Splitting, Single, Active
<1>4. Answered'
  BY AnswerStays DEF SearchInv, RequestInv
<1> QED BY <1>1, <1>2, <1>3, <1>4 DEF SearchInv, RequestInv

LEMMA RequestBegins ==
  ASSUME SearchInv, NEW more \in BOOLEAN, Arrive(more)
  PROVE  SearchInv'
<1> USE DEF upstream, lock, store
<1>1. UNCHANGED <<world, s, worker, lastId, counted>> /\ req.pc = "idle" /\ lastId' \in Nat
  BY DEF Arrive, SearchInv, LookInv
<1>2. ~Active /\ world \in Worlds
  BY <1>1 DEF SearchInv, RequestInv, Requested, LookInv
<1>3. LookInv'
  BY <1>1, LookStays DEF SearchInv
<1>4. /\ req'.pc = "storage" /\ req'.i = 1 /\ req'.j = 0 /\ req'.stats = <<>>
      /\ req'.docs = <<>> /\ resp' = Null /\ spent' = 0
  BY DEF Arrive
<1>5. req' \in ReqRecord
  <2>1. more => resp # Null /\ Single /\ resp.next # Null
    BY DEF Arrive
  <2>2. more => resp.next \in Number /\ resp.sid \in Nat \cup {Null}
    BY <2>1 DEF SearchInv, RequestInv, Answered
  <2> QED BY <2>2 DEF Arrive, ReqRecord, Number
<1>6. Telling'
  <2>1. 1 <= world.kinds + 1 /\ 1 - 1 = 0
    BY <1>2, SearchAssumption
  <2>2. Tells(req.stats, req.i - 1, req.docs)'
    BY <1>4, <2>1, NothingTold DEF Tells, RowsTold
  <2> QED BY <1>1, <1>4, <2>1, <2>2 DEF Telling
<1>7. Requested'
  BY <1>1, <1>2, <1>4, <1>5, <1>6 DEF Requested, Active
<1>8. Spending' /\ Counting'
  BY <1>1, <1>2, <1>4
     DEF SearchInv, RequestInv, Spending, Counting, Splitting, Single, Active
<1>9. Answered'
  BY <1>4, NoAnswer
<1> QED BY <1>3, <1>7, <1>8, <1>9 DEF SearchInv, RequestInv

LEMMA RequestEnds ==
  ASSUME SearchInv, ~Active, ~Splitting, UNCHANGED <<world, s, worker, lastId, counted, resp, spent>>,
         req' = NoReq
  PROVE  SearchInv'
<1>1. LookInv' /\ req'.pc = "idle" /\ Requested'
  BY LookStays DEF SearchInv, LookInv, NoReq, RequestInv, Requested, Active
<1>2. Spending' /\ Counting'
  BY <1>1 DEF SearchInv, RequestInv, Spending, Counting, Splitting, Single, Active
<1>3. Answered'
  BY AnswerStays DEF SearchInv, RequestInv
<1> QED BY <1>1, <1>2, <1>3 DEF SearchInv, RequestInv

LEMMA RouteKeeps ==
  ASSUME SearchInv, RouteStorage
  PROVE  SearchInv'
<1> USE DEF upstream, client, lock, store
<1>1. UNCHANGED <<world, s, worker, lastId, counted, resp, spent>> /\ req.pc = "storage"
  BY DEF RouteStorage
<1>2. ~Active /\ ~Splitting
  BY <1>1 DEF SearchInv, RequestInv, Requested, Splitting
<1>3. CASE Leave
  BY <1>1, <1>2, <1>3, RequestEnds DEF Leave
<1>4. CASE req' = [req EXCEPT !.pc = "guard"]
  <2>1. req \in ReqRecord
    BY <1>1 DEF SearchInv, RequestInv, Requested, NoReq
  <2>2. req' \in ReqRecord /\ req'.pc = "guard" /\ req'.i = req.i /\ req'.j = req.j
        /\ req'.stats = req.stats /\ req'.docs = req.docs
    BY <1>4, <2>1 DEF ReqRecord
  <2>3. LookInv'
    BY <1>1, LookStays DEF SearchInv, LookInv
  <2>4. Telling'
    BY <1>1, <2>2 DEF SearchInv, RequestInv, Requested, Telling, Tells, RowsTold, Single
  <2>5. Requested'
    BY <1>1, <1>2, <2>2, <2>4 DEF SearchInv, RequestInv, Requested, Active
  <2>6. Spending' /\ Counting'
    BY <1>1, <1>2, <2>2
       DEF SearchInv, RequestInv, Spending, Counting, Splitting, Single, Active
  <2>7. Answered'
    BY <1>1, AnswerStays DEF SearchInv, RequestInv
  <2> QED BY <2>3, <2>5, <2>6, <2>7 DEF SearchInv, RequestInv
<1> QED BY <1>3, <1>4 DEF RouteStorage

\* A request that goes on, its answer still to come.
LEMMA RequestGoesOn ==
  ASSUME SearchInv, req.pc # "idle", UNCHANGED <<world, resp, spent>>, LookInv', Telling',
         req' \in ReqRecord, req'.pc = "run" <=> Active', Spending', Counting'
  PROVE  SearchInv'
<1>1. resp = Null
  BY DEF SearchInv, RequestInv, Requested
<1>2. Requested'
  BY <1>1 DEF Requested
<1>3. Answered'
  BY <1>1, NoAnswer
<1> QED BY <1>2, <1>3 DEF SearchInv, RequestInv

LEMMA LaunchKeeps ==
  ASSUME SearchInv, Launch
  PROVE  SearchInv'
<1> USE DEF upstream, client, lock, store
<1>1. UNCHANGED <<world, worker, resp, spent>> /\ req.pc = "guard"
  BY DEF Launch
<1>2. ~Active /\ ~Splitting /\ s.pc = "none" /\ DOMAIN worker = {} /\ counted = 0
  BY <1>1
     DEF SearchInv, RequestInv, Requested, Splitting, Active, Counting, LookInv, Fetching
<1>3. req \in ReqRecord /\ lastId \in Nat /\ world \in Worlds
  BY <1>1 DEF SearchInv, LookInv, RequestInv, Requested, NoReq
<1>4. CASE writer = "restore"
  BY <1>1, <1>2, <1>4, RequestEnds DEF Launch, Leave
<1>5. CASE writer # "restore" /\ Single
  <2>1. /\ req' = [req EXCEPT !.pc = "run"] /\ counted' = counted + 1 /\ UNCHANGED lastId
        /\ StartSearch(<<>>, req.start, req.given, req.sid)
    BY <1>5 DEF Launch
  <2>2. req' \in ReqRecord /\ req'.pc = "run" /\ req'.i = req.i /\ req'.j = req.j
        /\ req'.stats = req.stats /\ req'.docs = req.docs
    BY <1>3, <2>1 DEF ReqRecord
  <2>3. LookInv'
    <3>1. <<>> \in DOMAIN world.answer
      BY <1>3, <1>5, SearchAssumption DEF Single
    <3>2. req.start \in Number /\ req.given \in BOOLEAN /\ req.sid \in Nat \cup {Null}
      BY <1>3 DEF ReqRecord
    <3> QED BY <1>1, <1>2, <1>3, <2>1, <3>1, <3>2, StartKeeps DEF SearchInv
  <2>4. s'.query = <<>> /\ s'.captchas = 0 /\ s'.pc \in {"first", "captcha"}
    BY <2>1 DEF StartSearch, NewSearch
  <2>5. Telling'
    BY <1>1, <1>5, <2>2
       DEF SearchInv, RequestInv, Requested, Telling, Tells, RowsTold, Single
  <2>6. Spending' /\ Counting'
    BY <1>1, <1>2, <1>5, <2>1, <2>2, <2>4
       DEF SearchInv, RequestInv, Spending, Counting, Splitting, Single
  <2>7. Active'
    BY <2>4 DEF Active
  <2> QED BY <1>1, <2>2, <2>3, <2>5, <2>6, <2>7, RequestGoesOn
<1>6. CASE writer # "restore" /\ ~Single
  <2>1. /\ req' = [req EXCEPT !.pc = "next", !.sid = lastId + 1]
        /\ counted' = counted + 1 /\ lastId' = lastId + 1 /\ UNCHANGED s
    BY <1>6 DEF Launch
  <2>2. req' \in ReqRecord /\ req'.pc = "next" /\ req'.i = req.i /\ req'.j = req.j
        /\ req'.stats = req.stats /\ req'.docs = req.docs
    <3>1. lastId + 1 \in Nat \cup {Null}
      BY <1>3
    <3> QED BY <1>3, <2>1, <3>1 DEF ReqRecord
  <2>3. LookInv'
    BY <1>1, <1>3, <2>1, LookStays DEF SearchInv
  <2>4. Telling'
    BY <1>1, <2>2 DEF SearchInv, RequestInv, Requested, Telling, Tells, RowsTold, Single
  <2>5. Spending' /\ Counting'
    BY <1>1, <1>2, <1>6, <2>1, <2>2
       DEF SearchInv, RequestInv, Spending, Counting, Splitting, Single, Active
  <2> QED BY <1>1, <1>2, <2>1, <2>2, <2>3, <2>4, <2>5, RequestGoesOn DEF Active
<1> QED BY <1>4, <1>5, <1>6

LEMMA ExactlyAnswered ==
  ASSUME SearchInv, Respond
  PROVE  Answered'
<1> USE DEF upstream, client, lock, store
<1>1. /\ UNCHANGED <<world, spent>> /\ Single /\ s.pc = "ended" /\ Active
      /\ resp' = IF s.outcome # "ok" THEN Null
                 ELSE [docs |-> s.docs, ids |-> s.ids, failed |-> s.failed,
                       start |-> s.start, captchas |-> s.captchas, sid |-> s.sid,
                       next |-> IF s.page <= Clamped(Answer) THEN s.page ELSE Null]
  BY DEF Respond, Active
<1>2. CASE s.outcome # "ok"
  BY <1>1, <1>2, NoAnswer
<1>3. CASE s.outcome = "ok"
  <2> DEFINE a == world.answer[<<>>]
             last == PagesFor(Len(a.rows))
  <2>1. /\ s \in SearchRecord /\ Answer \in Answers /\ s.query = <<>> /\ s.captchas = spent
        /\ DOMAIN s.ids = DOMAIN s.docs /\ DOMAIN s.docs = 1..Len(s.docs) /\ Len(s.docs) \in Nat
    BY <1>1, LookTyped DEF SearchInv, RequestInv, Spending
  <2>2. Answer = a
    BY <2>1 DEF Answer
  <2>3. Gathered /\ Marked /\ world \in Worlds
    BY <1>1 DEF SearchInv, LookInv
  <2>4. /\ s.docs = Listed(a, s.start, s.page) /\ s.start < s.page /\ Len(s.docs) <= s.at
        /\ a.total <= MaxTotal
    BY <1>1, <1>3, <2>2, <2>3 DEF Gathered, Turned
  <2>5. /\ s.start \in Number /\ s.page \in Number /\ s.page > 1 /\ s.at \in Nat
        /\ s.sid \in Nat \cup {Null}
    BY <2>1, <2>4 DEF SearchRecord, Number
  <2>6. a.total = Len(a.rows) /\ a.pagesTotal >= PagesFor(a.total)
    BY <1>1, <2>3, <2>4, TotalAssumption DEF Single
  <2>7. IF s.page <= Clamped(a) THEN s.page <= last
        ELSE Listed(a, s.start, s.page) = Listed(a, s.start, last + 1)
    BY <2>1, <2>2, <2>5, <2>6, LastPage
  <2>8. s.page # Null
    BY <2>5, SearchAssumption DEF Number
  <2>9. /\ resp'.docs = s.docs /\ resp'.ids = s.ids /\ resp'.failed = s.failed
        /\ resp'.start = s.start /\ resp'.captchas = spent /\ resp'.sid = s.sid
        /\ resp'.next = IF s.page <= Clamped(a) THEN s.page ELSE Null
    BY <1>1, <1>3, <2>1, <2>2
  <2>10. resp'.next \in Number \cup {Null} /\ resp'.sid \in Nat \cup {Null}
    BY <2>5, <2>9
  <2>11. /\ s.docs = Listed(a, s.start, IF resp'.next = Null THEN last + 1 ELSE resp'.next)
         /\ resp'.next # Null => resp'.next <= last
    <3> HIDE DEF a, last
    <3>1. CASE s.page <= Clamped(a)
      BY <2>4, <2>7, <2>8, <2>9, <3>1
    <3>2. CASE ~(s.page <= Clamped(a))
      BY <2>4, <2>7, <2>9, <3>2
    <3> QED BY <3>1, <3>2
  <2>12. \A n \in DOMAIN s.ids : s.ids[n] \in {s.docs[n], Null}
    BY <2>1, <2>3 DEF Marked
  <2> DEFINE missing == {n \in DOMAIN s.ids : s.ids[n] = Null}
  <2>13. missing = Lost
    BY <2>1, <2>4, <2>5 DEF Lost
  <2>14. s.failed = [d \in Documents |-> Cardinality({n \in missing : s.docs[n] = d})]
    <3> HIDE DEF missing
    <3> QED BY <2>3, <2>13 DEF Marked, Copies
  <2>15. world' = world /\ spent' = spent /\ Single'
    BY <1>1 DEF Single
  <2>16. SingleIsExact'
    BY <2>9, <2>11, <2>12, <2>14, <2>15 DEF SingleIsExact, Listed, Upto, PagesFor
  <2>17. SplitIsExact'
    BY <2>15 DEF SplitIsExact
  <2> QED BY <2>10, <2>16, <2>17 DEF Answered, AnswerIsExact
<1> QED BY <1>2, <1>3

LEMMA RespondKeeps ==
  ASSUME SearchInv, Respond
  PROVE  SearchInv'
<1> USE DEF upstream, client, lock, store
<1>1. /\ UNCHANGED <<world, worker, lastId, counted, spent>> /\ s.pc = "ended" /\ Single
      /\ s' = NoSearch /\ req' = NoReq
  BY DEF Respond, Leave
<1>2. LookInv'
  BY <1>1, DropKeeps DEF SearchInv, LookInv
<1>3. req'.pc = "idle" /\ ~Active' /\ s'.pc = "none" /\ Requested'
  BY <1>1 DEF NoReq, NoSearch, Active, Requested
<1>4. Spending' /\ Counting'
  BY <1>1, <1>3 DEF SearchInv, RequestInv, Spending, Counting, Splitting, Single
<1> QED BY <1>2, <1>3, <1>4, ExactlyAnswered DEF SearchInv, RequestInv

LEMMA AllKinds ==
  ASSUME world \in Worlds
  PROVE  world.kinds \in Nat /\ Cardinality(Kinds) = world.kinds
<1>1. world.kinds \in Nat
  BY SearchAssumption
<1>2. Cardinality(1..world.kinds) = world.kinds
  BY <1>1, FS_Interval
<1> QED BY <1>1, <1>2 DEF Kinds

LEMMA SplitFinishes ==
  ASSUME SearchInv, Splitting, s.pc \in {"none", "ended"}, NEW answered \in BOOLEAN,
         NEW stats, NEW docs, FinishSplit(stats, docs, answered),
         answered => Tells(stats, world.kinds, docs)
  PROVE  SearchInv'
<1> USE DEF upstream, client
<1>1. /\ UNCHANGED <<world, worker, lastId, spent>> /\ counted' = counted - 1
      /\ s' = NoSearch /\ req' = NoReq
      /\ resp' = IF answered THEN [stats |-> stats, docs |-> docs, next |-> Null] ELSE Null
  BY DEF FinishSplit, Leave
<1>2. LookInv' /\ world \in Worlds
  BY <1>1, DropKeeps DEF SearchInv, LookInv
<1>3. req'.pc = "idle" /\ ~Active' /\ s'.pc = "none" /\ Requested'
  BY <1>1 DEF NoReq, NoSearch, Active, Requested
<1>4. Spending' /\ Counting'
  BY <1>1, <1>3 DEF SearchInv, RequestInv, Spending, Counting, Splitting, Single
<1>5. CASE ~answered
  BY <1>1, <1>2, <1>3, <1>4, <1>5, NoAnswer DEF SearchInv, RequestInv
<1>6. CASE answered
  <2>1. /\ resp'.stats = stats /\ resp'.docs = docs /\ ~Single'
        /\ stats \in Seq(StatRecord) /\ Len(stats) = world.kinds
        /\ \A n \in 1..world.kinds : stats[n].label = n
        /\ Len(docs) = RowsTold(stats)
    BY <1>1, <1>6 DEF Tells, Splitting, Single
  <2>2. world.kinds \in Nat /\ Cardinality(Kinds)' = world.kinds
    BY <1>1, <1>2, AllKinds DEF Kinds
  <2>3. DOMAIN stats = 1..world.kinds
    BY <2>1, <2>2
  <2>4. [n \in DOMAIN stats |-> stats[n].label] = [n \in 1..world.kinds |-> n]
    BY <2>1, <2>3
  <2>5. SplitIsExact'
    BY <2>1, <2>2, <2>4 DEF SplitIsExact, RowsTold
  <2>6. Answered'
    BY <2>1, <2>5 DEF Answered, AnswerIsExact, SingleIsExact
  <2> QED BY <1>2, <1>3, <1>4, <2>6 DEF SearchInv, RequestInv
<1> QED BY <1>5, <1>6

\* A split that ends at a kind tells of those after it too.
LEMMA EndedEarly ==
  ASSUME SearchInv, Splitting, req.pc \in {"run", "check"}, NEW status \in Status
  PROVE  Tells(Append(req.stats, Stat(req.i, status, 0)) \o StoppedFrom(req.i + 1),
               world.kinds, req.docs)
<1>1. /\ req.i \in Number /\ req.i + 1 \in Number /\ req.i + 1 - 1 = req.i
      /\ req.i + 1 <= world.kinds + 1 /\ world \in Worlds
      /\ Tells(req.stats, req.i - 1, req.docs) /\ req.docs \in Seq(Documents)
  <2>1. req \in ReqRecord /\ Telling /\ ~Single /\ world \in Worlds
    BY DEF SearchInv, LookInv, RequestInv, Requested, NoReq, Splitting
  <2>2. req.i <= world.kinds /\ req.i \in Number /\ world.kinds \in Nat
    BY <2>1, AllKinds DEF Telling, ReqRecord
  <2> QED BY <2>1, <2>2 DEF Telling, Number, Tells
<1>2. Stat(req.i, status, 0) \in StatRecord /\ Stat(req.i, status, 0).label = req.i
      /\ Stat(req.i, status, 0).count = 0
  BY <1>1 DEF Stat, StatRecord, Number
<1>3. Tells(Append(req.stats, Stat(req.i, status, 0)), req.i, req.docs \o <<>>)
  <2>1. <<>> \in Seq(Documents) /\ Len(<<>>) = 0
    OBVIOUS
  <2> QED BY <1>1, <1>2, <2>1, TellsMore
<1>4. req.docs \o <<>> = req.docs
  BY <1>1, ConcatEmptySeq
<1>5. PICK i : i = req.i + 1
  OBVIOUS
<1>6. /\ i \in Number /\ i <= world.kinds + 1 /\ world \in Worlds
      /\ Tells(Append(req.stats, Stat(req.i, status, 0)), i - 1, req.docs)
  <2>1. i - 1 = req.i
    BY <1>1, <1>5 DEF Number
  <2> QED BY <1>1, <1>3, <1>4, <1>5, <2>1
<1>7. Tells(Append(req.stats, Stat(req.i, status, 0)) \o StoppedFrom(i), world.kinds, req.docs)
  BY <1>6, TellsTheRest
<1> QED BY <1>5, <1>7

LEMMA SplitGoes ==
  ASSUME SearchInv, Splitting, s.pc \in {"none", "ended"}, NEW r \in ReqRecord, Goes(r),
         r.pc \in {"next", "check"}, Telling'
  PROVE  SearchInv'
<1> USE DEF upstream, client, lock, store
<1>1. UNCHANGED <<world, worker, lastId, counted, resp, spent>> /\ s' = NoSearch /\ req' = r
  BY DEF Goes
<1>2. LookInv'
  BY <1>1, DropKeeps DEF SearchInv, LookInv
<1>3. ~Active' /\ s'.pc = "none" /\ req'.pc \in {"next", "check"} /\ ~Single
  BY <1>1 DEF NoSearch, Active, Splitting
<1>4. Spending' /\ Counting'
  BY <1>1, <1>3 DEF SearchInv, RequestInv, Spending, Counting, Splitting, Single
<1>5. req.pc # "idle"
  BY DEF Splitting
<1> QED BY <1>1, <1>2, <1>3, <1>4, <1>5, RequestGoesOn

LEMMA KindDone ==
  ASSUME SearchInv, Splitting, req.pc = "run", s.pc = "ended",
         NEW status \in Status, NEW docs \in Seq(Documents), NEW refusals \in Nat,
         NextKind(Stat(req.i, status, Len(docs)), docs, refusals)
  PROVE  SearchInv'
<1> USE DEF upstream, client, lock, store
<1> DEFINE stat == Stat(req.i, status, Len(docs))
<1>1. req \in ReqRecord /\ Telling /\ ~Single /\ world \in Worlds /\ world.kinds \in Nat
  BY AllKinds DEF SearchInv, LookInv, RequestInv, Requested, NoReq, Splitting
<1>2. /\ req.i \in Number /\ req.i + 1 \in Number /\ req.i <= world.kinds
      /\ req.i + 1 <= world.kinds + 1 /\ req.i + 1 - 1 = req.i /\ req.stats \in Seq(StatRecord)
      /\ Tells(req.stats, req.i - 1, req.docs) /\ req.docs \in Seq(Documents)
  BY <1>1 DEF Telling, ReqRecord, Number
<1>3. stat \in StatRecord /\ stat.label = req.i /\ stat.count = Len(docs)
  BY <1>2 DEF Stat, StatRecord, Number
<1>4. Tells(Append(req.stats, stat), req.i, req.docs \o docs)
  <2> HIDE DEF stat
  <2> QED BY <1>2, <1>3, TellsMore
<1>5. PICK more : more = Append(req.stats, stat)
  OBVIOUS
<1>6. PICK all : all = req.docs \o docs
  OBVIOUS
<1>7. more \in Seq(StatRecord) /\ all \in Seq(Documents) /\ Tells(more, req.i, all)
  BY <1>4, <1>5, <1>6 DEF Tells
<1>8. PICK r : r = [req EXCEPT !.pc = "next", !.i = @ + 1, !.j = 0, !.stats = more,
                               !.nested = <<>>, !.held = <<>>, !.refusals = refusals,
                               !.docs = all]
  OBVIOUS
<1>9. Goes(r)
  BY <1>5, <1>6, <1>8 DEF NextKind
<1> HIDE DEF stat
<1>10. /\ r \in ReqRecord /\ r.pc = "next" /\ r.i = req.i + 1 /\ r.j = 0 /\ r.stats = more
       /\ r.docs = all
  <2>1. <<>> \in Seq([status : Status, told : Nat]) /\ <<>> \in Seq(Documents)
    OBVIOUS
  <2> QED BY <1>1, <1>2, <1>7, <1>8, <2>1 DEF ReqRecord
<1>11. req' = r /\ world' = world
  BY <1>9 DEF Goes
<1>12. Telling'
  <2>1. r.i - 1 = req.i
    BY <1>2, <1>10 DEF Number
  <2>2. Tells(r.stats, r.i - 1, r.docs)
    BY <1>7, <1>10, <2>1
  <2>3. Tells(req.stats, req.i - 1, req.docs)'
    BY <1>11, <2>2 DEF Tells, RowsTold
  <2>4. (req.i <= world.kinds + 1)' /\ req'.j = 0 /\ req'.pc = "next"
    BY <1>2, <1>10, <1>11
  <2> QED BY <2>3, <2>4 DEF Telling
<1> QED BY <1>9, <1>10, <1>12, SplitGoes

\* What a search of the split has come to.
LEMMA SubSearch ==
  ASSUME SearchInv, req.pc = "run", ~Single
  PROVE  /\ Splitting /\ Active /\ req \in ReqRecord /\ Telling /\ world \in Worlds
         /\ req.i \in Number /\ req.i <= world.kinds /\ world.kinds \in Nat
         /\ s \in SearchRecord /\ s.docs \in Seq(Documents) /\ Answer.total \in Nat
<1>1. Splitting /\ Active /\ req \in ReqRecord /\ Telling /\ world \in Worlds
  BY DEF SearchInv, LookInv, RequestInv, Requested, Splitting, NoReq
<1>2. s \in SearchRecord /\ Answer \in Answers
  BY <1>1, LookTyped DEF SearchInv
<1> QED BY <1>1, <1>2, AllKinds DEF Telling, ReqRecord, SearchRecord, Answers

LEMMA KindStatusTyped ==
  ASSUME NEW docs \in Seq(Documents), NEW total
  PROVE  /\ KindStatus(docs, total) \in Status
         /\ KindStatus(docs, total) = "blocked" => docs = <<>>
BY DEF KindStatus, Status

LEMMA KindAnsweredKeeps ==
  ASSUME SearchInv, KindAnswered
  PROVE  SearchInv'
<1> DEFINE status == KindStatus(s.docs, Answer.total)
           stat == Stat(req.i, status, Len(s.docs))
           refusals == IF status = "blocked" THEN req.refusals + 1 ELSE 0
<1>1. /\ req.pc = "run" /\ ~Single /\ s.pc = "ended"
      /\ IF refusals >= RefusalLimit
         THEN FinishSplit(Append(req.stats, stat) \o StoppedFrom(req.i + 1), req.docs, TRUE)
         ELSE NextKind(stat, s.docs, refusals)
  BY DEF KindAnswered, Ended
<1>2. /\ Splitting /\ s.docs \in Seq(Documents) /\ req.refusals \in Nat
  BY <1>1, SubSearch DEF ReqRecord
<1>3. status \in Status /\ refusals \in Nat /\ (status = "blocked" => s.docs = <<>>)
  BY <1>2, KindStatusTyped
<1>4. CASE refusals >= RefusalLimit
  <2>1. status = "blocked"
    BY <1>4, SearchAssumption
  <2>2. Len(s.docs) = 0
    BY <1>3, <2>1
  <2> HIDE DEF status, refusals
  <2>3. FinishSplit(Append(req.stats, Stat(req.i, status, 0)) \o StoppedFrom(req.i + 1),
                    req.docs, TRUE)
    BY <1>1, <1>4, <2>2
  <2> QED BY <1>1, <1>2, <1>3, <2>3, EndedEarly, SplitFinishes
<1>5. CASE ~(refusals >= RefusalLimit)
  <2> HIDE DEF status, refusals
  <2>1. NextKind(Stat(req.i, status, Len(s.docs)), s.docs, refusals)
    BY <1>1, <1>5
  <2> QED BY <1>1, <1>2, <1>3, <2>1, KindDone
<1> QED BY <1>4, <1>5

LEMMA KindFailedKeeps ==
  ASSUME SearchInv, KindFailed
  PROVE  SearchInv'
<1>1. /\ req.pc = "run" /\ ~Single /\ s.pc = "ended"
      /\ NextKind(Stat(req.i, "error", Len(<<>>)), <<>>, req.refusals)
  BY DEF KindFailed, Ended
<1>2. Splitting /\ req.refusals \in Nat /\ <<>> \in Seq(Documents) /\ "error" \in Status
  BY <1>1, SubSearch DEF ReqRecord, Status
<1> QED BY <1>1, <1>2, KindDone

LEMMA KindTooLargeKeeps ==
  ASSUME SearchInv, KindTooLarge
  PROVE  SearchInv'
<1>1. req.pc = "run" /\ ~Single /\ s.pc = "ended"
  BY DEF KindTooLarge, Ended
<1>2. Splitting /\ req \in ReqRecord /\ Telling
  BY <1>1, SubSearch
<1>3. CASE <<req.i, 1>> \in DOMAIN world.answer
  <2>1. PICK r : r = [req EXCEPT !.pc = "next", !.j = 1, !.refusals = 0]
    OBVIOUS
  <2>2. Goes(r)
    BY <1>3, <2>1 DEF KindTooLarge
  <2>3. /\ r \in ReqRecord /\ r.pc = "next" /\ r.i = req.i /\ r.j = 1
        /\ r.stats = req.stats /\ r.docs = req.docs
    BY <1>2, <2>1 DEF ReqRecord
  <2>4. req' = r /\ world' = world
    BY <2>2 DEF Goes, upstream
  <2>5. Telling'
    BY <1>2, <1>3, <2>3, <2>4 DEF Telling, Tells, RowsTold
  <2> QED BY <1>1, <1>2, <2>2, <2>3, <2>5, SplitGoes
<1>4. CASE <<req.i, 1>> \notin DOMAIN world.answer
  <2>1. NextKind(Stat(req.i, "blocked", Len(<<>>)), <<>>, 0)
    BY <1>4 DEF KindTooLarge
  <2>2. <<>> \in Seq(Documents) /\ "blocked" \in Status
    BY DEF Status
  <2> QED BY <1>1, <1>2, <2>1, <2>2, KindDone
<1> QED BY <1>3, <1>4

LEMMA PlaceEndsKeeps ==
  ASSUME SearchInv, PlaceEnds
  PROVE  SearchInv'
<1>1. req.pc = "run" /\ ~Single /\ s.pc = "ended" /\ req.j > 0
  BY DEF PlaceEnds, Ended
<1>2. /\ Splitting /\ req \in ReqRecord /\ Telling /\ s.docs \in Seq(Documents)
      /\ Answer.total \in Nat
  BY <1>1, SubSearch
<1>3. PICK docs : docs = IF s.outcome = "ok" THEN s.docs ELSE <<>>
  OBVIOUS
<1>4. PICK place : place = [status |-> PlaceStatus, told |-> Told(PlaceStatus)]
  OBVIOUS
<1>5. PICK nested : nested = Append(req.nested, place)
  OBVIOUS
<1>6. PICK held : held = req.held \o docs
  OBVIOUS
<1>7. docs \in Seq(Documents) /\ held \in Seq(Documents)
  <2>1. docs \in Seq(Documents)
    BY <1>2, <1>3
  <2>2. req.held \in Seq(Documents)
    BY <1>2 DEF ReqRecord
  <2> QED BY <1>6, <2>1, <2>2, ConcatProperties
<1>8. nested \in Seq([status : Status, told : Nat])
  <2>1. PlaceStatus \in Status
    BY <1>2, KindStatusTyped DEF PlaceStatus, Status
  <2>2. place \in [status : Status, told : Nat]
    BY <1>2, <1>4, <2>1 DEF Told
  <2>3. req.nested \in Seq([status : Status, told : Nat])
    BY <1>2 DEF ReqRecord
  <2> QED BY <1>5, <2>2, <2>3, AppendProperties
<1>9. CASE <<req.i, req.j + 1>> \in DOMAIN world.answer
  <2>1. PICK r : r = [req EXCEPT !.pc = "next", !.j = @ + 1, !.nested = nested, !.held = held]
    OBVIOUS
  <2>2. Goes(r)
    BY <1>3, <1>4, <1>5, <1>6, <1>9, <2>1 DEF PlaceEnds
  <2>3. /\ r \in ReqRecord /\ r.pc = "next" /\ r.i = req.i /\ r.j = req.j + 1
        /\ r.stats = req.stats /\ r.docs = req.docs
    <3>1. req \in ReqRecord /\ req.j + 1 \in Nat
      BY <1>2 DEF ReqRecord
    <3>2. /\ held \in Seq(Documents) /\ nested \in Seq([status : Status, told : Nat])
      BY <1>7, <1>8
    <3> QED BY <2>1, <3>1, <3>2 DEF ReqRecord
  <2>4. req' = r /\ world' = world
    BY <2>2 DEF Goes, upstream
  <2>5. Telling'
    BY <1>2, <1>9, <2>3, <2>4 DEF Telling, Tells, RowsTold
  <2> QED BY <1>1, <1>2, <2>2, <2>3, <2>5, SplitGoes
<1>10. CASE <<req.i, req.j + 1>> \notin DOMAIN world.answer
  <2>1. \E status \in Status : NextKind(Stat(req.i, status, Len(held)), held, 0)
    <3> DEFINE told == SumFunction([n \in DOMAIN nested |-> nested[n].told])
               whole == told >= world.answer[<<req.i>>].total /\ held # <<>>
    <3>1. NextKind(Stat(req.i, IF whole THEN "recovered" ELSE "partial", Len(held)), held, 0)
      BY <1>3, <1>4, <1>5, <1>6, <1>10 DEF PlaceEnds
    <3>2. (IF whole THEN "recovered" ELSE "partial") \in Status
      BY DEF Status
    <3> HIDE DEF whole
    <3> QED BY <3>1, <3>2
  <2> QED BY <1>1, <1>2, <1>7, <2>1, KindDone
<1> QED BY <1>9, <1>10

LEMMA SubStorageKeeps ==
  ASSUME SearchInv, SubStorageOk
  PROVE  SearchInv'
<1> USE DEF upstream, client, store
<1>1. /\ UNCHANGED <<world, worker, lastId, resp, spent>> /\ counted' = counted + 1
      /\ req.pc = "check" /\ req' = [req EXCEPT !.pc = "run"]
      /\ StartSearch(Query, 1, FALSE, req.sid)
  BY DEF SubStorageOk
<1>2. /\ ~Single /\ ~Active /\ s.pc = "none" /\ counted = 1 /\ DOMAIN worker = {}
      /\ req \in ReqRecord /\ Telling /\ world \in Worlds /\ req.i <= world.kinds
  BY <1>1
     DEF SearchInv, LookInv, RequestInv, Requested, Spending, Counting, Splitting, Active,
              Fetching, NoReq, Telling
<1>3. /\ req' \in ReqRecord /\ req'.pc = "run" /\ req'.i = req.i /\ req'.j = req.j
      /\ req'.stats = req.stats /\ req'.docs = req.docs
  BY <1>1, <1>2 DEF ReqRecord
<1>4. Query \in DOMAIN world.answer
  <2>1. req.i \in 1..world.kinds /\ req.j \in Nat
    BY <1>2, AllKinds DEF ReqRecord, Number
  <2>2. <<req.i>> \in DOMAIN world.answer
    BY <1>2, <2>1, SearchAssumption DEF Single
  <2> QED BY <1>2, <2>1, <2>2 DEF Query, Telling
<1>5. LookInv'
  <2>1. 1 \in Number /\ req.sid \in Nat \cup {Null} /\ lastId' \in Nat /\ LookInv
    BY <1>1, <1>2 DEF Number, ReqRecord, SearchInv, LookInv
  <2> QED BY <1>1, <1>2, <1>4, <2>1, StartKeeps
<1>6. s'.pc \in {"first", "captcha"}
  BY <1>1 DEF StartSearch, NewSearch
<1>7. Telling'
  BY <1>1, <1>2, <1>3 DEF Telling, Tells, RowsTold
<1>8. Spending' /\ Counting' /\ Active'
  BY <1>1, <1>2, <1>3, <1>6
     DEF SearchInv, RequestInv, Spending, Counting, Splitting, Single, Active
<1> QED BY <1>1, <1>3, <1>5, <1>7, <1>8, RequestGoesOn

LEMMA SplitKeeps ==
  ASSUME SearchInv, Split
  PROVE  SearchInv'
<1>1. CASE SplitGoesOn
  <2>1. req.pc = "next" /\ req.i \in Kinds /\ Goes([req EXCEPT !.pc = "check"])
    BY <1>1 DEF SplitGoesOn
  <2>2. Splitting /\ req \in ReqRecord /\ Telling /\ s.pc = "none" /\ world \in Worlds
    BY <2>1
       DEF SearchInv, LookInv, RequestInv, Requested, Spending, Splitting, Active, NoReq
  <2>3. PICK r : r = [req EXCEPT !.pc = "check"]
    OBVIOUS
  <2>4. /\ r \in ReqRecord /\ r.pc = "check" /\ r.i = req.i /\ r.j = req.j
        /\ r.stats = req.stats /\ r.docs = req.docs /\ Goes(r)
    BY <2>1, <2>2, <2>3 DEF ReqRecord
  <2>5. req' = r /\ world' = world
    BY <2>4 DEF Goes, upstream
  <2>6. req.i <= world.kinds
    BY <2>1, <2>2, AllKinds DEF Kinds
  <2>7. Telling'
    BY <2>2, <2>4, <2>5, <2>6 DEF Telling, Tells, RowsTold, Single, Splitting
  <2> QED BY <2>2, <2>4, <2>7, SplitGoes
<1>2. CASE SubStorageOk
  BY <1>2, SubStorageKeeps
<1>3. CASE SubStorageFull \/ SubStopped
  <2>1. StopForStorage /\ req.pc \in {"run", "check"} /\ Splitting /\ s.pc \in {"none", "ended"}
    BY <1>3
       DEF SubStorageFull, SubStopped, SearchInv, RequestInv, Requested, Spending, Active,
                Splitting
  <2>2. "error" \in Status
    BY DEF Status
  <2> QED BY <2>1, <2>2, EndedEarly, SplitFinishes DEF StopForStorage
<1>4. CASE KindAnswered
  BY <1>4, KindAnsweredKeeps
<1>5. CASE KindFailed
  BY <1>5, KindFailedKeeps
<1>6. CASE KindTooLarge
  BY <1>6, KindTooLargeKeeps
<1>7. CASE PlaceEnds
  BY <1>7, PlaceEndsKeeps
<1>8. CASE SplitReturns
  <2>1. /\ req.pc = "next" /\ req.i \notin Kinds /\ FinishSplit(req.stats, req.docs, TRUE)
    BY <1>8 DEF SplitReturns
  <2>2. Splitting /\ req \in ReqRecord /\ Telling /\ s.pc = "none" /\ world \in Worlds
    BY <2>1
       DEF SearchInv, LookInv, RequestInv, Requested, Spending, Splitting, Active, NoReq
  <2>3. req.i - 1 = world.kinds
    BY <2>1, <2>2, AllKinds DEF Kinds, Telling, ReqRecord, Number
  <2>4. Tells(req.stats, world.kinds, req.docs)
    BY <2>2, <2>3 DEF Telling, Tells
  <2> QED BY <2>1, <2>2, <2>4, SplitFinishes
<1>9. CASE SplitAborts
  <2>1. FinishSplit(req.stats, req.docs, FALSE) /\ Splitting /\ s.pc \in {"none", "ended"}
    BY <1>9 DEF SplitAborts, Ended, SearchInv, RequestInv, Requested, Spending, Active, Splitting
  <2> QED BY <2>1, SplitFinishes
<1> QED BY <1>1, <1>2, <1>3, <1>4, <1>5, <1>6, <1>7, <1>8, <1>9 DEF Split

LEMMA SearchStep ==
  ASSUME SearchInv, [SearchNext]_searchVars
  PROVE  SearchInv'
<1> USE DEF upstream, client, lock, store
<1>0. lastId \in Nat
  BY DEF SearchInv, LookInv
<1>1. CASE \E more \in BOOLEAN : Arrive(more)
  BY <1>1, RequestBegins
<1>2. CASE RouteStorage
  BY <1>2, RouteKeeps
<1>3. CASE Launch
  BY <1>3, LaunchKeeps
<1>4. CASE Search
  BY <1>4, SearchGoesOn
<1>5. CASE Split
  BY <1>5, SplitKeeps
<1>6. CASE Respond
  BY <1>6, RespondKeeps
<1>7. CASE \E o \in strays : StrayEnds(o)
  BY <1>0, <1>7, AroundKeeps DEF StrayEnds
<1>8. CASE ClientLeaves \/ Timeout \/ Expire
  BY <1>0, <1>8, AroundKeeps DEF ClientLeaves, Timeout, Expire
<1>9. CASE \E kind \in {"backup", "restore"} : WriterBegins(kind)
  BY <1>0, <1>9, AroundKeeps DEF WriterBegins
<1>10. CASE WriterEnds
  BY <1>0, <1>10, AroundKeeps DEF WriterEnds
<1>11. CASE \E id \in DOMAIN history : DeleteHistory(id)
  BY <1>0, <1>11, AroundKeeps DEF DeleteHistory
<1>12. CASE UNCHANGED searchVars
  BY <1>0, <1>12, AroundKeeps DEF searchVars
<1> QED
  BY <1>1, <1>2, <1>3, <1>4, <1>5, <1>6, <1>7, <1>8, <1>9, <1>10, <1>11, <1>12
     DEF SearchNext, Work

\* The inductive invariant of a user's searches: which pages are in hand and how
\* each of their rows is marked, what a split has told of, what was solved and
\* counted, and that the last answer is exact.
THEOREM SearchInvariant == SearchSpec => []SearchInv
<1>1. SearchInit => SearchInv
  <2> SUFFICES ASSUME SearchInit PROVE SearchInv
    OBVIOUS
  <2> USE DEF SearchInit
  <2>1. LookInv
    BY DEF LookInv, Active, Fetching, NoSearch, NoFetch
  <2>2. Requested /\ Spending /\ Counting
    BY DEF Requested, Spending, Counting, Splitting, Active, NoReq, NoSearch
  <2>3. Answered
    BY DEF Answered, AnswerIsExact, SingleIsExact, SplitIsExact
  <2> QED BY <2>1, <2>2, <2>3 DEF SearchInv, RequestInv
<1>2. SearchInv /\ [SearchNext]_searchVars => SearchInv'
  BY SearchStep
<1> QED BY <1>1, <1>2, PTL DEF SearchSpec

\* The answer to a search is exact, whatever RNPM lists and however the pages and
\* the batches divide it, through expired sessions, recovered rows and splits.
THEOREM AnswerIsExactHolds == SearchSpec => []AnswerIsExact
<1>1. SearchInv => AnswerIsExact
  BY DEF SearchInv, RequestInv, Answered
<1> QED BY <1>1, SearchInvariant, PTL

\* Rows are stored only while a search is counted, or by the restore that
\* replaces them: a fetch that is left behind does not write.
THEOREM SavedWhileCountedHolds == SearchSpec => SavedWhileCounted
<1>1. SearchInv /\ [SearchNext]_searchVars =>
        [avize' # avize => counted > 0 \/ writer # "none"]_searchVars
  <2> SUFFICES ASSUME SearchInv, SearchNext, avize' # avize
               PROVE  counted > 0 \/ writer # "none"
    OBVIOUS
  <2> USE DEF upstream, client, lock, store
  <2>1. CASE \E n \in DOMAIN worker : DetailArrives(n) \/ DetailFails(n) \/ SaveDetail(n)
    <3>1. s.pc \in {"details", "recovering"}
      BY <2>1 DEF SearchInv, LookInv, Fetching
    <3> QED BY <3>1 DEF SearchInv, RequestInv, Counting
  <2>2. CASE WriterEnds
    BY <2>2 DEF WriterEnds
  <2>3. CASE Search
    BY <2>1, <2>3 DEF Search, CaptchaSolved, CaptchaFails, FirstAnswers, MoreAnswers,
         SessionExpired, SearchFails, FetchBatch, Collect, NextPage, StorageOk, StorageFull,
         BeginRecovery, FetchAgain, CollectAgain, SearchReturns, SearchAborts
  <2>4. CASE Split
    BY <2>4
       DEF Split, SplitGoesOn, SubStorageOk, SubStorageFull, SubStopped, StopForStorage,
         KindAnswered, KindFailed, KindTooLarge, PlaceEnds, SplitReturns, SplitAborts,
         FinishSplit, Goes, NextKind
  <2>5. CASE \/ \E more \in BOOLEAN : Arrive(more)
             \/ RouteStorage \/ Launch \/ Respond \/ \E o \in strays : StrayEnds(o)
             \/ ClientLeaves \/ Timeout \/ Expire
             \/ \E kind \in {"backup", "restore"} : WriterBegins(kind)
             \/ \E id \in DOMAIN history : DeleteHistory(id)
    BY <2>5 DEF Arrive, RouteStorage, Launch, Respond, StrayEnds, ClientLeaves, Timeout,
         Expire, WriterBegins, DeleteHistory
  <2> QED BY <2>2, <2>3, <2>4, <2>5 DEF SearchNext, Work
<1> QED BY <1>1, SearchInvariant, PTL DEF SearchSpec, SavedWhileCounted
===============================================================================
