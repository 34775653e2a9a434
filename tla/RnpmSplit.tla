------------------------------ MODULE RnpmSplit ------------------------------
(***************************************************************************)
(* The one-time splitter that moves the RNPM rows from the monolith to one *)
(* database file per user at boot (db/rnpmSplitter.ts), with process       *)
(* crashes, power losses, and what an operator may do to the files while   *)
(* the process is down.                                                    *)
(*                                                                         *)
(* Every step of the protocol is an action; a crash may fall between any   *)
(* two.  `mono` and `file` are what the running system reads; `syncedMono` *)
(* and `syncedFile` what has been fsynced, to which a power loss may fall  *)
(* back: SQLite in WAL mode with synchronous = NORMAL does not sync a      *)
(* commit (schema.ts), a rename is safe when its directory is synced.      *)
(***************************************************************************)
EXTENDS Naturals, FiniteSets

CONSTANTS
    Owners,    \* owner ids
    Rows,      \* RNPM rows
    None,      \* no file, no backup
    MaxFails,  \* bound: preflights, backups or copies that fail
    Env        \* what may happen: "power", "restore", "damage"

ASSUME SplitAssumption ==
    /\ IsFiniteSet(Owners) /\ IsFiniteSet(Rows)
    /\ \A S \in SUBSET Rows : S # None
    /\ \A f \in [Owners -> SUBSET Rows] : f # None
    /\ MaxFails \in Nat

VARIABLES
    mono, syncedMono,  \* rows of each owner in the monolith
    file, syncedFile,  \* the per-user files
    marker,            \* .split-done.json
    backup,            \* newest verified pre-rnpm-split backup
    pc,                \* where the boot is
    todo,              \* owners still to copy
    reason,            \* why the boot was aborted
    fails,             \* failures so far
    restored,          \* an operator has put an old monolith back
    truth              \* the rows the users have saved

disk == <<mono, syncedMono, file, syncedFile, marker, backup>>
vars == <<mono, syncedMono, file, syncedFile, marker, backup, pc, todo, reason,
          fails, restored, truth>>

Empty == [o \in Owners |-> {}]

\* The rows a file holds; a missing file holds none.
Content(f) == IF f = None THEN {} ELSE f

\* A marker without manifest.
Marker(s, os) == [status |-> s, owners |-> os,
                  manifest |-> [o \in Owners |-> 0]]
NoMarker == Marker("none", {})

\* countRnpmRows > 0
Pending == \E o \in Owners : mono[o] # {}

\* The owners of the monolith's rows.
MonoOwners == {o \in Owners : mono[o] # {}}

Init ==
    /\ mono \in [Owners -> SUBSET Rows]
    /\ syncedMono = mono /\ truth = mono
    /\ file = [o \in Owners |-> None] /\ syncedFile = file
    /\ marker = NoMarker
    /\ backup = None
    /\ pc = "down" /\ todo = {} /\ reason = "none"
    /\ fails = 0 /\ restored = FALSE

-----------------------------------------------------------------------------
(* Helpers of the steps. *)

Goto(next) == pc' = next /\ UNCHANGED reason

\* The boot stops, fail-closed (fatalBoot).
Abort(why) == pc' = "aborted" /\ reason' = why

\* writeMarker: temp file, fsync, rename, fsync of the directory, which the
\* per-user files share.
WriteMarker(m) == marker' = m /\ syncedFile' = file

\* One of the steps that throw on a full disk, a failed check, a busy file.
Fails ==
    /\ fails < MaxFails /\ fails' = fails + 1
    /\ Abort("failure")
    /\ UNCHANGED <<disk, todo, restored, truth>>

-----------------------------------------------------------------------------
(* runRnpmSplitIfNeeded *)

\* MUTANT: a marker "done" is not compared with the monolith.
BootTrustsNothing ==
    /\ pc = "down"
    /\ \/ marker.status = "wiping" /\ Goto("verify")
       \/ marker.status # "wiping" /\ Pending /\ Goto("preflight")
       \/ marker.status # "wiping" /\ ~Pending /\ Goto("fresh")
    /\ UNCHANGED <<disk, todo, fails, restored, truth>>

Boot ==
    /\ pc = "down"
    /\ \/ marker.status = "done" /\ ~Pending /\ Goto("serving")
       \/ marker.status = "done" /\ Pending /\ Abort("reappeared")
       \/ marker.status = "wiping" /\ Goto("verify")
       \/ marker.status = "none" /\ ~Pending /\ Goto("fresh")
       \/ marker.status = "none" /\ Pending /\ Goto("preflight")
    /\ UNCHANGED <<disk, todo, fails, restored, truth>>

\* A new installation is marked at once.
MarkFresh ==
    /\ pc = "fresh"
    /\ WriteMarker(Marker("done", {}))
    /\ Goto("serving")
    /\ UNCHANGED <<mono, syncedMono, file, backup, todo, fails, restored,
                   truth>>

\* runPreflights: owners, foreign keys, disk space.
Preflight ==
    /\ pc = "preflight"
    /\ \/ /\ todo' = MonoOwners
          /\ Goto("backup")
          /\ UNCHANGED <<disk, fails, restored, truth>>
       \/ Fails

\* preSplitBackupStrict, verified before anything moves.
Backup ==
    /\ pc = "backup"
    /\ \/ /\ backup' = mono
          /\ Goto(IF todo = {} THEN "markWiping" ELSE "copy")
          /\ UNCHANGED <<mono, syncedMono, file, syncedFile, marker, todo,
                         fails, restored, truth>>
       \/ Fails

\* The counts of an owner's rows, compared after the copy and kept in the
\* manifest.
Verified(copied, o) == Cardinality(copied) = Cardinality(mono[o])

\* copyOwnerToFile: the temporary file is copied, verified and published by
\* rename; a crash before the rename leaves nothing the next boot reads.
\* The probe after the rename may still stop the boot.
CopyOwner(o) ==
    /\ pc = "copy" /\ o \in todo
    /\ \/ /\ \E copied \in SUBSET mono[o] :
               /\ Verified(copied, o)
               /\ file' = [file EXCEPT ![o] = copied]
          /\ todo' = todo \ {o}
          /\ Goto(IF todo' = {} THEN "markWiping" ELSE "copy")
          /\ UNCHANGED <<mono, syncedMono, syncedFile, marker, backup, fails,
                         restored, truth>>
       \/ Fails

\* The commit point of the move: the durable marker, with the manifest.
MarkWiping ==
    /\ pc = "markWiping"
    /\ WriteMarker([status |-> "wiping", owners |-> MonoOwners,
                    manifest |-> [o \in Owners |->
                                    Cardinality(Content(file[o]))]])
    /\ Goto("wipe")
    /\ UNCHANGED <<mono, syncedMono, file, backup, todo, fails, restored,
                   truth>>

\* verifyWipingResume's question: every owner of the monolith is listed, and
\* every listed owner's file is there with the manifest's counts.
ResumeVerified ==
    /\ MonoOwners \subseteq marker.owners
    /\ \A o \in marker.owners :
         file[o] # None /\ Cardinality(file[o]) = marker.manifest[o]

VerifyResume ==
    /\ pc = "verify"
    /\ \/ ResumeVerified /\ Goto("wipe")
       \/ ~ResumeVerified /\ Abort("verify")
    /\ UNCHANGED <<disk, todo, fails, restored, truth>>

\* wipeMonolithRnpm: one transaction, not synced.
Wipe ==
    /\ pc = "wipe"
    /\ mono' = Empty
    /\ Goto("markDone")
    /\ UNCHANGED <<syncedMono, file, syncedFile, marker, backup, todo, fails,
                   restored, truth>>

\* The marker "done".
MarkDone ==
    /\ pc = "markDone"
    /\ WriteMarker(Marker("done", marker.owners))
    /\ Goto("serving")
    /\ UNCHANGED <<mono, syncedMono, file, backup, todo, fails, restored,
                   truth>>

-----------------------------------------------------------------------------
(* The rest of the system. *)

\* A checkpoint of the monolith: SQLite's own, or the best-effort checkpoint
\* and VACUUM that end a first split (a resumed one has none).
Checkpoint ==
    /\ pc = "serving" /\ syncedMono # mono
    /\ syncedMono' = mono
    /\ UNCHANGED <<mono, file, syncedFile, marker, backup, pc, todo, reason,
                   fails, restored, truth>>

\* After boot the repositories write to the per-user files only (external to
\* the splitter; a saved row counts once it is synced).
SaveRow(o, r) ==
    /\ pc = "serving" /\ r \notin truth[o]
    /\ file' = [file EXCEPT ![o] = Content(@) \cup {r}]
    /\ syncedFile' = [syncedFile EXCEPT ![o] = file'[o]]
    /\ truth' = [truth EXCEPT ![o] = @ \cup {r}]
    /\ UNCHANGED <<mono, syncedMono, marker, backup, pc, todo, reason, fails,
                   restored>>

\* The process ends, at any step; what was aborted is started again.
Crash ==
    /\ pc # "down"
    /\ pc' = "down" /\ reason' = "none" /\ todo' = {}
    /\ UNCHANGED <<disk, fails, restored, truth>>

\* The machine stops: what was not synced may be gone.
PowerLoss ==
    /\ "power" \in Env /\ pc # "down"
    /\ mono' \in {mono, syncedMono} /\ syncedMono' = mono'
    /\ \E lost \in SUBSET Owners :
         /\ file' = [o \in Owners |-> IF o \in lost THEN syncedFile[o]
                                      ELSE file[o]]
         /\ syncedFile' = file'
    /\ pc' = "down" /\ reason' = "none" /\ todo' = {}
    /\ UNCHANGED <<marker, backup, fails, restored, truth>>

\* An operator copies the pre-split backup over the monolith.
RestoreMonolith ==
    /\ "restore" \in Env /\ pc = "down" /\ backup # None
    /\ mono' = backup /\ syncedMono' = mono'
    /\ restored' = TRUE
    /\ UNCHANGED <<file, syncedFile, marker, backup, pc, todo, reason, fails,
                   truth>>

\* A per-user file is lost or truncated while an unfinished split waits.
DamageFile(o) ==
    /\ "damage" \in Env /\ pc = "down" /\ marker.status = "wiping"
    /\ file[o] # None /\ file[o] # {}
    /\ \E left \in {None, {}} : file' = [file EXCEPT ![o] = left]
    /\ syncedFile' = file'
    /\ UNCHANGED <<mono, syncedMono, marker, backup, pc, todo, reason, fails,
                   restored, truth>>

Step ==
    \/ Boot \/ MarkFresh \/ Preflight \/ Backup
    \/ \E o \in Owners : CopyOwner(o)
    \/ MarkWiping \/ VerifyResume \/ Wipe \/ MarkDone

Next ==
    \/ Step \/ Checkpoint \/ Crash \/ PowerLoss \/ RestoreMonolith
    \/ \E o \in Owners : DamageFile(o) \/ \E r \in Rows : SaveRow(o, r)

Spec == Init /\ [][Next]_vars

-----------------------------------------------------------------------------
(* Properties. *)

Statuses == {"none", "wiping", "done"}

\* Every variable has its type, and no owner is left to copy past the copies.
TypeOK ==
    /\ mono \in [Owners -> SUBSET Rows]
    /\ syncedMono \in [Owners -> SUBSET Rows]
    /\ file \in [Owners -> (SUBSET Rows) \cup {None}]
    /\ syncedFile \in [Owners -> (SUBSET Rows) \cup {None}]
    /\ marker \in [status : Statuses, owners : SUBSET Owners,
                   manifest : [Owners -> Nat]]
    /\ backup \in [Owners -> SUBSET Rows] \cup {None}
    /\ pc \in {"down", "fresh", "preflight", "backup", "copy", "markWiping",
               "verify", "wipe", "markDone", "serving", "aborted"}
    /\ todo \subseteq Owners
    /\ todo # {} => pc \in {"backup", "copy", "aborted"}
    /\ reason \in {"none", "failure", "verify", "reappeared"}
    /\ fails \in 0..MaxFails
    /\ restored \in BOOLEAN
    /\ truth \in [Owners -> SUBSET Rows]

\* Whatever crashes, whatever comes back from a backup: the rows a user has
\* saved are all in the monolith, or all in the user's file, or in the
\* verified backup the split was allowed to start with
\* (rnpmSplitter.ts:4-11).
NoRowLost ==
    \A o \in Owners :
      \/ truth[o] \in {mono[o], Content(file[o])}
      \/ backup # None /\ truth[o] = backup[o]

\* The application never serves a half-moved database: once it is up, every
\* user's file has all of the user's rows (index.ts:600-605).
ServesAllRows ==
    pc = "serving" => \A o \in Owners : Content(file[o]) = truth[o]

\* Rows leave the monolith only when the files hold them, a resumed wipe
\* over damaged files included (rnpmSplitter.ts:451-456).
WipeKeepsRows ==
    [][mono' = Empty /\ mono # Empty
         => \A o \in Owners : Content(file[o]) = truth[o]]_vars

\* A boot that stops because rows have reappeared in the monolith stops
\* because someone has restored it (rnpmSplitter.ts:564-571).
ReappearedMeansRestored == reason = "reappeared" => restored

\* The move is atomic: until the marker is durable the monolith is the
\* data, from then on the files are (rnpmSplitter.ts:4-8).
Move == INSTANCE AtomicMove WITH
          home <- IF marker.status = "none" THEN "monolith" ELSE "files",
          data <- [o \in Owners |-> IF marker.status = "none" THEN mono[o]
                                    ELSE Content(file[o])]

MoveIsAtomic == Move!Spec
=============================================================================
