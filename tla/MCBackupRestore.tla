--------------------------- MODULE MCBackupRestore ---------------------------
(* TLC instances of the database file and its backups. *)
EXTENDS BackupRestore

CONSTANTS r1, r2, s1

Retained == [p \in Pools |-> IF p = "dated" THEN 2 ELSE 1]
=============================================================================
