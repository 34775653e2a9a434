------------------------------ MODULE Migrations ------------------------------
(***************************************************************************)
(* Opening the databases: the copy made before an upgrade, the migrations  *)
(* with their ledger, the legacy block after them, and who gets to see a   *)
(* handle (db/migrations/runner.ts, db/schema.ts, db/rnpmDb.ts, and the    *)
(* boot in index.ts).                                                      *)
(*                                                                         *)
(* One monolith, one user's RNPM file.  Everything here is synchronous, so *)
(* that only a kill comes between two steps; a step is what SQLite commits *)
(* as one transaction.  Each boot is of some release of the program, newer *)
(* or older than the last.                                                 *)
(***************************************************************************)
EXTENDS Naturals, Sequences, FiniteSets

CONSTANTS
    MaxVersion,     \* monolith migrations of the newest release
    LookupVersion,  \* the one that alters rnpm_bunuri_descrieri (0022)
    Absent,         \* no such file
    MaxFailures,    \* bound: copies, migrations or alterations that fail
    MaxRows       \* bound: rows of a file that the user adds to

ASSUME MigrationsAssumption ==
    /\ MaxVersion \in Nat \ {0, 1}
    /\ LookupVersion \in 2..MaxVersion
    /\ MaxFailures \in Nat /\ MaxRows \in Nat
    /\ Absent \notin [ledger : [1..MaxVersion -> {"none", "exact", "crlf", "drift", "sentinel"}],
                     tables : SUBSET (1..MaxVersion), rows : Nat,
                     text : {"inline", "both", "lookup"}]

VARIABLES
    mode,       \* "web" or "desktop"
    release,    \* newest migration of the program that boots
    image,      \* the two files as committed
    copies,     \* pre-migration backups of the monolith
    jail,       \* pre-migration backups of the RNPM file, newest last
    handle,     \* the cached handles: schema.ts `db`, rnpmDb.ts `handles`
    boot,       \* how far the boot is, and the opening that is under way
    good,       \* what each file was when it was last whole
    uncopied,   \* files of which a copy was wanted and failed
    swallowed,  \* an opening has failed under the auto-promote's catch
    faults

migVars == <<mode, release, image, copies, jail, handle, boot, good, uncopied,
             swallowed, faults>>

Files == {"monolith", "rnpm"}
Versions == 1..MaxVersion

\* discoverMigrations: the chain a release ships.  The RNPM chain has one
\* migration, and a second in the newest release.
Chain(f) == IF f = "monolith" THEN 1..release
            ELSE IF release = MaxVersion THEN 1..2 ELSE {1}

Unapplied(i) == {v \in Versions : i.ledger[v] = "none"}

\* A file without any version recorded; it may still have version 1's tables.
Untracked(i) == Unapplied(i) = Versions

Blank == [ledger |-> [v \in Versions |-> "none"], tables |-> {}, text |-> "lookup", rows |-> 0]

\* A file that the releases up to `top` have tracked, its first hash of kind h.
Tracked(top, h) ==
    [ledger |-> [v \in Versions |-> IF v > top THEN "none" ELSE IF v = 1 THEN h ELSE "exact"],
     tables |-> 1..top, text |-> "lookup", rows |-> 1]

\* v2.0.10 and before: the tables and no ledger; older still, the texts inline.
Legacy(text) == [Blank EXCEPT !.tables = {1}, !.text = text, !.rows = 1]

\* MUTANT: a file without a ledger has nothing pending.
HasPendingTracked(f) ==
    image[f] # Absent /\ ~Untracked(image[f]) /\ Chain(f) \cap Unapplied(image[f]) # {}

\* hasPendingSchemaMigrations, hasPendingRnpmMigrations, of a file that exists.
HasPending(f) ==
    /\ image[f] # Absent
    /\ IF f = "monolith" /\ Untracked(image[f]) THEN release > 1
       ELSE Chain(f) \cap Unapplied(image[f]) # {}

\* needsDescriereMigration: the old column, and not yet the new one.
NeedsDescriere(f) == f = "monolith" /\ image[f] # Absent /\ image[f].text = "inline"

\* The web prewarm passes over a file that is missing or has nothing pending.
PassedOver == boot.stage = "prewarm" /\ mode = "web" /\ ~HasPending("rnpm")

\* The file an opening is about.
Opening == IF boot.stage \in {"promote", "init"} THEN "monolith" ELSE "rnpm"

\* The versions the runner has not come to terms with.
Open(f) == {v \in Chain(f) : image[f].ledger[v] \notin {"exact", "sentinel"}}
Due(f) == CHOOSE v \in Open(f) : \A w \in Open(f) : v <= w

\* What earlier releases can have left behind.
OldMonoliths == {Absent, Legacy("inline"), Legacy("lookup")}
                \cup {Tracked(top, h) : top \in Versions, h \in {"exact", "crlf", "drift"}}
OldRnpmFiles == {Absent, Tracked(1, "exact")}

MigInit ==
    /\ mode \in {"web", "desktop"}
    /\ release = 1
    /\ \E m \in OldMonoliths, r \in OldRnpmFiles :
         image = [f \in Files |-> IF f = "monolith" THEN m ELSE r]
    /\ good = image
    /\ copies = {} /\ jail = <<>>
    /\ handle = {} /\ boot = [stage |-> "off", step |-> "idle"]
    /\ uncopied = {} /\ swallowed = FALSE /\ faults = 0

\* The process starts, after an update or a downgrade.
Start ==
    /\ boot.stage = "off"
    /\ release' \in Versions
    /\ boot' = [stage |-> IF mode = "desktop" THEN "promote" ELSE "init", step |-> "call"]
    /\ UNCHANGED <<mode, image, copies, jail, handle, good, uncopied, swallowed, faults>>

\* Killed, or stopped.
Kill ==
    /\ boot.stage # "off"
    /\ boot' = [stage |-> "off", step |-> "idle"] /\ handle' = {}
    /\ UNCHANGED <<mode, release, image, copies, jail, good, uncopied, swallowed, faults>>

\* What follows an opening that has returned: the auto-promote, the explicit
\* getDb, the prewarm, and then the requests.
Advance ==
    boot' = IF boot.stage = "promote" THEN [stage |-> "init", step |-> "call"]
            ELSE IF boot.stage = "init" THEN [stage |-> "prewarm", step |-> "call"]
            ELSE [stage |-> "serving", step |-> "idle"]

\* getDb and getRnpmDb return what is cached.
Cached ==
    /\ boot.step = "call"
    /\ Opening \in handle \/ PassedOver
    /\ Advance
    /\ UNCHANGED <<mode, release, image, copies, jail, handle, good, uncopied, swallowed, faults>>

\* preMigrationBackup, best effort; two of the RNPM file are kept.  The
\* monolith's handle is cached as soon as it is open.
Copy ==
    /\ boot.step = "call" /\ Opening \notin handle /\ ~PassedOver
    /\ LET f == Opening
           wanted == NeedsDescriere(f) \/ HasPending(f)
           kept == IF Len(jail) < 2 THEN jail ELSE Tail(jail)
       IN  \/ /\ copies' = IF wanted /\ f = "monolith" THEN copies \cup {image[f]} ELSE copies
              /\ jail' = IF wanted /\ f = "rnpm" THEN Append(kept, image[f]) ELSE jail
              /\ UNCHANGED <<uncopied, faults>>
           \/ /\ wanted /\ faults < MaxFailures
              /\ faults' = faults + 1
              /\ uncopied' = uncopied \cup {f}
              /\ UNCHANGED <<copies, jail>>
    /\ handle' = handle \cup ({Opening} \ {"rnpm"})
    /\ boot' = [boot EXCEPT !.step = "ledger"]
    /\ UNCHANGED <<mode, release, image, good, swallowed>>

\* fatalBoot: one more copy, if it can be made, and the process is gone.
FatalBoot ==
    /\ boot' = [stage |-> "off", step |-> "idle"] /\ handle' = {}
    /\ copies' \in {copies, copies \cup ({image["monolith"]} \ {Absent})}

\* MUTANT: the RNPM handle is cached before its migrations, as the monolith's is.
ThrowCached ==
    \/ /\ boot.stage = "promote"
       /\ swallowed' = TRUE
       /\ boot' = [stage |-> "init", step |-> "call"]
       /\ UNCHANGED <<handle, copies>>
    \/ /\ boot.stage = "init" \/ (boot.stage = "prewarm" /\ mode = "desktop")
       /\ FatalBoot
       /\ UNCHANGED swallowed
    \/ /\ boot.stage = "serving" \/ (boot.stage = "prewarm" /\ mode = "web")
       /\ boot' = [stage |-> "serving", step |-> "idle"]
       /\ handle' = handle \cup {Opening}
       /\ UNCHANGED <<copies, swallowed>>

\* An exception out of an opening.  The RNPM handle is closed, the monolith's
\* stays cached.  The auto-promote's catch logs it, the web prewarm counts it,
\* a request answers with it.
Throw ==
    \/ /\ boot.stage = "promote"
       /\ swallowed' = TRUE
       /\ boot' = [stage |-> "init", step |-> "call"]
       /\ UNCHANGED <<handle, copies>>
    \/ /\ boot.stage = "init" \/ (boot.stage = "prewarm" /\ mode = "desktop")
       /\ FatalBoot
       /\ UNCHANGED swallowed
    \/ /\ boot.stage = "serving" \/ (boot.stage = "prewarm" /\ mode = "web")
       /\ boot' = [stage |-> "serving", step |-> "idle"]
       /\ UNCHANGED <<handle, copies, swallowed>>

\* The ledger is created if need be; a file with tables and no ledger gets the
\* sentinel for version 1; a ledger that knows more than the program refuses it.
Ledger ==
    /\ boot.step = "ledger"
    /\ LET i == IF image[Opening] = Absent THEN Blank ELSE image[Opening]
           untold == Untracked(i) /\ 1 \in i.tables
       IN  /\ image' = [image EXCEPT ![Opening] =
                          IF untold THEN [i EXCEPT !.ledger[1] = "sentinel"] ELSE i]
           /\ IF Versions \ Unapplied(i) \subseteq Chain(Opening)
              THEN boot' = [boot EXCEPT !.step = "migrate"] /\ UNCHANGED <<handle, copies, swallowed>>
              ELSE Throw
    /\ UNCHANGED <<mode, release, jail, good, uncopied, faults>>

\* The hash of a version is the file's with other line ends: it is rewritten.
Heal ==
    /\ boot.step = "migrate" /\ Open(Opening) # {}
    /\ image[Opening].ledger[Due(Opening)] = "crlf"
    /\ image' = [image EXCEPT ![Opening].ledger[Due(Opening)] = "exact"]
    /\ UNCHANGED <<mode, release, copies, jail, handle, boot, good, uncopied, swallowed, faults>>

\* The lookup table is there only after the legacy block.
Applies(v) == Opening = "monolith" /\ v = LookupVersion => image["monolith"].text # "inline"

\* One migration and its ledger row in one transaction.
Migrate ==
    /\ boot.step = "migrate" /\ Open(Opening) # {}
    /\ LET v == Due(Opening) IN
       /\ image[Opening].ledger[v] = "none"
       /\ Applies(v)
       /\ image' = [image EXCEPT ![Opening].ledger[v] = "exact",
                                 ![Opening].tables = @ \cup {v}]
    /\ UNCHANGED <<mode, release, copies, jail, handle, boot, good, uncopied, swallowed, faults>>

\* Drift refuses to boot, and so does a migration of a table that is not there.
RefuseToOpen ==
    /\ boot.step = "migrate" /\ Open(Opening) # {}
    /\ LET v == Due(Opening) IN
       \/ image[Opening].ledger[v] = "drift"
       \/ image[Opening].ledger[v] = "none" /\ ~Applies(v)
    /\ Throw
    /\ UNCHANGED <<mode, release, image, jail, good, uncopied, faults>>

\* A migration or an alteration fails and is rolled back.
Fail ==
    /\ \/ boot.step = "migrate" /\ Open(Opening) # {}
          /\ image[Opening].ledger[Due(Opening)] = "none" /\ Applies(Due(Opening))
       \/ boot.step = "legacy" /\ image["monolith"].text # "lookup"
    /\ faults < MaxFailures
    /\ faults' = faults + 1
    /\ Throw
    /\ UNCHANGED <<mode, release, image, jail, good, uncopied>>

\* After the monolith's last migration, its legacy block.
Migrated ==
    /\ boot.step = "migrate" /\ Open(Opening) = {} /\ Opening = "monolith"
    /\ boot' = [boot EXCEPT !.step = "legacy"]
    /\ UNCHANGED <<mode, release, image, copies, jail, handle, good, uncopied, swallowed, faults>>

\* The new column, committed on its own; then the texts move to the lookup
\* table and the old column goes, in one transaction.
AddColumn ==
    /\ boot.step = "legacy" /\ image["monolith"].text = "inline"
    /\ image' = [image EXCEPT !["monolith"].text = "both"]
    /\ UNCHANGED <<mode, release, copies, jail, handle, boot, good, uncopied, swallowed, faults>>
MoveTexts ==
    /\ boot.step = "legacy" /\ image["monolith"].text = "both"
    /\ image' = [image EXCEPT !["monolith"].text = "lookup"]
    /\ UNCHANGED <<mode, release, copies, jail, handle, boot, good, uncopied, swallowed, faults>>

\* The opening returns; the web prewarm closes what it has opened.
Opened ==
    /\ \/ boot.step = "legacy" /\ image["monolith"].text = "lookup"
       \/ boot.step = "migrate" /\ Open(Opening) = {} /\ Opening = "rnpm"
    /\ handle' = IF boot.stage = "prewarm" /\ mode = "web" THEN handle
                 ELSE handle \cup {Opening}
    /\ good' = [good EXCEPT ![Opening] = image[Opening]]
    /\ uncopied' = uncopied \ {Opening}
    /\ Advance
    /\ UNCHANGED <<mode, release, image, copies, jail, swallowed, faults>>

\* A request opens the RNPM file, if it is not open.
Request ==
    /\ boot.stage = "serving" /\ boot.step = "idle" /\ "rnpm" \notin handle
    /\ boot' = [boot EXCEPT !.step = "call"]
    /\ UNCHANGED <<mode, release, image, copies, jail, handle, good, uncopied, swallowed, faults>>

\* A user's rows go into an open file.
Write ==
    /\ boot.stage = "serving" /\ boot.step = "idle" /\ ~swallowed
    /\ \E f \in handle :
         /\ image[f].rows < MaxRows
         /\ image' = [image EXCEPT ![f].rows = @ + 1]
         /\ good' = [good EXCEPT ![f] = image'[f]]
    /\ UNCHANGED <<mode, release, copies, jail, handle, boot, uncopied, swallowed, faults>>

MigNext ==
    \/ Start \/ Kill \/ Cached \/ Copy \/ Ledger \/ Heal \/ Migrate \/ RefuseToOpen \/ Fail
    \/ Migrated \/ AddColumn \/ MoveTexts \/ Opened \/ Request \/ Write

MigSpec == MigInit /\ [][MigNext]_migVars

-------------------------------------------------------------------------------

MigTypeOK ==
    /\ mode \in {"web", "desktop"} /\ release \in Versions
    /\ \A f \in Files : image[f] # Absent =>
         /\ image[f].tables \subseteq Versions
         /\ image[f].text \in {"inline", "both", "lookup"}
    /\ handle \subseteq Files
    /\ boot.stage \in {"off", "promote", "init", "prewarm", "serving"}
    /\ boot.step \in {"idle", "call", "ledger", "migrate", "legacy"}

\* What the release's code expects of a file.
Whole(f) ==
    /\ image[f].tables = Chain(f)
    /\ Versions \ Unapplied(image[f]) = Chain(f)
    /\ image[f].text = "lookup"

\* Whatever failed, was killed or was downgraded before, a request gets a
\* handle only of a file with each migration of the running release applied
\* once and recorded, and the texts moved.  It is not so on the desktop after
\* an opening that failed under the auto-promote's catch (index.ts:559-580).
HandlesAreWhole ==
    boot.stage = "serving" /\ ~swallowed => \A f \in handle : Whole(f)

\* As long as an upgrade of a file with data is half done, over failures,
\* kills and further boots, a copy of the file as it was before the first
\* step is kept, if it could be made (schema.ts:97-113, rnpmDb.ts:60-78).
UpgradeLeavesACopy ==
    \A f \in Files :
      LET before == good[f]
          saved == IF f = "monolith" THEN copies ELSE {jail[n] : n \in DOMAIN jail}
      IN  before # Absent /\ f \notin uncopied /\ ~swallowed
            /\ <<image[f].tables, image[f].text>> # <<before.tables, before.text>>
          => \E c \in saved : c.tables = before.tables /\ c.text = before.text /\ c.rows = before.rows

\* A migration that fails stops the boot, as the gate of index.ts:572-580 says:
\* "schema init failed".  So the server is never up over a half migrated file.
FailedMigrationStopsBoot == boot.stage = "serving" => \A f \in handle : Whole(f)
===============================================================================
