----------------------------- MODULE RnpmIntake -----------------------------
(***************************************************************************)
(* The requests of one user that ask for a search in the RNPM registry, at *)
(* the same time: refused under a restore, held back by the storage check, *)
(* charged against the captcha caps, told apart by the clientRequestId     *)
(* they may carry, run with or without a time limit, and answered          *)
(* (routes/rnpm.ts, routes/rnpmGuards.ts, db/captchaUsageRepository.ts;    *)
(* the loop of POST /bulk: executeBulkSearchInner).  What a search does    *)
(* inside is in RnpmSearch; here it waits for the maintenance lock now and *)
(* then and ends.                                                          *)
(*                                                                         *)
(* A step ends where the handler awaits.  withRnpmCaptchaGuards has no     *)
(* await between its count and its insert.                                 *)
(***************************************************************************)
EXTENDS Naturals

CONSTANTS
    Queries,   \* requests
    Shapes,    \* what a request may be: [kind, id, by]; /search as JSON or as a
               \* stream, /bulk, and /search-split, whose time is a bulk's
    Ids,       \* values of clientRequestId
    NoId,      \* no clientRequestId: no dedup
    OwnerCap,  \* the owner's cap of captchas in the window
    TokenCap,  \* the cap of the token, which is its own
    MaxTrips,  \* bound: writes to captcha_usage that fail
    MaxPauses  \* bound: backups and restores that take the lock

ASSUME IntakeAssumption ==
    /\ NoId \notin Ids
    /\ Shapes \subseteq [kind : {"json", "stream", "bulk"},
                         id : Ids \cup {NoId}, by : {"token", "none"}]
    /\ OwnerCap \in Nat /\ TokenCap \in Nat
    /\ MaxTrips \in Nat /\ MaxPauses \in Nat

VARIABLES
    query,    \* [Queries -> request]
    key,      \* inflightRequests, inflightTimers: id -> {the run of the entry}, or {}
    charged,  \* rows of captcha_usage in the window: of the token, of none
    writer,   \* who holds the maintenance write lock: "none", "backup", "restore"
    trips,    \* failed writes so far
    pauses,   \* backups and restores so far
    outlived, \* ghost: ids of which a run has lasted longer than its entry
    let       \* ghost: requests let in: of the token, all, without a record

intakeVars == <<query, key, charged, writer, trips, pauses, outlived, let>>

NoQuery == [pc |-> "idle"]
Stage(q, pc) == query[q].pc = pc
AtWork(q) == query[q].pc \in {"run", "held"}
OfId(i) == {q \in Queries : AtWork(q) /\ query[q].id = i}
\* Answered; with what does not matter here.
Settle(q) == query' = [query EXCEPT ![q] = [pc |-> "done"]]

IntakeInit ==
    /\ query = [q \in Queries |-> NoQuery]
    /\ key = [i \in Ids |-> {}]
    /\ charged = [token |-> 0, none |-> 0]
    /\ writer = "none" /\ trips = 0 /\ pauses = 0
    /\ outlived = {} /\ let = [token |-> 0, all |-> 0, free |-> 0]

-----------------------------------------------------------------------------
(* Before the run. *)

\* isRnpmRestoreInProgress: refused before anything is charged.
Receive(q, shape) ==
    /\ query[q] = NoQuery
    /\ IF writer = "restore" THEN Settle(q)
       ELSE query' = [query EXCEPT ![q] = [kind |-> shape.kind, id |-> shape.id,
                                           by |-> shape.by, pc |-> "storage"]]
    /\ UNCHANGED <<key, charged, writer, trips, pauses, outlived, let>>

\* assertRnpmStorageWithinLimit measures under the read lock.
Measured(q) == Stage(q, "storage") /\ writer = "none"

StorageRefuses(q) ==
    /\ Measured(q) /\ Settle(q)
    /\ UNCHANGED <<key, charged, writer, trips, pauses, outlived, let>>

\* MUTANT: the owner's cap is not looked at for a token that has its own.
OwnerRefusesNoToken(q) == query[q].by = "none" /\ charged.token + charged.none >= OwnerCap

OwnerRefuses(q) == charged.token + charged.none >= OwnerCap
TokenRefuses(q) == query[q].by = "token" /\ charged.token >= TokenCap
OverCap(q) == OwnerRefuses(q) \/ TokenRefuses(q)

LetIn(q, free) ==
    /\ query' = [query EXCEPT ![q].pc = "admitted"]
    /\ let' = [token |-> let.token + (IF query[q].by = "token" THEN 1 ELSE 0),
               all |-> let.all + 1, free |-> let.free + free]

Charge(q) ==
    /\ Measured(q) /\ ~OverCap(q) /\ LetIn(q, 0)
    /\ charged' = [charged EXCEPT ![query[q].by] = @ + 1]
    /\ UNCHANGED <<key, writer, trips, pauses, outlived>>

CapRefuses(q) ==
    /\ Measured(q) /\ OverCap(q) /\ Settle(q)
    /\ UNCHANGED <<key, charged, writer, trips, pauses, outlived, let>>

Trip(q) ==
    /\ Measured(q) /\ ~OverCap(q)
    /\ trips < MaxTrips /\ trips' = trips + 1
    /\ UNCHANGED <<key, charged, writer, pauses, outlived>>

\* A reservation that fails is refused (503), a record that fails is let go.
ChargeFails(q) ==
    /\ Trip(q)
    /\ IF query[q].by = "token" THEN Settle(q) /\ UNCHANGED let
                                ELSE LetIn(q, 1)

\* The body is looked at after the charge.
BodyRefused(q) ==
    /\ Stage(q, "admitted") /\ Settle(q)
    /\ UNCHANGED <<key, charged, writer, trips, pauses, outlived, let>>

Duplicate(q) == query[q].id # NoId /\ key[query[q].id] # {}

DuplicateRefused(q) ==
    /\ Stage(q, "admitted") /\ Duplicate(q) /\ Settle(q)
    /\ UNCHANGED <<key, charged, writer, trips, pauses, outlived, let>>

SetKey(id, runs) == key' = IF id = NoId THEN key ELSE [key EXCEPT ![id] = runs]

\* beginRnpmSearch refuses under a restore that has begun since; the entry is
\* made and removed again.
Launch(q) ==
    /\ Stage(q, "admitted") /\ ~Duplicate(q)
    /\ IF writer = "restore"
       THEN Settle(q) /\ UNCHANGED key
       ELSE /\ query' = [query EXCEPT ![q] = [kind |-> @.kind, id |-> @.id,
                                              pc |-> "run", late |-> FALSE]]
            /\ SetKey(query[q].id, {q})
    /\ UNCHANGED <<charged, writer, trips, pauses, outlived, let>>

-----------------------------------------------------------------------------
(* The run. *)

\* It waits for the read lock; it does not look at its signal there.
Hold(q) ==
    /\ Stage(q, "run") /\ writer # "none"
    /\ query' = [query EXCEPT ![q].pc = "held"]
    /\ UNCHANGED <<key, charged, writer, trips, pauses, outlived, let>>

Proceed(q) ==
    /\ Stage(q, "held") /\ writer = "none"
    /\ query' = [query EXCEPT ![q].pc = "run"]
    /\ UNCHANGED <<key, charged, writer, trips, pauses, outlived, let>>

\* The timer is of the entry it was set with: an entry that was cleared or made
\* anew has none of an earlier run.
KeyExpires(q) ==
    /\ key' = [i \in Ids |-> key[i] \ {q}]
    /\ outlived' = outlived \cup {query[q].id}

\* INFLIGHT_TTL_SEARCH_MS: a stream is aborted as its entry expires, a JSON
\* answer has no limit.  SSE_TIMEOUT_MS: a bulk is aborted a minute earlier.
TimeUp(q) ==
    /\ AtWork(q) /\ ~query[q].late
    /\ query' = [query EXCEPT ![q].late = TRUE]
    /\ IF query[q].kind = "bulk" THEN UNCHANGED <<key, outlived>> ELSE KeyExpires(q)
    /\ UNCHANGED <<charged, writer, trips, pauses, let>>

BulkKeyExpires(q) ==
    /\ AtWork(q) /\ query[q].kind = "bulk" /\ query[q].late
    /\ \E i \in Ids : q \in key[i]
    /\ KeyExpires(q)
    /\ UNCHANGED <<query, charged, writer, trips, pauses, let>>

\* MUTANT: the entry is left to its timer.
EndsKeyKept(q) == Settle(q) /\ UNCHANGED key

\* clearInflight in the finally: by name, whoever has made the entry.
Ends(q) == Settle(q) /\ SetKey(query[q].id, {})

\* With a result or an error; or because the client has gone, or the time of a
\* stream is up, which stops the search at its next step and not in Hold.
Finish(q) ==
    /\ Stage(q, "run") /\ query[q].kind # "bulk" /\ Ends(q)
    /\ UNCHANGED <<charged, writer, trips, pauses, outlived, let>>

\* The loop returns when it is aborted and when the storage is full (the rest
\* is told as stopped), as it does at its end: the bulk is complete.
BulkReturns(q) ==
    /\ Stage(q, "run") /\ query[q].kind = "bulk" /\ Ends(q)
    /\ UNCHANGED <<charged, writer, trips, pauses, outlived, let>>

-----------------------------------------------------------------------------
(* Backups and restores. *)

\* beginRnpmRestore refuses while a search is counted.
Pause(what) ==
    /\ writer = "none" /\ pauses < MaxPauses
    /\ what = "restore" => \A q \in Queries : ~AtWork(q)
    /\ writer' = what /\ pauses' = pauses + 1
    /\ UNCHANGED <<query, key, charged, trips, outlived, let>>

PauseEnds ==
    /\ writer # "none" /\ writer' = "none"
    /\ UNCHANGED <<query, key, charged, trips, pauses, outlived, let>>

IntakeNext ==
    \/ \E q \in Queries :
         \/ \E shape \in Shapes : Receive(q, shape)
         \/ StorageRefuses(q) \/ CapRefuses(q) \/ Charge(q) \/ ChargeFails(q)
         \/ BodyRefused(q) \/ DuplicateRefused(q) \/ Launch(q)
         \/ Hold(q) \/ Proceed(q) \/ TimeUp(q) \/ BulkKeyExpires(q)
         \/ Finish(q) \/ BulkReturns(q)
    \/ \E what \in {"backup", "restore"} : Pause(what)
    \/ PauseEnds

IntakeSpec == IntakeInit /\ [][IntakeNext]_intakeVars
-----------------------------------------------------------------------------
IntakeTypeOK ==
    /\ \A q \in Queries : query[q].pc \in {"idle", "storage", "admitted", "run", "held", "done"}
    /\ key \in [Ids -> SUBSET Queries]
    /\ charged \in [{"token", "none"} -> Nat]
    /\ writer \in {"none", "backup", "restore"}
    /\ trips \in Nat /\ pauses \in Nat
    /\ outlived \subseteq Ids \cup {NoId}
    /\ let \in [{"token", "all", "free"} -> Nat]

\* An entry belongs to a run, so that a request may be repeated when the first
\* has ended in whatever way; and as long as no run of an id has outlasted the
\* time its entry is given, a run of it has the entry and there is only one
\* (routes/rnpm.ts:159-190, 520-550).
KeyMeansOneRun ==
    \A i \in Ids :
      /\ key[i] \subseteq OfId(i)
      /\ i \notin outlived => OfId(i) = key[i] /\ \A p, q \in OfId(i) : p = q

\* However requests overlap, no more of them get a captcha than the owner's cap
\* allows, but for those whose record has failed; and of a token never more than
\* its cap, failures or not (rnpmGuards.ts:125-232).
CapsHold ==
    /\ let.all <= OwnerCap + let.free
    /\ let.token <= TokenCap
=============================================================================
