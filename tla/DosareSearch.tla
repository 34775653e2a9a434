---------------------------- MODULE DosareSearch ----------------------------
(***************************************************************************)
(* The search for court files, GET /dosare (routes/dosare.ts:104-240): one *)
(* call to PortalJust that covers every court, or one court; one call per  *)
(* court when several are chosen; and when the call that covers them all   *)
(* has failed, one per court as a fallback, within a budget of time, a     *)
(* limit of rows and a cap on the fallbacks of the process.  The calls per *)
(* court are shared out among workers (services/dosareFanout.ts).          *)
(*                                                                         *)
(* A worker's step goes from one await to the next.  Rows are counted; the *)
(* files of a court are told apart from those of the others by the key     *)
(* institutie|numar, so that only a court's own repetitions are dropped.   *)
(***************************************************************************)
EXTENDS Naturals, FiniteSets, FiniteSetsExt

CONSTANTS
    Searches,      \* requests at the same time
    NCourts,       \* allInstitutionTokens, in their order
    Raw, Distinct, \* [court -> rows PortalJust gives, of which different]
    MaxRows,       \* MAX_DOSARE_RESPONSE
    Workers,       \* DEFAULT_CONCURRENCY
    MaxFallbacks   \* MAX_CONCURRENT_FALLBACKS

Courts == 1..NCourts

ASSUME DosareAssumption ==
    /\ NCourts \in Nat \ {0} /\ Workers \in Nat \ {0}
    /\ MaxRows \in Nat /\ MaxFallbacks \in Nat /\ IsFiniteSet(Searches)
    /\ Raw \in [Courts -> Nat] /\ Distinct \in [Courts -> Nat]
    /\ \A c \in Courts : Distinct[c] <= Raw[c]

VARIABLES
    search,   \* [Searches -> request]
    fallbacks \* fallbacksInFlight

dosVars == <<search, fallbacks>>

\* Of the courts 1..upTo: next is the one no worker has taken yet.
NoSearch == [pc |-> "idle", upTo |-> 0, next |-> 1, asking |-> {}, got |-> {},
             failed |-> {}, budget |-> FALSE, late |-> FALSE, gone |-> FALSE]

DosInit == search = [r \in Searches |-> NoSearch] /\ fallbacks = 0

Asked(r) == 1..search[r].upTo
RowsOf(count, courts) == MapThenSumSet(LAMBDA c : count[c], courts)
\* The limit of rows before repetitions are dropped is the fallback's.
Over(r) == search[r].budget /\ RowsOf(Raw, search[r].got) > MaxRows
EndWith(r, status) == search' = [search EXCEPT ![r].pc = status, ![r].asking = {}]

\* No court chosen, or one: a single call.  Several: a call for each.
Arrive(r, n) ==
    /\ search[r] = NoSearch
    /\ search' = [search EXCEPT
         ![r].pc = IF n = 0 THEN "all" ELSE IF n = 1 THEN "one" ELSE "fanout",
         ![r].upTo = IF n = 0 THEN NCourts ELSE n]
    /\ UNCHANGED fallbacks

\* The answer, unless it is too large.
Respond(r, got) ==
    search' = [search EXCEPT
      ![r].got = got, ![r].asking = {},
      ![r].pc = IF RowsOf(Distinct, got) <= MaxRows THEN "200" ELSE "413"]

SingleAnswers(r) ==
    /\ search[r].pc \in {"one", "all"}
    /\ Respond(r, Asked(r)) \/ EndWith(r, "413")
    /\ UNCHANGED fallbacks

SingleFails(r) ==
    /\ search[r].pc \in {"one", "all"}
    /\ search[r].pc = "one" \/ search[r].gone \/ fallbacks >= MaxFallbacks
    /\ EndWith(r, "500") /\ UNCHANGED fallbacks

FallBack(r) ==
    /\ search[r].pc = "all" /\ ~search[r].gone /\ fallbacks < MaxFallbacks
    /\ search' = [search EXCEPT ![r].pc = "fanout", ![r].budget = TRUE]
    /\ fallbacks' = fallbacks + 1

WorkerFree(r) == search[r].pc = "fanout" /\ ~search[r].gone /\ ~Over(r)

\* A free worker takes the next court.
Take(r) ==
    /\ WorkerFree(r) /\ ~search[r].late
    /\ search[r].next <= search[r].upTo
    /\ search[r].budget => Cardinality(search[r].asking) < Workers
    /\ search' = [search EXCEPT ![r].asking = @ \cup {search[r].next}, ![r].next = @ + 1]
    /\ UNCHANGED fallbacks

\* MUTANT: the courts the budget has not reached are not told of.
SkipForgotten(r) ==
    /\ WorkerFree(r) /\ search[r].late
    /\ search[r].next <= search[r].upTo
    /\ search' = [search EXCEPT ![r].next = @ + 1]
    /\ UNCHANGED fallbacks

\* The budget is used up: what is left has failed without being asked.
Skip(r) ==
    /\ WorkerFree(r) /\ search[r].late
    /\ search[r].next <= search[r].upTo
    /\ search' = [search EXCEPT ![r].failed = @ \cup {search[r].next}, ![r].next = @ + 1]
    /\ UNCHANGED fallbacks

Reply(r, c) ==
    /\ search[r].pc = "fanout" /\ c \in search[r].asking
    /\ search' = [search EXCEPT ![r].asking = @ \ {c}, ![r].got = @ \cup {c}]
    /\ UNCHANGED fallbacks

\* A fault, the timeout of the call or that of the budget; when the client has
\* gone the worker ends and the court is left out.
CourtFails(r, c) ==
    /\ search[r].pc = "fanout" /\ c \in search[r].asking
    /\ search' = [search EXCEPT ![r].asking = @ \ {c},
         ![r].failed = IF search[r].gone THEN @ ELSE @ \cup {c}]
    /\ UNCHANGED fallbacks

BudgetOut(r) ==
    /\ search[r].pc = "fanout" /\ search[r].budget /\ ~search[r].late
    /\ search' = [search EXCEPT ![r].late = TRUE] /\ UNCHANGED fallbacks

Leave(r) ==
    /\ search[r].pc \in {"one", "all", "fanout"} /\ ~search[r].gone
    /\ search' = [search EXCEPT ![r].gone = TRUE] /\ UNCHANGED fallbacks

\* allSettled: every worker has ended, at the last court, at the limit of rows
\* or for the client.  An answer cut at the limit is refused, also if without
\* the repetitions it would fit.
FanoutEnds(r) ==
    /\ search[r].pc = "fanout" /\ search[r].asking = {}
    /\ ~WorkerFree(r) \/ search[r].next > search[r].upTo
    /\ fallbacks' = IF search[r].budget THEN fallbacks - 1 ELSE fallbacks
    /\ IF search[r].gone \/ search[r].failed = Asked(r) THEN EndWith(r, "500")
       ELSE IF Over(r) THEN EndWith(r, "413")
       ELSE Respond(r, search[r].got)

DosNext ==
    \E r \in Searches :
      \/ \E n \in 0..NCourts : Arrive(r, n)
      \/ SingleAnswers(r) \/ SingleFails(r) \/ FallBack(r)
      \/ Take(r) \/ Skip(r) \/ BudgetOut(r) \/ Leave(r) \/ FanoutEnds(r)
      \/ \E c \in Courts : Reply(r, c) \/ CourtFails(r, c)

DosSpec == DosInit /\ [][DosNext]_dosVars
-----------------------------------------------------------------------------
DosTypeOK ==
    /\ \A r \in Searches :
         /\ search[r].pc \in {"idle", "one", "all", "fanout", "200", "413", "500"}
         /\ search[r].upTo \in 0..NCourts /\ search[r].next \in 1..(NCourts + 1)
         /\ search[r].asking \cup search[r].got \cup search[r].failed \subseteq Courts
    /\ fallbacks \in 0..MaxFallbacks

\* Every court the search was about is in an answer with its rows or by its
\* name among the failed, and not both, whichever of its calls failed, timed
\* out or were never made; the answer is no larger than it may be and not all
\* of it has failed; and a fallback is counted as long as it runs, so that one
\* that is cut off does not use up the cap (dosareFanout.ts:26-110).
AnswerIsAccounted ==
    /\ \A r \in Searches :
         LET q == search[r]
         IN  q.pc = "200" =>
               /\ q.got \cup q.failed = Asked(r) /\ q.got \cap q.failed = {}
               /\ q.failed # Asked(r) /\ RowsOf(Distinct, q.got) <= MaxRows
    /\ fallbacks = Cardinality({r \in Searches : search[r].pc = "fanout" /\ search[r].budget})
=============================================================================
