----------------------------- MODULE RnpmSearch -----------------------------
(***************************************************************************)
(* A user's searches in the RNPM registry: one search with its pages, its  *)
(* "load more", its concurrent fetches of details and their second pass,   *)
(* or a search split by kind of registration and, where a kind is too      *)
(* large, by destination (services/rnpmSearchService.ts, routes/rnpm.ts).  *)
(*                                                                         *)
(* RNPM is its contract as the code knows it: a session (gcode) is bought  *)
(* with a captcha, expires, and when fresh has no page but the first.  A   *)
(* step ends where the code awaits; the client may go away, a restore or a *)
(* backup may take the maintenance lock and the history may be deleted in  *)
(* between.                                                                *)
(***************************************************************************)
EXTENDS Naturals, Sequences, SequencesExt

CONSTANTS
    MaxTotal,     \* MAX_TOTAL_RESULTS
    Worlds,       \* [mode, kinds, answer]: what RNPM says to each query
    Documents,    \* what RNPM lists
    NoUuid,       \* documents that come without identificator.k
    PageSize,     \* rows of a page at RNPM
    BatchSize,    \* rows a single search fetches at once
    Concurrency,  \* DEFAULT_DETAIL_CONCURRENCY
    RefusalLimit, \* K_SILENT_REFUSAL_FAIL_FAST
    MaxRequests,  \* bound: requests of each mode, "load more" included
    MaxExpiries,  \* bound: sessions that expire
    MaxMishaps,   \* bound: failed requests, captchas and storage checks
    MaxOthers,    \* bound: backups, restores and deletes of history
    Null

\* Queries: <<>> of a single search, <<i>> of a kind, <<i, j>> of a kind and a
\* destination; kinds is how many a split asks for.  An answer has the total, the
\* rows that are listed, and what RNPM says is the number of pages: more, at
\* times, than there are.
ASSUME SearchAssumption ==
    /\ PageSize \in Nat \ {0} /\ BatchSize \in Nat /\ Concurrency \in Nat \ {0}
    /\ MaxTotal \in Nat
    /\ RefusalLimit \in Nat \ {0}
    /\ MaxRequests \in [{"single", "split"} -> Nat]
    /\ MaxExpiries \in Nat /\ MaxMishaps \in Nat /\ MaxOthers \in Nat
    /\ Null \notin Nat \cup Documents
    /\ \A x \in Worlds :
         /\ x.mode \in {"single", "split"} /\ x.kinds \in Nat
         /\ \A q \in DOMAIN x.answer :
              x.answer[q] \in [total : Nat, rows : Seq(Documents), pagesTotal : Nat]
         /\ IF x.mode = "single" THEN <<>> \in DOMAIN x.answer
            ELSE \A i \in 1..x.kinds : <<i>> \in DOMAIN x.answer

VARIABLES
    world,    \* the world of this behaviour
    here,     \* the client is still connected
    aborted,  \* the search's AbortSignal
    counted,  \* activeSearches of the owner
    writer,   \* who holds the maintenance write lock
    history,  \* rnpm_searches: id -> total_results
    lastId,   \* the last id of rnpm_searches
    avize,    \* rnpm_avize: the documents stored
    session,  \* of the gcode in hand: "none", "fresh", "open", "expired"
    req,      \* the request at work
    s,        \* executeSearch at work
    worker,   \* its concurrent fetches: row -> "fetch", "lock", "ok", "bad"
    strays,   \* fetches whose Promise.all has rejected already
    resp,     \* the last answer to the client
    spent,    \* captchas solved for this request
    used      \* [requests, expiries, mishaps, others] so far

upstream == <<world, session>>
client == <<here, aborted>>
lock == <<counted, writer>>
store == <<history, lastId, avize>>
searchVars == <<upstream, client, lock, store, req, s, worker, strays, resp, spent, used>>

NoReq == [pc |-> "idle"]
NoSearch == [pc |-> "none"]
NoFetch == [n \in {} |-> "ok"]
Kinds == 1..world.kinds

Active == s.pc # "none"
Other == used.others < MaxOthers /\ used' = [used EXCEPT !.others = @ + 1]
Mishap == used.mishaps < MaxMishaps /\ used' = [used EXCEPT !.mishaps = @ + 1]

SearchInit ==
    /\ world \in Worlds
    /\ here = TRUE /\ aborted = FALSE
    /\ counted = 0 /\ writer = "none"
    /\ history = <<>> /\ lastId = 0 /\ avize = {}
    /\ session = "none" /\ req = NoReq /\ s = NoSearch
    /\ worker = NoFetch /\ strays = {} /\ resp = Null
    /\ spent = 0
    /\ used = [requests |-> 0, expiries |-> 0, mishaps |-> 0, others |-> 0]

-----------------------------------------------------------------------------
(* RNPM. *)

PagesFor(rows) == (rows + PageSize - 1) \div PageSize

\* What a search that stays below the limit counts on: the total and the number
\* of pages do not fall short of what is listed.
ASSUME TotalAssumption ==
    \A x \in Worlds : x.mode = "single" /\ x.answer[<<>>].total <= MaxTotal =>
      LET a == x.answer[<<>>]
      IN  a.total = Len(a.rows) /\ a.pagesTotal >= PagesFor(a.total)

\* Pages that exist: pagesTotal is at times more than the total needs.
Clamped(a) ==
    LET needed == IF a.total = 0 THEN 1 ELSE PagesFor(a.total)
    IN  IF a.pagesTotal < needed THEN a.pagesTotal ELSE needed

\* The rows of the pages from one to before another.
Upto(a, n) == IF n * PageSize < Len(a.rows) THEN n * PageSize ELSE Len(a.rows)
Listed(a, from, next) == SubSeq(a.rows, (from - 1) * PageSize + 1, Upto(a, next - 1))

Page(a, n) == Listed(a, n, n + 1)

Answer == world.answer[s.query]

\* A page is there if the session is open, or has just been opened.
Serves(n, refresh) ==
    \/ session = "open"
    \/ session = "fresh" /\ (n = 1 \/ refresh)

Expire ==
    /\ session \in {"fresh", "open"} /\ used.expiries < MaxExpiries
    /\ session' = "expired"
    /\ used' = [used EXCEPT !.expiries = @ + 1]
    /\ UNCHANGED <<world, client, lock, store, req, s, worker, strays, resp, spent>>

-----------------------------------------------------------------------------
(* executeSearch: the captcha and the first page. *)

\* A search id that is no longer in the file makes it a new search.
NewSearch(query, page, given, sid) ==
    LET known == sid = Null \/ sid \in DOMAIN history
    IN  [pc |-> IF given /\ known THEN "first" ELSE "captcha",
         query |-> query, sid |-> IF known THEN sid ELSE Null,
         page |-> IF known THEN page ELSE 1, start |-> IF known THEN page ELSE 1,
         given |-> given /\ known,
         docs |-> <<>>, ids |-> <<>>, failed |-> [d \in Documents |-> 0],
         again |-> {}, at |-> 0, captchas |-> 0, outcome |-> "none"]

StartSearch(query, page, given, sid) ==
    /\ s' = NewSearch(query, page, given, sid)
    /\ session' = IF s'.given THEN session ELSE "none"

\* endRnpmSearch, and the caller goes on.
EndSearch(outcome) ==
    /\ s' = [s EXCEPT !.pc = "ended", !.outcome = outcome]
    /\ counted' = counted - 1
    /\ worker' = NoFetch

Retries == [captcha |-> "first", captchaFirst |-> "refirst", captchaMore |-> "remore"]

CaptchaSolved ==
    /\ s.pc \in DOMAIN Retries
    /\ s.pc = "captcha" => ~aborted
    /\ s' = [s EXCEPT !.pc = Retries[s.pc], !.captchas = @ + 1]
    /\ session' = "fresh" /\ spent' = spent + 1
    /\ UNCHANGED <<world, client, lock, store, req, worker, strays, resp, used>>

CaptchaFails ==
    /\ s.pc \in DOMAIN Retries /\ Mishap
    /\ EndSearch("error")
    /\ UNCHANGED <<upstream, client, writer, store, req, strays, resp, spent>>

\* processPage: the rows of a page are listed before their details are fetched.
List(rows) ==
    s' = [s EXCEPT !.pc = "batch", !.docs = @ \o rows,
                   !.ids = @ \o [r \in DOMAIN rows |-> Null],
                   !.at = Len(s.docs)]

\* searchWithFreshSession: the first page first, whenever the gcode is new.
AsksAfresh == s.pc \in {"refirst", "remore"} \/ (s.pc = "first" /\ ~s.given)

Searching == s.pc \in {"first", "refirst", "more", "remore"}

FirstAnswers ==
    /\ s.pc \in {"first", "refirst"} /\ Serves(s.page, AsksAfresh)
    /\ session' = "open"
    /\ IF Answer.total > MaxTotal
       THEN EndSearch("limit") /\ UNCHANGED store
       ELSE /\ LET sid == IF s.sid = Null THEN lastId + 1 ELSE s.sid
                   rows == Page(Answer, s.page)
               IN  /\ s' = [s EXCEPT !.pc = "batch", !.sid = sid, !.docs = rows,
                                     !.ids = [r \in DOMAIN rows |-> Null]]
                   /\ IF s.sid = Null
                      THEN /\ history' = history @@ sid :> Answer.total
                           /\ lastId' = sid
                      ELSE UNCHANGED <<history, lastId>>
            /\ UNCHANGED <<counted, worker, avize>>
    /\ UNCHANGED <<world, client, writer, req, strays, resp, spent, used>>

MoreAnswers ==
    /\ s.pc \in {"more", "remore"} /\ Serves(s.page, AsksAfresh)
    /\ session' = "open"
    /\ List(Page(Answer, s.page))
    /\ UNCHANGED <<world, client, lock, store, req, worker, strays, resp, spent, used>>

Recaptcha == [first |-> "captchaFirst", more |-> "captchaMore"]

\* 410: a new captcha, once for each page that is asked for.
SessionExpired ==
    /\ Searching /\ ~Serves(s.page, AsksAfresh) /\ ~aborted
    /\ IF s.pc \in DOMAIN Recaptcha
       THEN s' = [s EXCEPT !.pc = Recaptcha[s.pc]] /\ UNCHANGED <<counted, worker>>
       ELSE EndSearch("expired")
    /\ UNCHANGED <<upstream, client, writer, store, req, strays, resp, spent, used>>

\* Another error; a gcode that was handed in gets the benefit of the doubt.
SearchFails ==
    /\ Searching /\ Mishap
    /\ \/ EndSearch("error")
       \/ /\ s.pc = "first" /\ s.given /\ ~aborted
          /\ s' = [s EXCEPT !.pc = "captchaFirst"] /\ UNCHANGED <<counted, worker>>
    /\ UNCHANGED <<upstream, client, writer, store, req, strays, resp, spent>>

-----------------------------------------------------------------------------
(* executeSearch: details, further pages, the second pass. *)

\* fetchAndPersist of the next few rows at once.
Batch == {n \in DOMAIN s.docs : s.at < n /\ n <= s.at + Concurrency}

FetchBatch ==
    /\ s.pc = "batch" /\ s.at < Len(s.docs) /\ ~aborted
    /\ s' = [s EXCEPT !.pc = "details"]
    /\ worker' = [n \in Batch |-> IF s.docs[n] \in NoUuid THEN "bad" ELSE "fetch"]
    /\ UNCHANGED <<upstream, client, lock, store, req, strays, resp, spent, used>>

DetailArrives(n) ==
    /\ worker[n] = "fetch" /\ ~aborted
    /\ worker' = [worker EXCEPT ![n] = "lock"]
    /\ UNCHANGED <<upstream, client, lock, store, req, s, strays, resp, spent, used>>

DetailFails(n) ==
    /\ worker[n] = "fetch" /\ Mishap
    /\ worker' = [worker EXCEPT ![n] = "bad"]
    /\ UNCHANGED <<upstream, client, lock, store, req, s, strays, resp, spent>>

\* persistAvizWithDetail under the read lock; the foreign key refuses a row
\* of a search that was deleted meanwhile.
SaveDetail(n) ==
    /\ worker[n] = "lock" /\ writer = "none" /\ ~aborted
    /\ IF s.sid \in DOMAIN history
       THEN /\ avize' = avize \cup {s.docs[n]}
            /\ worker' = [worker EXCEPT ![n] = "ok"]
       ELSE /\ worker' = [worker EXCEPT ![n] = "bad"] /\ UNCHANGED avize
    /\ UNCHANGED <<upstream, client, lock, history, lastId, req, s, strays, resp,
                   spent, used>>

With(pc) == {n \in DOMAIN worker : worker[n] = pc}
AllBack == DOMAIN worker = With("ok") \cup With("bad")

WithIds == [n \in DOMAIN s.ids |-> IF n \in With("ok") THEN s.docs[n] ELSE s.ids[n]]
Copies(d, rows) == Cardinality({n \in rows : s.docs[n] = d})

\* detailsFailed, of which only the number of times each one is on it counts.
Collect ==
    /\ s.pc = "details" /\ AllBack
    /\ s' = [s EXCEPT
               !.pc = "batch", !.at = @ + Concurrency, !.ids = WithIds,
               !.failed = [d \in Documents |-> s.failed[d] + Copies(d, With("bad"))],
               !.again = @ \cup {n \in With("bad") : s.docs[n] \notin NoUuid}]
    /\ worker' = NoFetch
    /\ UNCHANGED <<upstream, client, lock, store, req, strays, resp, spent, used>>

PageDone == s.pc = "batch" /\ s.at >= Len(s.docs)
Wanted == IF s.query = <<>> THEN BatchSize ELSE MaxTotal
GoesOn == Len(s.docs) < Wanted /\ s.page + 1 <= Clamped(Answer)

NextPage ==
    /\ PageDone /\ GoesOn /\ ~aborted
    /\ s' = [s EXCEPT !.pc = "storage", !.page = @ + 1]
    /\ UNCHANGED <<upstream, client, lock, store, req, worker, strays, resp, spent, used>>

\* storageLimitCheck measures under the read lock.
StorageOk ==
    /\ s.pc = "storage" /\ writer = "none"
    /\ s' = [s EXCEPT !.pc = "more"]
    /\ UNCHANGED <<upstream, client, lock, store, req, worker, strays, resp, spent, used>>

StorageFull ==
    /\ s.pc = "storage" /\ writer = "none" /\ Mishap
    /\ EndSearch("storage")
    /\ UNCHANGED <<upstream, client, writer, store, req, strays, resp, spent>>

\* One more pass over what has failed, as long as its budget lasts.
BeginRecovery ==
    /\ PageDone /\ ~GoesOn /\ s.again # {} /\ ~aborted
    /\ s' = [s EXCEPT !.pc = "recover", !.page = @ + 1]
    /\ UNCHANGED <<upstream, client, lock, store, req, worker, strays, resp, spent, used>>

NextAgain == {n \in s.again : Cardinality({m \in s.again : m <= n}) <= Concurrency}

FetchAgain ==
    /\ s.pc = "recover" /\ s.again # {} /\ ~aborted
    /\ s' = [s EXCEPT !.pc = "recovering", !.again = @ \ NextAgain]
    /\ worker' = [n \in NextAgain |-> "fetch"]
    /\ UNCHANGED <<upstream, client, lock, store, req, strays, resp, spent, used>>

\* MUTANT: what was recovered stays on the list of failures.
CollectAgainForgetful ==
    /\ s.pc = "recovering" /\ AllBack
    /\ s' = [s EXCEPT !.pc = "recover", !.ids = WithIds]
    /\ worker' = NoFetch
    /\ UNCHANGED <<upstream, client, lock, store, req, strays, resp, spent, used>>

Less(n, m) == IF n > m THEN n - m ELSE 0

CollectAgain ==
    /\ s.pc = "recovering" /\ AllBack
    /\ s' = [s EXCEPT
               !.pc = "recover", !.ids = WithIds,
               !.failed = [d \in Documents |-> Less(s.failed[d], Copies(d, With("ok")))]]
    /\ worker' = NoFetch
    /\ UNCHANGED <<upstream, client, lock, store, req, strays, resp, spent, used>>

SearchReturns ==
    /\ \/ PageDone /\ ~GoesOn /\ (s.again = {} \/ aborted)
       \/ s.pc = "recover" /\ (s.again = {} \/ ~aborted)
    /\ s' = [s EXCEPT !.pc = "ended", !.outcome = "ok",
                      !.page = IF s.pc = "batch" THEN @ + 1 ELSE @]
    /\ counted' = counted - 1
    /\ UNCHANGED <<upstream, client, writer, store, req, worker, strays, resp, spent, used>>

\* Where the signal is looked at, or rejects what is awaited.  Promise.all
\* rejects with its first fetch; the others are left to themselves.
SearchAborts ==
    /\ aborted
    /\ \/ /\ \/ s.pc \in DOMAIN Retries \/ Searching
             \/ s.pc = "batch" /\ (~PageDone \/ GoesOn)
             \/ s.pc = "recover" /\ s.again # {}
          /\ UNCHANGED strays
       \/ \E n \in With("fetch") \cup IF writer = "none" THEN With("lock") ELSE {} :
            strays' = strays \cup
              {[doc |-> s.docs[m], sid |-> s.sid, pc |-> worker[m]] :
                 m \in (With("fetch") \cup With("lock")) \ {n}}
    /\ EndSearch("abort")
    /\ UNCHANGED <<upstream, client, writer, store, req, resp, spent, used>>

\* MUTANT: the signal is not looked at again once the lock is there.
StrayEndsUnchecked(o) ==
    /\ o \in strays /\ strays' = strays \ {o}
    /\ o.pc = "lock" => writer = "none"
    /\ avize' = IF o.pc = "lock" /\ o.sid \in DOMAIN history
                THEN avize \cup {o.doc} ELSE avize
    /\ UNCHANGED <<upstream, client, lock, history, lastId, req, s, worker, resp,
                   spent, used>>

\* A fetch that was left finds its signal aborted, before the lock or behind it.
StrayEnds(o) ==
    /\ o \in strays /\ strays' = strays \ {o}
    /\ o.pc = "lock" => writer = "none"
    /\ UNCHANGED <<upstream, client, lock, store, req, s, worker, resp, spent, used>>

-----------------------------------------------------------------------------
(* The routes: POST /search and POST /search-split. *)

Single == world.mode = "single"

\* A search, or the rows after those of the last answer.
Arrive(more) ==
    /\ req.pc = "idle" /\ used.requests < MaxRequests[world.mode]
    /\ writer # "restore"
    /\ more => Single /\ resp # Null /\ resp.next # Null
    /\ used' = [used EXCEPT !.requests = @ + 1]
    /\ req' = [pc |-> "storage", start |-> IF more THEN resp.next ELSE 1,
               given |-> more, sid |-> IF more THEN resp.sid ELSE Null,
               i |-> 1, j |-> 0, stats |-> <<>>, nested |-> <<>>,
               refusals |-> 0, docs |-> <<>>, held |-> <<>>]
    /\ here' = TRUE /\ aborted' = FALSE /\ resp' = Null
    /\ spent' = 0
    /\ UNCHANGED <<upstream, lock, store, s, worker, strays>>

Leave == req' = NoReq

RouteStorage ==
    /\ req.pc = "storage" /\ writer = "none"
    /\ \/ req' = [req EXCEPT !.pc = "guard"] /\ UNCHANGED used
       \/ Leave /\ Mishap
    /\ UNCHANGED <<upstream, client, lock, store, s, worker, strays, resp, spent>>

\* beginRnpmSearch refuses under a restore.  Only /search looks at a signal
\* that was raised before its listener was there.
Launch ==
    /\ req.pc = "guard"
    /\ IF writer = "restore"
       THEN /\ Leave
            /\ UNCHANGED <<session, aborted, counted, history, lastId, s>>
       ELSE /\ counted' = counted + 1
            /\ IF Single
               THEN /\ aborted' = ~here
                    /\ req' = [req EXCEPT !.pc = "run"]
                    /\ StartSearch(<<>>, req.start, req.given, req.sid)
                    /\ UNCHANGED <<history, lastId>>
               ELSE /\ req' = [req EXCEPT !.pc = "next", !.sid = lastId + 1]
                    /\ lastId' = lastId + 1
                    /\ history' = history @@ (lastId + 1) :> 0
                    /\ UNCHANGED <<session, aborted, s>>
    /\ UNCHANGED <<world, here, writer, avize, worker, strays, resp, spent, used>>

Respond ==
    /\ req.pc = "run" /\ Single /\ s.pc = "ended"
    /\ resp' = IF s.outcome # "ok" THEN Null
               ELSE [docs |-> s.docs, ids |-> s.ids, failed |-> s.failed,
                     start |-> s.start, captchas |-> s.captchas, sid |-> s.sid,
                     next |-> IF s.page <= Clamped(Answer) THEN s.page ELSE Null]
    /\ s' = NoSearch /\ Leave
    /\ UNCHANGED <<upstream, client, lock, store, worker, strays, spent, used>>

-----------------------------------------------------------------------------
(* executeSplitSearch: one kind after the other, all under one history row. *)

\* The history row gets what was obtained, whatever the outcome.
FinishSplit(stats, docs, answered) ==
    /\ history' = IF req.sid \in DOMAIN history
                  THEN [history EXCEPT ![req.sid] = Len(docs)] ELSE history
    /\ counted' = counted - 1
    /\ resp' = IF answered THEN [stats |-> stats, docs |-> docs, next |-> Null] ELSE Null
    /\ s' = NoSearch /\ Leave
    /\ UNCHANGED <<upstream, client, writer, lastId, avize, worker, strays, spent>>

Query == IF req.j = 0 THEN <<req.i>> ELSE <<req.i, req.j>>

SubStorageOk ==
    /\ req.pc = "check" /\ writer = "none"
    /\ req' = [req EXCEPT !.pc = "run"]
    /\ counted' = counted + 1
    /\ StartSearch(Query, 1, FALSE, req.sid)
    /\ UNCHANGED <<world, client, writer, store, worker, strays, resp, spent, used>>

Stat(i, status, count) == [label |-> i, status |-> status, count |-> count]

\* markStorageStopped, and what fail-fast skips.
StoppedFrom(i) == [n \in 1..(Cardinality(Kinds) + 1 - i) |-> Stat(i + n - 1, "error", 0)]

\* A refusal for want of space ends the split with what it has.
StopForStorage ==
    FinishSplit(Append(req.stats, Stat(req.i, "error", 0)) \o StoppedFrom(req.i + 1),
                req.docs, TRUE)

SubStorageFull ==
    /\ req.pc = "check" /\ writer = "none" /\ Mishap
    /\ StopForStorage

SubStopped ==
    /\ req.pc = "run" /\ ~Single /\ s.pc = "ended" /\ s.outcome = "storage"
    /\ StopForStorage /\ UNCHANGED used

Goes(r) ==
    /\ req' = r /\ s' = NoSearch
    /\ UNCHANGED <<upstream, client, lock, store, worker, strays, resp, spent, used>>

NextKind(stat, docs, refusals) ==
    Goes([req EXCEPT !.pc = "next", !.i = @ + 1, !.j = 0, !.stats = Append(@, stat),
                     !.nested = <<>>, !.held = <<>>, !.refusals = refusals,
                     !.docs = @ \o docs])

KindStatus(docs, total) ==
    IF total = 0 THEN "empty" ELSE IF docs = <<>> THEN "blocked" ELSE "ok"

Ended(outcomes) == req.pc = "run" /\ ~Single /\ s.pc = "ended" /\ s.outcome \in outcomes

KindAnswered ==
    /\ Ended({"ok"}) /\ req.j = 0
    /\ LET status == KindStatus(s.docs, Answer.total)
           stat == Stat(req.i, status, Len(s.docs))
           refusals == IF status = "blocked" THEN req.refusals + 1 ELSE 0
       IN  IF refusals >= RefusalLimit
           THEN FinishSplit(Append(req.stats, stat) \o StoppedFrom(req.i + 1), req.docs, TRUE)
                /\ UNCHANGED used
           ELSE NextKind(stat, s.docs, refusals)

KindFailed ==
    /\ Ended({"error", "expired"}) /\ req.j = 0
    /\ NextKind(Stat(req.i, "error", 0), <<>>, req.refusals)

\* Too many of a kind: its destinations, if its category has them.
KindTooLarge ==
    /\ Ended({"limit"}) /\ req.j = 0
    /\ IF <<req.i, 1>> \in DOMAIN world.answer
       THEN Goes([req EXCEPT !.pc = "next", !.j = 1, !.refusals = 0])
       ELSE NextKind(Stat(req.i, "blocked", 0), <<>>, 0)

PlaceStatus ==
    IF s.outcome = "ok" THEN KindStatus(s.docs, Answer.total)
    ELSE IF s.outcome = "limit" THEN "blocked" ELSE "error"

\* What RNPM has said is there, as far as it has answered.
Told(status) == IF status \in {"error", "empty"} THEN 0 ELSE Answer.total

PlaceEnds ==
    /\ Ended({"ok", "limit", "error", "expired"}) /\ req.j > 0
    /\ LET docs == IF s.outcome = "ok" THEN s.docs ELSE <<>>
           nested == Append(req.nested, [status |-> PlaceStatus, told |-> Told(PlaceStatus)])
           held == req.held \o docs
           told == SumFunction([n \in DOMAIN nested |-> nested[n].told])
           whole == told >= world.answer[<<req.i>>].total /\ held # <<>>
       IN  IF <<req.i, req.j + 1>> \in DOMAIN world.answer
           THEN Goes([req EXCEPT !.pc = "next", !.j = @ + 1, !.nested = nested, !.held = held])
           ELSE NextKind(Stat(req.i, IF whole THEN "recovered" ELSE "partial", Len(held)),
                         held, 0)

SplitGoesOn ==
    /\ req.pc = "next" /\ req.i \in Kinds /\ ~aborted
    /\ Goes([req EXCEPT !.pc = "check"])

SplitReturns ==
    /\ req.pc = "next" /\ req.i \notin Kinds
    /\ FinishSplit(req.stats, req.docs, TRUE) /\ UNCHANGED used

SplitAborts ==
    /\ \/ req.pc = "next" /\ req.i \in Kinds /\ aborted
       \/ Ended({"abort"})
    /\ FinishSplit(req.stats, req.docs, FALSE) /\ UNCHANGED used

-----------------------------------------------------------------------------
(* The world around. *)

\* The signal is raised once its listener is there.
ClientLeaves ==
    /\ here /\ req.pc # "idle"
    /\ here' = FALSE /\ aborted' = (aborted \/ req.pc \in {"run", "next", "check"})
    /\ UNCHANGED <<upstream, lock, store, req, s, worker, strays, resp, spent, used>>

\* The time limit of the stream.
Timeout ==
    /\ req.pc \in {"run", "next", "check"} /\ ~aborted
    /\ aborted' = TRUE
    /\ UNCHANGED <<upstream, here, lock, store, req, s, worker, strays, resp, spent, used>>

\* A backup, or a restore unless a search is counted.
WriterBegins(kind) ==
    /\ writer = "none" /\ (kind = "restore" => counted = 0) /\ Other
    /\ writer' = kind
    /\ UNCHANGED <<upstream, client, counted, store, req, s, worker, strays, resp,
                   spent>>

\* The restored file is that of a user who has not searched yet.
WriterEnds ==
    /\ writer # "none" /\ writer' = "none"
    /\ IF writer = "restore" THEN history' = <<>> /\ lastId' = 0 /\ avize' = {}
       ELSE UNCHANGED store
    /\ UNCHANGED <<upstream, client, counted, req, s, worker, strays, resp, spent, used>>

\* DELETE /searches/:id; the rows stay.
DeleteHistory(id) ==
    /\ id \in DOMAIN history /\ Other
    /\ history' = [n \in DOMAIN history \ {id} |-> history[n]]
    /\ UNCHANGED <<upstream, client, lock, lastId, avize, req, s, worker, strays, resp,
                   spent>>

Search ==
    \/ CaptchaSolved \/ CaptchaFails \/ FirstAnswers \/ MoreAnswers
    \/ SessionExpired \/ SearchFails \/ FetchBatch
    \/ \E n \in DOMAIN worker : DetailArrives(n) \/ DetailFails(n) \/ SaveDetail(n)
    \/ Collect \/ NextPage \/ StorageOk \/ StorageFull
    \/ BeginRecovery \/ FetchAgain \/ CollectAgain \/ SearchReturns \/ SearchAborts

Split ==
    \/ SplitGoesOn \/ SubStorageOk \/ SubStorageFull \/ SubStopped
    \/ KindAnswered \/ KindFailed \/ KindTooLarge \/ PlaceEnds
    \/ SplitReturns \/ SplitAborts

Work ==
    \/ RouteStorage \/ Launch \/ Search \/ Split \/ Respond
    \/ \E o \in strays : StrayEnds(o)

SearchNext ==
    \/ \E more \in BOOLEAN : Arrive(more)
    \/ Work
    \/ ClientLeaves \/ Timeout \/ Expire
    \/ \E kind \in {"backup", "restore"} : WriterBegins(kind)
    \/ WriterEnds \/ \E id \in DOMAIN history : DeleteHistory(id)

SearchSpec == SearchInit /\ [][SearchNext]_searchVars

-----------------------------------------------------------------------------
(* Properties. *)

SearchTypeOK ==
    /\ world \in Worlds
    /\ here \in BOOLEAN /\ aborted \in BOOLEAN
    /\ counted \in 0..2 /\ writer \in {"none", "backup", "restore"}
    /\ DOMAIN history \subseteq 1..lastId
    /\ session \in {"none", "fresh", "open", "expired"}
    /\ req.pc \in {"idle", "storage", "guard", "run", "next", "check"}
    /\ s.pc \in {"none", "captcha", "captchaFirst", "captchaMore", "first", "refirst",
                 "more", "remore", "batch", "details", "storage", "recover",
                 "recovering", "ended"}
    /\ Active => Len(s.ids) = Len(s.docs) /\ s.again \subseteq DOMAIN s.docs
    /\ worker \in [DOMAIN worker -> {"fetch", "lock", "ok", "bad"}]

SingleIsExact ==
    resp # Null /\ Single =>
      LET a == world.answer[<<>>]
          last == PagesFor(Len(a.rows))
          missing == {n \in DOMAIN resp.ids : resp.ids[n] = Null}
      IN  /\ resp.docs = Listed(a, resp.start, IF resp.next = Null THEN last + 1 ELSE resp.next)
          /\ resp.next # Null => resp.next <= last
          /\ \A n \in DOMAIN resp.ids : resp.ids[n] \in {resp.docs[n], Null}
          /\ resp.failed =
               [d \in Documents |-> Cardinality({n \in missing : resp.docs[n] = d})]
          /\ resp.captchas = spent

SplitIsExact ==
    resp # Null /\ ~Single =>
      /\ [n \in DOMAIN resp.stats |-> resp.stats[n].label] =
           [n \in 1..Cardinality(Kinds) |-> n]
      /\ Len(resp.docs) = SumFunction([n \in DOMAIN resp.stats |-> resp.stats[n].count])

\* The answer to a search is what RNPM has listed from the page it began at to
\* the next one, in order, through expired sessions and page by page; each row
\* has the id of its own stored document or is among the failed ones, after the
\* second pass too; the captchas it reports are those that were solved; and
\* there is a next page exactly when RNPM has rows left.  A split tells of each
\* kind once and in order, whatever was refused, skipped or stopped, and gives
\* as many rows as it has counted (rnpmSearchService.ts:379-524, 842-1099).
AnswerIsExact == SingleIsExact /\ SplitIsExact

\* Rows are stored only while a search of the owner is counted: a fetch that
\* its search has left behind does not write, so that a restore or compaction,
\* which looks at the count alone, meets no writer (rnpmSearchService.ts:348-376).
SavedWhileCounted == [][avize' # avize => counted > 0 \/ writer # "none"]_searchVars
=============================================================================
