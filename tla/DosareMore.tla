----------------------------- MODULE DosareMore -----------------------------
(***************************************************************************)
(* "Load more", POST /dosare/load-more: all files of a range of dates that *)
(* the client does not have, although PortalJust gives no more than Limit  *)
(* of them in one answer.  Court after court, the range is cut into the    *)
(* months it meets (intervals.ts), the months are asked for a few at a     *)
(* time, and a month whose answer is full is halved and asked for again    *)
(* (services/batch-dosare.ts).  What is found streams to the client        *)
(* (routes/dosare.ts:243-395).  A file is told apart by its number alone.  *)
(*                                                                         *)
(* The calls of a chunk are answered in any order; the code asks for the   *)
(* halves of one month in turn, which is one of these orders.              *)
(***************************************************************************)
EXTENDS Naturals, Sequences, FiniteSets, FiniteSetsExt

CONSTANTS
    MonthEnds, \* the last day of each month: <<31, 59, ...>>
    Files,     \* what may be in the registry: [court, day, numar]
    NChosen,   \* courts the request names
    Limit,     \* SOAP_RESULT_LIMIT
    MaxSplits, \* MAX_SPLIT_DEPTH
    Parallel   \* PARALLEL_BATCH_SIZE

Days == 1..MonthEnds[Len(MonthEnds)]
Numbers == {f.numar : f \in Files}

ASSUME MoreAssumption ==
    /\ MonthEnds \in Seq(Nat) /\ MonthEnds # <<>>
    /\ \A m \in 1..(Len(MonthEnds) - 1) : MonthEnds[m] < MonthEnds[m + 1]
    /\ IsFiniteSet(Files)
    /\ \A f \in Files : f.court \in 1..NChosen /\ f.day \in Days
    /\ {NChosen, Limit, Parallel} \subseteq Nat \ {0} /\ MaxSplits \in Nat

VARIABLES
    registry, \* the files there are
    range,    \* the first and the last day asked for
    existing, \* existingNumere: what the client had, and has been sent since
    had,      \* ghost: what it had
    court,    \* the court whose turn it is
    done,     \* months of it whose answers have been streamed
    pending,  \* calls of the chunk without an answer: [from, to, splits]
    found,    \* numbers the calls of the chunk have brought
    fresh,    \* allDosare of the court
    sent,     \* [Numbers -> times it was streamed]
    total,    \* totalNew
    warned,   \* there is a warning
    stopped,  \* "no", "client", "timeout"
    end       \* the last event: "none", "done", "error", "silence"

moreVars == <<registry, range, existing, had, court, done, pending, found, fresh,
              sent, total, warned, stopped, end>>

MoreInit ==
    /\ registry \in SUBSET Files /\ range \in {d \in Days \X Days : d[1] <= d[2]}
    /\ had \in SUBSET Numbers /\ existing = had
    /\ court = 1 /\ done = 0 /\ pending = {} /\ found = {} /\ fresh = {}
    /\ sent = [n \in Numbers |-> 0] /\ total = 0 /\ warned = FALSE
    /\ stopped = "no" /\ end = "none"

Least(a, b) == IF a <= b THEN a ELSE b
First(m) == IF m = 1 THEN 1 ELSE MonthEnds[m - 1] + 1
MonthsOf(d) == {m \in DOMAIN MonthEnds : First(m) <= d[2] /\ MonthEnds[m] >= d[1]}

NthMonth(d, n) == CHOOSE m \in MonthsOf(d) : Cardinality({k \in MonthsOf(d) : k <= m}) = n

\* generateMonthlyIntervals: the nth month the range meets, cut at its ends.
Interval(d, n) ==
    LET m == NthMonth(d, n)
    IN  [from |-> IF First(m) < d[1] THEN d[1] ELSE First(m),
         to |-> Least(MonthEnds[m], d[2]), splits |-> 0]

NIntervals == Cardinality(MonthsOf(range))

\* MUTANT: the second half begins a day late.
HalvesApart(c) ==
    LET mid == c.from + (c.to - c.from) \div 2
    IN  {[from |-> c.from, to |-> mid, splits |-> c.splits + 1],
         [from |-> mid + 2, to |-> c.to, splits |-> c.splits + 1]}

\* splitInterval: the middle is rounded down to its day.
Halves(c) ==
    LET mid == c.from + (c.to - c.from) \div 2
    IN  {[from |-> c.from, to |-> mid, splits |-> c.splits + 1],
         [from |-> mid + 1, to |-> c.to, splits |-> c.splits + 1]}

InRegistry(c) == {f \in registry : f.court = court /\ f.day \in c.from..c.to}
NumbersOf(files) == {f.numar : f \in files}
StreamOpen == end = "none"

-----------------------------------------------------------------------------
\* The next chunk of months.
NextChunk ==
    /\ StreamOpen /\ court <= NChosen /\ pending = {} /\ found = {}
    /\ done < NIntervals /\ stopped = "no"
    /\ pending' = {Interval(range, n) : n \in (done + 1)..Least(done + Parallel, NIntervals)}
    /\ done' = Least(done + Parallel, NIntervals)
    /\ UNCHANGED <<registry, range, existing, had, court, found, fresh, sent,
                   total, warned, stopped, end>>

Brought(c, more, numbers) ==
    /\ pending' = (pending \ {c}) \cup more /\ found' = found \cup numbers
    /\ UNCHANGED <<registry, range, existing, had, court, done, fresh, sent,
                   total, stopped, end>>

CallAnswers(c) ==
    /\ StreamOpen /\ Cardinality(InRegistry(c)) < Limit
    /\ Brought(c, {}, NumbersOf(InRegistry(c))) /\ UNCHANGED warned

\* A full answer is dropped for those of the halves; at the last depth the same
\* interval is asked for once more.
CallIsFull(c) ==
    /\ StreamOpen /\ Cardinality(InRegistry(c)) >= Limit /\ c.splits <= MaxSplits
    /\ Brought(c, IF c.splits < MaxSplits THEN Halves(c)
                   ELSE {[c EXCEPT !.splits = @ + 1]}, {})
    /\ UNCHANGED warned

\* What comes then is kept, with a warning.
CallIsCut(c) ==
    /\ StreamOpen /\ Cardinality(InRegistry(c)) >= Limit /\ c.splits > MaxSplits
    /\ \E part \in kSubset(Limit, InRegistry(c)) : Brought(c, {}, NumbersOf(part))
    /\ warned' = TRUE

\* A fault, or a timeout; so do the calls that are under way when the stream
\* is stopped.
CallFails(c) ==
    /\ StreamOpen /\ Brought(c, {}, {}) /\ warned' = TRUE

\* The chunk is over: its files are sent, and known from then on.
SendFound ==
    /\ StreamOpen /\ pending = {} /\ found # {}
    /\ LET new == (found \ existing) \ fresh
       IN  /\ fresh' = fresh \cup (found \ existing)
           /\ sent' = [n \in Numbers |-> IF n \in new THEN sent[n] + 1 ELSE sent[n]]
           /\ existing' = existing \cup new
    /\ found' = {}
    /\ UNCHANGED <<registry, range, had, court, done, pending, total, warned, stopped, end>>

NextCourt ==
    /\ StreamOpen /\ court <= NChosen /\ pending = {} /\ found = {}
    /\ done = NIntervals \/ stopped # "no"
    /\ court' = IF stopped = "no" THEN court + 1 ELSE NChosen + 1
    /\ total' = total + Cardinality(fresh) /\ fresh' = {} /\ done' = 0
    /\ UNCHANGED <<registry, range, existing, had, pending, found, sent, warned,
                   stopped, end>>

\* The client leaves, or SSE_TIMEOUT_MS has passed.
StopStream(why) ==
    /\ StreamOpen /\ stopped = "no" /\ stopped' = why
    /\ UNCHANGED <<registry, range, existing, had, court, done, pending, found,
                   fresh, sent, total, warned, end>>

EndEvent ==
    /\ StreamOpen /\ court > NChosen
    /\ end' = CASE stopped = "timeout" -> "error"
                [] stopped = "client" -> "silence"
                [] OTHER -> "done"
    /\ UNCHANGED <<registry, range, existing, had, court, done, pending, found,
                   fresh, sent, total, warned, stopped>>

MoreNext ==
    \/ NextChunk \/ SendFound \/ NextCourt \/ EndEvent
    \/ \E c \in pending : CallAnswers(c) \/ CallIsFull(c) \/ CallIsCut(c) \/ CallFails(c)
    \/ \E why \in {"client", "timeout"} : StopStream(why)

MoreSpec == MoreInit /\ [][MoreNext]_moreVars
-----------------------------------------------------------------------------
MoreTypeOK ==
    /\ registry \subseteq Files /\ range \in Days \X Days
    /\ had \subseteq existing /\ existing \cup found \cup fresh \subseteq Numbers
    /\ court \in 1..(NChosen + 1) /\ done \in 0..Len(MonthEnds)
    /\ \A c \in pending : c.from \in Nat /\ c.to \in Nat /\ c.splits \in 0..(MaxSplits + 1)
    /\ sent \in [Numbers -> Nat] /\ total \in Nat /\ warned \in BOOLEAN
    /\ stopped \in {"no", "client", "timeout"}
    /\ end \in {"none", "done", "error", "silence"}

Wanted == {f.numar : f \in {g \in registry : g.day \in range[1]..range[2]}}

\* A stream that says it is done and warns of nothing has sent each number of
\* the range that the client did not have, however full the answers were and
\* wherever the range was cut; with warnings too, it has sent none twice and
\* counts those it has sent (batch-dosare.ts:44-160, routes/dosare.ts:330-372).
DoneTellsAll ==
    end = "done" =>
      /\ ~warned => Wanted \subseteq had \cup {n \in Numbers : sent[n] > 0}
      /\ \A n \in Numbers : sent[n] <= (IF n \in had THEN 0 ELSE 1)
      /\ total = Cardinality({n \in Numbers : sent[n] > 0})
=============================================================================
