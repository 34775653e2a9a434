---------------------------- MODULE AiQuotaProofs ----------------------------
(***************************************************************************)
(* The usage table shows what the calls have cost, for every set of        *)
(* requests, prices, limits and write failures.                            *)
(***************************************************************************)
EXTENDS AiQuota, TLAPS, SequenceTheorems, FiniteSums

\* What the n-th deferred write will still record of r.
Due(m, n, r) ==
    IF n \in 1..Len(m) /\ m[n].k = "record" /\ m[n].req = r THEN m[n].cost ELSE 0

\* What the deferred writes will still record of r: one stretch leaves at most
\* two of them.
Owed(m, r) == Due(m, 1, r) + Due(m, 2, r)

\* A reservation that is not confirmed holds no cost.
Unpaid == \A r \in Requests : row[r].status # "confirmed" => row[r].cost = 0

\* What each stage of a request has established.
Stages ==
    \A r \in Requests :
      /\ pc[r] \in {"new", "guarded"} => r \notin reserved /\ row[r].status = "none"
      /\ pc[r] = "calling" => /\ kind[r] = "single" /\ r \notin old
                              /\ r \in reserved => Pending(r)
      /\ pc[r] \in {"analysing", "judging", "closing"} => kind[r] = "multi"
      /\ pc[r] = "analysing" => left[r] \in {1, 2}

\* The write that settles a reservation comes from a request that has ended; a
\* single call's record is the first write, and finds its row pending.
Settling ==
    \A n \in 1..Len(micro) :
      /\ micro[n].k = "release" \/ kind[micro[n].req] = "single"
           => pc[micro[n].req] = "ended"
      /\ /\ micro[n].k = "record" /\ kind[micro[n].req] = "single"
         /\ micro[n].req \in reserved
         => n = 1 /\ Pending(micro[n].req)

\* The table and the deferred writes together show what was spent.
Balance ==
    \A r \in Requests \ unseen :
      row[r].cost + inserted[r] + Owed(micro, r) = spent[r]

QuotaInv ==
    TypeOK /\ Len(micro) \in 0..2 /\ Unpaid /\ Stages /\ Settling /\ Balance

-----------------------------------------------------------------------------
\* A record and a release are writes, and are told apart by k.
LEMMA WriteFacts ==
  ASSUME NEW q \in Requests, NEW c \in Costs
  PROVE  /\ Record(q, c) \in Writes
         /\ Record(q, c).k = "record"
         /\ Record(q, c).req = q
         /\ Record(q, c).cost = c
BY DEF Record, Writes

\* What a deferred write holds.
LEMMA FieldFacts ==
  ASSUME NEW w \in Writes
  PROVE  /\ w.k \in {"record", "release"} /\ w.req \in Requests
         /\ w.k = "record" => w.cost \in Nat /\ w.cost \in Costs
BY QuotaAssumption DEF Writes

\* What is owed is a number, and nothing is owed by an empty queue.
LEMMA OwedFacts ==
  ASSUME NEW m \in Seq(Writes), NEW r \in Requests
  PROVE  /\ Owed(m, r) \in Nat
         /\ m = <<>> => Owed(m, r) = 0
<1>1. \A n \in 1..Len(m) : m[n] \in Writes
  OBVIOUS
<1>2. \A n \in {1, 2} : Due(m, n, r) \in Nat
  BY <1>1, FieldFacts DEF Due
<1>3. m = <<>> => \A n \in {1, 2} : Due(m, n, r) = 0
  BY DEF Due
<1> QED BY <1>2, <1>3 DEF Owed

\* What is owed by a record alone or followed by a release, by two records, and
\* by no record.
LEMMA OwedByOne ==
  ASSUME NEW m \in Seq(Writes), Len(m) \in 1..2, m[1].k = "record",
         \A n \in 2..Len(m) : m[n].k = "release", NEW r \in Requests
  PROVE  Owed(m, r) = IF r = m[1].req THEN m[1].cost ELSE 0
<1>1. m[1] \in Writes
  OBVIOUS
<1>2. m[1].cost \in Nat
  BY <1>1, FieldFacts
<1>3. Due(m, 1, r) = IF r = m[1].req THEN m[1].cost ELSE 0
  BY DEF Due
<1>4. Due(m, 2, r) = 0
  BY DEF Due
<1> QED BY <1>2, <1>3, <1>4 DEF Owed

LEMMA OwedByTwo ==
  ASSUME NEW m \in Seq(Writes), Len(m) = 2, NEW q \in Requests,
         m[1].k = "record", m[1].req = q, m[2].k = "record", m[2].req = q,
         NEW r \in Requests
  PROVE  Owed(m, r) = IF r = q THEN m[1].cost + m[2].cost ELSE 0
<1>1. \A n \in {1, 2} : m[n] \in Writes
  <2>1. \A n \in 1..Len(m) : m[n] \in Writes
    BY ElementOfSeq
  <2> QED BY <2>1
<1>2. \A n \in {1, 2} : m[n].cost \in Nat
  BY <1>1, FieldFacts
<1>3. Due(m, 1, r) = IF r = q THEN m[1].cost ELSE 0
  BY DEF Due
<1>4. Due(m, 2, r) = IF r = q THEN m[2].cost ELSE 0
  BY DEF Due
<1> QED BY <1>2, <1>3, <1>4 DEF Owed

LEMMA OwedByNone ==
  ASSUME NEW m \in Seq(Writes), \A n \in 1..Len(m) : m[n].k = "release",
         NEW r \in Requests
  PROVE  Owed(m, r) = 0
<1>1. \A n \in {1, 2} : Due(m, n, r) = 0
  BY DEF Due
<1> QED BY <1>1 DEF Owed

\* The queues the stretches leave.
LEMMA OneRecord ==
  ASSUME NEW q \in Requests, NEW c \in Costs, NEW m, m = <<Record(q, c)>>
  PROVE  m \in Seq(Writes) /\ Len(m) = 1 /\ m[1] = Record(q, c)
<1>1. Record(q, c) \in Writes
  BY WriteFacts
<1> QED BY <1>1

LEMMA TwoRecords ==
  ASSUME NEW q \in Requests, NEW c \in Costs, NEW d \in Costs, NEW m,
         m = <<Record(q, c), Record(q, d)>>
  PROVE  /\ m \in Seq(Writes) /\ Len(m) = 2
         /\ m[1] = Record(q, c) /\ m[2] = Record(q, d)
<1>1. Record(q, c) \in Writes /\ Record(q, d) \in Writes
  BY WriteFacts
<1> QED BY <1>1

LEMMA OneRelease ==
  ASSUME NEW q \in Requests, NEW m, m = Release(q)
  PROVE  /\ m \in Seq(Writes) /\ Len(m) \in 0..1
         /\ \A n \in 1..Len(m) : m[n].k = "release" /\ m[n].req = q
<1> DEFINE w == [k |-> "release", req |-> q]
<1>1. w \in Writes /\ w.k = "release" /\ w.req = q
  BY DEF Writes
<1>2. Release(q) = <<>> \/ Release(q) = <<w>>
  BY DEF Release
<1> HIDE DEF w
<1>3. CASE Release(q) = <<>>
  BY <1>3
<1>4. CASE Release(q) = <<w>>
  <2>1. m \in Seq(Writes) /\ Len(m) = 1 /\ m[1] = w
    BY <1>1, <1>4
  <2> QED BY <1>1, <2>1
<1> QED BY <1>2, <1>3, <1>4

\* Sequences of one element, put together.
LEMMA Pairing ==
  ASSUME NEW S, NEW a \in S, NEW b \in S
  PROVE  /\ <<a>> \o <<>> = <<a>>
         /\ <<a>> \o <<b>> \in Seq(S) /\ Len(<<a>> \o <<b>>) = 2
         /\ (<<a>> \o <<b>>)[1] = a /\ (<<a>> \o <<b>>)[2] = b
<1>1. <<a>> \in Seq(S) /\ <<b>> \in Seq(S) /\ Len(<<a>>) = 1 /\ Len(<<b>>) = 1
  OBVIOUS
<1>2. <<a>> \o <<>> = <<a>>
  BY <1>1, ConcatEmptySeq
<1>3. <<a>> \o <<b>> \in Seq(S) /\ Len(<<a>> \o <<b>>) = 2
  BY <1>1, ConcatProperties
<1>4. (<<a>> \o <<b>>)[1] = <<a>>[1] /\ (<<a>> \o <<b>>)[2] = <<b>>[1]
  BY <1>1, <1>3, ConcatProperties
<1> QED BY <1>2, <1>3, <1>4

\* A record and the release that may follow it.
RecordFirst(m, q, c) ==
    /\ m \in Seq(Writes) /\ Len(m) \in 1..2
    /\ m[1] = Record(q, c)
    /\ \A n \in 2..Len(m) : m[n].k = "release" /\ m[n].req = q

LEMMA RecordThenRelease ==
  ASSUME NEW q \in Requests, NEW c \in Costs, NEW m,
         m = <<Record(q, c)>> \o Release(q)
  PROVE  RecordFirst(m, q, c)
<1> USE DEF RecordFirst
<1> DEFINE w == [k |-> "release", req |-> q]
<1>1. w \in Writes /\ w.k = "release" /\ w.req = q
  BY DEF Writes
<1>2. Record(q, c) \in Writes
  BY WriteFacts
<1>3. Release(q) = <<>> \/ Release(q) = <<w>>
  BY DEF Release
<1> HIDE DEF w
<1>4. CASE Release(q) = <<>>
  <2>1. m = <<Record(q, c)>>
    BY <1>2, <1>4, Pairing
  <2>2. m \in Seq(Writes) /\ Len(m) = 1 /\ m[1] = Record(q, c)
    BY <2>1, OneRecord
  <2> QED BY <2>2
<1>5. CASE Release(q) = <<w>>
  <2>1. m \in Seq(Writes) /\ Len(m) = 2 /\ m[1] = Record(q, c) /\ m[2] = w
    BY <1>1, <1>2, <1>5, Pairing
  <2> QED BY <1>1, <2>1
<1> QED BY <1>3, <1>4, <1>5

\* What is left when the first of at most two writes is done.
LEMMA TailFacts ==
  ASSUME NEW m \in Seq(Writes), m # <<>>, Len(m) \in 0..2
  PROVE  /\ Tail(m) \in Seq(Writes) /\ Len(Tail(m)) = Len(m) - 1
         /\ Head(m) = m[1] /\ m[1] \in Writes /\ 1 \in 1..Len(m)
         /\ \A n \in 1..Len(Tail(m)) : n = 1 /\ Tail(m)[n] = m[2] /\ 2 \in 1..Len(m)
         /\ \A r \in Requests : Owed(m, r) = Due(m, 1, r) + Owed(Tail(m), r)
<1>1. Tail(m) \in Seq(Writes) /\ Len(Tail(m)) = Len(m) - 1 /\ Len(m) \in {1, 2}
  BY HeadTailProperties
<1>2. Head(m) = m[1] /\ m[1] \in Writes /\ 1 \in 1..Len(m)
  BY <1>1
<1>3. \A n \in 1..Len(Tail(m)) : n = 1 /\ Tail(m)[n] = m[2] /\ 2 \in 1..Len(m)
  BY <1>1
<1>4. \A r \in Requests : Due(Tail(m), 1, r) = Due(m, 2, r) /\ Due(Tail(m), 2, r) = 0
  BY <1>1, <1>3 DEF Due
<1>5. \A r \in Requests : \A n \in {1, 2} : Due(m, n, r) \in Nat
  BY FieldFacts DEF Due
<1> QED BY <1>1, <1>2, <1>3, <1>4, <1>5 DEF Owed

-----------------------------------------------------------------------------
\* The steps.

LEMMA GuardKeepsInv ==
  ASSUME QuotaInv, NEW r \in Requests, Guard(r)
  PROVE  QuotaInv'
<1> USE QuotaAssumption DEF QuotaInv
<1>10. TypeOK'
  BY DEF Guard, Goto, TypeOK, Pending, NoRow, table, ghosts, Idle
<1>11. Len(micro') \in 0..2
  BY DEF Guard, Goto, TypeOK, Pending, NoRow, table, ghosts, Idle
<1>12. Unpaid'
  BY DEF Guard, Goto, TypeOK, Pending, NoRow, table, ghosts, Idle, Unpaid
<1>13. Stages'
  BY DEF Guard, Goto, TypeOK, Pending, NoRow, table, ghosts, Idle, Stages, Unpaid, AtWork
<1>14. Settling'
  BY DEF Guard, Goto, TypeOK, Pending, NoRow, table, ghosts, Idle, Settling, Stages
<1>15. Balance'
  BY DEF Guard, Goto, TypeOK, Pending, NoRow, table, ghosts, Idle, Balance
<1> QED BY <1>10, <1>11, <1>12, <1>13, <1>14, <1>15

LEMMA RefuseKeepsInv ==
  ASSUME QuotaInv, NEW r \in Requests, Refuse(r)
  PROVE  QuotaInv'
<1> USE QuotaAssumption DEF QuotaInv
<1>10. TypeOK'
  BY DEF Refuse, Goto, TypeOK, Pending, NoRow, table, ghosts, Idle
<1>11. Len(micro') \in 0..2
  BY DEF Refuse, Goto, TypeOK, Pending, NoRow, table, ghosts, Idle
<1>12. Unpaid'
  BY DEF Refuse, Goto, TypeOK, Pending, NoRow, table, ghosts, Idle, Unpaid
<1>13. Stages'
  BY DEF Refuse, Goto, TypeOK, Pending, NoRow, table, ghosts, Idle, Stages, Unpaid, AtWork
<1>14. Settling'
  BY DEF Refuse, Goto, TypeOK, Pending, NoRow, table, ghosts, Idle, Settling, Stages
<1>15. Balance'
  BY DEF Refuse, Goto, TypeOK, Pending, NoRow, table, ghosts, Idle, Balance
<1> QED BY <1>10, <1>11, <1>12, <1>13, <1>14, <1>15

LEMMA ReserveKeepsInv ==
  ASSUME QuotaInv, NEW r \in Requests, Reserve(r)
  PROVE  QuotaInv'
<1> USE QuotaAssumption DEF QuotaInv
<1>1. micro = <<>> /\ micro' = micro /\ r \notin reserved /\ row[r].status = "none"
      /\ r \notin old /\ pc[r] = "guarded"
  BY DEF Reserve, TypeOK, Idle, Stages, Pending
<1>2. /\ \A x \in Requests : row'[x].cost = row[x].cost
      /\ \A x \in Requests \ {r} : row'[x] = row[x] /\ pc'[x] = pc[x] /\ left'[x] = left[x]
  <2>1. row' = row \/ row' = [row EXCEPT ![r].status = "pending"]
    BY DEF Reserve
  <2>2. \A x \in Requests : row'[x].cost = row[x].cost
    <3>1. row[r] \in [status : {"none", "pending", "confirmed"}, cost : Costs]
      BY DEF TypeOK
    <3>2. [row[r] EXCEPT !.status = "pending"].cost = row[r].cost
      BY <3>1
    <3> QED BY <2>1, <3>2 DEF TypeOK
  <2>3. \A x \in Requests \ {r} : row'[x] = row[x]
    BY <2>1 DEF TypeOK
  <2>4. \A x \in Requests \ {r} : pc'[x] = pc[x] /\ left'[x] = left[x]
    BY DEF Reserve, Goto, TypeOK
  <2> QED BY <2>2, <2>3, <2>4
<1>3. /\ kind' = kind /\ old' = old
      /\ \/ /\ pc'[r] = "ended" /\ reserved' = reserved /\ row' = row /\ left' = left
         \/ /\ pc'[r] = IF kind[r] = "single" THEN "calling" ELSE "analysing"
            /\ left'[r] = IF kind[r] = "single" THEN 0 ELSE 2
            /\ \/ reserved' = reserved /\ row' = row
               \/ reserved' = reserved \cup {r} /\ row'[r].status = "pending"
  <2>1. kind' = kind /\ old' = old
    BY DEF Reserve
  <2>2. CASE OverBudget(r)
    BY <2>1, <2>2 DEF Reserve, Goto, TypeOK
  <2>3. CASE ~OverBudget(r)
    <3>1. pc'[r] = IF kind[r] = "single" THEN "calling" ELSE "analysing"
      BY <2>3 DEF Reserve, Goto, TypeOK
    <3>2. left'[r] = IF kind[r] = "single" THEN 0 ELSE 2
      BY <2>3 DEF Reserve, TypeOK
    <3>3. CASE limit = NoLimit
      BY <2>1, <2>3, <3>1, <3>2, <3>3 DEF Reserve
    <3>4. CASE limit # NoLimit
      <4>1. reserved' = reserved \cup {r} /\ row' = [row EXCEPT ![r].status = "pending"]
        BY <2>3, <3>4 DEF Reserve
      <4>2. row'[r].status = "pending"
        BY <4>1 DEF TypeOK
      <4> QED BY <2>1, <3>1, <3>2, <4>1, <4>2
    <3> QED BY <3>3, <3>4
  <2> QED BY <2>2, <2>3
<1>10. TypeOK'
  <2>1. pc' \in [Requests -> {"new", "guarded", "calling", "analysing",
                             "judging", "closing", "ended", "lost"}]
    BY DEF Reserve, Goto, TypeOK
  <2>2. left' \in [Requests -> 0..2] /\ reserved' \subseteq Requests
    <3>1. \/ left' = left /\ reserved' = reserved
          \/ left' = [left EXCEPT ![r] = 0] /\ reserved' \in {reserved, reserved \cup {r}}
          \/ left' = [left EXCEPT ![r] = 2] /\ reserved' \in {reserved, reserved \cup {r}}
      BY DEF Reserve
    <3>2. left \in [Requests -> 0..2] /\ reserved \subseteq Requests
      BY DEF TypeOK
    <3>3. left' \in [Requests -> 0..2]
      BY <3>1, <3>2
    <3>4. reserved' \subseteq Requests
      BY <3>1, <3>2
    <3> QED BY <3>3, <3>4
  <2>3. row' \in [Requests -> [status : {"none", "pending", "confirmed"}, cost : Costs]]
    <3>1. row' = row \/ row' = [row EXCEPT ![r].status = "pending"]
      BY DEF Reserve
    <3>2. row[r] \in [status : {"none", "pending", "confirmed"}, cost : Costs]
      BY DEF TypeOK
    <3>3. [row[r] EXCEPT !.status = "pending"]
            \in [status : {"none", "pending", "confirmed"}, cost : Costs]
      BY <3>2
    <3> QED BY <3>1, <3>3 DEF TypeOK
  <2>4. old' \subseteq {x \in Requests : Pending(x)'}
    BY <1>1, <1>2, <1>3 DEF TypeOK, Pending
  <2> QED BY <2>1, <2>2, <2>3, <2>4 DEF Reserve, TypeOK, Pending, Kind, ghosts
<1>11. Len(micro') \in 0..2
  BY DEF Reserve, Goto, Kind, TypeOK, Pending, NoRow, table, ghosts, Idle
<1>12. Unpaid'
  BY <1>1, <1>2, <1>3 DEF Reserve, Goto, Kind, TypeOK, Pending, NoRow, table, ghosts, Idle, Unpaid, Stages
<1>13. Stages'
  <2>1. ASSUME NEW x \in Requests \ {r}
        PROVE  /\ pc'[x] = pc[x] /\ left'[x] = left[x] /\ row'[x] = row[x]
               /\ kind'[x] = kind[x] /\ (x \in reserved' <=> x \in reserved)
               /\ (x \in old' <=> x \in old)
    BY <1>2, <1>3
  <2>2. kind[r] \in {"single", "multi"}
    BY DEF TypeOK, Kind
  <2> QED BY <1>1, <1>3, <2>1, <2>2 DEF Stages, Pending
<1>14. Settling'
  BY DEF Reserve, Goto, Kind, TypeOK, Pending, NoRow, table, ghosts, Idle, Settling, Stages
<1>15. Balance'
  BY <1>2 DEF Reserve, table, ghosts, Balance
<1> QED BY <1>10, <1>11, <1>12, <1>13, <1>14, <1>15

\* A stretch owes what its calls have cost.
LEMMA StretchBalances ==
  ASSUME QuotaInv, NEW r \in Requests, NEW c \in Nat, micro = <<>>,
         row' = row, inserted' = inserted, unseen' = unseen,
         spent' = [spent EXCEPT ![r] = @ + c],
         \A x \in Requests : Owed(micro', x) = IF x = r THEN c ELSE 0
  PROVE  Balance'
<1> SUFFICES ASSUME NEW x \in Requests \ unseen
             PROVE  row[x].cost + inserted[x] + Owed(micro', x) = spent'[x]
  BY DEF Balance
<1>1. row[x].cost + inserted[x] + Owed(micro, x) = spent[x]
  BY DEF QuotaInv, Balance
<1>2. Owed(micro, x) = 0
  BY OwedFacts DEF QuotaInv, TypeOK
<1>3. row[x].cost \in Nat /\ inserted[x] \in Nat /\ spent[x] \in Nat
  BY QuotaAssumption DEF QuotaInv, TypeOK
<1>4. spent'[x] = IF x = r THEN spent[x] + c ELSE spent[x]
  BY DEF QuotaInv, TypeOK
<1> QED BY <1>1, <1>2, <1>3, <1>4

LEMMA SingleAnswersKeepsInv ==
  ASSUME QuotaInv, NEW r \in Requests, SingleAnswers(r)
  PROVE  QuotaInv'
<1> USE QuotaAssumption DEF QuotaInv
<1>1. /\ micro = <<>> /\ pc[r] = "calling"
      /\ pc' = [pc EXCEPT ![r] = "ended"]
      /\ kind' = kind /\ reserved' = reserved /\ row' = row /\ old' = old
      /\ inserted' = inserted /\ unseen' = unseen
  BY DEF SingleAnswers, Goto, table, ghosts, Idle
<1>2. PICK c \in Costs : /\ micro' = <<Record(r, c)>>
                         /\ spent' = [spent EXCEPT ![r] = @ + c]
  BY DEF SingleAnswers, Spend
<1>3. c \in Nat
  BY QuotaAssumption
<1>4. micro' \in Seq(Writes) /\ Len(micro') = 1 /\ micro'[1] = Record(r, c)
  BY <1>2, OneRecord
<1>5. Record(r, c).k = "record" /\ Record(r, c).req = r /\ Record(r, c).cost = c
  BY WriteFacts
<1>6. \A x \in Requests : Owed(micro', x) = IF x = r THEN c ELSE 0
  BY <1>4, <1>5, OwedByOne
<1>10. TypeOK'
  BY <1>1, <1>2, <1>3, <1>4 DEF SingleAnswers, TypeOK, Pending, ghosts, Stages
<1>11. Len(micro') \in 0..2
  BY <1>4
<1>12. Unpaid'
  BY <1>1 DEF Unpaid
<1>13. Stages'
  BY <1>1 DEF SingleAnswers, Stages, Pending, TypeOK
<1>14. Settling'
  <2>1. ASSUME NEW n \in 1..Len(micro') PROVE n = 1 /\ micro'[n].req = r
    BY <1>4, <1>5
  <2> QED BY <1>1, <1>4, <1>5, <2>1 DEF Settling, Stages, Pending, TypeOK
<1>15. Balance'
  BY <1>1, <1>2, <1>3, <1>6, StretchBalances
<1> QED BY <1>10, <1>11, <1>12, <1>13, <1>14, <1>15

LEMMA AnalystAnswersKeepsInv ==
  ASSUME QuotaInv, NEW r \in Requests, AnalystAnswers(r)
  PROVE  QuotaInv'
<1> USE QuotaAssumption DEF QuotaInv
<1>0. left[r] \in {1, 2} /\ left' = [left EXCEPT ![r] = @ - 1] /\ left'[r] = left[r] - 1
  BY DEF AnalystAnswers, Stages, TypeOK
<1>1. /\ micro = <<>> /\ pc[r] = "analysing"
      /\ pc' = [pc EXCEPT ![r] = IF left'[r] = 0 THEN "judging" ELSE "analysing"]
      /\ kind' = kind /\ reserved' = reserved /\ row' = row /\ old' = old
      /\ inserted' = inserted /\ unseen' = unseen
  BY <1>0 DEF AnalystAnswers, Goto, table, ghosts, Idle
<1>2. PICK c \in Costs : /\ micro' = <<Record(r, c)>>
                         /\ spent' = [spent EXCEPT ![r] = @ + c]
  BY DEF AnalystAnswers, Spend
<1>3. c \in Nat
  BY QuotaAssumption
<1>4. micro' \in Seq(Writes) /\ Len(micro') = 1 /\ micro'[1] = Record(r, c)
  BY <1>2, OneRecord
<1>5. Record(r, c).k = "record" /\ Record(r, c).req = r /\ Record(r, c).cost = c
  BY WriteFacts
<1>6. \A x \in Requests : Owed(micro', x) = IF x = r THEN c ELSE 0
  BY <1>4, <1>5, OwedByOne
<1>10. TypeOK'
  BY <1>1, <1>2, <1>3, <1>4 DEF AnalystAnswers, TypeOK, Pending, ghosts, Stages
<1>11. Len(micro') \in 0..2
  BY <1>4
<1>12. Unpaid'
  BY <1>1 DEF Unpaid
<1>13. Stages'
  BY <1>0, <1>1 DEF Stages, Pending, TypeOK
<1>14. Settling'
  <2>1. ASSUME NEW n \in 1..Len(micro') PROVE n = 1 /\ micro'[n].req = r
    BY <1>4, <1>5
  <2> QED BY <1>1, <1>4, <1>5, <2>1 DEF Settling, Stages, Pending, TypeOK
<1>15. Balance'
  BY <1>1, <1>2, <1>3, <1>6, StretchBalances
<1> QED BY <1>10, <1>11, <1>12, <1>13, <1>14, <1>15

LEMMA JudgeEndsKeepsInv ==
  ASSUME QuotaInv, NEW r \in Requests, JudgeEnds(r)
  PROVE  QuotaInv'
<1> USE QuotaAssumption DEF QuotaInv
<1>1. /\ micro = <<>> /\ pc[r] = "judging"
      /\ pc' = [pc EXCEPT ![r] = "closing"]
      /\ kind' = kind /\ reserved' = reserved /\ row' = row /\ old' = old
      /\ inserted' = inserted /\ unseen' = unseen
  BY DEF JudgeEnds, Goto, table, ghosts, Idle
<1>2. PICK c \in Costs : /\ micro' = <<Record(r, c)>>
                         /\ spent' = [spent EXCEPT ![r] = @ + c]
  BY DEF JudgeEnds, Spend
<1>3. c \in Nat
  BY QuotaAssumption
<1>4. micro' \in Seq(Writes) /\ Len(micro') = 1 /\ micro'[1] = Record(r, c)
  BY <1>2, OneRecord
<1>5. Record(r, c).k = "record" /\ Record(r, c).req = r /\ Record(r, c).cost = c
  BY WriteFacts
<1>6. \A x \in Requests : Owed(micro', x) = IF x = r THEN c ELSE 0
  BY <1>4, <1>5, OwedByOne
<1>10. TypeOK'
  BY <1>1, <1>2, <1>3, <1>4 DEF JudgeEnds, TypeOK, Pending, ghosts, Stages
<1>11. Len(micro') \in 0..2
  BY <1>4
<1>12. Unpaid'
  BY <1>1 DEF Unpaid
<1>13. Stages'
  BY <1>1 DEF JudgeEnds, Stages, Pending, TypeOK
<1>14. Settling'
  <2>1. ASSUME NEW n \in 1..Len(micro') PROVE n = 1 /\ micro'[n].req = r
    BY <1>4, <1>5
  <2> QED BY <1>1, <1>4, <1>5, <2>1 DEF Settling, Stages, Pending, TypeOK
<1>15. Balance'
  BY <1>1, <1>2, <1>3, <1>6, StretchBalances
<1> QED BY <1>10, <1>11, <1>12, <1>13, <1>14, <1>15

\* A stretch of r that only leaves a release.
LEMMA SilenceBalances ==
  ASSUME QuotaInv, NEW r \in Requests, micro = <<>>, micro' = Release(r),
         row' = row, inserted' = inserted, unseen' = unseen, spent' = spent
  PROVE  Balance'
<1> SUFFICES ASSUME NEW x \in Requests \ unseen
             PROVE  row[x].cost + inserted[x] + Owed(micro', x) = spent[x]
  BY DEF Balance
<1>1. row[x].cost + inserted[x] + Owed(micro, x) = spent[x]
  BY DEF QuotaInv, Balance
<1>2. Owed(micro, x) = 0
  BY OwedFacts DEF QuotaInv, TypeOK
<1>3. /\ micro' \in Seq(Writes)
      /\ \A n \in 1..Len(micro') : micro'[n].k = "release"
  BY OneRelease
<1>4. Owed(micro', x) = 0
  BY <1>3, OwedByNone
<1> QED BY <1>1, <1>2, <1>4

LEMMA StreamEndsKeepsInv ==
  ASSUME QuotaInv, NEW r \in Requests, StreamEnds(r)
  PROVE  QuotaInv'
<1> USE QuotaAssumption DEF QuotaInv
<1>1. /\ micro = <<>> /\ pc[r] = "closing"
      /\ pc' = [pc EXCEPT ![r] = "ended"]
      /\ kind' = kind /\ reserved' = reserved /\ row' = row /\ old' = old
      /\ inserted' = inserted /\ unseen' = unseen
  BY DEF StreamEnds, Goto, table, ghosts, Idle
<1>2. micro' = Release(r) /\ spent' = spent
  BY DEF StreamEnds
<1>3. /\ micro' \in Seq(Writes) /\ Len(micro') \in 0..1
      /\ \A n \in 1..Len(micro') : micro'[n].k = "release" /\ micro'[n].req = r
  BY <1>2, OneRelease
<1>10. TypeOK'
  BY <1>1, <1>2, <1>3 DEF StreamEnds, TypeOK, Pending, ghosts
<1>11. Len(micro') \in 0..2
  BY <1>3
<1>12. Unpaid'
  BY <1>1 DEF Unpaid
<1>13. Stages'
  BY <1>1 DEF StreamEnds, Stages, Pending, TypeOK
<1>14. Settling'
  BY <1>1, <1>3 DEF Settling, TypeOK
<1>15. Balance'
  BY <1>1, <1>2, SilenceBalances
<1> QED BY <1>10, <1>11, <1>12, <1>13, <1>14, <1>15

LEMMA SingleFailsKeepsInv ==
  ASSUME QuotaInv, NEW r \in Requests, SingleFails(r)
  PROVE  QuotaInv'
<1> USE QuotaAssumption DEF QuotaInv
<1>1. /\ micro = <<>> /\ pc[r] = "calling"
      /\ pc' = [pc EXCEPT ![r] = "ended"]
      /\ kind' = kind /\ reserved' = reserved /\ row' = row /\ old' = old
      /\ inserted' = inserted /\ unseen' = unseen
  BY DEF SingleFails, Goto, table, ghosts, Idle
<1>2. \/ \E c \in Costs : /\ micro' = <<Record(r, c)>> \o Release(r)
                         /\ spent' = [spent EXCEPT ![r] = @ + c]
      \/ micro' = Release(r) /\ spent' = spent
  BY DEF SingleFails, Spend
<1>3. CASE \E c \in Costs : /\ micro' = <<Record(r, c)>> \o Release(r)
                          /\ spent' = [spent EXCEPT ![r] = @ + c]
  <2>1. PICK c \in Costs : /\ micro' = <<Record(r, c)>> \o Release(r)
                           /\ spent' = [spent EXCEPT ![r] = @ + c]
    BY <1>3
  <2>2. c \in Nat
    BY QuotaAssumption
  <2>3. /\ micro' \in Seq(Writes) /\ Len(micro') \in 1..2
        /\ micro'[1] = Record(r, c)
        /\ \A n \in 2..Len(micro') : micro'[n].k = "release" /\ micro'[n].req = r
    <3>1. RecordFirst(micro', r, c)
      BY <2>1, RecordThenRelease
    <3> QED BY <3>1 DEF RecordFirst
  <2>4. Record(r, c).k = "record" /\ Record(r, c).req = r /\ Record(r, c).cost = c
    BY WriteFacts
  <2>5. \A x \in Requests : Owed(micro', x) = IF x = r THEN c ELSE 0
    BY <2>3, <2>4, OwedByOne
  <2>6. TypeOK'
    BY <1>1, <2>1, <2>2, <2>3 DEF SingleFails, TypeOK, Pending, ghosts
  <2>7. Unpaid'
    BY <1>1 DEF Unpaid
  <2>8. Stages'
    BY <1>1 DEF SingleFails, Stages, Pending, TypeOK
  <2>9. Settling'
    <3>1. ASSUME NEW n \in 1..Len(micro')
          PROVE  micro'[n].req = r /\ (n = 1 \/ micro'[n].k = "release")
      <4>1. n = 1 \/ n \in 2..Len(micro')
        BY <2>3
      <4> QED BY <2>3, <2>4, <4>1
    <3>2. pc'[r] = "ended" /\ (r \in reserved => Pending(r)')
      BY <1>1 DEF Stages, Pending, TypeOK
    <3> QED BY <1>1, <3>1, <3>2 DEF Settling
  <2>10. Balance'
    BY <1>1, <2>1, <2>2, <2>5, StretchBalances
  <2>11. Len(micro') \in 0..2
    BY <2>3
  <2> QED BY <2>6, <2>7, <2>8, <2>9, <2>10, <2>11
<1>4. CASE micro' = Release(r) /\ spent' = spent
  <2>1. /\ micro' \in Seq(Writes) /\ Len(micro') \in 0..1
        /\ \A n \in 1..Len(micro') : micro'[n].k = "release" /\ micro'[n].req = r
    BY <1>4, OneRelease
  <2>2. TypeOK'
    BY <1>1, <1>4, <2>1 DEF SingleFails, TypeOK, Pending, ghosts
  <2>3. Unpaid' /\ Len(micro') \in 0..2
    BY <1>1, <2>1 DEF Unpaid
  <2>4. Stages'
    BY <1>1 DEF SingleFails, Stages, Pending, TypeOK
  <2>5. Settling'
    BY <1>1, <2>1 DEF Settling, TypeOK
  <2>6. Balance'
    BY <1>1, <1>4, SilenceBalances
  <2> QED BY <2>2, <2>3, <2>4, <2>5, <2>6
<1> QED BY <1>2, <1>3, <1>4

LEMMA AnalystFailsKeepsInv ==
  ASSUME QuotaInv, NEW r \in Requests, AnalystFails(r)
  PROVE  QuotaInv'
<1> USE QuotaAssumption DEF QuotaInv
<1>1. /\ micro = <<>> /\ pc[r] = "analysing"
      /\ pc' = [pc EXCEPT ![r] = "closing"]
      /\ kind' = kind /\ reserved' = reserved /\ row' = row /\ old' = old
      /\ inserted' = inserted /\ unseen' = unseen
  BY DEF AnalystFails, Goto, table, ghosts, Idle
<1>2. PICK c \in Costs, d \in Costs : /\ micro' = <<Record(r, c), Record(r, d)>>
                                     /\ spent' = [spent EXCEPT ![r] = @ + (c + d)]
  BY QuotaAssumption DEF AnalystFails, Spend
<1>3. c \in Nat /\ d \in Nat /\ c + d \in Nat
  BY QuotaAssumption
<1>4. /\ micro' \in Seq(Writes) /\ Len(micro') = 2
      /\ micro'[1] = Record(r, c) /\ micro'[2] = Record(r, d)
  BY <1>2, TwoRecords
<1>5. /\ Record(r, c).k = "record" /\ Record(r, c).req = r /\ Record(r, c).cost = c
      /\ Record(r, d).k = "record" /\ Record(r, d).req = r /\ Record(r, d).cost = d
  BY WriteFacts
<1>6. \A x \in Requests : Owed(micro', x) = IF x = r THEN c + d ELSE 0
  BY <1>4, <1>5, OwedByTwo
<1>10. TypeOK'
  BY <1>1, <1>2, <1>3, <1>4 DEF AnalystFails, TypeOK, Pending, ghosts
<1>11. Len(micro') \in 0..2
  BY <1>4
<1>12. Unpaid'
  BY <1>1 DEF Unpaid
<1>13. Stages'
  BY <1>1 DEF AnalystFails, Stages, Pending, TypeOK
<1>14. Settling'
  <2>1. ASSUME NEW n \in 1..Len(micro') PROVE micro'[n].req = r /\ micro'[n].k = "record"
    BY <1>4, <1>5
  <2>2. kind'[r] = "multi"
    BY <1>1 DEF Stages
  <2> QED BY <1>1, <2>1, <2>2 DEF Settling
<1>15. Balance'
  BY <1>1, <1>2, <1>3, <1>6, StretchBalances
<1> QED BY <1>10, <1>11, <1>12, <1>13, <1>14, <1>15

\* A deferred write is done: what it leaves in the queue was there.
LEMMA AfterWrite ==
  ASSUME QuotaInv, micro # <<>>, micro' = Tail(micro)
  PROVE  /\ micro' \in Seq(Writes) /\ Len(micro') \in 0..2
         /\ Head(micro) = micro[1] /\ micro[1] \in Writes /\ 1 \in 1..Len(micro)
         /\ micro[1].req \in Requests
         /\ \A n \in 1..Len(micro') :
              n = 1 /\ micro'[n] = micro[2] /\ 2 \in 1..Len(micro)
         /\ \A r \in Requests :
              /\ Owed(micro, r) = Due(micro, 1, r) + Owed(micro', r)
              /\ Owed(micro', r) \in Nat
<1>1. micro \in Seq(Writes) /\ Len(micro) \in 0..2
  BY DEF QuotaInv, TypeOK
<1>2. /\ Tail(micro) \in Seq(Writes) /\ Len(Tail(micro)) = Len(micro) - 1
      /\ Head(micro) = micro[1] /\ micro[1] \in Writes /\ 1 \in 1..Len(micro)
  BY <1>1, TailFacts
<1>3. \A n \in 1..Len(micro') : n = 1 /\ micro'[n] = micro[2] /\ 2 \in 1..Len(micro)
  BY <1>1, TailFacts
<1>4. \A r \in Requests : Owed(micro, r) = Due(micro, 1, r) + Owed(micro', r)
  BY <1>1, TailFacts
<1>5. \A r \in Requests : Owed(micro', r) \in Nat
  BY <1>2, OwedFacts
<1>6. Len(micro') \in 0..2
  BY <1>1, <1>2
<1>7. micro[1].req \in Requests
  BY <1>2, FieldFacts
<1> QED BY <1>2, <1>3, <1>4, <1>5, <1>6, <1>7

LEMMA WriteFailsKeepsInv ==
  ASSUME QuotaInv, WriteFails
  PROVE  QuotaInv'
<1> USE QuotaAssumption DEF QuotaInv
<1>1. micro # <<>> /\ micro' = Tail(micro)
  BY DEF WriteFails, Idle
<1>2. /\ micro' \in Seq(Writes) /\ Len(micro') \in 0..2
      /\ Head(micro) = micro[1] /\ 1 \in 1..Len(micro) /\ micro[1].req \in Requests
      /\ \A n \in 1..Len(micro') : n = 1 /\ micro'[n] = micro[2] /\ 2 \in 1..Len(micro)
  BY <1>1, AfterWrite
<1>3. /\ pc' = pc /\ kind' = kind /\ reserved' = reserved /\ row' = row /\ old' = old
      /\ inserted' = inserted /\ spent' = spent /\ left' = left
  BY DEF WriteFails, table
<1>10. TypeOK'
  BY <1>2, <1>3 DEF WriteFails, TypeOK, Pending
<1>11. Len(micro') \in 0..2
  BY <1>2
<1>12. Unpaid'
  BY <1>3 DEF Unpaid
<1>13. Stages'
  BY <1>3 DEF Stages, Pending
<1>14. Settling'
  BY <1>2, <1>3 DEF Settling, Pending
<1>15. Balance'
  <2>1. ASSUME NEW x \in Requests \ unseen'
        PROVE  row[x].cost + inserted[x] + Owed(micro', x) = spent[x]
    <3>1. x \in Requests \ unseen /\ ~(micro[1].k = "record" /\ micro[1].req = x)
      BY <1>2 DEF WriteFails
    <3>2. Due(micro, 1, x) = 0
      BY <3>1 DEF Due
    <3>3. /\ Owed(micro, x) = Due(micro, 1, x) + Owed(micro', x)
          /\ Owed(micro', x) \in Nat
      BY <1>1, AfterWrite
    <3>4. row[x].cost + inserted[x] + Owed(micro, x) = spent[x]
      BY <3>1 DEF Balance
    <3> QED BY <3>2, <3>3, <3>4
  <2> QED BY <1>3, <2>1 DEF Balance
<1> QED BY <1>10, <1>11, <1>12, <1>13, <1>14, <1>15

LEMMA WriteRecordKeepsInv ==
  ASSUME QuotaInv, WriteRecord
  PROVE  QuotaInv'
<1> USE QuotaAssumption DEF QuotaInv
<1>1. micro # <<>> /\ micro' = Tail(micro) /\ Head(micro).k = "record"
  BY DEF WriteRecord, Idle
<1>2. /\ micro' \in Seq(Writes) /\ Len(micro') \in 0..2
      /\ Head(micro) = micro[1] /\ 1 \in 1..Len(micro)
      /\ micro[1] \in Writes /\ micro[1].req \in Requests
      /\ \A n \in 1..Len(micro') : n = 1 /\ micro'[n] = micro[2] /\ 2 \in 1..Len(micro)
  BY <1>1, AfterWrite
<1>3. PICK q \in Requests : q = micro[1].req
  BY <1>2
<1>4. PICK c \in Costs : c = micro[1].cost /\ c \in Nat
  BY <1>1, <1>2, FieldFacts
<1>5. /\ pc' = pc /\ kind' = kind /\ reserved' = reserved /\ spent' = spent
      /\ left' = left /\ unseen' = unseen
  BY DEF WriteRecord, ghosts
<1>6. /\ row \in [Requests -> [status : {"none", "pending", "confirmed"}, cost : Costs]]
      /\ inserted \in [Requests -> Nat] /\ spent \in [Requests -> Nat]
  BY DEF TypeOK
<1>7. \A x \in Requests : Due(micro, 1, x) = IF x = q THEN c ELSE 0
  BY <1>1, <1>2, <1>3, <1>4 DEF Due
<1>8. CASE q \in reserved /\ kind[q] = "single"
  <2>1. Pending(q) /\ pc[q] = "ended"
    BY <1>1, <1>2, <1>3, <1>8 DEF Settling
  <2>2. /\ row' = [row EXCEPT ![q] = [status |-> "confirmed", cost |-> c]]
        /\ old' = old \ {q} /\ inserted' = inserted
    BY <1>2, <1>3, <1>4, <1>8, <2>1 DEF WriteRecord, Confirm
  <2>3. row[q].cost = 0
    BY <2>1 DEF Unpaid, Pending
  <2>4. /\ row'[q] = [status |-> "confirmed", cost |-> c]
        /\ \A x \in Requests \ {q} : row'[x] = row[x]
    BY <1>6, <2>2
  <2>5. row' \in [Requests -> [status : {"none", "pending", "confirmed"}, cost : Costs]]
    BY <1>6, <2>2
  <2>6. old' \subseteq {x \in Requests : Pending(x)'}
    BY <2>2, <2>4 DEF TypeOK, Pending
  <2>7. TypeOK'
    BY <1>2, <1>5, <1>6, <2>2, <2>5, <2>6 DEF WriteRecord, TypeOK, ghosts
  <2>8. Unpaid'
    BY <2>4 DEF Unpaid
  <2>9. Stages'
    BY <1>5, <2>1, <2>2, <2>4 DEF Stages, Pending
  <2>10. Settling'
    <3>1. ASSUME NEW n \in 1..Len(micro')
          PROVE  /\ 2 \in 1..Len(micro) /\ micro'[n] = micro[2]
                 /\ ~(/\ micro[2].k = "record" /\ kind[micro[2].req] = "single"
                      /\ micro[2].req \in reserved)
      BY <1>2 DEF Settling
    <3> QED BY <1>5, <3>1 DEF Settling
  <2>11. ASSUME NEW x \in Requests \ unseen
         PROVE  row'[x].cost + inserted'[x] + Owed(micro', x) = spent'[x]
    <3>1. /\ Owed(micro, x) = Due(micro, 1, x) + Owed(micro', x)
          /\ Owed(micro', x) \in Nat
      BY <1>1, AfterWrite
    <3>2. row[x].cost + inserted[x] + Owed(micro, x) = spent[x]
      BY DEF Balance
    <3>3. row[x].cost \in Nat /\ inserted[x] \in Nat
      BY <1>6
    <3>4. row'[x].cost = IF x = q THEN c ELSE row[x].cost
      BY <2>4
    <3> QED BY <1>4, <1>5, <1>7, <2>2, <2>3, <3>1, <3>2, <3>3, <3>4
  <2>12. Balance'
    BY <1>5, <2>11 DEF Balance
  <2> QED BY <1>2, <2>7, <2>8, <2>9, <2>10, <2>12
<1>9. CASE ~(q \in reserved /\ kind[q] = "single")
  <2>1. /\ inserted' = [inserted EXCEPT ![q] = @ + c]
        /\ row' = row /\ old' = old
    BY <1>2, <1>3, <1>4, <1>9 DEF WriteRecord, Insert
  <2>2. \A x \in Requests : inserted'[x] = IF x = q THEN inserted[x] + c ELSE inserted[x]
    BY <1>6, <2>1
  <2>3. inserted' \in [Requests -> Nat]
    BY <1>4, <1>6, <2>1
  <2>4. TypeOK'
    BY <1>2, <1>5, <1>6, <2>1, <2>3 DEF WriteRecord, TypeOK, Pending, ghosts
  <2>5. Unpaid' /\ Stages'
    BY <1>5, <2>1 DEF Unpaid, Stages, Pending
  <2>6. Settling'
    <3>1. ASSUME NEW n \in 1..Len(micro')
          PROVE  /\ 2 \in 1..Len(micro) /\ micro'[n] = micro[2]
                 /\ ~(/\ micro[2].k = "record" /\ kind[micro[2].req] = "single"
                      /\ micro[2].req \in reserved)
      BY <1>2 DEF Settling
    <3> QED BY <1>5, <3>1 DEF Settling
  <2>7. ASSUME NEW x \in Requests \ unseen
        PROVE  row[x].cost + inserted'[x] + Owed(micro', x) = spent[x]
    <3>1. /\ Owed(micro, x) = Due(micro, 1, x) + Owed(micro', x)
          /\ Owed(micro', x) \in Nat
      BY <1>1, AfterWrite
    <3>2. row[x].cost + inserted[x] + Owed(micro, x) = spent[x]
      BY DEF Balance
    <3>3. row[x].cost \in Nat /\ inserted[x] \in Nat
      BY <1>6
    <3>4. Due(micro, 1, x) = IF x = q THEN c ELSE 0
      BY <1>7
    <3>5. inserted'[x] = inserted[x] + Due(micro, 1, x)
      BY <2>2, <3>3, <3>4
    <3>6. Due(micro, 1, x) \in Nat
      BY <1>4, <3>4
    <3> QED BY <3>1, <3>2, <3>3, <3>5, <3>6
  <2>8. Balance'
    BY <1>5, <2>1, <2>7 DEF Balance
  <2> QED BY <1>2, <2>4, <2>5, <2>6, <2>8
<1> QED BY <1>8, <1>9

LEMMA WriteReleaseKeepsInv ==
  ASSUME QuotaInv, WriteRelease
  PROVE  QuotaInv'
<1> USE QuotaAssumption DEF QuotaInv
<1>1. micro # <<>> /\ micro' = Tail(micro) /\ Head(micro).k = "release"
  BY DEF WriteRelease, Idle
<1>2. /\ micro' \in Seq(Writes) /\ Len(micro') \in 0..2
      /\ Head(micro) = micro[1] /\ 1 \in 1..Len(micro)
      /\ micro[1] \in Writes /\ micro[1].req \in Requests
      /\ \A n \in 1..Len(micro') : n = 1 /\ micro'[n] = micro[2] /\ 2 \in 1..Len(micro)
  BY <1>1, AfterWrite
<1>3. PICK q \in Requests : q = micro[1].req
  BY <1>2
<1>4. /\ pc' = pc /\ kind' = kind /\ reserved' = reserved /\ spent' = spent
      /\ left' = left /\ unseen' = unseen /\ inserted' = inserted /\ old' = old \ {q}
      /\ row' = IF Pending(q) THEN [row EXCEPT ![q] = NoRow] ELSE row
  BY <1>2, <1>3 DEF WriteRelease, ghosts
<1>5. /\ row \in [Requests -> [status : {"none", "pending", "confirmed"}, cost : Costs]]
      /\ inserted \in [Requests -> Nat] /\ spent \in [Requests -> Nat]
  BY DEF TypeOK
<1>6. pc[q] = "ended"
  BY <1>1, <1>2, <1>3 DEF Settling
<1>7. \A x \in Requests \ {q} : row'[x] = row[x]
  BY <1>4, <1>5
<1>8. row'[q].cost = row[q].cost /\ (row'[q].status # "confirmed" => row'[q].cost = 0)
  BY <1>4, <1>5 DEF Unpaid, Pending, NoRow
<1>9. row' \in [Requests -> [status : {"none", "pending", "confirmed"}, cost : Costs]]
  BY <1>4, <1>5 DEF NoRow
<1>10. TypeOK'
  <2>1. old' \subseteq {x \in Requests : Pending(x)'}
    BY <1>4, <1>7 DEF TypeOK, Pending
  <2> QED BY <1>2, <1>4, <1>5, <1>9, <2>1 DEF WriteRelease, TypeOK, ghosts
<1>11. Len(micro') \in 0..2
  BY <1>2
<1>12. Unpaid'
  BY <1>7, <1>8 DEF Unpaid
<1>13. Stages'
  BY <1>4, <1>6, <1>7 DEF Stages, Pending
<1>14. Settling'
  <2>1. ASSUME NEW n \in 1..Len(micro')
        PROVE  /\ 2 \in 1..Len(micro) /\ micro'[n] = micro[2]
               /\ ~(/\ micro[2].k = "record" /\ kind[micro[2].req] = "single"
                    /\ micro[2].req \in reserved)
    BY <1>2 DEF Settling
  <2> QED BY <1>4, <2>1 DEF Settling
<1>15. Balance'
  <2>1. ASSUME NEW x \in Requests \ unseen
        PROVE  row'[x].cost + inserted[x] + Owed(micro', x) = spent[x]
    <3>1. /\ Owed(micro, x) = Due(micro, 1, x) + Owed(micro', x)
          /\ Owed(micro', x) \in Nat
      BY <1>1, AfterWrite
    <3>2. Due(micro, 1, x) = 0
      BY <1>1, <1>2 DEF Due
    <3>3. row'[x].cost = row[x].cost
      BY <1>7, <1>8
    <3>4. row[x].cost + inserted[x] + Owed(micro, x) = spent[x]
      BY DEF Balance
    <3> QED BY <3>1, <3>2, <3>3, <3>4
  <2> QED BY <1>4, <2>1 DEF Balance
<1> QED BY <1>10, <1>11, <1>12, <1>13, <1>14, <1>15

LEMMA ExpireKeepsInv ==
  ASSUME QuotaInv, NEW r \in Requests, Expire(r)
  PROVE  QuotaInv'
<1> USE QuotaAssumption DEF QuotaInv
<1>10. TypeOK'
  BY DEF Expire, TypeOK, Pending, NoRow, table, ghosts, Idle
<1>11. Len(micro') \in 0..2
  BY DEF Expire, TypeOK, Pending, NoRow, table, ghosts, Idle
<1>12. Unpaid'
  BY DEF Expire, TypeOK, Pending, NoRow, table, ghosts, Idle, Unpaid
<1>13. Stages'
  BY DEF Expire, TypeOK, Pending, NoRow, table, ghosts, Idle, Stages, Unpaid, AtWork
<1>14. Settling'
  BY DEF Expire, TypeOK, Pending, NoRow, table, ghosts, Idle, Settling, Stages
<1>15. Balance'
  BY DEF Expire, TypeOK, Pending, NoRow, table, ghosts, Idle, Balance
<1> QED BY <1>10, <1>11, <1>12, <1>13, <1>14, <1>15

LEMMA PurgeKeepsInv ==
  ASSUME QuotaInv, Purge
  PROVE  QuotaInv'
<1> USE QuotaAssumption DEF QuotaInv
<1>1. \A x \in Requests : row'[x] = IF x \in old THEN NoRow ELSE row[x]
  BY DEF Purge
<1>2. \A x \in old : row[x].status = "pending" /\ row[x].cost = 0
  BY DEF TypeOK, Pending, Unpaid
<1>3. /\ micro = <<>> /\ micro' = micro /\ old' = {} /\ pc' = pc /\ kind' = kind
      /\ reserved' = reserved /\ inserted' = inserted /\ left' = left
      /\ spent' = spent /\ unseen' = unseen
  BY DEF Purge, Idle
<1>10. TypeOK'
  BY DEF Purge, TypeOK, Pending, NoRow, table, ghosts, Idle
<1>11. Len(micro') \in 0..2
  BY DEF Purge, TypeOK, Pending, NoRow, table, ghosts, Idle
<1>12. Unpaid'
  BY <1>1 DEF Unpaid, NoRow
<1>13. Stages'
  BY <1>1, <1>2, <1>3 DEF Stages, Pending
<1>14. Settling'
  BY <1>3 DEF Settling
<1>15. Balance'
  <2>1. \A x \in Requests : row'[x].cost = row[x].cost
    BY <1>1, <1>2 DEF NoRow
  <2> QED BY <1>3, <2>1 DEF Balance
<1> QED BY <1>10, <1>11, <1>12, <1>13, <1>14, <1>15

LEMMA SetLimitKeepsInv ==
  ASSUME QuotaInv, SetLimit
  PROVE  QuotaInv'
<1> USE QuotaAssumption DEF QuotaInv
<1>10. TypeOK'
  BY DEF SetLimit, TypeOK, Pending, NoRow, table, ghosts, Idle
<1>11. Len(micro') \in 0..2
  BY DEF SetLimit, TypeOK, Pending, NoRow, table, ghosts, Idle
<1>12. Unpaid'
  BY DEF SetLimit, TypeOK, Pending, NoRow, table, ghosts, Idle, Unpaid
<1>13. Stages'
  BY DEF SetLimit, TypeOK, Pending, NoRow, table, ghosts, Idle, Stages, Unpaid, AtWork
<1>14. Settling'
  BY DEF SetLimit, TypeOK, Pending, NoRow, table, ghosts, Idle, Settling, Stages
<1>15. Balance'
  BY DEF SetLimit, TypeOK, Pending, NoRow, table, ghosts, Idle, Balance
<1> QED BY <1>10, <1>11, <1>12, <1>13, <1>14, <1>15

LEMMA CrashKeepsInv ==
  ASSUME QuotaInv, Crash
  PROVE  QuotaInv'
<1> USE QuotaAssumption DEF QuotaInv
<1>10. TypeOK'
  BY DEF Crash, AtWork, TypeOK, Pending, NoRow, table, ghosts, Idle
<1>11. Len(micro') \in 0..2
  BY DEF Crash, AtWork, TypeOK, Pending, NoRow, table, ghosts, Idle
<1>12. Unpaid'
  BY DEF Crash, AtWork, TypeOK, Pending, NoRow, table, ghosts, Idle, Unpaid
<1>13. Stages'
  BY DEF Crash, AtWork, TypeOK, Pending, NoRow, table, ghosts, Idle, Stages, Unpaid, AtWork
<1>14. Settling'
  BY DEF Crash, AtWork, TypeOK, Pending, NoRow, table, ghosts, Idle, Settling, Stages
<1>15. Balance'
  BY DEF Crash, AtWork, TypeOK, Pending, NoRow, table, ghosts, Idle, Balance
<1> QED BY <1>10, <1>11, <1>12, <1>13, <1>14, <1>15

-----------------------------------------------------------------------------
LEMMA InitQuotaInv == Init => QuotaInv
<1> SUFFICES ASSUME Init PROVE QuotaInv
  OBVIOUS
<1> USE QuotaAssumption DEF Init
<1>1. TypeOK
  <2>1. row \in [Requests -> [status : {"none", "pending", "confirmed"}, cost : Costs]]
    BY DEF NoRow
  <2>2. micro \in Seq(Writes)
    OBVIOUS
  <2> QED BY <2>1, <2>2 DEF TypeOK
<1>2. Len(micro) \in 0..2 /\ Settling
  BY DEF Settling
<1>3. Unpaid /\ Stages
  BY DEF Unpaid, Stages, NoRow
<1>4. Balance
  <2>1. \A r \in Requests : Owed(micro, r) = 0
    BY DEF Owed, Due
  <2> QED BY <2>1 DEF Balance, NoRow
<1> QED BY <1>1, <1>2, <1>3, <1>4 DEF QuotaInv

LEMMA NextKeepsQuotaInv == QuotaInv /\ [Next]_vars => QuotaInv'
<1> SUFFICES ASSUME QuotaInv, [Next]_vars PROVE QuotaInv'
  OBVIOUS
<1>1. ASSUME NEW r \in Requests, Guard(r) \/ Refuse(r) \/ Reserve(r)
      PROVE  QuotaInv'
  BY <1>1, GuardKeepsInv, RefuseKeepsInv, ReserveKeepsInv
<1>2. ASSUME NEW r \in Requests, Work(r)
      PROVE  QuotaInv'
  <2>1. CASE SingleAnswers(r) \/ SingleFails(r)
    BY <2>1, SingleAnswersKeepsInv, SingleFailsKeepsInv
  <2>2. CASE AnalystAnswers(r) \/ AnalystFails(r)
    BY <2>2, AnalystAnswersKeepsInv, AnalystFailsKeepsInv
  <2>3. CASE JudgeEnds(r) \/ StreamEnds(r)
    BY <2>3, JudgeEndsKeepsInv, StreamEndsKeepsInv
  <2> QED BY <1>2, <2>1, <2>2, <2>3 DEF Work
<1>3. ASSUME NEW r \in Requests, Expire(r)
      PROVE  QuotaInv'
  BY <1>3, ExpireKeepsInv
<1>4. CASE Write
  BY <1>4, WriteRecordKeepsInv, WriteReleaseKeepsInv, WriteFailsKeepsInv DEF Write
<1>5. CASE Purge \/ SetLimit \/ Crash
  BY <1>5, PurgeKeepsInv, SetLimitKeepsInv, CrashKeepsInv
<1>6. CASE UNCHANGED vars
  BY <1>6 DEF vars, table, ghosts, QuotaInv, TypeOK, Unpaid, Stages, Settling, Balance,
              Pending
<1> QED BY <1>1, <1>2, <1>3, <1>4, <1>5, <1>6 DEF Next

\* The invariant, types included, for all requests, prices, limits and faults.
THEOREM QuotaInvariant == Spec => []QuotaInv
<1>1. Init => QuotaInv
  BY InitQuotaInv
<1>2. QuotaInv /\ [Next]_vars => QuotaInv'
  BY NextKeepsQuotaInv
<1> QED BY <1>1, <1>2, PTL DEF Spec

\* Between turns the table shows exactly what calls have cost, whatever fails,
\* is released or is purged in between (routes/ai.ts:161-167, index.ts:768-773).
THEOREM SpendIsExactHolds == Spec => []SpendIsExact
<1>1. QuotaInv => SpendIsExact
  <2> SUFFICES ASSUME QuotaInv, Idle, NEW r \in Requests \ unseen
               PROVE  row[r].cost + inserted[r] = spent[r]
    BY DEF SpendIsExact
  <2>1. row[r].cost + inserted[r] + Owed(micro, r) = spent[r]
    BY DEF QuotaInv, Balance
  <2>2. Owed(micro, r) = 0
    BY OwedFacts DEF QuotaInv, TypeOK, Idle
  <2>3. row[r].cost \in Nat /\ inserted[r] \in Nat
    BY QuotaAssumption DEF QuotaInv, TypeOK
  <2> QED BY <2>1, <2>2, <2>3
<1> QED BY <1>1, QuotaInvariant, PTL

-----------------------------------------------------------------------------
(* The limit.  Each request is set down for what it may still cost within its *)
(* estimate: all of it while it works, what it has cost once it has ended.    *)

Weight(r) ==
    IF r \in unseen \cup exposed THEN 0
    ELSE IF AtWork(r) THEN Estimate[kind[r]]
    ELSE Smaller(spent[r], Estimate[kind[r]])

Weights == [r \in Requests |-> Weight(r)]

\* As long as there has always been a limit, whoever works has a reservation,
\* pending unless it was purged, and the weights are within the limit.
LimitInv ==
    ceiling # NoLimit =>
      /\ limit # NoLimit /\ limit <= ceiling
      /\ \A r \in Requests : AtWork(r) => r \in exposed \/ Pending(r)
      /\ SumFunction(Weights) <= ceiling

\* What a request weighs is within its estimate, and never less than what it
\* has cost within it.
LEMMA WeightsTyped ==
  ASSUME TypeOK
  PROVE  /\ Weights \in [Requests -> Nat]
         /\ \A r \in Requests : Weights[r] = Weight(r)
<1>1. \A r \in Requests : Estimate[kind[r]] \in Nat /\ spent[r] \in Nat
  BY QuotaAssumption DEF TypeOK
<1> QED BY <1>1 DEF Weights, Weight, Smaller

LEMMA WeightsTypedAfter ==
  ASSUME TypeOK'
  PROVE  /\ Weights' \in [Requests -> Nat]
         /\ \A r \in Requests : Weights'[r] = Weight(r)'
<1>1. \A r \in Requests : Estimate[kind'[r]] \in Nat /\ spent'[r] \in Nat
  BY QuotaAssumption DEF TypeOK
<1> QED BY <1>1 DEF Weights, Weight, Smaller

\* A step that makes no request heavier, and leaves the limits and the
\* reservations of those who work, stays within the limit.
LEMMA NobodyHeavier ==
  ASSUME TypeOK, TypeOK', LimitInv,
         ceiling' # NoLimit => /\ ceiling # NoLimit /\ ceiling <= ceiling'
                               /\ limit' # NoLimit /\ limit' <= ceiling',
         \A r \in Requests : Weight(r)' <= Weight(r),
         \A r \in Requests :
           AtWork(r)' => /\ AtWork(r)
                         /\ r \in exposed => r \in exposed'
                         /\ Pending(r) => r \in exposed' \/ Pending(r)'
  PROVE  LimitInv'
<1> SUFFICES ASSUME ceiling' # NoLimit PROVE LimitInv'
  BY DEF LimitInv
<1>1. ceiling \in Nat /\ ceiling' \in Nat
  BY QuotaAssumption DEF TypeOK
<1>2. /\ Weights \in [Requests -> Nat] /\ Weights' \in [Requests -> Nat]
      /\ \A r \in Requests : Weights'[r] <= Weights[r]
  BY WeightsTyped, WeightsTypedAfter
<1>3. /\ SumFunction(Weights') \in Nat /\ SumFunction(Weights) \in Nat
      /\ SumFunction(Weights') <= SumFunction(Weights)
  <2> DEFINE W == Weights
             V == Weights'
  <2>1. W \in [Requests -> Nat] /\ V \in [Requests -> Nat] /\ \A r \in Requests : V[r] <= W[r]
    BY <1>2
  <2> HIDE DEF W, V
  <2>2. SumFunction(V) \in Nat /\ SumFunction(W) \in Nat /\ SumFunction(V) <= SumFunction(W)
    BY <2>1, SumMono, QuotaAssumption
  <2> QED BY <2>2 DEF V, W
<1>4. SumFunction(Weights)' = SumFunction(Weights')
  BY DEF SumFunction, SumFunctionOnSet, FoldFunctionOnSet, MapThenFoldSet
<1>5. SumFunction(Weights)' <= ceiling'
  BY <1>1, <1>3, <1>4 DEF LimitInv
<1>6. \A r \in Requests : AtWork(r)' => (r \in exposed \/ Pending(r))'
  BY DEF LimitInv
<1> HIDE DEF AtWork, Pending, Weights, Weight
<1> QED BY <1>5, <1>6 DEF LimitInv

\* Between turns the usage table shows at least what each request weighs: an
\* open reservation with its estimate, and else what has been spent.
LEMMA WeightIsUsed ==
  ASSUME QuotaInv, LimitInv, Idle, ceiling # NoLimit, NEW r \in Requests
  PROVE  LET used == inserted[r] + (IF Pending(r) THEN Estimate[kind[r]] ELSE row[r].cost)
         IN  used \in Nat /\ Weight(r) <= used
<1>1. /\ Estimate[kind[r]] \in Nat /\ spent[r] \in Nat /\ inserted[r] \in Nat
      /\ row[r].cost \in Nat
  BY QuotaAssumption DEF QuotaInv, TypeOK
<1>2. r \notin unseen => row[r].cost + inserted[r] = spent[r]
  <2>1. Owed(micro, r) = 0
    BY OwedFacts DEF QuotaInv, TypeOK, Idle
  <2> QED BY <1>1, <2>1 DEF QuotaInv, Balance
<1>3. CASE Pending(r) \/ r \in unseen \cup exposed
  BY <1>1, <1>3 DEF Weight, Smaller
<1>4. CASE ~Pending(r) /\ r \notin unseen \cup exposed
  <2>1. ~AtWork(r)
    BY <1>4 DEF LimitInv
  <2> QED BY <1>1, <1>2, <1>4, <2>1 DEF Weight, Smaller
<1> QED BY <1>3, <1>4

\* The check and the pending row are one transaction: the others weigh no more
\* than the table shows, and the estimate fits on top of it.
LEMMA ReserveWithin ==
  ASSUME QuotaInv, LimitInv, NEW r \in Requests, Reserve(r)
  PROVE  LimitInv'
<1>1. QuotaInv' /\ TypeOK /\ TypeOK'
  BY ReserveKeepsInv DEF QuotaInv
<1>2. /\ pc[r] = "guarded" /\ Idle
      /\ UNCHANGED <<limit, kind, inserted, spent, ceiling, unseen, exposed>>
  BY DEF Reserve, ghosts
<1>3. CASE OverBudget(r)
  <2>1. pc' = [pc EXCEPT ![r] = "ended"] /\ row' = row
    BY <1>3 DEF Reserve, Goto
  <2>2. \A q \in Requests : (AtWork(q)' <=> AtWork(q)) /\ (Pending(q)' <=> Pending(q))
    BY <1>1, <1>2, <2>1 DEF AtWork, Pending, TypeOK
  <2>3. \A q \in Requests : Weight(q)' = Weight(q) /\ Weight(q) \in Nat
    BY <1>1, <1>2, <2>2, WeightsTyped DEF Weight
  <2>4. \A q \in Requests : Weight(q)' <= Weight(q)
    BY <2>3
  <2>5. ceiling # NoLimit => ceiling <= ceiling /\ limit # NoLimit /\ limit <= ceiling
    BY <1>1, QuotaAssumption DEF LimitInv, TypeOK
  <2> HIDE DEF AtWork, Pending, Weight
  <2> QED BY <1>1, <1>2, <2>2, <2>4, <2>5, NobodyHeavier
<1>4. CASE ~OverBudget(r) /\ ceiling # NoLimit
  <2> DEFINE used == [q \in Requests |-> inserted[q] + (IF Pending(q) THEN Estimate[kind[q]]
                                                        ELSE row[q].cost)]
             V == Weights'
             n == Estimate[kind[r]]
  <2>1. limit # NoLimit /\ limit <= ceiling /\ limit \in Nat /\ ceiling \in Nat
    BY <1>1, <1>4, QuotaAssumption DEF LimitInv, TypeOK
  <2>2. /\ \E next \in {"calling", "analysing"} : pc' = [pc EXCEPT ![r] = next]
        /\ row' = [row EXCEPT ![r].status = "pending"]
    BY <1>4, <2>1 DEF Reserve, Goto
  <2>3. /\ \A q \in Requests \ {r} : (AtWork(q)' <=> AtWork(q)) /\ (Pending(q)' <=> Pending(q))
        /\ AtWork(r)' /\ Pending(r)'
    BY <1>1, <2>2 DEF AtWork, Pending, TypeOK
  <2>4. used \in [Requests -> Nat] /\ \A q \in Requests : Weight(q) <= used[q]
    BY <1>2, <1>4, WeightIsUsed
  <2>5. V \in [Requests -> Nat] /\ \A q \in Requests : V[q] = Weight(q)'
    BY <1>1, WeightsTypedAfter
  <2>6. \A q \in Requests \ {r} : V[q] <= used[q]
    BY <1>2, <2>3, <2>4, <2>5 DEF Weight
  <2>7. n \in Nat /\ V[r] <= used[r] + n
    <3>1. n \in Nat
      BY <1>1, QuotaAssumption DEF TypeOK
    <3>2. V[r] <= n
      BY <1>2, <2>3, <2>5, <3>1 DEF Weight
    <3>3. used[r] \in Nat /\ V[r] \in Nat
      BY <2>4, <2>5
    <3> HIDE DEF used, V, n
    <3> QED BY <3>1, <3>2, <3>3
  <2>8. Used = SumFunction(used)
    BY DEF Used
  <2>9. ~(Used + n > limit)
    BY <1>4, <2>1 DEF OverBudget
  <2> HIDE DEF used, V, n
  <2>10. /\ SumFunction(V) \in Nat /\ SumFunction(used) \in Nat
         /\ SumFunction(V) <= SumFunction(used) + n
    BY <2>4, <2>5, <2>6, <2>7, SumBound, QuotaAssumption
  <2>11. SumFunction(V) <= ceiling
    <3> HIDE DEF Used
    <3> QED BY <2>1, <2>7, <2>8, <2>9, <2>10
  <2>12. SumFunction(Weights)' = SumFunction(V)
    BY DEF V, SumFunction, SumFunctionOnSet, FoldFunctionOnSet, MapThenFoldSet
  <2>13. \A q \in Requests : AtWork(q)' => (q \in exposed \/ Pending(q))'
    BY <1>2, <1>4, <2>3 DEF LimitInv
  <2> HIDE DEF AtWork, Pending, Weights, Weight
  <2> QED BY <1>2, <2>1, <2>11, <2>12, <2>13 DEF LimitInv
<1>5. CASE ceiling = NoLimit
  BY <1>2, <1>5 DEF LimitInv
<1> QED BY <1>3, <1>4, <1>5

\* A call that ends has been set down for its estimate, and is from then on for
\* what it has cost within it.
LEMMA WorkWithin ==
  ASSUME QuotaInv, LimitInv, NEW r \in Requests, Work(r), TypeOK'
  PROVE  LimitInv'
<1>1. /\ UNCHANGED <<limit, kind, row, ceiling, unseen, exposed>>
      /\ AtWork(r)
      /\ \E next : pc' = [pc EXCEPT ![r] = next]
      /\ \A q \in Requests \ {r} : spent'[q] = spent[q]
  <2>1. \A c : Spend(r, c) => \A q \in Requests \ {r} : spent'[q] = spent[q]
    BY DEF Spend, QuotaInv, TypeOK
  <2>2. CASE SingleAnswers(r) \/ SingleFails(r)
    BY <2>1, <2>2 DEF SingleAnswers, SingleFails, Goto, table, ghosts, AtWork
  <2>3. CASE AnalystAnswers(r) \/ AnalystFails(r)
    BY <2>1, <2>3 DEF AnalystAnswers, AnalystFails, Goto, table, ghosts, AtWork
  <2>4. CASE JudgeEnds(r) \/ StreamEnds(r)
    BY <2>1, <2>4 DEF JudgeEnds, StreamEnds, Goto, table, ghosts, AtWork
  <2> QED BY <2>2, <2>3, <2>4 DEF Work
<1>2. \A q \in Requests : (AtWork(q)' => AtWork(q)) /\ (Pending(q)' <=> Pending(q))
  BY <1>1 DEF AtWork, Pending, QuotaInv, TypeOK
<1>3. \A q \in Requests \ {r} : Weight(q)' = Weight(q)
  BY <1>1 DEF Weight, AtWork, QuotaInv, TypeOK
<1>4. Estimate[kind[r]] \in Nat /\ spent'[r] \in Nat
  BY QuotaAssumption DEF QuotaInv, TypeOK
<1>5. Weight(r)' <= Weight(r)
  BY <1>1, <1>4 DEF Weight, Smaller
<1>6. \A q \in Requests : Weight(q) \in Nat
  BY WeightsTyped DEF QuotaInv
<1>7. \A q \in Requests : Weight(q)' <= Weight(q)
  BY <1>3, <1>5, <1>6
<1>8. TypeOK
  BY DEF QuotaInv
<1>9. ceiling' # NoLimit => /\ ceiling # NoLimit /\ ceiling <= ceiling'
                            /\ limit' # NoLimit /\ limit' <= ceiling'
  <2>1. ceiling # NoLimit => limit # NoLimit /\ limit <= ceiling /\ ceiling \in Nat
    BY <1>8, QuotaAssumption DEF LimitInv, TypeOK
  <2> QED BY <1>1, <2>1
<1>10. \A q \in Requests :
         AtWork(q)' => /\ AtWork(q)
                       /\ q \in exposed => q \in exposed'
                       /\ Pending(q) => q \in exposed' \/ Pending(q)'
  BY <1>1, <1>2
<1> QED BY <1>7, <1>8, <1>9, <1>10, NobodyHeavier

\* What is written afterwards settles reservations of requests that have ended.
LEMMA WriteWithin ==
  ASSUME QuotaInv, LimitInv, Write, TypeOK'
  PROVE  LimitInv'
<1>1. /\ UNCHANGED <<limit, pc, kind, spent, ceiling, exposed>>
      /\ unseen \subseteq unseen'
  BY DEF Write, WriteRecord, WriteRelease, WriteFails, ghosts
<1>2. \A q \in Requests : AtWork(q) /\ Pending(q) => Pending(q)'
  <2>1. micro # <<>> => micro[1] \in Writes /\ 1 \in 1..Len(micro) /\ Head(micro) = micro[1]
    BY DEF QuotaInv, TypeOK
  <2>2. CASE WriteRecord
    <3> DEFINE w == Head(micro)
    <3>1. /\ w.req \in Requests
          /\ row' # row => /\ kind[w.req] = "single"
                           /\ \E x : row' = [row EXCEPT ![w.req] = x]
      BY <2>1, <2>2, FieldFacts DEF WriteRecord, Idle, Confirm, Insert
    <3>2. row' # row => pc[w.req] = "ended"
      BY <2>1, <2>2, <3>1 DEF WriteRecord, Idle, QuotaInv, Settling
    <3> QED BY <3>1, <3>2 DEF AtWork, Pending, QuotaInv, TypeOK
  <2>3. CASE WriteRelease
    <3> DEFINE w == Head(micro)
    <3>1. /\ w.req \in Requests
          /\ row' # row => \E x : row' = [row EXCEPT ![w.req] = x]
      BY <2>1, <2>3, FieldFacts DEF WriteRelease, Idle
    <3>2. pc[w.req] = "ended"
      BY <2>1, <2>3 DEF WriteRelease, Idle, QuotaInv, Settling
    <3> QED BY <3>1, <3>2 DEF AtWork, Pending, QuotaInv, TypeOK
  <2>4. CASE WriteFails
    BY <2>4 DEF WriteFails, table, Pending
  <2> QED BY <2>2, <2>3, <2>4 DEF Write
<1>3. \A q \in Requests : AtWork(q)' <=> AtWork(q)
  BY <1>1 DEF AtWork
<1>4. \A q \in Requests : Weight(q)' <= Weight(q)
  BY <1>1, WeightsTyped DEF Weight, QuotaInv, AtWork
<1> QED BY <1>1, <1>2, <1>3, <1>4, NobodyHeavier, QuotaAssumption DEF LimitInv, QuotaInv, TypeOK

\* An admin's change can only raise the ceiling; time, purges and crashes only
\* take weight off.
LEMMA WorldWithin ==
  ASSUME QuotaInv, LimitInv, TypeOK',
         Purge \/ SetLimit \/ Crash \/ (\E r \in Requests : Guard(r) \/ Refuse(r) \/ Expire(r))
  PROVE  LimitInv'
<1>0. \A q \in Requests : Estimate[kind[q]] \in Nat /\ spent[q] \in Nat
  BY QuotaAssumption DEF QuotaInv, TypeOK
<1>1. CASE Purge
  <2>1. /\ UNCHANGED <<limit, pc, kind, spent, ceiling, unseen>>
        /\ \A q \in Requests : q \notin old => row'[q] = row[q]
        /\ exposed' = exposed \cup {q \in old : AtWork(q)}
    BY <1>1 DEF Purge
  <2>2. \A q \in Requests : Weight(q)' <= Weight(q)
    BY <1>0, <2>1 DEF Weight, AtWork, Smaller
  <2>3. \A q \in Requests : AtWork(q)' =>
           AtWork(q) /\ (Pending(q) => q \in exposed' \/ Pending(q)')
    BY <2>1 DEF AtWork, Pending
  <2> QED BY <2>1, <2>2, <2>3, NobodyHeavier, QuotaAssumption DEF LimitInv, QuotaInv, TypeOK
<1>2. CASE SetLimit
  <2>1. /\ UNCHANGED <<pc, kind, row, spent, unseen, exposed>>
        /\ limit' \in Limits \cup {NoLimit}
        /\ ceiling' = IF NoLimit \in {ceiling, limit'} THEN NoLimit
                      ELSE IF limit' > ceiling THEN limit' ELSE ceiling
    BY <1>2 DEF SetLimit, table
  <2>2. ceiling' # NoLimit => /\ ceiling # NoLimit /\ ceiling <= ceiling'
                              /\ limit' # NoLimit /\ limit' <= ceiling'
    BY <2>1, QuotaAssumption DEF QuotaInv, TypeOK
  <2>3. \A q \in Requests : Weight(q)' <= Weight(q)
    BY <1>0, <2>1 DEF Weight, AtWork, Smaller
  <2>4. \A q \in Requests : (AtWork(q)' <=> AtWork(q)) /\ (Pending(q)' <=> Pending(q))
    BY <2>1 DEF AtWork, Pending
  <2> QED BY <2>1, <2>2, <2>3, <2>4, NobodyHeavier DEF QuotaInv
<1>3. CASE Crash
  <2>1. /\ UNCHANGED <<limit, kind, row, spent, ceiling, unseen, exposed>>
        /\ pc' = [r \in Requests |-> IF AtWork(r) THEN "lost" ELSE pc[r]]
    BY <1>3 DEF Crash, table, ghosts
  <2>2. \A q \in Requests : ~AtWork(q)'
    BY <2>1 DEF AtWork
  <2>3. \A q \in Requests : Weight(q)' <= Weight(q)
    BY <1>0, <2>1, <2>2 DEF Weight, Smaller
  <2> QED BY <2>1, <2>2, <2>3, NobodyHeavier, QuotaAssumption DEF LimitInv, QuotaInv, TypeOK
<1>4. ASSUME NEW r \in Requests, Guard(r) \/ Refuse(r) \/ Expire(r) PROVE LimitInv'
  <2>1. UNCHANGED <<limit, kind, row, spent, ceiling, unseen, exposed>>
    BY <1>4 DEF Guard, Refuse, Expire, table, ghosts
  <2>2. \A q \in Requests : AtWork(q)' <=> AtWork(q)
    BY <1>4 DEF Guard, Refuse, Expire, Goto, AtWork, QuotaInv, TypeOK
  <2>3. \A q \in Requests : Weight(q)' <= Weight(q)
    BY <1>0, <2>1, <2>2 DEF Weight, Smaller
  <2>4. \A q \in Requests : Pending(q)' <=> Pending(q)
    BY <2>1 DEF Pending
  <2>5. ceiling # NoLimit => ceiling <= ceiling /\ limit # NoLimit /\ limit <= ceiling
    BY QuotaAssumption DEF LimitInv, QuotaInv, TypeOK
  <2> HIDE DEF AtWork, Pending, Weight
  <2> QED BY <2>1, <2>2, <2>3, <2>4, <2>5, NobodyHeavier DEF QuotaInv
<1> QED BY <1>1, <1>2, <1>3, <1>4

\* At first nothing weighs anything.
LEMMA InitWithin == Init => LimitInv
<1> SUFFICES ASSUME Init PROVE LimitInv
  OBVIOUS
<1>1. TypeOK
  BY InitQuotaInv DEF QuotaInv
<1>2. Weights \in [Requests -> Nat] /\ \A r \in Requests : Weights[r] = Weight(r)
  BY <1>1, WeightsTyped
<1>3. \A r \in Requests : ~AtWork(r) /\ Weight(r) = 0
  BY <1>1, QuotaAssumption DEF Init, AtWork, Weight, Smaller, TypeOK
<1>4. SumFunction(Weights) = 0
  <2> HIDE DEF Weights
  <2> QED BY <1>2, <1>3, SumOfZeros, QuotaAssumption
<1> QED BY <1>3, <1>4, QuotaAssumption DEF Init, LimitInv

\* What the requests of a user have cost, each up to its estimate, stays within
\* the highest limit there has been, for any number of concurrent requests and
\* whatever they cost (quotaGuard.ts:52-54).
THEOREM SpendWithinLimitHolds == Spec => []SpendWithinLimit
<1>1. QuotaInv /\ LimitInv /\ [Next]_vars => LimitInv'
  <2> SUFFICES ASSUME QuotaInv, LimitInv, [Next]_vars PROVE LimitInv'
    OBVIOUS
  <2>1. TypeOK'
    BY NextKeepsQuotaInv DEF QuotaInv
  <2>2. CASE UNCHANGED vars
    <3>1. \A q \in Requests : Weight(q)' = Weight(q) /\ Weight(q) \in Nat
      BY <2>2, WeightsTyped DEF vars, table, ghosts, Weight, AtWork, QuotaInv
    <3>2. \A q \in Requests : (AtWork(q)' <=> AtWork(q)) /\ (Pending(q)' <=> Pending(q))
      BY <2>2 DEF vars, table, AtWork, Pending
    <3>3. UNCHANGED <<limit, ceiling, exposed>>
      BY <2>2 DEF vars, ghosts
    <3> QED BY <2>1, <3>1, <3>2, <3>3, NobodyHeavier, QuotaAssumption DEF LimitInv, QuotaInv, TypeOK
  <2> QED BY <2>1, <2>2, ReserveWithin, WorkWithin, WriteWithin, WorldWithin DEF Next
<1>2. QuotaInv /\ LimitInv => SpendWithinLimit
  <2> SUFFICES ASSUME QuotaInv, LimitInv, ceiling # NoLimit
               PROVE  SumFunction([r \in Requests |->
                        IF r \in unseen \cup exposed THEN 0
                        ELSE Smaller(spent[r], Estimate[kind[r]])]) <= ceiling
    BY DEF SpendWithinLimit
  <2> DEFINE cost == [r \in Requests |-> IF r \in unseen \cup exposed THEN 0
                                         ELSE Smaller(spent[r], Estimate[kind[r]])]
             W == Weights
  <2>1. W \in [Requests -> Nat] /\ \A r \in Requests : W[r] = Weight(r)
    BY WeightsTyped DEF QuotaInv
  <2>2. \A q \in Requests : Estimate[kind[q]] \in Nat /\ spent[q] \in Nat
    BY QuotaAssumption DEF QuotaInv, TypeOK
  <2>3. cost \in [Requests -> Nat] /\ \A r \in Requests : cost[r] <= Weight(r)
    BY <2>2 DEF Smaller, Weight
  <2>4. SumFunction(W) <= ceiling /\ ceiling \in Nat
    BY QuotaAssumption DEF LimitInv, QuotaInv, TypeOK
  <2> HIDE DEF cost, W
  <2>5. /\ SumFunction(cost) \in Nat /\ SumFunction(W) \in Nat
        /\ SumFunction(cost) <= SumFunction(W)
    BY <2>1, <2>3, SumMono, QuotaAssumption
  <2>6. SumFunction(cost) <= ceiling
    BY <2>4, <2>5
  <2> QED BY <2>6 DEF cost
<1> QED BY <1>1, <1>2, InitWithin, QuotaInvariant, PTL DEF Spec
=============================================================================
