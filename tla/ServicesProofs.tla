---------------------------- MODULE ServicesProofs ----------------------------
(***************************************************************************)
(* Services that share nothing: the breaker before scj.ro, the budget      *)
(* warning, the daily report, the migrations and the RNPM split, which     *)
(* loses no row and is an atomic move.                                     *)
(***************************************************************************)
EXTENDS IccjBreaker, BudgetWarning, DailyReport, Migrations, RnpmSplit, FiniteSums,
        SequenceTheorems, FiniteSetTheorems, TLAPS

(* The breaker.  One probe at a time, whatever calls overlap with it; and     *)
(* tokens alone never open it.                                                *)

CallRecord == [caller : Caller, at : Time, probe : BOOLEAN]

CallsTyped ==
    now \in Time /\ calls \in [Call -> CallRecord \cup {NoCall}] /\ halfOpenProbeInFlight \in BOOLEAN

BreakerInv == CallsTyped /\ ProbeIsAlone

\* A call that begins is a record like the others, and nobody else's changes.
LEMMA BeginAdds ==
  ASSUME CallsTyped, NEW c \in Call, NEW k \in Caller, NEW b \in BOOLEAN, Begin(c, k, b)
  PROVE  /\ calls' \in [Call -> CallRecord \cup {NoCall}]
         /\ calls'[c] # NoCall /\ calls'[c].probe = b
         /\ \A d \in Call \ {c} : calls'[d] = calls[d]
<1>1. [caller |-> k, at |-> now, probe |-> b] \in CallRecord
  BY DEF CallsTyped, CallRecord
<1>2. [caller |-> k, at |-> now, probe |-> b] # NoCall
  BY <1>1, BreakerAssumption DEF CallRecord, Caller, Time
<1> QED
  BY <1>1, <1>2 DEF Begin, CallsTyped

\* One that ends leaves the others alone.
LEMMA EndsRemoves ==
  ASSUME CallsTyped, NEW c \in Call, NEW b \in BOOLEAN, Ends(c, b)
  PROVE  /\ calls' \in [Call -> CallRecord \cup {NoCall}]
         /\ calls[c] # NoCall /\ calls[c].probe = b /\ calls'[c] = NoCall
         /\ \A d \in Call \ {c} : calls'[d] = calls[d]
BY DEF Ends, CallsTyped

\* Only the end of the probe frees the latch, and only a free latch lets the
\* next one through.
LEMMA BreakerKeeps ==
  ASSUME BreakerInv, [BreakerNext]_breakerVars
  PROVE  BreakerInv'
<1> USE DEF BreakerInv
<1>1. CASE TimePasses30s
  BY <1>1, BreakerAssumption DEF TimePasses30s, CallsTyped, ProbeIsAlone, Time
<1>2. ASSUME NEW k \in Caller, Refuse(k) PROVE BreakerInv'
  BY <1>2 DEF Refuse, CallsTyped, ProbeIsAlone
<1>3. ASSUME NEW k \in Caller, NEW c \in Call, Pass(c, k) PROVE BreakerInv'
  <2>1. /\ calls' \in [Call -> CallRecord \cup {NoCall}]
        /\ calls'[c] # NoCall /\ calls'[c].probe = FALSE
        /\ \A d \in Call \ {c} : calls'[d] = calls[d]
    BY <1>3, BeginAdds DEF Pass
  <2>2. calls[c] = NoCall /\ UNCHANGED <<now, halfOpenProbeInFlight>>
    BY <1>3 DEF Pass
  <2> QED
    BY <2>1, <2>2 DEF CallsTyped, ProbeIsAlone
<1>4. ASSUME NEW c \in Call, Probe(c) PROVE BreakerInv'
  <2>1. /\ calls' \in [Call -> CallRecord \cup {NoCall}]
        /\ calls'[c] # NoCall /\ calls'[c].probe = TRUE
        /\ \A d \in Call \ {c} : calls'[d] = calls[d]
    BY <1>4, BeginAdds DEF Probe, Caller
  <2>2. calls[c] = NoCall /\ ~halfOpenProbeInFlight /\ halfOpenProbeInFlight' = TRUE /\ now' = now
    BY <1>4 DEF Probe, Shut
  <2> QED
    BY <2>1, <2>2 DEF CallsTyped, ProbeIsAlone
<1>5. ASSUME NEW c \in Call, ProbeAnswered(c) \/ ProbeInDistress(c) PROVE BreakerInv'
  <2>1. /\ calls' \in [Call -> CallRecord \cup {NoCall}]
        /\ calls[c] # NoCall /\ calls[c].probe = TRUE /\ calls'[c] = NoCall
        /\ \A d \in Call \ {c} : calls'[d] = calls[d]
    BY <1>5, EndsRemoves DEF ProbeAnswered, ProbeInDistress
  <2>2. halfOpenProbeInFlight' = FALSE /\ now' = now
    BY <1>5 DEF ProbeAnswered, ProbeInDistress
  <2> QED
    BY <2>1, <2>2 DEF CallsTyped, ProbeIsAlone
<1>6. ASSUME NEW c \in Call, CallEnds(c) \/ CallInDistress(c) PROVE BreakerInv'
  <2>1. /\ calls' \in [Call -> CallRecord \cup {NoCall}]
        /\ calls[c] # NoCall /\ calls[c].probe = FALSE /\ calls'[c] = NoCall
        /\ \A d \in Call \ {c} : calls'[d] = calls[d]
    BY <1>6, EndsRemoves DEF CallEnds, CallInDistress
  <2>2. UNCHANGED <<now, halfOpenProbeInFlight>>
    BY <1>6 DEF CallEnds, CallInDistress
  <2> QED
    BY <2>1, <2>2 DEF CallsTyped, ProbeIsAlone
<1>7. CASE UNCHANGED breakerVars
  BY <1>7 DEF breakerVars, CallsTyped, ProbeIsAlone
<1> QED
  BY <1>1, <1>2, <1>3, <1>4, <1>5, <1>6, <1>7 DEF BreakerNext

LEMMA BreakerStarts == BreakerInit => BreakerInv
<1>1. 0 \in Time
  BY BreakerAssumption DEF Time
<1>2. BreakerInit => CallsTyped
  BY <1>1 DEF BreakerInit, CallsTyped
<1>3. BreakerInit => ProbeIsAlone
  BY DEF BreakerInit, ProbeIsAlone
<1> QED BY <1>2, <1>3 DEF BreakerInv

\* One probe at a time, and the latch is set exactly as long as it is under way
\* (iccjBreaker.ts:62-83).
THEOREM ProbeIsAloneHolds == BreakerSpec => []ProbeIsAlone
<1>1. BreakerInit => BreakerInv
  BY BreakerStarts
<1>2. BreakerInv /\ [BreakerNext]_breakerVars => BreakerInv'
  BY BreakerKeeps
<1>3. BreakerInv => ProbeIsAlone
  BY DEF BreakerInv
<1> QED
  BY <1>1, <1>2, <1>3, PTL DEF BreakerSpec

\* Until a call of the system's has failed, all that is counted is of tokens,
\* and the breaker is closed.
PatInv ==
    /\ failures \in [Caller -> [Time -> Nat]]
    /\ ~blamed => openedAt = NoCall /\ \A t \in Time : failures["system"][t] = 0

LEMMA MinFacts ==
  ASSUME NEW a \in Nat, NEW b \in Nat
  PROVE  Min({a, b}) \in {a, b} /\ Min({a, b}) <= a /\ Min({a, b}) <= b
<1>1. \E x \in {a, b} : \A y \in {a, b} : x <= y
  <2>1. a <= b \/ b <= a
    OBVIOUS
  <2> QED BY <2>1
<1>2. Min({a, b}) \in {a, b} /\ \A y \in {a, b} : Min({a, b}) <= y
  BY <1>1 DEF Min
<1> QED BY <1>2

LEMMA TimeIsFinite == IsFiniteSet(Time) /\ 0 \in Time
BY FS_Interval, BreakerAssumption DEF Time

\* Tokens stay a point below the threshold, however many they are.
LEMMA PatScore ==
  ASSUME NEW f \in [Caller -> [Time -> Nat]], \A t \in Time : f["system"][t] = 0
  PROVE  ~(TotalScore(f) >= Full)
<1>1. f["system"] \in [Time -> Nat] /\ f["pat"] \in [Time -> Nat]
  BY DEF Caller
<1>2. SumFunction(f["system"]) = 0
  BY <1>1, TimeIsFinite, SumOfZeros
<1>3. SumFunction(f["pat"]) \in Nat
  <2>1. \A t \in Time : f["pat"][t] <= f["pat"][t]
    BY <1>1
  <2> QED BY <1>1, <2>1, TimeIsFinite, SumMono
<1>4. Score(f, "system") = 0 /\ Score(f, "pat") \in Nat
  <2>1. Score(f, "system") = 4 * SumFunction(f["system"]) /\ Score(f, "pat") = 1 * SumFunction(f["pat"])
    BY DEF Score, Weight
  <2> QED BY <1>2, <1>3, <2>1
<1>5. Full \in Nat /\ Full - 4 \in Nat
  BY BreakerAssumption DEF Full
<1>6. Min({Score(f, "pat"), Full - 4}) \in Nat /\ Min({Score(f, "pat"), Full - 4}) <= Full - 4
  BY <1>4, <1>5, MinFacts
<1>7. TotalScore(f) = 0 + Min({Score(f, "pat"), Full - 4})
  BY <1>4 DEF TotalScore
<1> QED BY <1>5, <1>6, <1>7

LEMMA CountedTyped ==
  ASSUME PatInv, NEW k \in Caller, NEW t \in Time
  PROVE  /\ Counted(k, t) \in [Caller -> [Time -> Nat]]
         /\ k = "pat" => Counted(k, t)["system"] = failures["system"]
<1>1. failures[k][t] + 1 \in Nat /\ (IF k = "pat" THEN Full - 4 ELSE Threshold) \in Nat
  BY BreakerAssumption DEF PatInv, Full
<1>2. \A a, b \in Nat : Min({a, b}) \in Nat
  BY MinFacts
<1>3. Min({failures[k][t] + 1, IF k = "pat" THEN Full - 4 ELSE Threshold}) \in Nat
  BY <1>1, <1>2
<1> QED BY <1>3 DEF Counted, PatInv, Caller

LEMMA PatKeeps ==
  ASSUME CallsTyped, PatInv, [BreakerNext]_breakerVars
  PROVE  PatInv'
<1>1. ASSUME failures' = Recent, UNCHANGED <<openedAt, blamed>> PROVE PatInv'
  BY <1>1 DEF Recent, PatInv, Caller
<1>2. ASSUME NEW c \in Call, ProbeAnswered(c) \/ ProbeInDistress(c) PROVE PatInv'
  <2>1. /\ NoFailures \in [Caller -> [Time -> Nat]]
        /\ \A t \in Time : NoFailures["system"][t] = 0
    BY DEF NoFailures, Caller
  <2> QED BY <1>2, <2>1 DEF ProbeAnswered, ProbeInDistress, PatInv
<1>3. ASSUME NEW c \in Call, CallInDistress(c) PROVE PatInv'
  <2>1. calls[c].caller \in Caller /\ calls[c].at \in Time
    BY <1>3 DEF CallInDistress, Ends, CallsTyped, CallRecord
  <2>2. /\ failures' \in [Caller -> [Time -> Nat]]
        /\ calls[c].caller = "pat" => failures'["system"] = failures["system"]
    BY <1>3, <2>1, CountedTyped DEF CallInDistress
  <2>3. SUFFICES ASSUME ~blamed'
                 PROVE  openedAt' = NoCall /\ \A t \in Time : failures'["system"][t] = 0
    BY <2>2 DEF PatInv
  <2>4. ~blamed /\ calls[c].caller = "pat"
    BY <1>3, <2>1, <2>3 DEF CallInDistress, Caller
  <2>5. openedAt = NoCall /\ \A t \in Time : failures'["system"][t] = 0
    BY <2>2, <2>4 DEF PatInv
  <2>6. ~(TotalScore(failures') >= Full)
    BY <2>2, <2>5, PatScore
  <2> QED BY <1>3, <2>5, <2>6 DEF CallInDistress
<1>4. ASSUME UNCHANGED <<failures, openedAt, blamed>> PROVE PatInv'
  BY <1>4 DEF PatInv
<1>5. ASSUME NEW k \in Caller, NEW c \in Call, Refuse(k) \/ Pass(c, k) \/ Probe(c)
      PROVE  PatInv'
  BY <1>1, <1>5 DEF Refuse, Pass, Probe
<1>6. ASSUME NEW k \in Caller, Refuse(k) PROVE PatInv'
  BY <1>1, <1>6 DEF Refuse
<1>7. ASSUME NEW c \in Call, Probe(c) PROVE PatInv'
  BY <1>1, <1>7 DEF Probe
<1>8. ASSUME NEW c \in Call, CallEnds(c) PROVE PatInv'
  BY <1>4, <1>8 DEF CallEnds
<1>9. CASE TimePasses30s
  BY <1>4, <1>9 DEF TimePasses30s
<1>10. CASE UNCHANGED breakerVars
  BY <1>4, <1>10 DEF breakerVars
<1> QED
  BY <1>2, <1>3, <1>5, <1>6, <1>7, <1>8, <1>9, <1>10 DEF BreakerNext

\* Tokens alone never shut out anybody: an open breaker has seen the system's
\* own calls fail, for any threshold and any calls (iccjBreaker.ts:6, 92-97).
THEOREM PatAloneNeverOpensHolds == BreakerSpec => []PatAloneNeverOpens
<1>1. BreakerInit => BreakerInv /\ PatInv
  BY BreakerStarts, TimeIsFinite DEF BreakerInit, PatInv, NoFailures, Caller
<1>2. BreakerInv /\ PatInv /\ [BreakerNext]_breakerVars => (BreakerInv /\ PatInv)'
  BY BreakerKeeps, PatKeeps DEF BreakerInv
<1>3. PatInv => PatAloneNeverOpens
  BY DEF PatInv, PatAloneNeverOpens
<1> QED
  BY <1>1, <1>2, <1>3, PTL DEF BreakerSpec

-----------------------------------------------------------------------------
(* The budget warning.  The excuses of an episode cover its mails but one as  *)
(* long as a mail is under way or the episode cannot be told again, and all   *)
(* of them whenever the next attempt would be the only one.                   *)

\* What the server took and what is under way, against the excuses.
Excused ==
    /\ \A e \in Episodes : accepted[e] + sends[e] <= 1 + excuses[e]
    /\ episode \in Episodes /\ row.active /\ ~row.sent /\ sends[episode] = 0 =>
          accepted[episode] <= excuses[episode]

\* What is to come is untouched, and the row counts at least what was tried.
Numbered ==
    /\ \A e \in Episodes : e > episode => sends[e] = 0 /\ tried[e] = 0 /\ accepted[e] = 0
    /\ \A e \in Episodes : tried[e] <= MaxAttempts
    /\ episode \in Episodes => tried[episode] <= row.attempts
    /\ row.active => episode \in Episodes

BudgetInv == BudgetTypeOK /\ Excused /\ Numbered

\* Adding to one count leaves the others.
LEMMA CountFacts ==
  ASSUME NEW f \in [Episodes -> Nat], NEW e \in Episodes, NEW n \in {0, 1}
  PROVE  /\ Count(f, e, n) \in [Episodes -> Nat]
         /\ Count(f, e, n)[e] = f[e] + n
         /\ \A d \in Episodes \ {e} : Count(f, e, n)[d] = f[d]
BY DEF Count

\* The types, one by one.
LEMMA BudgetTypes ==
  ASSUME BudgetTypeOK
  PROVE  /\ {sends, tried, accepted, excuses} \subseteq [Episodes -> Nat]
         /\ \A e \in Episodes : /\ sends[e] \in Nat /\ tried[e] \in Nat
                                /\ accepted[e] \in Nat /\ excuses[e] \in Nat /\ e \in Nat
         /\ episode \in Nat /\ MaxEpisodes \in Nat
         /\ row.active \in BOOLEAN /\ row.sent \in BOOLEAN /\ row.attempts \in Nat
BY BudgetAssumption DEF BudgetTypeOK, Episodes

\* The row, the age and the mails of an attempt for the episode e.
LEMMA Attempted ==
  ASSUME BudgetInv, NEW e \in Episodes, Attempt(e),
         e = episode \/ e = episode + 1, episode' = e, row'.active, ~row'.sent,
         row' \in [active : BOOLEAN, sent : BOOLEAN, attempts : Nat],
         row'.attempts = row.attempts + 1,
         e = episode => row.active /\ ~row.sent /\ row.attempts < MaxAttempts,
         UNCHANGED accepted
  PROVE  BudgetInv'
<1> USE DEF BudgetInv
<1>1. PICK n \in {0, 1} : /\ sends' = Count(sends, e, n)
                          /\ excuses' = IF sends[e] = 0 THEN excuses ELSE Count(excuses, e, n)
  BY DEF Attempt
<1>2. /\ \A d \in Episodes : /\ sends[d] \in Nat /\ tried[d] \in Nat /\ accepted[d] \in Nat
                             /\ excuses[d] \in Nat /\ d \in Nat
      /\ episode \in Nat /\ row.attempts \in Nat /\ MaxEpisodes \in Nat
  BY BudgetTypes
<1>3. /\ sends' \in [Episodes -> Nat] /\ sends'[e] = sends[e] + n
      /\ \A d \in Episodes \ {e} : sends'[d] = sends[d]
  BY <1>1, CountFacts DEF BudgetTypeOK
<1>4. /\ tried' \in [Episodes -> Nat] /\ tried'[e] = tried[e] + 1
      /\ \A d \in Episodes \ {e} : tried'[d] = tried[d]
  BY CountFacts DEF BudgetTypeOK, Attempt
<1>5. /\ excuses' \in [Episodes -> Nat]
      /\ excuses'[e] = IF sends[e] = 0 THEN excuses[e] ELSE excuses[e] + n
      /\ \A d \in Episodes \ {e} : excuses'[d] = excuses[d]
  BY <1>1, CountFacts DEF BudgetTypeOK
<1>6. BudgetTypeOK'
  <2>1. e \in 0..MaxEpisodes /\ age' = "fresh"
    BY <1>2 DEF Attempt, Episodes
  <2> QED BY <1>3, <1>4, <1>5, <2>1 DEF BudgetTypeOK
<1>7. sends[e] = 0 => accepted[e] <= excuses[e]
  <2>1. CASE e = episode
    BY <2>1 DEF Excused
  <2>2. CASE e = episode + 1
    <3>1. e > episode
      BY <1>2, <2>2
    <3> QED BY <1>2, <3>1 DEF Numbered
  <2> QED BY <2>1, <2>2
<1>8. Excused'
  <2>1. accepted[e] + sends'[e] <= 1 + excuses'[e]
    <3>1. accepted[e] + sends[e] <= 1 + excuses[e]
      BY DEF Excused
    <3> QED BY <1>2, <1>3, <1>5, <1>7, <3>1
  <2>2. sends'[e] = 0 => accepted[e] <= excuses'[e]
    BY <1>2, <1>3, <1>5, <1>7
  <2> QED BY <1>3, <1>5, <2>1, <2>2 DEF Excused
<1>9. Numbered'
  <2>1. tried'[e] <= MaxAttempts /\ tried'[e] <= row'.attempts
    <3>1. CASE e = episode
      BY <1>2, <1>4, <3>1 DEF Numbered, MaxAttempts
    <3>2. CASE e = episode + 1
      <4>1. tried[e] = 0
        BY <1>2, <3>2 DEF Numbered
      <4> QED BY <1>2, <1>4, <4>1 DEF MaxAttempts
    <3> QED BY <3>1, <3>2
  <2>2. \A d \in Episodes : d > e => d > episode /\ d # e
    BY <1>2
  <2>3. \A d \in Episodes : d > episode' => sends'[d] = 0 /\ tried'[d] = 0 /\ accepted'[d] = 0
    BY <1>3, <1>4, <2>2 DEF Numbered
  <2>4. \A d \in Episodes : tried'[d] <= MaxAttempts
    BY <1>4, <2>1 DEF Numbered
  <2> QED BY <2>1, <2>3, <2>4 DEF Numbered
<1> QED BY <1>6, <1>8, <1>9

\* A mail that ends: it was taken and marked, or all that was taken is excused.
LEMMA Ended ==
  ASSUME BudgetInv, NEW e \in Episodes, MailEnds(e), NEW n \in {0, 1}, NEW x \in {0, 1},
         accepted' = Count(accepted, e, n), excuses' = Count(excuses, e, x),
         \/ n = x /\ row' = row
         \/ row' = [row EXCEPT !.sent = row.active],
         UNCHANGED <<age, episode, tried>>
  PROVE  BudgetInv'
<1> USE DEF BudgetInv
<1>1. /\ \A d \in Episodes : /\ sends[d] \in Nat /\ accepted[d] \in Nat /\ excuses[d] \in Nat
      /\ sends[e] > 0
  BY BudgetTypes DEF MailEnds
<1>2. /\ sends' \in [Episodes -> Nat] /\ sends'[e] = sends[e] - 1
      /\ \A d \in Episodes \ {e} : sends'[d] = sends[d]
  <2>1. sends' = [sends EXCEPT ![e] = sends[e] - 1] /\ sends[e] - 1 \in Nat
    BY <1>1 DEF MailEnds
  <2> QED BY <2>1 DEF BudgetTypeOK
<1>3. /\ accepted' \in [Episodes -> Nat] /\ accepted'[e] = accepted[e] + n
      /\ \A d \in Episodes \ {e} : accepted'[d] = accepted[d]
  BY CountFacts DEF BudgetTypeOK
<1>4. /\ excuses' \in [Episodes -> Nat] /\ excuses'[e] = excuses[e] + x
      /\ \A d \in Episodes \ {e} : excuses'[d] = excuses[d]
  BY CountFacts DEF BudgetTypeOK
<1>5. /\ row' \in [active : BOOLEAN, sent : BOOLEAN, attempts : Nat]
      /\ row'.active = row.active /\ row'.attempts = row.attempts
      /\ n # x => (row'.active => row'.sent)
      /\ row'.active /\ ~row'.sent => row' = row
  <2>1. row \in [active : BOOLEAN, sent : BOOLEAN, attempts : Nat]
    BY DEF BudgetTypeOK
  <2> QED BY <2>1
<1>6. BudgetTypeOK'
  BY <1>2, <1>3, <1>4, <1>5 DEF BudgetTypeOK
<1>7. Excused'
  <2>1. accepted[e] + sends[e] <= 1 + excuses[e]
    BY DEF Excused
  <2>2. accepted'[e] + sends'[e] <= 1 + excuses'[e]
    BY <1>1, <1>2, <1>3, <1>4, <2>1
  <2>3. n = x /\ sends'[e] = 0 => accepted'[e] <= excuses'[e]
    BY <1>1, <1>2, <1>3, <1>4, <2>1
  <2>4. ASSUME episode \in Episodes, row'.active, ~row'.sent, sends'[episode] = 0
        PROVE  accepted'[episode] <= excuses'[episode]
    <3>1. row.active /\ ~row.sent /\ n = x
      BY <1>5, <2>4
    <3>2. CASE episode = e
      BY <2>3, <2>4, <3>1, <3>2
    <3>3. CASE episode # e
      BY <1>2, <1>3, <1>4, <2>4, <3>1, <3>3 DEF Excused
    <3> QED BY <3>2, <3>3
  <2>5. \A d \in Episodes : accepted'[d] + sends'[d] <= 1 + excuses'[d]
    BY <1>2, <1>3, <1>4, <2>2 DEF Excused
  <2> QED BY <2>4, <2>5 DEF Excused
<1>8. Numbered'
  <2>1. ~(e > episode)
    BY <1>1 DEF Numbered
  <2> QED BY <1>2, <1>3, <1>5, <2>1 DEF Numbered
<1> QED BY <1>6, <1>7, <1>8

LEMMA BudgetKeeps ==
  ASSUME BudgetInv, [BudgetNext]_budgetVars
  PROVE  BudgetInv'
<1> USE DEF BudgetInv
<1>0. episode \in Nat /\ MaxEpisodes \in Nat /\ row \in [active : BOOLEAN, sent : BOOLEAN, attempts : Nat]
  BY BudgetTypes DEF BudgetTypeOK
<1>1. ASSUME Clear, UNCHANGED <<age, episode, sends, tried, accepted, excuses>>
      PROVE  BudgetInv'
  BY <1>0, <1>1 DEF Clear, BudgetTypeOK, Excused, Numbered
<1>2. ASSUME UNCHANGED <<row, episode, sends, tried, accepted, excuses>>,
             age' \in {age, "aged", "old"}
      PROVE  BudgetInv'
  BY <1>2 DEF BudgetTypeOK, Excused, Numbered
<1>3. CASE CheckFires
  <2>1. episode + 1 \in Episodes /\ episode + 1 \in 0..MaxEpisodes
    BY <1>0, <1>3 DEF CheckFires, Episodes
  <2>2. CASE CoolingDown
    <3>1. /\ row' = [row EXCEPT !.active = TRUE, !.sent = FALSE] /\ episode' = episode + 1
          /\ UNCHANGED <<age, sends, tried, accepted, excuses>>
      BY <1>3, <2>2 DEF CheckFires
    <3>2. tried[episode + 1] = 0 /\ accepted[episode + 1] = 0
      BY <1>0, <2>1 DEF Numbered
    <3>3. BudgetTypeOK'
      <4>1. row' \in [active : BOOLEAN, sent : BOOLEAN, attempts : Nat]
        BY <1>0, <3>1
      <4> QED BY <2>1, <3>1, <4>1 DEF BudgetTypeOK
    <3>4. \A d \in Episodes : d > episode + 1 => d > episode
      BY <1>0 DEF Episodes
    <3>5. Excused'
      <4>1. excuses[episode + 1] \in Nat
        BY <2>1, BudgetTypes
      <4> QED BY <3>1, <3>2, <4>1 DEF Excused
    <3>6. Numbered'
      BY <1>0, <2>1, <3>1, <3>2, <3>4 DEF Numbered
    <3> QED BY <3>3, <3>5, <3>6
  <2>3. CASE ~CoolingDown
    <3>1. /\ row' = [active |-> TRUE, sent |-> FALSE, attempts |-> row.attempts + 1]
          /\ episode' = episode + 1 /\ Attempt(episode + 1)
          /\ UNCHANGED accepted
      BY <1>3, <2>3 DEF CheckFires
    <3> QED BY <1>0, <2>1, <3>1, Attempted
  <2> QED BY <2>2, <2>3
<1>4. CASE RetrySends
  <2>1. /\ row' = [row EXCEPT !.attempts = @ + 1] /\ Attempt(episode)
        /\ UNCHANGED <<episode, accepted>>
        /\ row.active /\ ~row.sent /\ row.attempts < MaxAttempts
    BY <1>4 DEF RetrySends, Unmailed
  <2>2. episode \in Episodes
    BY <2>1 DEF Numbered
  <2> QED BY <1>0, <2>1, <2>2, Attempted
<1>5. ASSUME NEW e \in Episodes, MailAccepted(e) PROVE BudgetInv'
  <2>1. MailEnds(e) /\ UNCHANGED <<age, episode, tried>>
    BY <1>5 DEF MailAccepted
  <2>2. CASE row' = [row EXCEPT !.sent = row.active] /\ accepted' = Count(accepted, e, 1)
             /\ UNCHANGED excuses
    <3>1. excuses' = Count(excuses, e, 0)
      BY <2>2, BudgetTypes DEF Count
    <3> QED BY <2>1, <2>2, <3>1, Ended
  <2>3. CASE Untold(e, 1) /\ UNCHANGED row
    BY <2>1, <2>3, Ended DEF Untold
  <2> QED BY <1>5, <2>2, <2>3 DEF MailAccepted
<1>6. ASSUME NEW e \in Episodes, MailFails(e) PROVE BudgetInv'
  <2>1. PICK n \in {0, 1} : Untold(e, n)
    BY <1>6 DEF MailFails
  <2>2. MailEnds(e) /\ UNCHANGED <<row, age, episode, tried>>
    BY <1>6 DEF MailFails
  <2> QED BY <2>1, <2>2, Ended DEF Untold
<1>7. CASE BudgetCrash
  <2>1. PICK n \in [Episodes -> 0..MaxAttempts] :
          /\ \A e \in Episodes : n[e] <= sends[e]
          /\ accepted' = [e \in Episodes |-> accepted[e] + n[e]]
          /\ excuses' = [e \in Episodes |-> excuses[e] + n[e]]
    BY <1>7 DEF BudgetCrash
  <2>2. sends' = [e \in Episodes |-> 0] /\ UNCHANGED <<row, age, episode, tried>>
    BY <1>7 DEF BudgetCrash
  <2>3. \A e \in Episodes : /\ sends[e] \in Nat /\ accepted[e] \in Nat /\ excuses[e] \in Nat
                            /\ n[e] \in Nat /\ n[e] <= sends[e]
                            /\ sends'[e] = 0 /\ accepted'[e] = accepted[e] + n[e]
                            /\ excuses'[e] = excuses[e] + n[e]
    BY <2>1, <2>2, BudgetTypes DEF MaxAttempts
  <2>4. BudgetTypeOK'
    <3>1. accepted' \in [Episodes -> Nat] /\ excuses' \in [Episodes -> Nat]
      BY <2>1, <2>3
    <3> QED BY <2>2, <3>1 DEF BudgetTypeOK
  <2>5. Excused'
    <3>1. \A e \in Episodes : accepted'[e] + sends'[e] <= 1 + excuses'[e]
      BY <2>3 DEF Excused
    <3>2. ASSUME episode \in Episodes, row.active, ~row.sent
          PROVE  accepted'[episode] <= excuses'[episode]
      <4>1. CASE sends[episode] = 0
        BY <2>3, <3>2, <4>1 DEF Excused
      <4>2. CASE sends[episode] > 0
        BY <2>3, <3>2, <4>2 DEF Excused
      <4> QED BY <2>3, <3>2, <4>1, <4>2
    <3> QED BY <2>2, <3>1, <3>2 DEF Excused
  <2>6. Numbered'
    BY <2>2, <2>3 DEF Numbered
  <2> QED BY <2>4, <2>5, <2>6
<1>8. CASE CheckClears \/ RetryClears
  BY <1>1, <1>8 DEF CheckClears, RetryClears
<1>9. CASE CheckSkips \/ Shift \/ Wait \/ UNCHANGED budgetVars
  BY <1>2, <1>9 DEF CheckSkips, Shift, Wait, budgetVars
<1> QED
  BY <1>3, <1>4, <1>5, <1>6, <1>7, <1>8, <1>9 DEF BudgetNext

\* Types, excuses and the numbers of the attempts are inductive together.
THEOREM BudgetInvariant == BudgetSpec => []BudgetInv
<1>1. BudgetInit => BudgetInv
  BY BudgetAssumption DEF BudgetInit, BudgetInv, BudgetTypeOK, Excused, Numbered,
     MaxAttempts, Episodes
<1>2. BudgetInv /\ [BudgetNext]_budgetVars => BudgetInv'
  BY BudgetKeeps
<1> QED BY <1>1, <1>2, PTL DEF BudgetSpec

\* Each mail of an episode beyond the first has its own excuse, a lost or late
\* answer, a failed mark or a death, and four are tried at most, for any number
\* of episodes and troubles and however the times are read (markEmailSent,
\* selectPendingEmailRetries).
THEOREM RepeatsAreExcusedHolds == BudgetSpec => []RepeatsAreExcused
<1>1. BudgetInv => RepeatsAreExcused
  BY BudgetTypes DEF BudgetInv, Excused, Numbered, RepeatsAreExcused
<1> QED BY <1>1, BudgetInvariant, PTL

-----------------------------------------------------------------------------
(* The daily report.                                                          *)

Retrying == [date : 1..MaxDays, attempts : 1..3, due : BOOLEAN]
Ticking == [today : 1..MaxDays, off : BOOLEAN, sending : Owner \cup {NoTick},
            todo : SUBSET Owner]

DailyTyped ==
    /\ day \in 1..MaxDays /\ marked \in [Owner -> 0..MaxDays]
    /\ retry \in [Owner -> Retrying \cup {NoTick}]
    /\ tick \in Ticking \cup {NoTick}
    /\ reports \in [Owner -> [0..MaxDays -> Nat]]
    /\ doubts \in [Owner -> [0..MaxDays -> Nat]]
    /\ open \subseteq Owner \X (0..MaxDays)

\* A report that has been acknowledged and marked.
Sent(o, d) == reports[o][d] > doubts[o][d]

\* Retries are of days that ticks have had; a mail under way is of a retry that
\* is neither out of date nor used up.
Ordered(o) ==
    /\ Armed(o) => retry[o].date <= day
    /\ tick # NoTick /\ Armed(o) => retry[o].date <= tick.today
    /\ tick # NoTick /\ tick.sending = o =>
          o \notin tick.todo /\ (Armed(o) => Current(o) /\ retry[o].attempts < 3)

\* Neither a tick, nor one to come, nor a retry sends a report again.
NotAgain(o) == \A d \in 0..MaxDays : Sent(o, d) =>
    /\ reports[o][d] = doubts[o][d] + 1
    /\ d < day /\ (marked[o] = d + 1 \/ d + 1 < day)
    /\ Armed(o) => retry[o].date # d + 1
    /\ tick # NoTick => d < tick.today
    /\ tick # NoTick /\ tick.today = d + 1 => o \notin tick.todo /\ tick.sending # o

\* NoReportForgotten, of one owner.
Kept(o) == \A d \in 0..MaxDays : <<o, d>> \in open =>
    \/ Armed(o) /\ retry[o].date = d + 1
    \/ tick # NoTick /\ tick.sending = o /\ ReportDay(o) = d
    \/ day > d + 2

Owned(o) == Ordered(o) /\ NotAgain(o) /\ Kept(o)

DailyInv ==
    /\ DailyTyped
    /\ tick # NoTick => tick.today <= day
    /\ \A o \in Owner : Owned(o)

\* What an owner gets more of is in doubt: a mail taken without a mark, or none.
InDoubt(o) ==
    \A d \in 0..MaxDays : \E n \in {0, 1} :
       reports'[o][d] = reports[o][d] + n /\ doubts'[o][d] = doubts[o][d] + n

LEMMA CountsFacts ==
  ASSUME DailyTyped, NEW o \in Owner, NEW d \in 0..MaxDays
  PROVE  reports[o][d] \in Nat /\ doubts[o][d] \in Nat
<1>1. reports[o] \in [0..MaxDays -> Nat] /\ doubts[o] \in [0..MaxDays -> Nat]
  BY DEF DailyTyped
<1> QED BY <1>1

\* It makes no report that is marked, and unmakes none.
LEMMA DoubtFacts ==
  ASSUME DailyTyped, NEW o \in Owner, InDoubt(o), NEW d \in 0..MaxDays
  PROVE  /\ Sent(o, d)' <=> Sent(o, d)
         /\ reports[o][d] = doubts[o][d] + 1 => reports'[o][d] = doubts'[o][d] + 1
<1>1. reports[o][d] \in Nat /\ doubts[o][d] \in Nat
  BY CountsFacts
<1>2. PICK n \in {0, 1} : reports'[o][d] = reports[o][d] + n /\ doubts'[o][d] = doubts[o][d] + n
  BY DEF InDoubt
<1> QED BY <1>1, <1>2 DEF Sent

LEMMA NoMailNoDoubt ==
  ASSUME DailyTyped, NEW o \in Owner, reports'[o] = reports[o], doubts'[o] = doubts[o]
  PROVE  InDoubt(o)
<1> SUFFICES ASSUME NEW d \in 0..MaxDays
             PROVE  reports[o][d] = reports[o][d] + 0 /\ doubts[o][d] = doubts[o][d] + 0
  BY DEF InDoubt
<1> QED BY CountsFacts

\* Adding to the count of the report at work.
LEMMA AddFacts ==
  ASSUME NEW f \in [Owner -> [0..MaxDays -> Nat]], NEW o \in Owner, NEW n \in {0, 1},
         ReportDay(o) \in 0..MaxDays
  PROVE  /\ AddTo(f, o, n) \in [Owner -> [0..MaxDays -> Nat]]
         /\ \A p \in Owner \ {o} : AddTo(f, o, n)[p] = f[p]
         /\ \A d \in 0..MaxDays : d # ReportDay(o) => AddTo(f, o, n)[o][d] = f[o][d]
         /\ AddTo(f, o, n)[o][ReportDay(o)] = f[o][ReportDay(o)] + n
<1> DEFINE r == ReportDay(o)
           g == [f[o] EXCEPT ![r] = f[o][r] + n]
<1>1. f[o] \in [0..MaxDays -> Nat] /\ r \in 0..MaxDays
  OBVIOUS
<1>2. AddTo(f, o, n) = [f EXCEPT ![o] = g]
  BY DEF AddTo
<1> HIDE DEF r
<1>3. f[o][r] \in Nat
  BY <1>1
<1>4. /\ g \in [0..MaxDays -> Nat] /\ g[r] = f[o][r] + n
      /\ \A d \in 0..MaxDays : d # r => g[d] = f[o][d]
  BY <1>1, <1>3
<1> HIDE DEF g
<1> QED BY <1>2, <1>4 DEF r

\* A report that is taken and not marked, or not even taken.
LEMMA UnheardFacts ==
  ASSUME DailyTyped, NEW o \in Owner, NEW n \in {0, 1}, Unheard(o, n),
         ReportDay(o) \in 0..MaxDays
  PROVE  /\ reports' \in [Owner -> [0..MaxDays -> Nat]]
         /\ doubts' \in [Owner -> [0..MaxDays -> Nat]]
         /\ \A p \in Owner : InDoubt(p)
<1>1. /\ reports' = AddTo(reports, o, n) /\ doubts' = AddTo(doubts, o, n)
      /\ reports \in [Owner -> [0..MaxDays -> Nat]] /\ doubts \in [Owner -> [0..MaxDays -> Nat]]
  BY DEF Unheard, DailyTyped
<1>2. /\ reports' \in [Owner -> [0..MaxDays -> Nat]]
      /\ \A p \in Owner \ {o} : reports'[p] = reports[p]
      /\ \A d \in 0..MaxDays : d # ReportDay(o) => reports'[o][d] = reports[o][d]
      /\ reports'[o][ReportDay(o)] = reports[o][ReportDay(o)] + n
  BY <1>1, AddFacts
<1>3. /\ doubts' \in [Owner -> [0..MaxDays -> Nat]]
      /\ \A p \in Owner \ {o} : doubts'[p] = doubts[p]
      /\ \A d \in 0..MaxDays : d # ReportDay(o) => doubts'[o][d] = doubts[o][d]
      /\ doubts'[o][ReportDay(o)] = doubts[o][ReportDay(o)] + n
  BY <1>1, AddFacts
<1>4. ASSUME NEW p \in Owner, p # o PROVE InDoubt(p)
  BY <1>2, <1>3, <1>4, NoMailNoDoubt
<1>5. InDoubt(o)
  <2> SUFFICES ASSUME NEW d \in 0..MaxDays
               PROVE  \E m \in {0, 1} : reports'[o][d] = reports[o][d] + m
                                        /\ doubts'[o][d] = doubts[o][d] + m
    BY DEF InDoubt
  <2>1. CASE d = ReportDay(o)
    BY <1>2, <1>3, <2>1
  <2>2. CASE d # ReportDay(o)
    <3>1. reports'[o][d] = reports[o][d] + 0 /\ doubts'[o][d] = doubts[o][d] + 0
      BY <1>2, <1>3, <2>2, CountsFacts
    <3> QED BY <3>1
  <2> QED BY <2>1, <2>2
<1> QED BY <1>2, <1>3, <1>4, <1>5

LEMMA DayFacts ==
  ASSUME DailyTyped
  PROVE  /\ MaxDays \in Nat /\ day \in Nat /\ day \in 1..MaxDays
         /\ \A d \in 0..MaxDays : d \in Nat
         /\ \A o \in Owner : marked[o] \in Nat
         /\ \A o \in Owner : Armed(o) =>
               /\ retry[o] \in Retrying
               /\ retry[o].date \in 1..MaxDays /\ retry[o].attempts \in 1..3
         /\ tick # NoTick => tick \in Ticking /\ tick.today \in 1..MaxDays
<1>1. MaxDays \in Nat
  BY DailyAssumption
<1>2. \A o \in Owner : Armed(o) => /\ retry[o] \in Retrying
                                   /\ retry[o].date \in 1..MaxDays /\ retry[o].attempts \in 1..3
  BY DEF DailyTyped, Armed, Retrying
<1>3. tick # NoTick => tick \in Ticking /\ tick.today \in 1..MaxDays
  BY DEF DailyTyped, Ticking
<1> QED BY <1>1, <1>2, <1>3 DEF DailyTyped

\* The day an owner's report is anchored in: today, or the day of its retry.
LEMMA AnchorFacts ==
  ASSUME DailyInv, tick # NoTick, NEW o \in Owner
  PROVE  /\ AnchorDay(o) \in 1..tick.today /\ tick.today \in 1..day
         /\ AnchorDay(o) = tick.today \/ (Armed(o) /\ retry[o].date = AnchorDay(o))
         /\ Current(o) => retry[o].date = AnchorDay(o)
         /\ Armed(o) /\ ~Current(o) => retry[o].date < tick.today - 1
         /\ AnchorDay(o) = tick.today => MarkDay(o) = tick.today
         /\ ReportDay(o) = AnchorDay(o) - 1 /\ ReportDay(o) \in 0..MaxDays
         /\ MarkDay(o) \in 0..MaxDays /\ AnchorDay(o) \in 1..MaxDays
<1>1. /\ tick.today \in 1..MaxDays /\ tick.today <= day /\ day \in 1..MaxDays
      /\ MaxDays \in Nat
  BY DayFacts DEF DailyInv
<1>2. Armed(o) => retry[o].date \in 1..MaxDays /\ retry[o].date <= tick.today
  BY DayFacts DEF DailyInv, Owned, Ordered
<1>3. CASE CrossMidnight(o)
  <2>1. /\ Armed(o) /\ retry[o].date = tick.today - 1 /\ Current(o)
        /\ AnchorDay(o) = retry[o].date
        /\ MarkDay(o) = ReportDay(o) /\ ReportDay(o) = AnchorDay(o) - 1
    BY <1>3 DEF AnchorDay, Current, CrossMidnight, MarkDay, ReportDay
  <2> QED BY <1>1, <1>2, <2>1
<1>4. CASE ~CrossMidnight(o)
  <2>1. /\ Armed(o) => retry[o].date # tick.today - 1
        /\ Current(o) <=> Armed(o) /\ retry[o].date = tick.today
        /\ AnchorDay(o) = tick.today /\ MarkDay(o) = tick.today
        /\ ReportDay(o) = tick.today - 1
    BY <1>4 DEF AnchorDay, Current, CrossMidnight, MarkDay, ReportDay
  <2>2. Armed(o) /\ ~Current(o) => retry[o].date < tick.today - 1
    BY <1>1, <1>2, <2>1
  <2>3. /\ tick.today \in 1..tick.today /\ tick.today \in 1..day
        /\ tick.today - 1 \in 0..MaxDays /\ tick.today \in 0..MaxDays
    BY <1>1
  <2> QED BY <1>1, <2>1, <2>2, <2>3
<1> QED BY <1>3, <1>4

\* An owner whose turn it is, or whose mail is under way, has not had that
\* report; and what he has had is of earlier days, so that the mark may change.
LEMMA NotHadYet ==
  ASSUME DailyInv, tick # NoTick, NEW o \in Owner, o \in tick.todo \/ tick.sending = o,
         NEW d \in 0..MaxDays, Sent(o, d)
  PROVE  d + 1 < day /\ d + 1 # AnchorDay(o) /\ d < tick.today /\ tick.today # d + 1
<1>1. /\ d < tick.today /\ tick.today # d + 1
      /\ Armed(o) => retry[o].date # d + 1
  BY DEF DailyInv, Owned, NotAgain
<1>2. MaxDays \in Nat /\ day \in Nat /\ d \in Nat
  BY DayFacts DEF DailyInv
<1>3. tick.today \in 1..day
  BY AnchorFacts
<1>4. AnchorDay(o) = tick.today \/ (Armed(o) /\ retry[o].date = AnchorDay(o))
  BY AnchorFacts
<1> QED BY <1>1, <1>2, <1>3, <1>4

\* An owner of whom a step changes nothing that counts.
Untouched(p) ==
    /\ Armed(p)' <=> Armed(p)
    /\ Armed(p) => /\ retry'[p].date = retry[p].date
                   /\ retry'[p].attempts = retry[p].attempts
    /\ marked'[p] = marked[p] /\ InDoubt(p)
    /\ \A d \in 0..MaxDays : <<p, d>> \in open' => <<p, d>> \in open
    /\ tick' = NoTick <=> tick = NoTick
    /\ tick # NoTick => /\ tick'.today = tick.today
                        /\ p \in tick'.todo => p \in tick.todo
                        /\ tick'.sending = p <=> tick.sending = p

LEMMA UntouchedIsOwned ==
  ASSUME DailyInv, day' \in Nat, day' >= day, NEW p \in Owner, Untouched(p)
  PROVE  Owned(p)'
<1>1. /\ day \in Nat /\ \A d \in 0..MaxDays : d \in Nat
      /\ Armed(p) => retry[p].date \in Nat /\ retry[p].attempts \in Nat
      /\ tick # NoTick => tick.today \in Nat
  BY DayFacts DEF DailyInv
<1>2. Ordered(p) /\ NotAgain(p) /\ Kept(p)
  BY DEF DailyInv, Owned
<1>3. Ordered(p)'
  BY <1>1, <1>2 DEF Ordered, Untouched, Current, CrossMidnight
<1>4. NotAgain(p)'
  <2> SUFFICES ASSUME NEW d \in 0..MaxDays, Sent(p, d)'
               PROVE  /\ reports'[p][d] = doubts'[p][d] + 1
                      /\ d < day' /\ (marked'[p] = d + 1 \/ d + 1 < day')
                      /\ Armed(p)' => retry'[p].date # d + 1
                      /\ tick' # NoTick => d < tick'.today
                      /\ tick' # NoTick /\ tick'.today = d + 1 =>
                            p \notin tick'.todo /\ tick'.sending # p
    BY DEF NotAgain
  <2>1. Sent(p, d)
    BY DoubtFacts DEF DailyInv, Untouched
  <2>2. /\ reports'[p][d] = doubts'[p][d] + 1
        /\ d < day /\ (marked[p] = d + 1 \/ d + 1 < day)
        /\ Armed(p) => retry[p].date # d + 1
        /\ tick # NoTick => d < tick.today
        /\ tick # NoTick /\ tick.today = d + 1 => p \notin tick.todo /\ tick.sending # p
    BY <1>2, <2>1, DoubtFacts DEF NotAgain, DailyInv, Untouched
  <2> QED BY <1>1, <2>2 DEF Untouched
<1>5. Kept(p)'
  <2> SUFFICES ASSUME NEW d \in 0..MaxDays, <<p, d>> \in open'
               PROVE  \/ Armed(p)' /\ retry'[p].date = d + 1
                      \/ tick' # NoTick /\ tick'.sending = p /\ ReportDay(p)' = d
                      \/ day' > d + 2
    BY DEF Kept
  <2>1. \/ Armed(p) /\ retry[p].date = d + 1
        \/ tick # NoTick /\ tick.sending = p /\ ReportDay(p) = d
        \/ day > d + 2
    BY <1>2 DEF Kept, Untouched
  <2>2. tick # NoTick => ReportDay(p)' = ReportDay(p)
    BY DEF ReportDay, AnchorDay, CrossMidnight, Untouched
  <2> QED BY <1>1, <2>1, <2>2 DEF Untouched
<1> QED BY <1>3, <1>4, <1>5 DEF Owned

\* A turn that is over.
LEMMA ServedFacts ==
  ASSUME DailyInv, tick # NoTick, NEW o \in Owner, Served(o)
  PROVE  /\ tick' \in Ticking /\ tick' # NoTick /\ tick'.today = tick.today
         /\ tick'.todo = tick.todo \ {o} /\ tick'.sending = NoTick /\ NoTick # o
<1>1. NoTick \notin Ticking /\ NoTick # o
  BY DailyAssumption DEF Ticking
<1>2. tick \in Ticking
  BY DEF DailyInv, DailyTyped
<1>3. tick' = [tick EXCEPT !.todo = @ \ {o}, !.sending = NoTick]
  BY DEF Served
<1>4. /\ tick' \in Ticking /\ tick'.today = tick.today
      /\ tick'.todo = tick.todo \ {o} /\ tick'.sending = NoTick
  BY <1>2, <1>3 DEF Ticking
<1> QED BY <1>1, <1>4

\* An owner's turn, or his mail's end: he is served and the others are not touched.
TurnOf(o) ==
    /\ tick # NoTick /\ Served(o) /\ day' = day
    /\ o \in tick.todo \/ tick.sending = o
    /\ tick.sending \in {NoTick, o}
    /\ \A p \in Owner \ {o} :
         /\ retry'[p] = retry[p] /\ marked'[p] = marked[p] /\ InDoubt(p)
         /\ \A d \in 0..MaxDays : <<p, d>> \in open' => <<p, d>> \in open

LEMMA TurnKeeps ==
  ASSUME DailyInv, NEW o \in Owner, TurnOf(o), DailyTyped', Owned(o)'
  PROVE  DailyInv'
<1>1. /\ tick' # NoTick /\ tick'.today = tick.today /\ tick # NoTick /\ day' = day
      /\ tick'.todo = tick.todo \ {o} /\ tick'.sending = NoTick
  BY ServedFacts DEF TurnOf
<1>2. ASSUME NEW p \in Owner, p # o PROVE Owned(p)'
  <2>1. p # NoTick
    BY DailyAssumption
  <2>2. Untouched(p)
    BY <1>1, <1>2, <2>1 DEF Untouched, TurnOf, Armed
  <2>3. day' \in Nat /\ day' >= day
    BY <1>1, DayFacts DEF DailyInv
  <2> QED BY <2>2, <2>3, UntouchedIsOwned
<1> QED BY <1>1, <1>2 DEF DailyInv

\* A turn that ends in a mark, with a report or without.
LEMMA MarkedTurn ==
  ASSUME DailyInv, NEW o \in Owner, TurnOf(o), DailyTyped', retry'[o] = NoTick,
         open' = open \ {<<o, ReportDay(o)>>},
         \/ InDoubt(o) /\ marked'[o] \in {marked[o], MarkDay(o)}
         \/ /\ marked'[o] = MarkDay(o) /\ doubts'[o] = doubts[o]
            /\ \A d \in 0..MaxDays : d # ReportDay(o) => reports'[o][d] = reports[o][d]
            /\ reports'[o][ReportDay(o)] = reports[o][ReportDay(o)] + 1
  PROVE  DailyInv'
<1> DEFINE r == ReportDay(o)
<1>1. /\ tick' # NoTick /\ tick'.today = tick.today /\ o # NoTick
      /\ tick'.todo = tick.todo \ {o} /\ tick'.sending = NoTick /\ tick # NoTick
      /\ day' = day /\ ~Armed(o)'
  BY ServedFacts DEF TurnOf, Armed
<1>2. /\ AnchorDay(o) \in 1..tick.today /\ tick.today \in 1..day
      /\ Current(o) => retry[o].date = AnchorDay(o)
      /\ Armed(o) /\ ~Current(o) => retry[o].date < tick.today - 1
      /\ AnchorDay(o) = tick.today => MarkDay(o) = tick.today
      /\ r = AnchorDay(o) - 1 /\ r \in 0..MaxDays
  BY <1>1, AnchorFacts
<1>3. /\ MaxDays \in Nat /\ day \in Nat /\ \A d \in 0..MaxDays : d \in Nat
      /\ \A d \in 0..MaxDays : reports[o][d] \in Nat /\ doubts[o][d] \in Nat
  BY DayFacts, CountsFacts DEF DailyInv
<1>4. \A d \in 0..MaxDays : Sent(o, d) =>
        d + 1 < day /\ d # r /\ d < tick.today /\ tick.today # d + 1
        /\ reports[o][d] = doubts[o][d] + 1
  <2> SUFFICES ASSUME NEW d \in 0..MaxDays, Sent(o, d)
               PROVE  d + 1 < day /\ d # r /\ d < tick.today /\ tick.today # d + 1
                      /\ reports[o][d] = doubts[o][d] + 1
    OBVIOUS
  <2>1. o \in tick.todo \/ tick.sending = o
    BY DEF TurnOf
  <2>2. d + 1 < day /\ d + 1 # AnchorDay(o) /\ d < tick.today /\ tick.today # d + 1
    BY <1>1, <2>1, NotHadYet
  <2>3. reports[o][d] = doubts[o][d] + 1
    BY DEF DailyInv, Owned, NotAgain
  <2> QED BY <1>2, <1>3, <2>2, <2>3
<1>7. \/ InDoubt(o)
      \/ /\ marked'[o] = MarkDay(o) /\ doubts'[o] = doubts[o]
         /\ \A d \in 0..MaxDays : d # r => reports'[o][d] = reports[o][d]
         /\ reports'[o][r] = reports[o][r] + 1
  OBVIOUS
<1>8. open' = open \ {<<o, r>>}
  OBVIOUS
<1>9. DailyInv /\ DailyTyped'
  OBVIOUS
<1> HIDE DEF r
<1>10. Ordered(o)'
  BY <1>1 DEF Ordered
<1>11. NotAgain(o)'
  <2> SUFFICES ASSUME NEW d \in 0..MaxDays, Sent(o, d)'
               PROVE  /\ reports'[o][d] = doubts'[o][d] + 1
                      /\ d < day /\ (marked'[o] = d + 1 \/ d + 1 < day)
                      /\ d < tick.today
    BY <1>1 DEF NotAgain
  <2>1. CASE InDoubt(o)
    <3>1. Sent(o, d) /\ (reports[o][d] = doubts[o][d] + 1 => reports'[o][d] = doubts'[o][d] + 1)
      BY <1>9, <2>1, DoubtFacts DEF DailyInv
    <3> QED BY <1>3, <1>4, <3>1
  <2>2. CASE doubts'[o] = doubts[o] /\ reports'[o][d] = reports[o][d]
    <3>1. Sent(o, d)
      BY <2>2 DEF Sent
    <3> QED BY <1>3, <1>4, <2>2, <3>1
  <2>3. CASE d = r /\ marked'[o] = MarkDay(o) /\ doubts'[o] = doubts[o]
             /\ reports'[o][r] = reports[o][r] + 1
    <3>1. ~Sent(o, r)
      BY <1>2, <1>4
    <3>2. reports'[o][d] = doubts'[o][d] + 1
      BY <1>2, <1>3, <2>3, <3>1 DEF Sent
    <3>3. d < tick.today /\ d < day /\ (MarkDay(o) = d + 1 \/ d + 1 < day)
      BY <1>2, <1>3, <2>3
    <3> QED BY <2>3, <3>2, <3>3
  <2> QED BY <1>7, <2>1, <2>2, <2>3
<1>12. Kept(o)'
  <2> SUFFICES ASSUME NEW d \in 0..MaxDays, <<o, d>> \in open, d # r
               PROVE  day > d + 2
    BY <1>1, <1>8 DEF Kept
  <2>1. \/ Armed(o) /\ retry[o].date = d + 1
        \/ tick.sending = o /\ r = d
        \/ day > d + 2
    BY <1>1, <1>9 DEF DailyInv, Owned, Kept, r
  <2>2. Armed(o) => retry[o].date \in Nat
    BY <1>9, DayFacts DEF DailyInv
  <2> QED BY <1>2, <1>3, <2>1, <2>2
<1> QED BY <1>9, <1>10, <1>11, <1>12, TurnKeeps DEF Owned

\* A turn that ends in a failure: the retry is armed for the day it is of.
LEMMA ArmedIsTyped ==
  ASSUME DailyInv, tick # NoTick, NEW o \in Owner,
         Armed(o) /\ Current(o) => retry[o].attempts < 3
  PROVE  /\ ArmedFor(o, AnchorDay(o)) \in Retrying
         /\ ArmedFor(o, AnchorDay(o)) # NoTick
         /\ ArmedFor(o, AnchorDay(o)).date = AnchorDay(o)
<1>1. AnchorDay(o) \in 1..MaxDays /\ (~Current(o) /\ Armed(o) => retry[o].date # AnchorDay(o))
  <2>1. /\ AnchorDay(o) \in 1..MaxDays /\ tick.today \in 1..day /\ day \in 1..MaxDays
        /\ MaxDays \in Nat
    BY AnchorFacts, DayFacts DEF DailyInv
  <2>2. ~Current(o) /\ Armed(o) => retry[o].date # AnchorDay(o)
    BY DEF AnchorDay, Current
  <2> QED BY <2>1, <2>2
<1>2. Armed(o) => retry[o].attempts \in 1..3
  BY DayFacts DEF DailyInv
<1>3. NoTick \notin Retrying
  BY DailyAssumption DEF Retrying
<1> DEFINE a == AnchorDay(o)
<1>4. a \in 1..MaxDays
  BY <1>1
<1> HIDE DEF a
<1>5. PICK n \in 1..3 : ArmedFor(o, a) = [date |-> a, due |-> FALSE, attempts |-> n]
  <2>1. CASE Armed(o) /\ retry[o].date = a
    <3>1. retry[o].attempts + 1 \in 1..3
      BY <1>1, <1>2, <2>1 DEF a
    <3>2. ArmedFor(o, a) = [date |-> a, due |-> FALSE, attempts |-> retry[o].attempts + 1]
      BY <2>1 DEF ArmedFor
    <3> QED BY <3>1, <3>2
  <2>2. CASE ~(Armed(o) /\ retry[o].date = a)
    <3>1. ArmedFor(o, a) = [date |-> a, due |-> FALSE, attempts |-> 1]
      BY <2>2 DEF ArmedFor
    <3> QED BY <3>1
  <2> QED BY <2>1, <2>2
<1>6. ArmedFor(o, a) \in Retrying /\ ArmedFor(o, a).date = a
  BY <1>4, <1>5 DEF Retrying
<1> QED BY <1>3, <1>6 DEF a

LEMMA FailedTurn ==
  ASSUME DailyInv, NEW o \in Owner, TurnOf(o), DailyTyped',
         Armed(o) /\ Current(o) => retry[o].attempts < 3,
         retry'[o] = ArmedFor(o, AnchorDay(o)), marked'[o] = marked[o],
         InDoubt(o),
         \A d \in 0..MaxDays : d # ReportDay(o) => (<<o, d>> \in open' => <<o, d>> \in open)
  PROVE  DailyInv'
<1>1. /\ tick' # NoTick /\ tick'.today = tick.today /\ o # NoTick
      /\ tick'.todo = tick.todo \ {o} /\ tick'.sending = NoTick /\ tick # NoTick
      /\ day' = day
  BY ServedFacts DEF TurnOf
<1>2. Armed(o)' /\ retry'[o].date = AnchorDay(o)
  BY <1>1, ArmedIsTyped DEF Armed
<1>3. /\ AnchorDay(o) \in 1..tick.today /\ tick.today \in 1..day
      /\ Current(o) => retry[o].date = AnchorDay(o)
      /\ Armed(o) /\ ~Current(o) => retry[o].date < tick.today - 1
      /\ ReportDay(o) = AnchorDay(o) - 1
  BY <1>1, AnchorFacts
<1>4. day \in Nat /\ \A d \in 0..MaxDays : d \in Nat
  BY DayFacts DEF DailyInv
<1>5. Ordered(o)'
  <2>1. AnchorDay(o) <= tick.today /\ AnchorDay(o) <= day
    BY <1>3, <1>4
  <2> QED BY <1>1, <1>2, <2>1 DEF Ordered
<1>6. NotAgain(o)'
  <2> SUFFICES ASSUME NEW d \in 0..MaxDays, Sent(o, d)'
               PROVE  /\ reports'[o][d] = doubts'[o][d] + 1
                      /\ d < day /\ (marked'[o] = d + 1 \/ d + 1 < day)
                      /\ retry'[o].date # d + 1
                      /\ d < tick.today
    BY <1>1 DEF NotAgain
  <2>1. Sent(o, d) /\ (reports[o][d] = doubts[o][d] + 1 => reports'[o][d] = doubts'[o][d] + 1)
    BY DoubtFacts DEF DailyInv
  <2>2. o \in tick.todo \/ tick.sending = o
    BY DEF TurnOf
  <2>3. d + 1 # AnchorDay(o)
    BY <1>1, <2>1, <2>2, NotHadYet
  <2>4. NotAgain(o)
    BY DEF DailyInv, Owned
  <2> QED BY <1>1, <1>2, <2>1, <2>3, <2>4 DEF NotAgain
<1>7. Kept(o)'
  <2> SUFFICES ASSUME NEW d \in 0..MaxDays, <<o, d>> \in open'
               PROVE  retry'[o].date = d + 1 \/ day > d + 2
    BY <1>1, <1>2 DEF Kept
  <2>1. CASE d = ReportDay(o)
    BY <1>2, <1>3, <1>4, <2>1
  <2>2. CASE d # ReportDay(o)
    <3>1. <<o, d>> \in open
      BY <2>2
    <3>2. (Armed(o) /\ retry[o].date = d + 1) \/ day > d + 2
      BY <2>2, <3>1 DEF DailyInv, Owned, Kept
    <3> QED BY <1>2, <1>3, <1>4, <3>2
  <2> QED BY <2>1, <2>2
<1> QED BY <1>5, <1>6, <1>7, TurnKeeps DEF Owned

\* Whose turn it is.
LEMMA TurnFacts ==
  ASSUME DailyInv, NEW o \in Owner, Turn(o) \/ (tick # NoTick /\ tick.sending = o),
         Served(o), UNCHANGED day,
         \A p \in Owner \ {o} :
           /\ retry'[p] = retry[p] /\ marked'[p] = marked[p] /\ InDoubt(p)
           /\ \A d \in 0..MaxDays : <<p, d>> \in open' => <<p, d>> \in open
  PROVE  TurnOf(o) /\ tick' \in Ticking
<1>1. tick # NoTick
  BY DEF Turn
<1> QED BY <1>1, ServedFacts DEF TurnOf, Turn

LEMMA MarkTyped ==
  ASSUME DailyInv, tick # NoTick, NEW o \in Owner, Mark(o)
  PROVE  /\ marked' \in [Owner -> 0..MaxDays] /\ marked'[o] \in {marked[o], MarkDay(o)}
         /\ Marks(o) => marked'[o] = MarkDay(o)
         /\ \A p \in Owner \ {o} : marked'[p] = marked[p]
<1>1. MarkDay(o) \in 0..MaxDays
  BY AnchorFacts
<1>2. marked \in [Owner -> 0..MaxDays]
  BY DEF DailyInv, DailyTyped
<1>3. marked' = [marked EXCEPT ![o] = MarkDay(o)] \/ (~Marks(o) /\ marked' = marked)
  BY DEF Mark, Marks, MarkFails
<1> QED BY <1>1, <1>2, <1>3

LEMMA GiveUpKeeps == ASSUME DailyInv, NEW o \in Owner, GiveUp(o) \/ NoAlerts(o) PROVE DailyInv'
<1>1. /\ Turn(o) /\ Mark(o) /\ Served(o) /\ retry' = Disarmed(o)
      /\ open' = open \ {<<o, ReportDay(o)>>} /\ day' = day
      /\ reports' = reports /\ doubts' = doubts
  BY DEF GiveUp, NoAlerts, MaySend, clock
<1>2. DailyTyped /\ tick # NoTick
  BY <1>1 DEF DailyInv, Turn
<1>3. /\ marked' \in [Owner -> 0..MaxDays] /\ marked'[o] \in {marked[o], MarkDay(o)}
      /\ \A p \in Owner \ {o} : marked'[p] = marked[p]
  BY <1>1, <1>2, MarkTyped
<1>4. /\ retry' \in [Owner -> Retrying \cup {NoTick}] /\ retry'[o] = NoTick
      /\ \A p \in Owner \ {o} : retry'[p] = retry[p]
  BY <1>1, <1>2 DEF Disarmed, DailyTyped
<1>5. \A p \in Owner : InDoubt(p)
  BY <1>1, <1>2, NoMailNoDoubt
<1>6. TurnOf(o) /\ tick' \in Ticking
  BY <1>1, <1>3, <1>4, <1>5, TurnFacts
<1>7. DailyTyped'
  BY <1>1, <1>2, <1>3, <1>4, <1>6 DEF DailyTyped
<1> QED BY <1>1, <1>3, <1>4, <1>5, <1>6, <1>7, MarkedTurn

LEMMA SendOkKeeps == ASSUME DailyInv, NEW o \in Owner, SendOk(o) PROVE DailyInv'
<1>1. /\ tick # NoTick /\ tick.sending = o /\ Served(o) /\ retry' = Disarmed(o)
      /\ open' = open \ {<<o, ReportDay(o)>>} /\ day' = day
      /\ \/ Marks(o) /\ reports' = AddTo(reports, o, 1) /\ doubts' = doubts
         \/ MarkFails /\ Unheard(o, 1)
  BY DEF SendOk, clock
<1>2. DailyTyped /\ ReportDay(o) \in 0..MaxDays
  BY <1>1, AnchorFacts DEF DailyInv
<1>3. /\ marked' \in [Owner -> 0..MaxDays] /\ marked'[o] \in {marked[o], MarkDay(o)}
      /\ Marks(o) => marked'[o] = MarkDay(o)
      /\ \A p \in Owner \ {o} : marked'[p] = marked[p]
  <2>1. Mark(o)
    BY <1>1 DEF Mark
  <2> QED BY <1>1, <2>1, MarkTyped
<1>4. /\ retry' \in [Owner -> Retrying \cup {NoTick}] /\ retry'[o] = NoTick
      /\ \A p \in Owner \ {o} : retry'[p] = retry[p]
  BY <1>1, <1>2 DEF Disarmed, DailyTyped
<1>5. /\ reports' \in [Owner -> [0..MaxDays -> Nat]]
      /\ doubts' \in [Owner -> [0..MaxDays -> Nat]]
      /\ \A p \in Owner \ {o} : InDoubt(p)
      /\ \/ InDoubt(o)
         \/ /\ marked'[o] = MarkDay(o) /\ doubts'[o] = doubts[o]
            /\ \A d \in 0..MaxDays : d # ReportDay(o) => reports'[o][d] = reports[o][d]
            /\ reports'[o][ReportDay(o)] = reports[o][ReportDay(o)] + 1
  <2>1. CASE Marks(o) /\ reports' = AddTo(reports, o, 1) /\ doubts' = doubts
    <3>1. /\ reports' \in [Owner -> [0..MaxDays -> Nat]]
          /\ \A p \in Owner \ {o} : reports'[p] = reports[p]
          /\ \A d \in 0..MaxDays : d # ReportDay(o) => reports'[o][d] = reports[o][d]
          /\ reports'[o][ReportDay(o)] = reports[o][ReportDay(o)] + 1
      <4>1. reports \in [Owner -> [0..MaxDays -> Nat]] /\ 1 \in {0, 1}
        BY <1>2 DEF DailyTyped
      <4> QED BY <1>2, <2>1, <4>1, AddFacts
    <3>2. \A p \in Owner \ {o} : InDoubt(p)
      BY <1>2, <2>1, <3>1, NoMailNoDoubt
    <3>3. doubts' \in [Owner -> [0..MaxDays -> Nat]]
      BY <1>2, <2>1 DEF DailyTyped
    <3> QED BY <1>3, <2>1, <3>1, <3>2, <3>3
  <2>2. CASE Unheard(o, 1)
    BY <1>2, <2>2, UnheardFacts
  <2> QED BY <1>1, <2>1, <2>2
<1>6. TurnOf(o) /\ tick' \in Ticking
  BY <1>1, <1>3, <1>4, <1>5, TurnFacts
<1>7. DailyTyped'
  BY <1>1, <1>2, <1>3, <1>4, <1>5, <1>6 DEF DailyTyped
<1> QED BY <1>1, <1>3, <1>4, <1>5, <1>6, <1>7, MarkedTurn

LEMMA FailureKeeps ==
  ASSUME DailyInv, NEW o \in Owner, ListFails(o) \/ SendFails(o)
  PROVE  DailyInv'
<1>1. /\ Turn(o) \/ (tick # NoTick /\ tick.sending = o)
      /\ Served(o) /\ day' = day /\ marked' = marked
      /\ retry' = [retry EXCEPT ![o] = ArmedFor(o, AnchorDay(o))]
      /\ open' = open \/ open' = open \cup {<<o, ReportDay(o)>>}
      /\ (reports' = reports /\ doubts' = doubts) \/ Unheard(o, 1)
  BY DEF ListFails, SendFails, MaySend, clock
<1>2. DailyTyped /\ tick # NoTick
  BY <1>1 DEF DailyInv, Turn
<1>3. Armed(o) /\ Current(o) => retry[o].attempts < 3
  <2>1. CASE ListFails(o)
    <3>1. Armed(o) => retry[o].attempts \in 1..3
      BY <1>2, DayFacts
    <3> QED BY <2>1, <3>1 DEF ListFails, MaySend, UsedUp, MaxRetryAttempts
  <2>2. CASE SendFails(o)
    BY <2>2 DEF SendFails, DailyInv, Owned, Ordered
  <2> QED BY <2>1, <2>2
<1>4. /\ ArmedFor(o, AnchorDay(o)) \in Retrying
      /\ ReportDay(o) \in 0..MaxDays
  BY <1>2, <1>3, ArmedIsTyped, AnchorFacts
<1>5. /\ retry' \in [Owner -> Retrying \cup {NoTick}]
      /\ retry'[o] = ArmedFor(o, AnchorDay(o))
      /\ \A p \in Owner \ {o} : retry'[p] = retry[p]
  BY <1>1, <1>2, <1>4 DEF DailyTyped
<1>6. /\ \A d \in 0..MaxDays : d # ReportDay(o) => (<<o, d>> \in open' => <<o, d>> \in open)
      /\ \A p \in Owner \ {o}, d \in 0..MaxDays : <<p, d>> \in open' => <<p, d>> \in open
      /\ open' \subseteq Owner \X (0..MaxDays)
  BY <1>1, <1>2, <1>4 DEF DailyTyped
<1>7. /\ reports' \in [Owner -> [0..MaxDays -> Nat]]
      /\ doubts' \in [Owner -> [0..MaxDays -> Nat]]
      /\ \A p \in Owner : InDoubt(p)
  <2>1. CASE reports' = reports /\ doubts' = doubts
    BY <1>2, <2>1, NoMailNoDoubt DEF DailyTyped
  <2>2. CASE Unheard(o, 1)
    BY <1>2, <1>4, <2>2, UnheardFacts
  <2> QED BY <1>1, <2>1, <2>2
<1>8. TurnOf(o) /\ tick' \in Ticking
  BY <1>1, <1>5, <1>6, <1>7, TurnFacts
<1>9. DailyTyped'
  BY <1>1, <1>2, <1>5, <1>6, <1>7, <1>8 DEF DailyTyped
<1> QED BY <1>1, <1>3, <1>5, <1>6, <1>7, <1>8, <1>9, FailedTurn

\* A step that leaves every owner alone.
LEMMA NobodyTouched ==
  ASSUME DailyInv, DailyTyped', day' >= day, tick' # NoTick => tick'.today <= day',
         \A p \in Owner : Untouched(p)
  PROVE  DailyInv'
<1>1. day' \in Nat
  BY DailyAssumption DEF DailyTyped
<1> QED BY <1>1, UntouchedIsOwned DEF DailyInv

LEMMA SkipKeeps == ASSUME DailyInv, NEW o \in Owner, Skip(o) PROVE DailyInv'
<1>1. /\ Turn(o) /\ Served(o) /\ day' = day /\ marked' = marked /\ retry' = retry
      /\ reports' = reports /\ doubts' = doubts /\ open' = open
  BY DEF Skip, clock, dailyGhosts
<1>2. /\ tick # NoTick /\ tick.sending = NoTick /\ tick' \in Ticking /\ tick' # NoTick
      /\ tick'.today = tick.today /\ tick'.todo = tick.todo \ {o} /\ tick'.sending = NoTick
  BY <1>1, ServedFacts DEF Turn
<1>3. DailyTyped'
  BY <1>1, <1>2 DEF DailyInv, DailyTyped
<1>4. \A p \in Owner : Untouched(p)
  <2>1. \A p \in Owner : InDoubt(p)
    BY <1>1, NoMailNoDoubt DEF DailyInv
  <2> QED BY <1>1, <1>2, <2>1 DEF Untouched, Armed
<1>5. day' >= day /\ tick'.today <= day'
  BY <1>1, <1>2, DayFacts DEF DailyInv
<1> QED BY <1>3, <1>4, <1>5, NobodyTouched

\* A mail that is begun: of a day that was not reported, with a retry of that
\* day or none.
LEMMA SendBeginsKeeps == ASSUME DailyInv, NEW o \in Owner, SendBegins(o) PROVE DailyInv'
<1>1. /\ Turn(o) /\ ~UsedUp(o) /\ day' = day /\ marked' = marked
      /\ reports' = reports /\ doubts' = doubts
      /\ tick' = [tick EXCEPT !.todo = @ \ {o}, !.sending = o]
      /\ open' = open \cup {<<o, ReportDay(o)>>}
      /\ retry' = IF Current(o) THEN retry ELSE Disarmed(o)
  BY DEF SendBegins, MaySend, clock
<1>2. /\ DailyTyped /\ tick # NoTick /\ tick.sending = NoTick /\ o \in tick.todo
      /\ NoTick \notin Ticking /\ NoTick \notin Owner
  BY <1>1, DailyAssumption DEF DailyInv, Turn, Ticking
<1>3. /\ tick' \in Ticking /\ tick'.today = tick.today
      /\ tick'.todo = tick.todo \ {o} /\ tick'.sending = o
  <2>1. tick \in Ticking
    BY <1>2 DEF DailyTyped
  <2> QED BY <1>1, <2>1 DEF Ticking
<1>4. tick' # NoTick
  BY <1>2, <1>3
<1>5. /\ AnchorDay(o) \in 1..tick.today /\ tick.today \in 1..day
      /\ Current(o) => retry[o].date = AnchorDay(o)
      /\ Armed(o) /\ ~Current(o) => retry[o].date < tick.today - 1
      /\ ReportDay(o) = AnchorDay(o) - 1 /\ ReportDay(o) \in 0..MaxDays
  BY <1>2, AnchorFacts
<1>6. day \in Nat /\ \A d \in 0..MaxDays : d \in Nat
  BY <1>2, DayFacts
<1>7. /\ retry' \in [Owner -> Retrying \cup {NoTick}]
      /\ \A p \in Owner \ {o} : retry'[p] = retry[p]
      /\ Current(o) => Armed(o)' /\ retry'[o] = retry[o]
      /\ ~Current(o) => ~Armed(o)'
  BY <1>1, <1>2 DEF DailyTyped, Disarmed, Armed, Current, CrossMidnight
<1>8. DailyTyped'
  <2>1. open' \subseteq Owner \X (0..MaxDays)
    BY <1>1, <1>2, <1>5 DEF DailyTyped
  <2>2. /\ day' \in 1..MaxDays /\ marked' \in [Owner -> 0..MaxDays]
        /\ reports' \in [Owner -> [0..MaxDays -> Nat]]
        /\ doubts' \in [Owner -> [0..MaxDays -> Nat]]
    BY <1>1, <1>2 DEF DailyTyped
  <2> QED BY <1>3, <1>7, <2>1, <2>2 DEF DailyTyped
<1>9. ASSUME NEW p \in Owner, p # o PROVE Owned(p)'
  <2>1. InDoubt(p) /\ (Armed(p)' <=> Armed(p))
    BY <1>1, <1>2, <1>7, <1>9, NoMailNoDoubt DEF Armed
  <2>3. Untouched(p)
    BY <1>1, <1>2, <1>3, <1>4, <1>7, <1>9, <2>1 DEF Untouched
  <2>2. day' \in Nat /\ day' >= day
    BY <1>1, <1>6
  <2> QED BY <2>2, <2>3, UntouchedIsOwned
<1>10. Owned(o)
  BY DEF DailyInv
<1>11. Ordered(o)'
  <2>1. Current(o) => Current(o)' /\ Armed(o)
    BY <1>3, <1>7 DEF Current, CrossMidnight
  <2>2. Current(o) => retry[o].attempts < 3
    <3>1. Armed(o) => retry[o].attempts \in 1..3
      BY <1>2, DayFacts
    <3> QED BY <1>1, <2>1, <3>1 DEF UsedUp, MaxRetryAttempts
  <2> QED BY <1>1, <1>2, <1>3, <1>4, <1>7, <1>10, <2>1, <2>2 DEF Owned, Ordered
<1>12. NotAgain(o)'
  <2> SUFFICES ASSUME NEW d \in 0..MaxDays, Sent(o, d)
               PROVE  /\ reports[o][d] = doubts[o][d] + 1
                      /\ d < day /\ (marked[o] = d + 1 \/ d + 1 < day)
                      /\ Armed(o)' => retry[o].date # d + 1 /\ retry'[o] = retry[o]
                      /\ d < tick.today /\ tick.today # d + 1
    BY <1>1, <1>3, <1>4 DEF NotAgain, Sent
  <2>1. d < tick.today /\ tick.today # d + 1
    BY <1>2, NotHadYet
  <2>2. Armed(o)' => Armed(o) /\ retry'[o] = retry[o]
    BY <1>7 DEF Current, CrossMidnight
  <2> QED BY <1>10, <2>1, <2>2 DEF Owned, NotAgain
<1>13. Kept(o)'
  <2> SUFFICES ASSUME NEW d \in 0..MaxDays, <<o, d>> \in open'
               PROVE  \/ Armed(o)' /\ retry'[o].date = d + 1
                      \/ ReportDay(o)' = d
                      \/ day > d + 2
    BY <1>1, <1>3, <1>4 DEF Kept
  <2>1. ReportDay(o)' = ReportDay(o)
    <3>1. AnchorDay(o)' = AnchorDay(o)
      <4>1. CASE Current(o)
        BY <1>3, <1>7, <4>1 DEF AnchorDay, CrossMidnight, Current
      <4>2. CASE ~Current(o)
        BY <1>3, <1>7, <4>2 DEF AnchorDay, CrossMidnight, Current
      <4> QED BY <4>1, <4>2
    <3> QED BY <3>1 DEF ReportDay
  <2>2. CASE d = ReportDay(o)
    BY <2>1, <2>2
  <2>3. CASE d # ReportDay(o)
    <3>1. <<o, d>> \in open
      BY <1>1, <2>3
    <3>2. (Armed(o) /\ retry[o].date = d + 1) \/ day > d + 2
      BY <1>2, <1>10, <3>1 DEF Owned, Kept
    <3> QED BY <1>5, <1>6, <1>7, <3>2
  <2> QED BY <2>2, <2>3
<1>14. tick'.today <= day'
  BY <1>1, <1>3, <1>5, <1>6
<1> QED BY <1>8, <1>9, <1>11, <1>12, <1>13, <1>14 DEF DailyInv, Owned

\* A tick begins where none runs; who has the report of today is not on its list.
LEMMA TickBeginsKeeps == ASSUME DailyInv, TickBegins PROVE DailyInv'
<1>1. /\ tick = NoTick /\ day' = day /\ marked' = marked /\ retry' = retry
      /\ reports' = reports /\ doubts' = doubts /\ open' = open
      /\ tick' = [today |-> day, off |-> phase # Hour, sending |-> NoTick,
                  todo |-> {o \in Owner : enabled[o] /\ marked[o] # day}]
  BY DEF TickBegins, clock, dailyGhosts
<1>2. DailyTyped /\ day \in Nat /\ \A d \in 0..MaxDays : d \in Nat
  BY DayFacts DEF DailyInv
<1>3. /\ tick'.today = day /\ tick'.sending = NoTick
      /\ tick'.todo = {o \in Owner : enabled[o] /\ marked[o] # day}
  BY <1>1
<1>4. tick' \in Ticking /\ tick' # NoTick
  <2>1. NoTick \notin Ticking
    BY DailyAssumption DEF Ticking
  <2>2. day \in 1..MaxDays
    BY <1>2 DEF DailyTyped
  <2>3. PICK b \in BOOLEAN, S \in SUBSET Owner :
          tick' = [today |-> day, off |-> b, sending |-> NoTick, todo |-> S]
    BY <1>1, Zenon
  <2>4. tick' \in Ticking
    BY <2>2, <2>3 DEF Ticking
  <2> QED BY <2>1, <2>4
<1>5. DailyTyped'
  BY <1>1, <1>2, <1>4 DEF DailyTyped
<1>6. ASSUME NEW o \in Owner PROVE Owned(o)'
  <2>1. o # NoTick /\ Owned(o) /\ (Armed(o)' <=> Armed(o))
    BY <1>1, DailyAssumption DEF DailyInv, Armed
  <2>2. Ordered(o)'
    BY <1>1, <1>3, <1>4, <2>1 DEF Owned, Ordered
  <2>3. NotAgain(o)'
    <3> SUFFICES ASSUME NEW d \in 0..MaxDays, Sent(o, d)
                 PROVE  /\ reports[o][d] = doubts[o][d] + 1
                        /\ d < day /\ (marked[o] = d + 1 \/ d + 1 < day)
                        /\ Armed(o) => retry[o].date # d + 1
                        /\ day = d + 1 => marked[o] = day
      BY <1>1, <1>3, <1>4, <2>1 DEF NotAgain, Sent
    <3> QED BY <1>2, <2>1 DEF Owned, NotAgain
  <2>4. Kept(o)'
    BY <1>1, <2>1 DEF Owned, Kept
  <2> QED BY <2>2, <2>3, <2>4 DEF Owned
<1>7. tick'.today <= day'
  BY <1>1, <1>2, <1>3
<1> QED BY <1>5, <1>6, <1>7 DEF DailyInv

LEMMA TickEndsKeeps == ASSUME DailyInv, TickEnds PROVE DailyInv'
<1>1. /\ tick # NoTick /\ tick.sending = NoTick /\ tick' = NoTick
      /\ day' = day /\ marked' = marked /\ retry' = retry
      /\ reports' = reports /\ doubts' = doubts /\ open' = open
  BY DEF TickEnds, clock, dailyGhosts
<1>2. DailyTyped'
  BY <1>1 DEF DailyInv, DailyTyped
<1>3. ASSUME NEW o \in Owner PROVE Owned(o)'
  <2>1. o # NoTick /\ Owned(o) /\ (Armed(o)' <=> Armed(o))
    BY <1>1, DailyAssumption DEF DailyInv, Armed
  <2>2. Ordered(o)'
    BY <1>1, <2>1 DEF Owned, Ordered
  <2>3. NotAgain(o)'
    BY <1>1, <2>1 DEF Owned, NotAgain, Sent
  <2>4. Kept(o)'
    BY <1>1, <2>1 DEF Owned, Kept
  <2> QED BY <2>2, <2>3, <2>4 DEF Owned
<1> QED BY <1>1, <1>2, <1>3 DEF DailyInv

\* The clock, a backoff that ends and changed settings leave the owners alone.
LEMMA QuietKeeps ==
  ASSUME DailyInv,
         \/ TimePasses
         \/ \E o \in Owner : BackoffEnds(o) \/ ChangeSettings(o)
         \/ UNCHANGED dailyVars
  PROVE  DailyInv'
<1>1. /\ DailyTyped /\ day \in Nat /\ MaxDays \in Nat /\ day \in 1..MaxDays
      /\ tick # NoTick => tick.today \in Nat /\ tick.today <= day
  BY DayFacts DEF DailyInv
<1>2. /\ marked' = marked /\ tick' = tick /\ reports' = reports /\ doubts' = doubts
      /\ open' = open
  BY DEF TimePasses, BackoffEnds, ChangeSettings, dailyVars, dailyGhosts
<1>3. /\ day' = day \/ (day' = day + 1 /\ day < MaxDays)
  BY DEF TimePasses, BackoffEnds, ChangeSettings, dailyVars, clock
<1>4. day' \in 1..MaxDays /\ day' >= day
  BY <1>1, <1>3
<1>5. retry' = retry \/ \E o \in Owner : Armed(o) /\ retry' = [retry EXCEPT ![o].due = TRUE]
  BY DEF TimePasses, BackoffEnds, ChangeSettings, dailyVars
<1>6. /\ retry' \in [Owner -> Retrying \cup {NoTick}]
      /\ \A p \in Owner : /\ Armed(p)' <=> Armed(p)
                          /\ Armed(p) => /\ retry'[p].date = retry[p].date
                                         /\ retry'[p].attempts = retry[p].attempts
  <2>1. CASE retry' = retry
    BY <1>1, <2>1 DEF DailyTyped, Armed
  <2>2. ASSUME NEW o \in Owner, Armed(o), retry' = [retry EXCEPT ![o].due = TRUE]
        PROVE  <1>6
    <3>1. retry \in [Owner -> Retrying \cup {NoTick}] /\ retry[o] \in Retrying
      BY <1>1, <2>2, DayFacts DEF DailyTyped
    <3>2. NoTick \notin Retrying
      BY DailyAssumption DEF Retrying
    <3>3. /\ [retry[o] EXCEPT !.due = TRUE] \in Retrying
          /\ [retry[o] EXCEPT !.due = TRUE].date = retry[o].date
          /\ [retry[o] EXCEPT !.due = TRUE].attempts = retry[o].attempts
      BY <3>1 DEF Retrying
    <3>4. /\ retry' = [retry EXCEPT ![o] = [retry[o] EXCEPT !.due = TRUE]]
      BY <2>2
    <3> QED BY <2>2, <3>1, <3>2, <3>3, <3>4 DEF Armed
  <2> QED BY <1>5, <2>1, <2>2
<1>7. DailyTyped'
  BY <1>1, <1>2, <1>4, <1>6 DEF DailyTyped
<1>8. \A p \in Owner : Untouched(p)
  <2>1. \A p \in Owner : InDoubt(p)
    BY <1>1, <1>2, NoMailNoDoubt
  <2> QED BY <1>2, <1>6, <2>1 DEF Untouched
<1>9. tick' # NoTick => tick'.today <= day'
  BY <1>1, <1>2, <1>4
<1> QED BY <1>4, <1>7, <1>8, <1>9, NobodyTouched

\* A restart forgets the retries, and with them what they were to send.
LEMMA RestartKeeps == ASSUME DailyInv, Restart PROVE DailyInv'
<1>1. /\ tick' = NoTick /\ retry' = [o \in Owner |-> NoTick]
      /\ day' = day /\ marked' = marked
      /\ open' = open \ (Cut \cup {<<o, retry[o].date - 1>> : o \in {p \in Owner : Armed(p)}})
      /\ IF Cut = {} THEN reports' = reports /\ doubts' = doubts
         ELSE \E n \in {0, 1} : Unheard(tick.sending, n)
  BY DEF Restart, clock
<1>2. DailyTyped /\ day \in Nat /\ \A d \in 0..MaxDays : d \in Nat
  BY DayFacts DEF DailyInv
<1>3. /\ reports' \in [Owner -> [0..MaxDays -> Nat]]
      /\ doubts' \in [Owner -> [0..MaxDays -> Nat]]
      /\ \A p \in Owner : InDoubt(p)
  <2>1. CASE Cut = {}
    BY <1>1, <1>2, <2>1, NoMailNoDoubt DEF DailyTyped
  <2>2. CASE Cut # {}
    <3>1. tick # NoTick /\ tick.sending # NoTick
      BY <2>2 DEF Cut
    <3>2. tick.sending \in Owner
      BY <1>2, <3>1 DEF DailyTyped, Ticking
    <3>3. ReportDay(tick.sending) \in 0..MaxDays
      BY <3>1, <3>2, AnchorFacts
    <3>4. PICK n \in {0, 1} : Unheard(tick.sending, n)
      BY <1>1, <2>2
    <3> QED BY <1>2, <3>2, <3>3, <3>4, UnheardFacts
  <2> QED BY <2>1, <2>2
<1>4. DailyTyped'
  BY <1>1, <1>2, <1>3 DEF DailyTyped
<1>5. ASSUME NEW o \in Owner PROVE Owned(o)'
  <2>1. o # NoTick /\ Owned(o) /\ ~Armed(o)'
    BY <1>1, DailyAssumption DEF DailyInv, Armed
  <2>2. Ordered(o)'
    BY <1>1, <2>1 DEF Ordered
  <2>3. NotAgain(o)'
    <3> SUFFICES ASSUME NEW d \in 0..MaxDays, Sent(o, d)'
                 PROVE  /\ reports'[o][d] = doubts'[o][d] + 1
                        /\ d < day /\ (marked[o] = d + 1 \/ d + 1 < day)
      BY <1>1, <2>1 DEF NotAgain
    <3>1. Sent(o, d) /\ (reports[o][d] = doubts[o][d] + 1 => reports'[o][d] = doubts'[o][d] + 1)
      BY <1>2, <1>3, DoubtFacts
    <3> QED BY <2>1, <3>1 DEF Owned, NotAgain
  <2>4. Kept(o)'
    <3> SUFFICES ASSUME NEW d \in 0..MaxDays, <<o, d>> \in open'
                 PROVE  day > d + 2
      BY <1>1 DEF Kept
    <3>1. \/ Armed(o) /\ retry[o].date = d + 1
          \/ tick # NoTick /\ tick.sending = o /\ ReportDay(o) = d
          \/ day > d + 2
      BY <1>1, <2>1 DEF Owned, Kept
    <3>2. ~(Armed(o) /\ retry[o].date = d + 1)
      <4>1. SUFFICES ASSUME Armed(o), retry[o].date = d + 1 PROVE FALSE
        OBVIOUS
      <4>2. retry[o].date - 1 = d
        BY <1>2, <4>1
      <4> QED BY <1>1, <4>1, <4>2
    <3>3. ~(tick # NoTick /\ tick.sending = o /\ ReportDay(o) = d)
      BY <1>1, <2>1 DEF Cut
    <3> QED BY <3>1, <3>2, <3>3
  <2> QED BY <2>2, <2>3, <2>4 DEF Owned
<1> QED BY <1>1, <1>4, <1>5 DEF DailyInv

LEMMA DailyStarts == DailyInit => DailyInv
<1> SUFFICES ASSUME DailyInit PROVE DailyInv
  OBVIOUS
<1>1. /\ day = 1 /\ marked = [o \in Owner |-> 0] /\ retry = [o \in Owner |-> NoTick]
      /\ tick = NoTick /\ reports = [o \in Owner |-> [d \in 0..MaxDays |-> 0]]
      /\ open = {} /\ doubts = reports
  BY DEF DailyInit
<1>2. MaxDays \in Nat \ {0}
  BY DailyAssumption
<1>3. DailyTyped
  BY <1>1, <1>2 DEF DailyTyped
<1>4. ASSUME NEW o \in Owner PROVE Owned(o)
  BY <1>1 DEF Owned, Ordered, NotAgain, Kept, Sent, Armed
<1> QED BY <1>1, <1>3, <1>4 DEF DailyInv

\* The inductive invariant: ticks follow the days, a retry is of a day a tick
\* has had, and what was marked as sent is behind the mark, the retry and the tick.
THEOREM DailyInvariant == DailySpec => []DailyInv
<1>1. DailyInv /\ [DailyNext]_dailyVars => DailyInv'
  <2> SUFFICES ASSUME DailyInv, [DailyNext]_dailyVars PROVE DailyInv'
    OBVIOUS
  <2>1. CASE TickBegins
    BY <2>1, TickBeginsKeeps
  <2>2. CASE TickEnds
    BY <2>2, TickEndsKeeps
  <2>3. CASE Restart
    BY <2>3, RestartKeeps
  <2>4. ASSUME NEW o \in Owner, GiveUp(o) \/ NoAlerts(o) PROVE DailyInv'
    BY <2>4, GiveUpKeeps
  <2>5. ASSUME NEW o \in Owner, ListFails(o) \/ SendFails(o) PROVE DailyInv'
    BY <2>5, FailureKeeps
  <2>6. ASSUME NEW o \in Owner, SendBegins(o) PROVE DailyInv'
    BY <2>6, SendBeginsKeeps
  <2>7. ASSUME NEW o \in Owner, SendOk(o) PROVE DailyInv'
    BY <2>7, SendOkKeeps
  <2>8. ASSUME NEW o \in Owner, Skip(o) PROVE DailyInv'
    BY <2>8, SkipKeeps
  <2>9. CASE \/ TimePasses \/ UNCHANGED dailyVars
             \/ \E o \in Owner : BackoffEnds(o) \/ ChangeSettings(o)
    BY <2>9, QuietKeeps
  <2> QED BY <2>1, <2>2, <2>3, <2>4, <2>5, <2>6, <2>7, <2>8, <2>9 DEF DailyNext
<1> QED BY DailyStarts, <1>1, PTL DEF DailySpec

\* A report reaches its owner again only where a copy of it went unmarked, and
\* one that was begun is not forgotten, for any number of owners, days, restarts,
\* lost answers and failing marks (runDailyReportTick, recordRetryFailure).
THEOREM OneReportADayHolds == DailySpec => []OneReportADay
<1>1. DailyInv => OneReportADay
  <2> SUFFICES ASSUME DailyInv PROVE OneReportADay
    OBVIOUS
  <2>1. ASSUME NEW o \in Owner, NEW d \in 0..MaxDays
        PROVE  reports[o][d] <= 1 + doubts[o][d]
    <3>1. reports[o][d] \in Nat /\ doubts[o][d] \in Nat
      BY CountsFacts DEF DailyInv, DailyTyped
    <3>2. Sent(o, d) => reports[o][d] = doubts[o][d] + 1
      BY DEF DailyInv, Owned, NotAgain
    <3> QED BY <3>1, <3>2 DEF Sent
  <2>2. NoReportForgotten
    BY DEF DailyInv, Owned, Kept, NoReportForgotten
  <2> QED BY <2>1, <2>2 DEF OneReportADay, ReportOnce
<1> QED BY <1>1, DailyInvariant, PTL

-----------------------------------------------------------------------------
(* The opening of the databases.                                              *)

Image == [ledger : [Versions -> {"none", "exact", "crlf", "drift", "sentinel"}],
          tables : SUBSET Versions, rows : Nat, text : {"inline", "both", "lookup"}]
Stages == {"off", "promote", "init", "prewarm", "serving"}
Steps == {"idle", "call", "ledger", "migrate", "legacy"}

MigTyped ==
    /\ release \in Versions /\ mode \in {"web", "desktop"}
    /\ image \in [Files -> Image \cup {Absent}] /\ good \in [Files -> Image \cup {Absent}]
    /\ copies \subseteq Image /\ jail \in Seq(Image)
    /\ handle \subseteq Files /\ boot \in [stage : Stages, step : Steps]

Applied(i) == Versions \ Unapplied(i)

\* The tables are those of the ledger, or the ledger is not there yet.
Consistent(i) == i.tables = Applied(i) \/ (Untracked(i) /\ i.tables = {1})

\* A file that the opening under way may change.
Under(f) == Opening = f /\ boot.step \in {"ledger", "migrate", "legacy"}

BootInv ==
    /\ boot.stage = "off" => boot.step = "idle" /\ handle = {}
    /\ Under("rnpm") => "rnpm" \notin handle
    /\ boot.step \in {"migrate", "legacy"} =>
         /\ image[Opening] # Absent
         /\ image[Opening].tables = Applied(image[Opening])
         /\ Applied(image[Opening]) \subseteq Chain(Opening)
    /\ boot.step = "legacy" => Opening = "monolith" /\ Open("monolith") = {}

\* Only the monolith is cached before it is whole.
HandleInv == ~swallowed =>
    \A f \in handle : (image[f] # Absent /\ Whole(f)) \/ (f = "monolith" /\ Under(f))

Like(c, i) == c.tables = i.tables /\ c.text = i.text /\ c.rows = i.rows
Saved(f) == \E c \in (IF f = "monolith" THEN copies ELSE {jail[n] : n \in DOMAIN jail}) :
              Like(c, good[f])

\* A file with data has a copy as it was when it was last whole, or is still
\* that, and then the opening under way has nothing to do on it.
Safe(f) == good[f] # Absent /\ f \notin uncopied =>
    \/ Saved(f)
    \/ /\ Like(image[f], good[f])
       /\ Under(f) => Chain(f) \subseteq image[f].tables /\ image[f].text = "lookup"

FileInv(f) ==
    /\ image[f] # Absent => Consistent(image[f])
    /\ f = "rnpm" /\ image[f] # Absent => image[f].text = "lookup" /\ image[f].tables \subseteq {1, 2}
    /\ good[f] # Absent => /\ image[f] # Absent /\ image[f].rows = good[f].rows
                           /\ 1 \in good[f].tables /\ good[f].tables \subseteq image[f].tables
                           /\ good[f].text # "both"
    /\ f = "rnpm" /\ good[f] # Absent => good[f].text = "lookup"
    /\ Safe(f)

MigInv == MigTyped /\ BootInv /\ HandleInv /\ \A f \in Files : FileInv(f)

LEMMA MigFacts ==
  /\ MaxVersion \in Nat /\ 1 \in Versions /\ 2 \in Versions /\ Versions \subseteq Nat
  /\ Absent \notin Image /\ Blank \in Image /\ Blank # Absent /\ Consistent(Blank)
  /\ Blank.tables = {} /\ Blank.text = "lookup"
  /\ release \in Versions => \A f \in Files : Chain(f) \subseteq Versions /\ 1 \in Chain(f)
  /\ Chain("rnpm") \subseteq {1, 2}
<1>1. MaxVersion \in Nat /\ 1 \in Versions /\ 2 \in Versions /\ Versions \subseteq Nat
  BY MigrationsAssumption DEF Versions
<1>2. Absent \notin Image
  BY MigrationsAssumption DEF Image, Versions
<1>3. Blank \in Image /\ Blank.tables = {} /\ Blank.text = "lookup" /\ Consistent(Blank)
  BY DEF Blank, Image, Consistent, Applied, Unapplied
<1>4. release \in Versions => \A f \in Files : Chain(f) \subseteq Versions /\ 1 \in Chain(f)
  <2> SUFFICES ASSUME release \in Versions, NEW f \in Files
               PROVE  Chain(f) \subseteq Versions /\ 1 \in Chain(f)
    OBVIOUS
  <2>1. release \in Nat /\ release >= 1 /\ release <= MaxVersion
    BY <1>1 DEF Versions
  <2>2. 1..release \subseteq Versions /\ 1 \in 1..release /\ 1..2 = {1, 2}
    BY <1>1, <2>1 DEF Versions
  <2> QED BY <1>1, <2>2 DEF Chain
<1>5. Chain("rnpm") \subseteq {1, 2}
  BY DEF Chain
<1> QED BY <1>1, <1>2, <1>3, <1>4, <1>5

\* A file that keeps its tables, texts and rows, while no copy is lost.
LEMMA FileStays ==
  ASSUME MigInv, NEW f \in Files,
         image[f] # Absent => image'[f] # Absent /\ Like(image'[f], image[f]),
         image'[f] # Absent => Consistent(image'[f]),
         image[f] = Absent => image'[f] \in {Absent, Blank},
         good' = good, uncopied \subseteq uncopied', copies \subseteq copies', jail' = jail,
         Under(f)' => Under(f) /\ release' = release
  PROVE  FileInv(f)'
<1>1. FileInv(f)
  BY DEF MigInv
<1>2. Saved(f) => Saved(f)'
  BY DEF Saved
<1>3. Under(f)' => Chain(f)' = Chain(f)
  BY DEF Chain
<1>4. Safe(f)'
  BY <1>1, <1>2, <1>3 DEF Safe, FileInv, Like
<1>5. f = "rnpm" /\ image'[f] # Absent =>
        image'[f].text = "lookup" /\ image'[f].tables \subseteq {1, 2}
  BY <1>1, MigFacts DEF FileInv, Like
<1>6. good[f] # Absent => /\ image'[f] # Absent /\ image'[f].rows = good[f].rows
                          /\ good[f].tables \subseteq image'[f].tables
  BY <1>1 DEF FileInv, Like
<1> QED BY <1>1, <1>4, <1>5, <1>6 DEF FileInv

\* The cached handles of a step that changes no cached file.
LEMMA HandleStays ==
  ASSUME MigInv, handle' \subseteq handle, swallowed => swallowed',
         \A f \in handle' : image'[f] = image[f],
         handle' # {} => release' = release,
         ~swallowed' => ("monolith" \in handle' /\ Under("monolith") => Under("monolith")')
  PROVE  HandleInv'
<1> SUFFICES ASSUME ~swallowed', NEW f \in handle'
             PROVE  (image'[f] # Absent /\ Whole(f)') \/ (f = "monolith" /\ Under(f)')
  BY DEF HandleInv
<1>1. (image[f] # Absent /\ Whole(f)) \/ (f = "monolith" /\ Under(f))
  BY DEF MigInv, HandleInv
<1> QED BY <1>1 DEF Whole, Chain

\* An opening that throws: the auto-promote swallows it, the boot dies of it,
\* or the handle is not cached.
LEMMA ThrowFacts ==
  ASSUME MigInv, Throw, boot.step # "idle"
  PROVE  /\ boot' \in [stage : Stages, step : {"idle", "call"}]
         /\ handle' \subseteq handle /\ (swallowed => swallowed')
         /\ copies \subseteq copies' /\ copies' \subseteq Image
         /\ boot'.stage = "off" => boot'.step = "idle" /\ handle' = {}
         /\ ~swallowed' => handle' = {} \/ Opening = "rnpm"
<1>1. MigTyped
  BY DEF MigInv
<1>2. CASE boot.stage = "promote"
  BY <1>1, <1>2 DEF Throw, MigTyped, Stages
<1>3. CASE boot.stage # "promote" /\ FatalBoot /\ swallowed' = swallowed
  <2>1. image["monolith"] \in Image \cup {Absent}
    BY <1>1 DEF MigTyped, Files
  <2> QED BY <1>1, <1>3, <2>1 DEF FatalBoot, MigTyped, Stages
<1>4. CASE /\ boot.stage \in {"serving", "prewarm"} /\ handle' = handle /\ copies' = copies
           /\ swallowed' = swallowed /\ boot' = [stage |-> "serving", step |-> "idle"]
  BY <1>1, <1>4 DEF MigTyped, Opening, Stages
<1> QED BY <1>2, <1>3, <1>4 DEF Throw

\* A step that touches no file and ends with no opening at work on one.
LEMMA BootMoves ==
  ASSUME MigInv, UNCHANGED <<mode, image, good, jail>>, uncopied \subseteq uncopied',
         release' \in Versions, handle' # {} => release' = release, handle' \subseteq handle,
         copies \subseteq copies', copies' \subseteq Image, swallowed => swallowed',
         boot' \in [stage : Stages, step : {"idle", "call"}],
         boot'.stage = "off" => boot'.step = "idle" /\ handle' = {},
         ~swallowed' => ("monolith" \in handle' => ~Under("monolith"))
  PROVE  MigInv'
<1>1. MigTyped'
  BY DEF MigInv, MigTyped, Stages, Steps
<1>2. boot'.step \in {"idle", "call"} /\ \A f \in Files : ~Under(f)'
  BY DEF Under
<1>3. BootInv'
  BY <1>2 DEF BootInv, Files
<1>4. HandleInv'
  BY <1>2, HandleStays
<1>5. ASSUME NEW f \in Files PROVE FileInv(f)'
  <2>1. image[f] # Absent => Like(image[f], image[f]) /\ Consistent(image[f])
    BY DEF MigInv, FileInv, Like
  <2> QED BY <1>2, <2>1, FileStays
<1> QED BY <1>1, <1>3, <1>4, <1>5 DEF MigInv

LEMMA BootStepsKeep == ASSUME MigInv, Start \/ Kill \/ Cached \/ Request PROVE MigInv'
<1>1. /\ UNCHANGED <<mode, image, good, jail, copies, uncopied>> /\ swallowed' = swallowed
      /\ MigTyped
  BY DEF Start, Kill, Cached, Request, MigInv
<1>2. release' \in Versions /\ boot' \in [stage : Stages, step : {"idle", "call"}]
  BY <1>1 DEF Start, Kill, Cached, Request, Advance, MigTyped, Stages
<1>3. /\ handle' \subseteq handle /\ (handle' # {} => release' = release)
      /\ boot'.stage = "off" => boot'.step = "idle" /\ handle' = {}
  BY <1>1 DEF Start, Kill, Cached, Request, Advance, MigTyped, MigInv, BootInv
<1>4. handle' # {} => boot.step \in {"call", "idle"}
  BY <1>3 DEF Start, Kill, Cached, Request, MigInv, BootInv
<1>5. "monolith" \in handle' => ~Under("monolith")
  BY <1>4 DEF Under
<1>6. copies \subseteq Image
  BY <1>1 DEF MigTyped
<1> QED BY <1>1, <1>2, <1>3, <1>5, <1>6, BootMoves

LEMMA ThrowsKeep == ASSUME MigInv, RefuseToOpen \/ Fail PROVE MigInv'
<1>1. /\ UNCHANGED <<mode, image, good, jail, release, uncopied>>
      /\ Throw /\ boot.step # "idle"
  BY DEF RefuseToOpen, Fail
<1>2. /\ boot' \in [stage : Stages, step : {"idle", "call"}]
      /\ handle' \subseteq handle /\ (swallowed => swallowed')
      /\ copies \subseteq copies' /\ copies' \subseteq Image
      /\ boot'.stage = "off" => boot'.step = "idle" /\ handle' = {}
      /\ ~swallowed' => handle' = {} \/ Opening = "rnpm"
  BY <1>1, ThrowFacts
<1>3. release \in Versions
  BY DEF MigInv, MigTyped
<1>4. ~swallowed' => ("monolith" \in handle' => ~Under("monolith"))
  BY <1>2 DEF Under
<1> QED BY <1>1, <1>2, <1>3, <1>4, BootMoves

\* The ledger: it follows the tables, and one that is ahead throws.
LEMMA LedgerFacts ==
  ASSUME MigInv, Ledger
  PROVE  /\ image' \in [Files -> Image \cup {Absent}] /\ image'[Opening] \in Image
         /\ Opening \in Files /\ \A f \in Files \ {Opening} : image'[f] = image[f]
         /\ image'[Opening].tables = Applied(image'[Opening])
         /\ image[Opening] # Absent => Like(image'[Opening], image[Opening])
         /\ image[Opening] = Absent => image'[Opening] = Blank
         /\ \/ Applied(image'[Opening]) \subseteq Chain(Opening)
               /\ boot' = [boot EXCEPT !.step = "migrate"] /\ UNCHANGED <<handle, copies, swallowed>>
            \/ Throw
<1> DEFINE f == Opening
           i == IF image[f] = Absent THEN Blank ELSE image[f]
           untold == Untracked(i) /\ 1 \in i.tables
           j == IF untold THEN [i EXCEPT !.ledger[1] = "sentinel"] ELSE i
<1>1. f \in Files
  BY DEF Opening, Files
<1>2. image' = [image EXCEPT ![f] = j] /\ MigTyped /\ FileInv(f)
  BY <1>1 DEF Ledger, MigInv
<1>3. i \in Image /\ Consistent(i)
  BY <1>1, <1>2, MigFacts DEF MigTyped, FileInv
<1>4. Unapplied(i) \subseteq Versions
  BY DEF Unapplied
<1> HIDE DEF i
<1>5. j \in Image /\ j.tables = Applied(j) /\ Like(j, i)
  <2>1. CASE untold
    <3>1. i.ledger \in [Versions -> {"none", "exact", "crlf", "drift", "sentinel"}]
      BY <1>3 DEF Image
    <3>2. j = [i EXCEPT !.ledger = [i.ledger EXCEPT ![1] = "sentinel"]]
      BY <2>1
    <3> HIDE DEF j
    <3>3. /\ j \in Image /\ j.tables = i.tables /\ j.text = i.text /\ j.rows = i.rows
          /\ j.ledger = [i.ledger EXCEPT ![1] = "sentinel"]
      BY <1>3, <3>1, <3>2 DEF Image
    <3>4. i.tables = {1} /\ Unapplied(i) = Versions
      BY <1>3, <2>1 DEF Consistent, Applied, Untracked
    <3>5. Applied(j) = {1}
      <4>1. \A v \in Versions : i.ledger[v] = "none"
        BY <3>4 DEF Unapplied
      <4>2. \A v \in Versions : j.ledger[v] = "none" <=> v # 1
        BY <3>1, <3>3, <4>1
      <4> QED BY <4>2, MigFacts DEF Applied, Unapplied
    <3> QED BY <3>3, <3>4, <3>5 DEF Like
  <2>2. CASE ~untold
    <3>1. j = i
      BY <2>2
    <3>2. i.tables = Applied(i)
      BY <1>3, <2>2 DEF Consistent
    <3> QED BY <1>3, <3>1, <3>2 DEF Like
  <2> QED BY <2>1, <2>2
<1>6. image[f] = Absent => j = Blank
  BY MigFacts DEF i, Untracked, Unapplied, Blank
<1>7. \/ Applied(i) \subseteq Chain(f)
         /\ boot' = [boot EXCEPT !.step = "migrate"] /\ UNCHANGED <<handle, copies, swallowed>>
      \/ Throw
  BY DEF Ledger, Applied, i
<1>10. Applied(i) \subseteq Chain(f) => Applied(j) \subseteq Chain(f)
  <2>1. 1 \in Chain(f)
    BY <1>1, <1>2, MigFacts DEF MigTyped
  <2>2. Applied(j) = i.tables
    BY <1>5 DEF Like
  <2> QED BY <1>3, <2>1, <2>2 DEF Consistent
<1>8. image[f] # Absent => i = image[f]
  BY DEF i
<1> HIDE DEF j, f
<1>9. /\ image' \in [Files -> Image \cup {Absent}] /\ image'[f] = j
      /\ \A g \in Files \ {f} : image'[g] = image[g]
  BY <1>1, <1>2, <1>5 DEF MigTyped
<1> QED BY <1>1, <1>5, <1>6, <1>7, <1>8, <1>9, <1>10 DEF f

LEMMA LedgerKeeps == ASSUME MigInv, Ledger PROVE MigInv'
<1> DEFINE f == Opening
<1>1. /\ UNCHANGED <<mode, release, jail, good, uncopied>> /\ boot.step = "ledger" /\ MigTyped
      /\ boot \in [stage : Stages, step : Steps]
  BY DEF Ledger, MigInv, MigTyped
<1>2. /\ image' \in [Files -> Image \cup {Absent}] /\ image'[f] \in Image
      /\ f \in Files /\ \A g \in Files \ {f} : image'[g] = image[g]
      /\ image'[f].tables = Applied(image'[f])
      /\ image[f] # Absent => Like(image'[f], image[f])
      /\ image[f] = Absent => image'[f] = Blank
      /\ \/ Applied(image'[f]) \subseteq Chain(f)
            /\ boot' = [boot EXCEPT !.step = "migrate"] /\ UNCHANGED <<handle, copies, swallowed>>
         \/ Throw
  BY LedgerFacts
<1>3. f = "monolith" <=> boot.stage \in {"promote", "init"}
  BY DEF Opening
<1>4. Under(f) /\ f \in {"monolith", "rnpm"}
  BY <1>1 DEF Under, Opening
<1>5. f = "rnpm" => "rnpm" \notin handle
  BY <1>4 DEF MigInv, BootInv
<1>6. CASE Throw
  <2>1. /\ boot' \in [stage : Stages, step : {"idle", "call"}]
        /\ handle' \subseteq handle /\ (swallowed => swallowed')
        /\ copies \subseteq copies' /\ copies' \subseteq Image
        /\ boot'.stage = "off" => boot'.step = "idle" /\ handle' = {}
        /\ ~swallowed' => handle' = {} \/ Opening = "rnpm"
    BY <1>1, <1>6, ThrowFacts
  <2>2. boot'.step \in {"idle", "call"} /\ \A g \in Files : ~Under(g)'
    BY <2>1 DEF Under
  <2>3. MigTyped'
    BY <1>1, <1>2, <2>1 DEF MigTyped, Steps
  <2>4. BootInv'
    BY <2>1, <2>2 DEF BootInv, Files
  <2>5. HandleInv'
    <3> SUFFICES ASSUME ~swallowed', NEW g \in handle'
                 PROVE  image'[g] # Absent /\ Whole(g)'
      BY DEF HandleInv
    <3>1. g \in handle /\ ~swallowed /\ f = "rnpm" /\ g # "rnpm" /\ g \in Files
      BY <1>1, <1>5, <2>1 DEF MigTyped
    <3>2. image'[g] = image[g] /\ ~Under(g)
      BY <1>2, <3>1 DEF Under
    <3>3. image[g] # Absent /\ Whole(g)
      BY <3>1, <3>2 DEF MigInv, HandleInv
    <3> QED BY <1>1, <3>2, <3>3 DEF Whole, Chain
  <2>6. ASSUME NEW g \in Files PROVE FileInv(g)'
    <3>1. CASE g = f
      BY <1>1, <1>2, <2>1, <2>2, <3>1, MigFacts, FileStays DEF Consistent
    <3>2. CASE g # f
      <4>1. image'[g] = image[g] /\ (image[g] # Absent => Consistent(image[g]))
        BY <1>2, <3>2 DEF MigInv, FileInv
      <4> QED BY <1>1, <2>1, <2>2, <4>1, FileStays DEF Like
    <3> QED BY <3>1, <3>2
  <2> QED BY <2>3, <2>4, <2>5, <2>6 DEF MigInv
<1>7. CASE /\ Applied(image'[f]) \subseteq Chain(f)
           /\ boot' = [boot EXCEPT !.step = "migrate"] /\ UNCHANGED <<handle, copies, swallowed>>
  <2>1. boot' \in [stage : Stages, step : Steps] /\ boot'.stage = boot.stage
        /\ boot'.step = "migrate"
    BY <1>1, <1>7 DEF Steps
  <2>2. Opening' = f /\ Chain(f)' = Chain(f) /\ \A g : Under(g)' <=> Under(g)
    BY <1>1, <2>1 DEF Opening, Chain, Under
  <2>3. MigTyped'
    BY <1>1, <1>2, <1>7, <2>1 DEF MigTyped
  <2>4. BootInv'
    <3>1. image'[f] # Absent
      BY <1>2, MigFacts
    <3>2. boot.stage # "off"
      BY <1>1 DEF MigInv, BootInv
    <3> QED BY <1>2, <1>4, <1>5, <1>7, <2>1, <2>2, <3>1, <3>2 DEF BootInv, Under
  <2>5. HandleInv'
    <3> SUFFICES ASSUME ~swallowed', NEW g \in handle'
                 PROVE  (image'[g] # Absent /\ Whole(g)') \/ (g = "monolith" /\ Under(g)')
      BY DEF HandleInv
    <3>1. g \in handle /\ ~swallowed /\ g \in Files
      BY <1>1, <1>7 DEF MigTyped
    <3>2. CASE g = f
      BY <1>4, <1>5, <2>2, <3>1, <3>2
    <3>3. CASE g # f
      <4>1. image'[g] = image[g] /\ ~Under(g)
        BY <1>2, <3>1, <3>3 DEF Under
      <4>2. image[g] # Absent /\ Whole(g)
        BY <3>1, <4>1 DEF MigInv, HandleInv
      <4> QED BY <1>1, <4>1, <4>2 DEF Whole, Chain
    <3> QED BY <3>2, <3>3
  <2>6. ASSUME NEW g \in Files PROVE FileInv(g)'
    <3>1. CASE g = f
      BY <1>1, <1>2, <1>7, <2>2, <3>1, MigFacts, FileStays DEF Consistent
    <3>2. CASE g # f
      <4>1. image'[g] = image[g] /\ (image[g] # Absent => Consistent(image[g]))
        BY <1>2, <3>2 DEF MigInv, FileInv
      <4> QED BY <1>1, <1>7, <2>2, <4>1, FileStays DEF Like
    <3> QED BY <3>1, <3>2
  <2> QED BY <2>3, <2>4, <2>5, <2>6 DEF MigInv
<1> QED BY <1>2, <1>6, <1>7

\* A step of the opening that gives its file another image, and nothing else.
LEMMA FileChanges ==
  ASSUME MigInv, NEW j \in Image, image' = [image EXCEPT ![Opening] = j],
         image[Opening] # Absent, boot.step \in {"migrate", "legacy"},
         UNCHANGED <<mode, release, copies, jail, handle, boot, good, uncopied, swallowed>>,
         j.rows = image[Opening].rows, image[Opening].tables \subseteq j.tables,
         j.tables = Applied(j), j.tables \subseteq Chain(Opening),
         boot.step = "legacy" => j.ledger = image[Opening].ledger,
         Opening = "rnpm" => j.text = "lookup",
         Like(j, image[Opening]) \/ Saved(Opening) \/ good[Opening] = Absent
           \/ Opening \in uncopied
  PROVE  MigInv'
<1>1. PICK f \in Files : f = Opening /\ Opening' = f /\ Under(f) /\ f \in {"monolith", "rnpm"}
  BY DEF Opening, Files, Under
<1>2. MigTyped /\ FileInv(f) /\ BootInv /\ HandleInv
  BY DEF MigInv
<1>3. /\ image' \in [Files -> Image \cup {Absent}] /\ image'[f] = j
      /\ \A g \in Files \ {f} : image'[g] = image[g]
  BY <1>1, <1>2 DEF MigTyped
<1>4. j # Absent
  BY MigFacts
<1>5. MigTyped'
  BY <1>2, <1>3 DEF MigTyped
<1>6. /\ \A g : Under(g)' <=> Under(g)
      /\ \A g : Chain(g)' = Chain(g)
  BY <1>1 DEF Under, Chain, Opening
<1>7. BootInv'
  <2>1. boot.step = "legacy" => f = "monolith" /\ Open(f) = {}
    BY <1>1, <1>2 DEF BootInv
  <2>2. boot.step = "legacy" => Open(f)' = Open(f)
    BY <1>1, <1>3, <1>6 DEF Open
  <2> QED BY <1>1, <1>2, <1>3, <1>4, <1>6, <2>1, <2>2 DEF BootInv
<1>8. HandleInv'
  <2> SUFFICES ASSUME ~swallowed, NEW g \in handle
               PROVE  (image'[g] # Absent /\ Whole(g)') \/ (g = "monolith" /\ Under(g))
    BY <1>6 DEF HandleInv
  <2>1. CASE g = f
    BY <1>1, <1>2, <2>1 DEF BootInv
  <2>2. CASE g # f
    <3>1. image'[g] = image[g] /\ g \in Files
      BY <1>2, <1>3, <2>2 DEF MigTyped
    <3> QED BY <1>2, <1>6, <3>1 DEF Whole, HandleInv
  <2> QED BY <2>1, <2>2
<1>9. ASSUME NEW g \in Files PROVE FileInv(g)'
  <2>1. CASE g # f
    <3>1. image'[g] = image[g] /\ (image[g] # Absent => Consistent(image[g]))
      BY <1>3, <2>1 DEF MigInv, FileInv
    <3> QED BY <1>6, <3>1, FileStays DEF Like
  <2>2. CASE g = f
    <3>1. Saved(f)' = Saved(f)
      BY DEF Saved
    <3>2. Safe(f)'
      <4>1. CASE Like(j, image[f])
        BY <1>1, <1>2, <1>3, <1>6, <4>1, <3>1 DEF FileInv, Safe, Like
      <4>2. CASE Saved(f) \/ good[f] = Absent \/ f \in uncopied
        BY <3>1, <4>2 DEF Safe
      <4> QED BY <1>1, <4>1, <4>2
    <3>3. f = "rnpm" => j.text = "lookup" /\ j.tables \subseteq {1, 2}
      BY <1>1, MigFacts
    <3>4. good[f] # Absent => j.rows = good[f].rows /\ good[f].tables \subseteq j.tables
      BY <1>1, <1>2 DEF FileInv
    <3> QED BY <1>1, <1>2, <1>3, <1>4, <2>2, <3>2, <3>3, <3>4 DEF FileInv, Consistent
  <2> QED BY <2>1, <2>2
<1> QED BY <1>5, <1>7, <1>8, <1>9 DEF MigInv

\* The next migration is one of the chain, and open.
LEMMA DueFacts ==
  ASSUME MigTyped, NEW f \in Files, Open(f) # {}
  PROVE  Due(f) \in Open(f) /\ Due(f) \in Chain(f) /\ Due(f) \in Versions
<1>1. Open(f) \subseteq Chain(f) /\ Chain(f) \subseteq Versions /\ Versions \subseteq Nat
  BY MigFacts DEF Open, MigTyped
<1>2. \E v \in Open(f) : \A w \in Open(f) : v <= w
  BY <1>1, LeastNumber
<1> QED BY <1>1, <1>2 DEF Due

\* What the runner finds when it is at work.
LEMMA RunnerFacts ==
  ASSUME MigInv, boot.step \in {"migrate", "legacy"}
  PROVE  /\ Opening \in Files /\ image[Opening] \in Image /\ image[Opening] # Absent
         /\ image[Opening].tables = Applied(image[Opening])
         /\ image[Opening].tables \subseteq Chain(Opening)
         /\ Opening = "rnpm" => image[Opening].text = "lookup"
         /\ \/ Saved(Opening) \/ good[Opening] = Absent \/ Opening \in uncopied
            \/ Chain(Opening) \subseteq image[Opening].tables /\ image[Opening].text = "lookup"
<1>1. PICK f \in Files : f = Opening /\ Under(f)
  BY DEF Opening, Files, Under
<1>2. FileInv(f) /\ image[f] \in Image \cup {Absent} /\ BootInv
  BY DEF MigInv, MigTyped
<1>3. /\ image[f] # Absent /\ image[f].tables = Applied(image[f])
      /\ Applied(image[f]) \subseteq Chain(f)
  BY <1>1, <1>2 DEF BootInv
<1> QED BY <1>1, <1>2, <1>3 DEF FileInv, Safe

LEMMA HealKeeps == ASSUME MigInv, Heal PROVE MigInv'
<1> DEFINE f == Opening
           i == image[f]
           v == Due(f)
           j == [i EXCEPT !.ledger = [i.ledger EXCEPT ![v] = "exact"]]
<1>1. /\ i.ledger[v] = "crlf" /\ image' = [image EXCEPT ![f] = j] /\ boot.step = "migrate"
      /\ UNCHANGED <<mode, release, copies, jail, handle, boot, good, uncopied, swallowed>>
      /\ Open(f) # {}
  BY DEF Heal
<1>2. /\ f \in Files /\ i \in Image /\ i # Absent
      /\ i.tables = Applied(i) /\ i.tables \subseteq Chain(f) /\ (f = "rnpm" => i.text = "lookup")
  BY <1>1, RunnerFacts
<1>3. v \in Versions
  BY <1>1, <1>2, DueFacts DEF MigInv
<1> HIDE DEF v, i
<1>4. i.ledger \in [Versions -> {"none", "exact", "crlf", "drift", "sentinel"}]
  BY <1>2 DEF Image
<1>5. /\ j \in Image /\ j.tables = i.tables /\ j.text = i.text /\ j.rows = i.rows
      /\ j.ledger = [i.ledger EXCEPT ![v] = "exact"]
  BY <1>2, <1>3, <1>4 DEF Image
<1> HIDE DEF j
<1>6. Applied(j) = Applied(i)
  BY <1>1, <1>3, <1>4, <1>5 DEF Applied, Unapplied
<1> QED BY <1>1, <1>2, <1>5, <1>6, FileChanges DEF Like, i

LEMMA MigrateKeeps == ASSUME MigInv, Migrate PROVE MigInv'
<1> DEFINE f == Opening
           i == image[f]
           v == Due(f)
           j == [i EXCEPT !.ledger = [i.ledger EXCEPT ![v] = "exact"], !.tables = i.tables \cup {v}]
<1>1. /\ i.ledger[v] = "none" /\ boot.step = "migrate" /\ Open(f) # {}
      /\ image' = [image EXCEPT ![f].ledger[v] = "exact", ![f].tables = @ \cup {v}]
      /\ UNCHANGED <<mode, release, copies, jail, handle, boot, good, uncopied, swallowed>>
  BY DEF Migrate
<1>2. /\ f \in Files /\ i \in Image /\ i # Absent
      /\ i.tables = Applied(i) /\ i.tables \subseteq Chain(f) /\ (f = "rnpm" => i.text = "lookup")
      /\ \/ Saved(f) \/ good[f] = Absent \/ f \in uncopied
         \/ Chain(f) \subseteq i.tables
  BY <1>1, RunnerFacts
<1>3. v \in Versions /\ v \in Chain(f)
  BY <1>1, <1>2, DueFacts DEF MigInv
<1>4. image' = [image EXCEPT ![f] = j]
  <2>1. image \in [Files -> Image \cup {Absent}] /\ f \in Files
    BY <1>2 DEF MigInv, MigTyped
  <2> QED BY <1>1, <2>1
<1> HIDE DEF v, i
<1>5. i.ledger \in [Versions -> {"none", "exact", "crlf", "drift", "sentinel"}]
  BY <1>2 DEF Image
<1>6. /\ j \in Image /\ j.tables = i.tables \cup {v} /\ j.text = i.text /\ j.rows = i.rows
      /\ j.ledger = [i.ledger EXCEPT ![v] = "exact"]
  BY <1>2, <1>3, <1>5 DEF Image
<1> HIDE DEF j
<1>7. Applied(j) = Applied(i) \cup {v}
  BY <1>3, <1>5, <1>6 DEF Applied, Unapplied
<1>8. v \notin i.tables
  BY <1>1, <1>2 DEF Applied, Unapplied
<1>9. Saved(f) \/ good[f] = Absent \/ f \in uncopied
  BY <1>2, <1>3, <1>8
<1>10. /\ j.rows = image[f].rows /\ image[f].tables \subseteq j.tables /\ image[f] # Absent
       /\ j.tables = Applied(j) /\ j.tables \subseteq Chain(f) /\ (f = "rnpm" => j.text = "lookup")
  BY <1>2, <1>3, <1>6, <1>7 DEF i
<1> QED BY <1>1, <1>4, <1>6, <1>9, <1>10, FileChanges

LEMMA TextsKeep == ASSUME MigInv, AddColumn \/ MoveTexts PROVE MigInv'
<1> DEFINE i == image["monolith"]
<1>1. PICK t \in {"both", "lookup"} :
        /\ image' = [image EXCEPT !["monolith"] = [i EXCEPT !.text = t]]
        /\ boot.step = "legacy" /\ i.text # "lookup"
        /\ UNCHANGED <<mode, release, copies, jail, handle, boot, good, uncopied, swallowed>>
  BY DEF AddColumn, MoveTexts
<1>2. Opening = "monolith"
  BY <1>1 DEF MigInv, BootInv
<1>3. /\ i \in Image /\ i # Absent /\ i.tables = Applied(i)
      /\ i.tables \subseteq Chain("monolith")
      /\ Saved("monolith") \/ good["monolith"] = Absent \/ "monolith" \in uncopied
  BY <1>1, <1>2, RunnerFacts
<1>4. PICK j : j = [i EXCEPT !.text = t]
  OBVIOUS
<1>5. /\ j \in Image /\ j.tables = i.tables /\ j.rows = i.rows /\ j.ledger = i.ledger
  BY <1>3, <1>4 DEF Image
<1>6. Applied(j) = Applied(i)
  BY <1>5 DEF Applied, Unapplied
<1> QED BY <1>1, <1>2, <1>3, <1>4, <1>5, <1>6, FileChanges

LEMMA MigratedKeeps == ASSUME MigInv, Migrated PROVE MigInv'
<1>1. /\ boot.step = "migrate" /\ Open(Opening) = {} /\ Opening = "monolith"
      /\ boot' = [boot EXCEPT !.step = "legacy"]
      /\ UNCHANGED <<mode, release, image, copies, jail, handle, good, uncopied, swallowed>>
  BY DEF Migrated
<1>2. MigTyped /\ boot \in [stage : Stages, step : Steps] /\ BootInv
  BY DEF MigInv, MigTyped
<1>3. /\ boot' \in [stage : Stages, step : Steps] /\ boot'.step = "legacy"
      /\ boot'.stage = boot.stage
  BY <1>1, <1>2 DEF Steps
<1>4. /\ Opening' = Opening /\ \A g : (Under(g)' <=> Under(g)) /\ Chain(g)' = Chain(g)
      /\ Open("monolith")' = Open("monolith")
  BY <1>1, <1>3 DEF Opening, Under, Chain, Open
<1>5. MigTyped'
  BY <1>1, <1>2, <1>3 DEF MigTyped
<1>6. BootInv'
  BY <1>1, <1>2, <1>3, <1>4 DEF BootInv
<1>7. HandleInv'
  BY <1>1, <1>4 DEF MigInv, HandleInv, Whole
<1>8. ASSUME NEW g \in Files PROVE FileInv(g)'
  <2>1. image[g] # Absent => Like(image[g], image[g]) /\ Consistent(image[g])
    BY DEF MigInv, FileInv, Like
  <2> QED BY <1>1, <1>4, <2>1, FileStays
<1> QED BY <1>5, <1>6, <1>7, <1>8 DEF MigInv

\* A file of which no copy is wanted has nothing to do, unless it was changed.
LEMMA NotWanted ==
  ASSUME MigInv, NEW f \in Files, good[f] # Absent, Like(image[f], good[f]),
         ~NeedsDescriere(f), ~HasPending(f)
  PROVE  Chain(f) \subseteq image[f].tables /\ image[f].text = "lookup"
<1> DEFINE i == image[f]
<1>1. /\ i \in Image /\ i # Absent /\ Consistent(i) /\ 1 \in i.tables /\ release \in Versions
      /\ good[f] \in Image /\ good[f].text # "both" /\ (f = "rnpm" => good[f].text = "lookup")
      /\ i.text = good[f].text /\ f \in {"monolith", "rnpm"}
  BY DEF MigInv, FileInv, MigTyped, Like, Files
<1>2. i.text = "lookup"
  BY <1>1 DEF NeedsDescriere, Image
<1>3. Chain(f) \subseteq i.tables
  <2>1. Chain(f) \subseteq Versions
    BY <1>1, MigFacts
  <2>2. CASE f = "monolith" /\ Untracked(i)
    <3>1. release <= 1 /\ release \in Nat /\ release >= 1
      BY <1>1, <2>2, MigFacts DEF HasPending, Versions
    <3>2. release = 1
      BY <3>1
    <3> QED BY <1>1, <2>2, <3>2 DEF Chain
  <2>3. CASE ~(f = "monolith" /\ Untracked(i))
    <3>1. Chain(f) \cap Unapplied(i) = {}
      BY <1>1, <2>3 DEF HasPending
    <3>2. 1 \in Chain(f) /\ ~Untracked(i)
      BY <1>1, <2>1, <3>1, MigFacts DEF Untracked
    <3> QED BY <1>1, <2>1, <3>1, <3>2 DEF Consistent, Applied
  <2> QED BY <2>2, <2>3
<1> QED BY <1>2, <1>3

\* The RNPM file has one migration to go at most: once changed, it wants no copy.
LEMMA ChangedWantsNone ==
  ASSUME MigInv, good["rnpm"] # Absent, ~Like(image["rnpm"], good["rnpm"])
  PROVE  ~NeedsDescriere("rnpm") /\ ~HasPending("rnpm")
<1> DEFINE i == image["rnpm"]
           g == good["rnpm"]
<1>1. /\ i # Absent /\ Consistent(i) /\ i.tables \subseteq {1, 2} /\ 1 \in g.tables
      /\ g.tables \subseteq i.tables /\ i.rows = g.rows /\ i.text = g.text
  BY DEF MigInv, FileInv, Files
<1>2. i.tables # g.tables
  BY <1>1 DEF Like
<1>3. i.tables = {1, 2}
  BY <1>1, <1>2
<1>4. Applied(i) = {1, 2}
  BY <1>1, <1>3 DEF Consistent
<1>5. Chain("rnpm") \cap Unapplied(i) = {}
  BY <1>4, MigFacts DEF Applied
<1> QED BY <1>5 DEF NeedsDescriere, HasPending

LEMMA CopyKeeps == ASSUME MigInv, Copy PROVE MigInv'
<1>1. PICK f \in Files : f = Opening /\ f \in {"monolith", "rnpm"}
  BY DEF Opening, Files
<1> DEFINE wanted == NeedsDescriere(f) \/ HasPending(f)
           kept == IF Len(jail) < 2 THEN jail ELSE Tail(jail)
<1>2. /\ boot.step = "call" /\ f \notin handle /\ handle' = handle \cup ({f} \ {"rnpm"})
      /\ boot' = [boot EXCEPT !.step = "ledger"]
      /\ UNCHANGED <<mode, release, image, good, swallowed>>
      /\ \/ /\ copies' = IF wanted /\ f = "monolith" THEN copies \cup {image[f]} ELSE copies
            /\ jail' = IF wanted /\ f = "rnpm" THEN Append(kept, image[f]) ELSE jail
            /\ uncopied' = uncopied
         \/ /\ wanted /\ uncopied' = uncopied \cup {f} /\ UNCHANGED <<copies, jail>>
  BY <1>1 DEF Copy
<1> HIDE DEF wanted
<1>3. MigTyped /\ boot \in [stage : Stages, step : Steps] /\ BootInv /\ HandleInv
  BY DEF MigInv, MigTyped
<1>4. /\ boot' \in [stage : Stages, step : Steps] /\ boot'.step = "ledger"
      /\ boot'.stage = boot.stage /\ boot.stage # "off"
  BY <1>2, <1>3 DEF Steps, BootInv
<1>5. Opening' = f /\ (\A g : Under(g)' <=> g = f) /\ \A g : ~Under(g) /\ Chain(g)' = Chain(g)
  BY <1>1, <1>2, <1>4 DEF Opening, Under, Chain
<1>6. wanted => image[f] \in Image
  <2>1. image[f] \in Image \cup {Absent}
    BY <1>3 DEF MigTyped
  <2> QED BY <2>1 DEF wanted, NeedsDescriere, HasPending
<1>7. kept \in Seq(Image) /\ (wanted => /\ Append(kept, image[f]) \in Seq(Image)
                                        /\ Len(Append(kept, image[f])) = Len(kept) + 1
                                        /\ Append(kept, image[f])[Len(kept) + 1] = image[f]
                                        /\ Len(kept) \in Nat)
  <2>1. jail \in Seq(Image) /\ Len(jail) \in Nat
    BY <1>3, LenProperties DEF MigTyped
  <2>2. kept \in Seq(Image)
    <3>1. CASE Len(jail) < 2
      BY <2>1, <3>1
    <3>2. CASE Len(jail) >= 2
      <4>1. jail # <<>>
        BY <2>1, <3>2
      <4>2. kept = Tail(jail)
        BY <2>1, <3>2
      <4> QED BY <2>1, <4>1, <4>2, HeadTailProperties
    <3> QED BY <2>1, <3>1, <3>2
  <2> HIDE DEF kept
  <2> QED BY <1>6, <2>2, AppendProperties, LenProperties
<1> HIDE DEF kept
<1>8. MigTyped'
  <2>1. copies' \subseteq Image /\ jail' \in Seq(Image)
    BY <1>2, <1>3, <1>6, <1>7 DEF MigTyped
  <2> QED BY <1>2, <1>3, <1>4, <2>1 DEF MigTyped, Files
<1>9. BootInv'
  BY <1>2, <1>4, <1>5 DEF BootInv
<1>10. HandleInv'
  <2> SUFFICES ASSUME ~swallowed, NEW g \in handle', g # f
               PROVE  image[g] # Absent /\ Whole(g)'
    BY <1>1, <1>2, <1>5 DEF HandleInv
  <2>1. g \in handle
    BY <1>2
  <2> QED BY <1>2, <1>3, <1>5, <2>1 DEF HandleInv, Whole
<1>11. ASSUME NEW g \in Files PROVE FileInv(g)'
  <2>1. FileInv(g)
    BY DEF MigInv
  <2>2. CASE g # f
    <3>1. Saved(g) => Saved(g)'
      BY <1>1, <1>2, <2>2 DEF Saved, Files
    <3>2. g \in uncopied' <=> g \in uncopied
      BY <1>2, <2>2
    <3> QED BY <1>2, <1>5, <2>1, <2>2, <3>1, <3>2 DEF FileInv, Safe
  <2>3. CASE g = f
    <3>1. Safe(f)'
      <4> SUFFICES ASSUME good[f] # Absent, f \notin uncopied'
                   PROVE  Saved(f)' \/ (/\ Like(image[f], good[f])
                                        /\ Chain(f) \subseteq image[f].tables
                                        /\ image[f].text = "lookup")
        BY <1>2, <1>5 DEF Safe
      <4>1. /\ f \notin uncopied
            /\ copies' = IF wanted /\ f = "monolith" THEN copies \cup {image[f]} ELSE copies
            /\ jail' = IF wanted /\ f = "rnpm" THEN Append(kept, image[f]) ELSE jail
        BY <1>2
      <4>2. Saved(f) \/ Like(image[f], good[f])
        BY <2>1, <2>3, <4>1 DEF FileInv, Safe
      <4>3. CASE wanted /\ Like(image[f], good[f])
        <5>1. image[f] \in (IF f = "monolith" THEN copies' ELSE {jail'[n] : n \in DOMAIN jail'})
          <6>1. CASE f = "monolith"
            BY <4>1, <4>3, <6>1
          <6>2. CASE f = "rnpm"
            <7>1. /\ jail' \in Seq(Image) /\ Len(jail') = Len(kept) + 1 /\ Len(kept) \in Nat
                  /\ jail'[Len(kept) + 1] = image[f]
              BY <1>7, <4>1, <4>3, <6>2
            <7>2. Len(kept) + 1 \in DOMAIN jail'
              BY <7>1, LenProperties
            <7> QED BY <6>2, <7>1, <7>2
          <6> QED BY <1>1, <6>1, <6>2
        <5> QED BY <1>2, <4>3, <5>1 DEF Saved
      <4>4. CASE ~wanted /\ ~Saved(f)
        BY <4>2, <4>4, NotWanted DEF wanted
      <4>5. CASE ~wanted /\ Saved(f)
        BY <1>2, <4>1, <4>5 DEF Saved
      <4>6. CASE wanted /\ ~Like(image[f], good[f])
        <5>1. f = "monolith"
          BY <1>1, <4>6, ChangedWantsNone DEF wanted
        <5> QED BY <1>2, <4>1, <4>2, <4>6, <5>1 DEF Saved
      <4> QED BY <4>3, <4>4, <4>5, <4>6
    <3> QED BY <1>2, <2>1, <2>3, <3>1 DEF FileInv
  <2> QED BY <2>2, <2>3
<1> QED BY <1>8, <1>9, <1>10, <1>11 DEF MigInv

\* The opening returns: its file is whole, with all of the chain and no more.
LEMMA OpenedKeeps == ASSUME MigInv, Opened PROVE MigInv'
<1>1. PICK f \in Files : f = Opening /\ f \in {"monolith", "rnpm"}
  BY DEF Opening, Files
<1>2. /\ UNCHANGED <<mode, release, image, copies, jail, swallowed>> /\ Advance
      /\ boot.step \in {"migrate", "legacy"} /\ handle' \subseteq handle \cup {f}
      /\ good' = [good EXCEPT ![f] = image[f]] /\ uncopied' = uncopied \ {f}
      /\ boot.step = "migrate" => f = "rnpm" /\ Open(f) = {}
      /\ boot.step = "legacy" => image["monolith"].text = "lookup"
  BY <1>1 DEF Opened
<1>3. MigTyped /\ BootInv /\ HandleInv /\ FileInv(f)
  BY DEF MigInv
<1>4. /\ boot' \in [stage : Stages, step : {"idle", "call"}] /\ boot'.stage # "off"
      /\ boot'.step \in {"idle", "call"}
  BY <1>2 DEF Advance, Stages
<1>5. /\ image[f] \in Image /\ image[f] # Absent /\ image[f].tables = Applied(image[f])
      /\ image[f].tables \subseteq Chain(f) /\ (f = "rnpm" => image[f].text = "lookup")
  BY <1>1, <1>2, RunnerFacts
<1>6. Open(f) = {} /\ image[f].text = "lookup"
  BY <1>1, <1>2, <1>3, <1>5 DEF BootInv
<1>7. Whole(f) /\ 1 \in image[f].tables
  <2>1. Chain(f) \subseteq Versions /\ 1 \in Chain(f)
    BY <1>3, MigFacts DEF MigTyped
  <2>2. \A v \in Chain(f) : image[f].ledger[v] # "none"
    BY <1>6 DEF Open
  <2>3. Chain(f) \subseteq Applied(image[f])
    BY <2>1, <2>2 DEF Applied, Unapplied
  <2> QED BY <1>5, <1>6, <2>1, <2>3 DEF Whole, Applied
<1>8. /\ good' \in [Files -> Image \cup {Absent}] /\ good'[f] = image[f]
      /\ \A g \in Files : g # f => good'[g] = good[g]
  BY <1>2, <1>3, <1>5 DEF MigTyped
<1>9. MigTyped'
  BY <1>2, <1>3, <1>4, <1>8 DEF MigTyped, Steps
<1>10. \A g : ~Under(g)'
  BY <1>4 DEF Under
<1>11. BootInv'
  BY <1>4, <1>10 DEF BootInv
<1>12. HandleInv'
  <2> SUFFICES ASSUME ~swallowed, NEW g \in handle'
               PROVE  image[g] # Absent /\ Whole(g)'
    BY <1>2 DEF HandleInv
  <2>1. Whole(g)' = Whole(g)
    BY <1>2 DEF Whole, Chain
  <2>2. CASE g = f
    BY <1>5, <1>7, <2>1, <2>2
  <2>3. CASE g # f
    <3>1. g \in handle /\ ~Under(g)
      BY <1>1, <1>2, <2>3 DEF Under
    <3> QED BY <1>3, <2>1, <3>1 DEF HandleInv
  <2> QED BY <2>2, <2>3
<1>13. ASSUME NEW g \in Files PROVE FileInv(g)'
  <2>1. FileInv(g)
    BY DEF MigInv
  <2>2. CASE g # f
    <3>1. Saved(g)' = Saved(g) /\ good'[g] = good[g] /\ (g \in uncopied' <=> g \in uncopied)
      BY <1>2, <1>8, <2>2 DEF Saved
    <3> QED BY <1>2, <1>10, <2>1, <3>1 DEF FileInv, Safe
  <2>3. CASE g = f
    <3>1. Safe(f)'
      BY <1>2, <1>8, <1>10 DEF Safe, Like
    <3> QED BY <1>2, <1>5, <1>6, <1>7, <1>8, <2>1, <2>3, <3>1 DEF FileInv
  <2> QED BY <2>2, <2>3
<1> QED BY <1>9, <1>11, <1>12, <1>13 DEF MigInv

\* A user's rows, in a file that is whole.
LEMMA WriteKeeps == ASSUME MigInv, Write PROVE MigInv'
<1>1. PICK f \in handle :
        /\ image' = [image EXCEPT ![f] = [image[f] EXCEPT !.rows = @ + 1]]
        /\ good' = [good EXCEPT ![f] = image'[f]]
        /\ boot.stage = "serving" /\ boot.step = "idle" /\ ~swallowed
        /\ UNCHANGED <<mode, release, copies, jail, handle, boot, uncopied, swallowed>>
  BY DEF Write
<1>2. MigTyped /\ BootInv /\ HandleInv /\ f \in Files /\ FileInv(f)
  BY DEF MigInv, MigTyped
<1>3. \A g : ~Under(g) /\ ~Under(g)'
  BY <1>1 DEF Under
<1>4. image[f] # Absent /\ Whole(f) /\ image[f] \in Image
  BY <1>1, <1>2, <1>3 DEF HandleInv, MigTyped
<1>5. PICK j \in Image : /\ j = [image[f] EXCEPT !.rows = @ + 1]
                         /\ j.tables = image[f].tables /\ j.ledger = image[f].ledger
                         /\ j.text = image[f].text
  <2> DEFINE k == [image[f] EXCEPT !.rows = image[f].rows + 1]
  <2>1. image[f].rows + 1 \in Nat
    BY <1>4 DEF Image
  <2>2. /\ k \in Image /\ k.tables = image[f].tables /\ k.ledger = image[f].ledger
        /\ k.text = image[f].text
    BY <1>4, <2>1 DEF Image
  <2> QED BY <2>2
<1>6. /\ image' \in [Files -> Image \cup {Absent}] /\ good' \in [Files -> Image \cup {Absent}]
      /\ image'[f] = j /\ good'[f] = j
      /\ \A g \in Files : g # f => image'[g] = image[g] /\ good'[g] = good[g]
  BY <1>1, <1>2, <1>5 DEF MigTyped
<1>7. MigTyped'
  BY <1>1, <1>2, <1>6 DEF MigTyped
<1>8. BootInv'
  BY <1>1, <1>2, <1>3 DEF BootInv
<1>9. /\ j # Absent /\ Applied(j) = Applied(image[f]) /\ Unapplied(j) = Unapplied(image[f])
      /\ 1 \in j.tables
  <2>1. 1 \in Chain(f)
    BY <1>2, MigFacts DEF MigTyped
  <2> QED BY <1>4, <1>5, <2>1, MigFacts DEF Applied, Unapplied, Whole
<1>10. HandleInv'
  <2> SUFFICES ASSUME NEW g \in handle PROVE image'[g] # Absent /\ Whole(g)'
    BY <1>1 DEF HandleInv
  <2>1. image[g] # Absent /\ Whole(g) /\ g \in Files
    BY <1>1, <1>2, <1>3 DEF HandleInv, MigTyped
  <2>2. CASE g = f
    BY <1>1, <1>4, <1>5, <1>6, <1>9, <2>2 DEF Whole, Chain
  <2>3. CASE g # f
    BY <1>1, <1>6, <2>1, <2>3 DEF Whole, Chain
  <2> QED BY <2>2, <2>3
<1>11. ASSUME NEW g \in Files PROVE FileInv(g)'
  <2>1. FileInv(g)
    BY DEF MigInv
  <2>2. CASE g # f
    <3>1. Saved(g)' = Saved(g) /\ good'[g] = good[g] /\ image'[g] = image[g]
      BY <1>1, <1>6, <2>2 DEF Saved
    <3> QED BY <1>1, <1>3, <2>1, <3>1 DEF FileInv, Safe
  <2>3. CASE g = f
    <3>1. Safe(f)'
      BY <1>3, <1>6 DEF Safe, Like
    <3>2. Consistent(j) /\ j.text = "lookup"
      BY <1>4, <1>5, <1>9, <2>1, <2>3 DEF FileInv, Consistent, Untracked, Whole
    <3> QED BY <1>4, <1>5, <1>6, <1>9, <2>1, <2>3, <3>1, <3>2 DEF FileInv
  <2> QED BY <2>2, <2>3
<1> QED BY <1>7, <1>8, <1>10, <1>11 DEF MigInv

LEMMA MigStarts == MigInit => MigInv
<1> SUFFICES ASSUME MigInit PROVE MigInv
  OBVIOUS
<1>1. \A t \in {"inline", "lookup"} :
        /\ Legacy(t) \in Image /\ Consistent(Legacy(t)) /\ 1 \in Legacy(t).tables
        /\ Legacy(t).text = t
  <2> SUFFICES ASSUME NEW t \in {"inline", "lookup"}
               PROVE  /\ Legacy(t) \in Image /\ Consistent(Legacy(t)) /\ 1 \in Legacy(t).tables
                      /\ Legacy(t).text = t
    OBVIOUS
  <2>1. Blank \in Image /\ Blank.ledger = [v \in Versions |-> "none"] /\ 1 \in Versions
    BY MigFacts DEF Blank
  <2>2. /\ Legacy(t) \in Image /\ Legacy(t).tables = {1} /\ Legacy(t).text = t
        /\ Legacy(t).ledger = Blank.ledger
    BY <2>1 DEF Legacy, Image
  <2>3. Untracked(Legacy(t))
    BY <2>1, <2>2 DEF Untracked, Unapplied
  <2> QED BY <2>2, <2>3 DEF Consistent
<1>2. ASSUME NEW top \in Versions, NEW h \in {"exact", "crlf", "drift"}
      PROVE  /\ Tracked(top, h) \in Image /\ Consistent(Tracked(top, h))
             /\ 1 \in Tracked(top, h).tables /\ Tracked(top, h).text = "lookup"
             /\ Tracked(top, h).tables = 1..top
  <2>1. MaxVersion \in Nat /\ top \in Nat /\ 1 <= top /\ top <= MaxVersion
    BY MigFacts DEF Versions
  <2>2. 1..top \in SUBSET Versions /\ 1 \in 1..top
    BY <2>1 DEF Versions
  <2>3. [v \in Versions |-> IF v > top THEN "none" ELSE IF v = 1 THEN h ELSE "exact"]
          \in [Versions -> {"none", "exact", "crlf", "drift", "sentinel"}]
    OBVIOUS
  <2>4. Tracked(top, h) \in Image
    BY <2>2, <2>3 DEF Tracked, Image
  <2>5. Applied(Tracked(top, h)) = 1..top
    <3>1. \A v \in Versions : Tracked(top, h).ledger[v] = "none" <=> v > top
      BY DEF Tracked
    <3>2. \A v \in Versions : v > top <=> v \notin 1..top
      BY <2>1 DEF Versions
    <3> QED BY <2>2, <3>1, <3>2 DEF Applied, Unapplied
  <2> QED BY <2>2, <2>4, <2>5 DEF Tracked, Consistent
<1>3. PICK m \in OldMonoliths, r \in OldRnpmFiles :
        image = [f \in Files |-> IF f = "monolith" THEN m ELSE r]
  BY DEF MigInit
<1>4. /\ good = image /\ copies = {} /\ jail = <<>> /\ handle = {}
      /\ boot = [stage |-> "off", step |-> "idle"] /\ release = 1 /\ mode \in {"web", "desktop"}
  BY DEF MigInit
<1>5. m # Absent => m \in Image /\ Consistent(m) /\ 1 \in m.tables /\ m.text # "both"
  BY <1>1, <1>2 DEF OldMonoliths
<1>6. r # Absent => /\ r \in Image /\ Consistent(r) /\ 1 \in r.tables /\ r.text = "lookup"
                    /\ r.tables = 1..1
  BY <1>2, MigFacts DEF OldRnpmFiles
<1>7. image["monolith"] = m /\ image["rnpm"] = r /\ Files = {"monolith", "rnpm"}
  BY <1>3 DEF Files
<1>8. MigTyped
  BY <1>3, <1>4, <1>5, <1>6, MigFacts DEF MigTyped, Stages, Steps
<1>9. BootInv /\ HandleInv /\ \A f \in Files : ~Under(f)
  BY <1>4 DEF BootInv, HandleInv, Under
<1>10. 1..1 \subseteq {1, 2}
  OBVIOUS
<1>11. ASSUME NEW f \in Files PROVE FileInv(f)
  <2>1. Safe(f)
    BY <1>4, <1>9 DEF Safe, Like
  <2> QED BY <1>4, <1>5, <1>6, <1>7, <1>10, <2>1 DEF FileInv
<1> QED BY <1>8, <1>9, <1>11 DEF MigInv

\* The inductive invariant: tables and ledger agree, only the monolith is cached
\* before it is whole, and a file that an opening may change has been copied.
THEOREM MigInvariant == MigSpec => []MigInv
<1>1. MigInv /\ [MigNext]_migVars => MigInv'
  <2> SUFFICES ASSUME MigInv, [MigNext]_migVars PROVE MigInv'
    OBVIOUS
  <2>1. CASE Start \/ Kill \/ Cached \/ Request
    BY <2>1, BootStepsKeep
  <2>2. CASE RefuseToOpen \/ Fail
    BY <2>2, ThrowsKeep
  <2>3. CASE Ledger
    BY <2>3, LedgerKeeps
  <2>4. CASE Heal \/ Migrate
    BY <2>4, HealKeeps, MigrateKeeps
  <2>5. CASE AddColumn \/ MoveTexts
    BY <2>5, TextsKeep
  <2>6. CASE Copy \/ Migrated
    BY <2>6, CopyKeeps, MigratedKeeps
  <2>7. CASE Opened \/ Write
    BY <2>7, OpenedKeeps, WriteKeeps
  <2>8. CASE UNCHANGED migVars
    BY <2>8 DEF migVars, MigInv, MigTyped, BootInv, HandleInv, FileInv, Safe, Saved, Under,
                Opening, Chain, Whole, Open
  <2> QED BY <2>1, <2>2, <2>3, <2>4, <2>5, <2>6, <2>7, <2>8 DEF MigNext
<1> QED BY MigStarts, <1>1, PTL DEF MigSpec

\* A request gets a handle only of a whole file, for any number of migrations,
\* failures, kills and releases up and down (db/migrations/runner.ts).
THEOREM HandlesAreWholeHolds == MigSpec => []HandlesAreWhole
<1>1. MigInv => HandlesAreWhole
  <2> SUFFICES ASSUME MigInv, boot.stage = "serving", ~swallowed, NEW f \in handle
               PROVE  Whole(f)
    BY DEF HandlesAreWhole
  <2>1. ~(f = "monolith" /\ Under(f))
    BY DEF Under, Opening
  <2> QED BY <2>1 DEF MigInv, HandleInv
<1> QED BY <1>1, MigInvariant, PTL

\* And as long as a file with data is half upgraded, a copy of it as it was is
\* kept, if it could be made (schema.ts:97-113, rnpmDb.ts:60-78).
THEOREM UpgradeLeavesACopyHolds == MigSpec => []UpgradeLeavesACopy
<1>1. MigInv => UpgradeLeavesACopy
  <2> SUFFICES ASSUME MigInv, NEW f \in Files, good[f] # Absent, f \notin uncopied,
                      <<image[f].tables, image[f].text>> # <<good[f].tables, good[f].text>>
               PROVE  \E c \in (IF f = "monolith" THEN copies ELSE {jail[n] : n \in DOMAIN jail}) :
                        c.tables = good[f].tables /\ c.text = good[f].text /\ c.rows = good[f].rows
    BY DEF UpgradeLeavesACopy
  <2>1. Safe(f)
    BY DEF MigInv, FileInv
  <2>2. ~Like(image[f], good[f])
    BY DEF Like
  <2> QED BY <2>1, <2>2 DEF Safe, Saved, Like
<1> QED BY <1>1, MigInvariant, PTL

-----------------------------------------------------------------------------
(* The RNPM split.                                                            *)


\* Before the marker the monolith is the data, and a published file is a
\* whole copy of its owner's rows.
BeforeMarker ==
    marker.status = "none" =>
      /\ mono = truth /\ syncedMono = truth
      /\ \A o \in Owners : /\ file[o] \in {None, truth[o]}
                           /\ syncedFile[o] \in {None, truth[o]}
      /\ pc \in {"down", "aborted", "fresh", "preflight", "backup", "copy",
                 "markWiping"}

\* While the marker says "wiping" the backup is whole; the monolith is whole
\* or empty, a file is whole or damaged, and the manifest tells which.
WhileWiping ==
    marker.status = "wiping" =>
      /\ backup # None
      /\ mono \in {truth, Empty} /\ syncedMono \in {truth, Empty}
      /\ syncedMono = Empty => mono = Empty
      /\ syncedFile = file
      /\ \A o \in Owners :
           /\ file[o] \in {None, {}, truth[o]}
           /\ o \in marker.owners <=> truth[o] # {}
           /\ marker.manifest[o] = Cardinality(truth[o])
      /\ pc \in {"down", "aborted", "verify", "wipe", "markDone"}

\* After it the files are the data.
AfterSplit ==
    marker.status = "done" =>
      /\ syncedFile = file
      /\ \A o \in Owners : Content(file[o]) = truth[o]
      /\ pc \in {"down", "aborted", "serving"}

\* What each stage of a boot has established.
BootStage ==
    /\ backup # None /\ marker.status # "done" => backup = truth
    /\ pc = "fresh" => mono = Empty
    /\ pc \in {"backup", "copy"} =>
         \A o \in Owners : mono[o] # {} /\ o \notin todo => file[o] = mono[o]
    /\ pc = "backup" => todo = MonoOwners
    /\ pc \in {"copy", "markWiping"} => backup # None
    /\ pc \in {"markWiping", "wipe", "markDone"} =>
         \A o \in Owners : Content(file[o]) = truth[o]
    /\ pc = "markDone" => mono = Empty
    /\ pc \in {"fresh", "preflight", "backup", "copy", "markWiping"} =>
         marker.status = "none"
    /\ pc \in {"verify", "wipe", "markDone"} => marker.status = "wiping"
    /\ pc = "serving" => marker.status = "done"

SplitInv == TypeOK /\ BeforeMarker /\ WhileWiping /\ AfterSplit /\ BootStage

-----------------------------------------------------------------------------
\* The sets of rows are finite, and a copy with as many rows as its source is
\* the source: what the counts of copyOwnerToFile and of the manifest verify.
LEMMA CountsTell ==
  ASSUME NEW S \in SUBSET Rows
  PROVE  /\ IsFiniteSet(S) /\ Cardinality(S) \in Nat
         /\ Cardinality(S) = 0 <=> S = {}
         /\ \A T \in SUBSET S : Cardinality(T) = Cardinality(S) => T = S
<1>1. IsFiniteSet(S)
  BY SplitAssumption, FS_Subset
<1>2. Cardinality(S) \in Nat /\ (Cardinality(S) = 0 <=> S = {})
  BY <1>1, FS_CardinalityType, FS_EmptySet
<1>3. \A T \in SUBSET S : Cardinality(T) = Cardinality(S) => T = S
  BY <1>1, FS_Subset
<1> QED BY <1>1, <1>2, <1>3

\* A missing file is no set of rows, and a missing backup no monolith.
LEMMA NoneIsNoData ==
  None \notin SUBSET Rows /\ None \notin [Owners -> SUBSET Rows]
BY SplitAssumption

LEMMA InitSplitInv == Init => SplitInv
<1> SUFFICES ASSUME Init PROVE SplitInv
  OBVIOUS
<1> USE SplitAssumption, NoneIsNoData DEF Init, NoMarker, Marker
<1>1. TypeOK
  <2>1. marker \in [status : Statuses, owners : SUBSET Owners,
                   manifest : [Owners -> Nat]]
    BY DEF Statuses
  <2>2. file \in [Owners -> (SUBSET Rows) \cup {None}] /\ syncedFile = file
    OBVIOUS
  <2>3. mono \in [Owners -> SUBSET Rows] /\ syncedMono = mono /\ truth = mono
    OBVIOUS
  <2>4. fails \in 0..MaxFails /\ backup = None /\ todo = {} /\ pc = "down"
    OBVIOUS
  <2> HIDE DEF Init
  <2>5. reason = "none" /\ restored = FALSE
    BY DEF Init
  <2> QED BY <2>1, <2>2, <2>3, <2>4, <2>5 DEF TypeOK
<1>2. BeforeMarker /\ WhileWiping /\ AfterSplit
  BY DEF BeforeMarker, WhileWiping, AfterSplit
<1>3. BootStage
  BY DEF BootStage
<1> QED BY <1>1, <1>2, <1>3 DEF SplitInv

LEMMA BootKeepsInv ==
  ASSUME SplitInv, Boot
  PROVE  SplitInv'
<1> USE SplitAssumption, NoneIsNoData, CountsTell
<1>1. TypeOK'
  BY DEF SplitInv, Boot, Goto, Abort, TypeOK, BeforeMarker, WhileWiping, AfterSplit, BootStage, disk, Empty, Pending, MonoOwners, Content, Statuses
<1>2. BeforeMarker'
  BY DEF SplitInv, Boot, Goto, Abort, TypeOK, BeforeMarker, WhileWiping, AfterSplit, BootStage, disk, Empty, Pending, MonoOwners, Content
<1>3. WhileWiping'
  BY DEF SplitInv, Boot, Goto, Abort, TypeOK, BeforeMarker, WhileWiping, AfterSplit, BootStage, disk, Empty, Pending, MonoOwners, Content
<1>4. AfterSplit'
  BY DEF SplitInv, Boot, Goto, Abort, TypeOK, BeforeMarker, WhileWiping, AfterSplit, BootStage, disk, Empty, Pending, MonoOwners, Content
<1>5. BootStage'
  BY DEF SplitInv, Boot, Goto, Abort, TypeOK, BeforeMarker, WhileWiping, AfterSplit, BootStage, disk, Empty, Pending, MonoOwners, Content
<1> QED BY <1>1, <1>2, <1>3, <1>4, <1>5 DEF SplitInv

LEMMA MarkFreshKeepsInv ==
  ASSUME SplitInv, MarkFresh
  PROVE  SplitInv'
<1> USE SplitAssumption, NoneIsNoData, CountsTell
<1>1. TypeOK'
  BY DEF SplitInv, MarkFresh, Goto, WriteMarker, Marker, TypeOK, BeforeMarker, WhileWiping, AfterSplit, BootStage, disk, Empty, Pending, MonoOwners, Content, Statuses
<1>2. BeforeMarker'
  BY DEF SplitInv, MarkFresh, Goto, WriteMarker, Marker, TypeOK, BeforeMarker, WhileWiping, AfterSplit, BootStage, disk, Empty, Pending, MonoOwners, Content
<1>3. WhileWiping'
  BY DEF SplitInv, MarkFresh, Goto, WriteMarker, Marker, TypeOK, BeforeMarker, WhileWiping, AfterSplit, BootStage, disk, Empty, Pending, MonoOwners, Content
<1>4. AfterSplit'
  BY DEF SplitInv, MarkFresh, Goto, WriteMarker, Marker, TypeOK, BeforeMarker, WhileWiping, AfterSplit, BootStage, disk, Empty, Pending, MonoOwners, Content
<1>5. BootStage'
  BY DEF SplitInv, MarkFresh, Goto, WriteMarker, Marker, TypeOK, BeforeMarker, WhileWiping, AfterSplit, BootStage, disk, Empty, Pending, MonoOwners, Content
<1> QED BY <1>1, <1>2, <1>3, <1>4, <1>5 DEF SplitInv

LEMMA PreflightKeepsInv ==
  ASSUME SplitInv, Preflight
  PROVE  SplitInv'
<1> USE SplitAssumption, NoneIsNoData, CountsTell
<1>1. TypeOK'
  BY DEF SplitInv, Preflight, Goto, Fails, Abort, TypeOK, BeforeMarker, WhileWiping, AfterSplit, BootStage, disk, Empty, Pending, MonoOwners, Content, Statuses
<1>2. BeforeMarker'
  BY DEF SplitInv, Preflight, Goto, Fails, Abort, TypeOK, BeforeMarker, WhileWiping, AfterSplit, BootStage, disk, Empty, Pending, MonoOwners, Content
<1>3. WhileWiping'
  BY DEF SplitInv, Preflight, Goto, Fails, Abort, TypeOK, BeforeMarker, WhileWiping, AfterSplit, BootStage, disk, Empty, Pending, MonoOwners, Content
<1>4. AfterSplit'
  BY DEF SplitInv, Preflight, Goto, Fails, Abort, TypeOK, BeforeMarker, WhileWiping, AfterSplit, BootStage, disk, Empty, Pending, MonoOwners, Content
<1>5. BootStage'
  BY DEF SplitInv, Preflight, Goto, Fails, Abort, TypeOK, BeforeMarker, WhileWiping, AfterSplit, BootStage, disk, Empty, Pending, MonoOwners, Content
<1> QED BY <1>1, <1>2, <1>3, <1>4, <1>5 DEF SplitInv

LEMMA BackupKeepsInv ==
  ASSUME SplitInv, Backup
  PROVE  SplitInv'
<1> USE SplitAssumption, NoneIsNoData, CountsTell
<1>1. TypeOK'
  BY DEF SplitInv, Backup, Goto, Fails, Abort, TypeOK, BeforeMarker, WhileWiping, AfterSplit, BootStage, disk, Empty, Pending, MonoOwners, Content, Statuses
<1>2. BeforeMarker'
  BY DEF SplitInv, Backup, Goto, Fails, Abort, TypeOK, BeforeMarker, WhileWiping, AfterSplit, BootStage, disk, Empty, Pending, MonoOwners, Content
<1>3. WhileWiping'
  BY DEF SplitInv, Backup, Goto, Fails, Abort, TypeOK, BeforeMarker, WhileWiping, AfterSplit, BootStage, disk, Empty, Pending, MonoOwners, Content
<1>4. AfterSplit'
  BY DEF SplitInv, Backup, Goto, Fails, Abort, TypeOK, BeforeMarker, WhileWiping, AfterSplit, BootStage, disk, Empty, Pending, MonoOwners, Content
<1>5. BootStage'
  <2>1. CASE pc' = "aborted" /\ UNCHANGED <<disk, todo, truth>>
    BY <2>1 DEF SplitInv, TypeOK, BootStage, disk, MonoOwners
  <2>2. CASE /\ backup' = mono
             /\ pc' = IF todo = {} THEN "markWiping" ELSE "copy"
             /\ UNCHANGED <<mono, file, marker, todo, truth>>
    <3>1. marker.status = "none" /\ mono = truth /\ todo = MonoOwners
      BY <2>2 DEF Backup, SplitInv, BeforeMarker, BootStage
    <3>2. \A o \in Owners : mono[o] # {} => o \in todo
      BY <3>1 DEF MonoOwners
    <3>3. backup' # None /\ backup' = truth'
      BY <2>2, <3>1 DEF SplitInv, TypeOK
    <3>4. todo = {} => \A o \in Owners : Content(file[o]) = truth[o]
      BY <3>1, <3>2 DEF SplitInv, BeforeMarker, Content
    <3>5. pc' \in {"copy", "markWiping"} /\ (pc' = "markWiping" => todo = {})
      BY <2>2
    <3> QED BY <2>2, <3>1, <3>2, <3>3, <3>4, <3>5 DEF BootStage, Content
  <2> QED BY <2>1, <2>2 DEF Backup, Goto, Fails, Abort, disk
<1> QED BY <1>1, <1>2, <1>3, <1>4, <1>5 DEF SplitInv

LEMMA CopyOwnerKeepsInv ==
  ASSUME SplitInv, NEW o \in Owners, CopyOwner(o)
  PROVE  SplitInv'
<1> USE SplitAssumption, NoneIsNoData, CountsTell
<1>1. TypeOK'
  BY DEF SplitInv, CopyOwner, Verified, Goto, Fails, Abort, TypeOK, BeforeMarker, WhileWiping, AfterSplit, BootStage, disk, Empty, Pending, MonoOwners, Content, Statuses
<1>2. BeforeMarker'
  BY DEF SplitInv, CopyOwner, Verified, Goto, Fails, Abort, TypeOK, BeforeMarker, WhileWiping, AfterSplit, BootStage, disk, Empty, Pending, MonoOwners, Content
<1>3. WhileWiping'
  BY DEF SplitInv, CopyOwner, Verified, Goto, Fails, Abort, TypeOK, BeforeMarker, WhileWiping, AfterSplit, BootStage, disk, Empty, Pending, MonoOwners, Content
<1>4. AfterSplit'
  BY DEF SplitInv, CopyOwner, Verified, Goto, Fails, Abort, TypeOK, BeforeMarker, WhileWiping, AfterSplit, BootStage, disk, Empty, Pending, MonoOwners, Content
<1>5. BootStage'
  <2>1. CASE pc' = "aborted" /\ UNCHANGED <<disk, todo, truth>>
    BY <2>1 DEF SplitInv, TypeOK, BootStage, disk, MonoOwners
  <2>2. ASSUME NEW copied \in SUBSET mono[o],
               Cardinality(copied) = Cardinality(mono[o]),
               file' = [file EXCEPT ![o] = copied],
               todo' = todo \ {o},
               pc' = IF todo' = {} THEN "markWiping" ELSE "copy",
               UNCHANGED <<mono, marker, backup, truth>>
        PROVE  BootStage'
    <3>1. marker.status = "none" /\ mono = truth
      BY DEF CopyOwner, SplitInv, BeforeMarker, BootStage
    <3>2. mono[o] \in SUBSET Rows
      BY DEF SplitInv, TypeOK
    <3>3. copied = mono[o]
      BY <2>2, <3>2, CountsTell
    <3>4. \A p \in Owners : file'[p] = IF p = o THEN mono[o] ELSE file[p]
      BY <2>2, <3>3 DEF SplitInv, TypeOK
    <3>5. \A p \in Owners : mono[p] # {} /\ p \notin todo' => file'[p] = mono[p]
      BY <2>2, <3>4 DEF CopyOwner, SplitInv, BootStage
    <3>6. todo' = {} => \A p \in Owners : Content(file'[p]) = truth[p]
      BY <3>1, <3>2, <3>4, <3>5 DEF SplitInv, BeforeMarker, Content, TypeOK
    <3>7. pc' \in {"copy", "markWiping"} /\ (pc' = "markWiping" => todo' = {})
      BY <2>2
    <3>8. backup # None /\ backup = truth
      BY <3>1 DEF CopyOwner, SplitInv, BootStage
    <3> QED BY <2>2, <3>1, <3>5, <3>6, <3>7, <3>8 DEF BootStage, Content
  <2> QED BY <2>1, <2>2 DEF CopyOwner, Verified, Goto, Fails, Abort, disk
<1> QED BY <1>1, <1>2, <1>3, <1>4, <1>5 DEF SplitInv

LEMMA MarkWipingKeepsInv ==
  ASSUME SplitInv, MarkWiping
  PROVE  SplitInv'
<1> USE SplitAssumption, NoneIsNoData, CountsTell
<1>1. TypeOK'
  BY DEF SplitInv, MarkWiping, WriteMarker, Goto, TypeOK, BeforeMarker, WhileWiping, AfterSplit, BootStage, disk, Empty, Pending, MonoOwners, Content, Statuses
<1>2. BeforeMarker'
  BY DEF SplitInv, MarkWiping, WriteMarker, Goto, TypeOK, BeforeMarker, WhileWiping, AfterSplit, BootStage, disk, Empty, Pending, MonoOwners, Content
<1>3. WhileWiping'
  BY DEF SplitInv, MarkWiping, WriteMarker, Goto, TypeOK, BeforeMarker, WhileWiping, AfterSplit, BootStage, disk, Empty, Pending, MonoOwners, Content
<1>4. AfterSplit'
  BY DEF SplitInv, MarkWiping, WriteMarker, Goto, TypeOK, BeforeMarker, WhileWiping, AfterSplit, BootStage, disk, Empty, Pending, MonoOwners, Content
<1>5. BootStage'
  BY DEF SplitInv, MarkWiping, WriteMarker, Goto, TypeOK, BeforeMarker, WhileWiping, AfterSplit, BootStage, disk, Empty, Pending, MonoOwners, Content
<1> QED BY <1>1, <1>2, <1>3, <1>4, <1>5 DEF SplitInv

LEMMA VerifyResumeKeepsInv ==
  ASSUME SplitInv, VerifyResume
  PROVE  SplitInv'
<1> USE SplitAssumption, NoneIsNoData, CountsTell
<1>1. TypeOK'
  BY DEF SplitInv, VerifyResume, Goto, Abort, TypeOK, BeforeMarker, WhileWiping, AfterSplit, BootStage, disk, Empty, Pending, MonoOwners, Content, Statuses
<1>2. BeforeMarker'
  BY DEF SplitInv, VerifyResume, Goto, Abort, TypeOK, BeforeMarker, WhileWiping, AfterSplit, BootStage, disk, Empty, Pending, MonoOwners, Content
<1>3. WhileWiping'
  BY DEF SplitInv, VerifyResume, Goto, Abort, TypeOK, BeforeMarker, WhileWiping, AfterSplit, BootStage, disk, Empty, Pending, MonoOwners, Content
<1>4. AfterSplit'
  BY DEF SplitInv, VerifyResume, Goto, Abort, TypeOK, BeforeMarker, WhileWiping, AfterSplit, BootStage, disk, Empty, Pending, MonoOwners, Content
<1>5. BootStage'
  <2>1. marker.status = "wiping" /\ UNCHANGED <<disk, todo, truth>>
    BY DEF VerifyResume, SplitInv, BootStage
  <2>2. CASE ResumeVerified /\ pc' = "wipe"
    <3>1. ASSUME NEW o \in Owners PROVE Content(file[o]) = truth[o]
      <4>1. /\ file[o] \in {None, {}, truth[o]}
            /\ o \in marker.owners <=> truth[o] # {}
            /\ marker.manifest[o] = Cardinality(truth[o])
        BY <2>1 DEF SplitInv, WhileWiping
      <4>2. truth[o] \in SUBSET Rows
        BY DEF SplitInv, TypeOK
      <4>3. CASE o \in marker.owners
        <5>1. file[o] # None /\ Cardinality(file[o]) = Cardinality(truth[o])
          BY <2>2, <4>1, <4>3 DEF ResumeVerified
        <5>2. file[o] # {}
          <6>1. Cardinality(truth[o]) # 0
            BY <4>1, <4>2, <4>3, CountsTell
          <6>2. Cardinality({}) = 0
            BY FS_EmptySet
          <6> QED BY <5>1, <6>1, <6>2
        <5> QED BY <4>1, <5>1, <5>2 DEF Content
      <4>4. CASE o \notin marker.owners
        BY <4>1, <4>2, <4>4 DEF Content
      <4> QED BY <4>3, <4>4
    <3> QED BY <2>1, <2>2, <3>1 DEF SplitInv, TypeOK, BootStage, disk, Content
  <2>3. CASE pc' = "aborted"
    BY <2>1, <2>3 DEF SplitInv, TypeOK, BootStage, disk, MonoOwners
  <2> QED BY <2>2, <2>3 DEF VerifyResume, Goto, Abort
<1> QED BY <1>1, <1>2, <1>3, <1>4, <1>5 DEF SplitInv

LEMMA WipeKeepsInv ==
  ASSUME SplitInv, Wipe
  PROVE  SplitInv'
<1> USE SplitAssumption, NoneIsNoData, CountsTell
<1>1. TypeOK'
  BY DEF SplitInv, Wipe, Goto, TypeOK, BeforeMarker, WhileWiping, AfterSplit, BootStage, disk, Empty, Pending, MonoOwners, Content, Statuses
<1>2. BeforeMarker'
  BY DEF SplitInv, Wipe, Goto, TypeOK, BeforeMarker, WhileWiping, AfterSplit, BootStage, disk, Empty, Pending, MonoOwners, Content
<1>3. WhileWiping'
  BY DEF SplitInv, Wipe, Goto, TypeOK, BeforeMarker, WhileWiping, AfterSplit, BootStage, disk, Empty, Pending, MonoOwners, Content
<1>4. AfterSplit'
  BY DEF SplitInv, Wipe, Goto, TypeOK, BeforeMarker, WhileWiping, AfterSplit, BootStage, disk, Empty, Pending, MonoOwners, Content
<1>5. BootStage'
  BY DEF SplitInv, Wipe, Goto, TypeOK, BeforeMarker, WhileWiping, AfterSplit, BootStage, disk, Empty, Pending, MonoOwners, Content
<1> QED BY <1>1, <1>2, <1>3, <1>4, <1>5 DEF SplitInv

LEMMA MarkDoneKeepsInv ==
  ASSUME SplitInv, MarkDone
  PROVE  SplitInv'
<1> USE SplitAssumption, NoneIsNoData, CountsTell
<1>1. TypeOK'
  BY DEF SplitInv, MarkDone, WriteMarker, Marker, Goto, TypeOK, BeforeMarker, WhileWiping, AfterSplit, BootStage, disk, Empty, Pending, MonoOwners, Content, Statuses
<1>2. BeforeMarker'
  BY DEF SplitInv, MarkDone, WriteMarker, Marker, Goto, TypeOK, BeforeMarker, WhileWiping, AfterSplit, BootStage, disk, Empty, Pending, MonoOwners, Content
<1>3. WhileWiping'
  BY DEF SplitInv, MarkDone, WriteMarker, Marker, Goto, TypeOK, BeforeMarker, WhileWiping, AfterSplit, BootStage, disk, Empty, Pending, MonoOwners, Content
<1>4. AfterSplit'
  BY DEF SplitInv, MarkDone, WriteMarker, Marker, Goto, TypeOK, BeforeMarker, WhileWiping, AfterSplit, BootStage, disk, Empty, Pending, MonoOwners, Content
<1>5. BootStage'
  BY DEF SplitInv, MarkDone, WriteMarker, Marker, Goto, TypeOK, BeforeMarker, WhileWiping, AfterSplit, BootStage, disk, Empty, Pending, MonoOwners, Content
<1> QED BY <1>1, <1>2, <1>3, <1>4, <1>5 DEF SplitInv

LEMMA CheckpointKeepsInv ==
  ASSUME SplitInv, Checkpoint
  PROVE  SplitInv'
<1> USE SplitAssumption, NoneIsNoData, CountsTell
<1>1. TypeOK'
  BY DEF SplitInv, Checkpoint, TypeOK, BeforeMarker, WhileWiping, AfterSplit, BootStage, disk, Empty, Pending, MonoOwners, Content, Statuses
<1>2. BeforeMarker'
  BY DEF SplitInv, Checkpoint, TypeOK, BeforeMarker, WhileWiping, AfterSplit, BootStage, disk, Empty, Pending, MonoOwners, Content
<1>3. WhileWiping'
  BY DEF SplitInv, Checkpoint, TypeOK, BeforeMarker, WhileWiping, AfterSplit, BootStage, disk, Empty, Pending, MonoOwners, Content
<1>4. AfterSplit'
  BY DEF SplitInv, Checkpoint, TypeOK, BeforeMarker, WhileWiping, AfterSplit, BootStage, disk, Empty, Pending, MonoOwners, Content
<1>5. BootStage'
  BY DEF SplitInv, Checkpoint, TypeOK, BeforeMarker, WhileWiping, AfterSplit, BootStage, disk, Empty, Pending, MonoOwners, Content
<1> QED BY <1>1, <1>2, <1>3, <1>4, <1>5 DEF SplitInv

LEMMA CrashKeepsInv ==
  ASSUME SplitInv, Crash
  PROVE  SplitInv'
<1> USE SplitAssumption, NoneIsNoData, CountsTell
<1>1. TypeOK'
  BY DEF SplitInv, Crash, TypeOK, BeforeMarker, WhileWiping, AfterSplit, BootStage, disk, Empty, Pending, MonoOwners, Content, Statuses
<1>2. BeforeMarker'
  BY DEF SplitInv, Crash, TypeOK, BeforeMarker, WhileWiping, AfterSplit, BootStage, disk, Empty, Pending, MonoOwners, Content
<1>3. WhileWiping'
  BY DEF SplitInv, Crash, TypeOK, BeforeMarker, WhileWiping, AfterSplit, BootStage, disk, Empty, Pending, MonoOwners, Content
<1>4. AfterSplit'
  BY DEF SplitInv, Crash, TypeOK, BeforeMarker, WhileWiping, AfterSplit, BootStage, disk, Empty, Pending, MonoOwners, Content
<1>5. BootStage'
  BY DEF SplitInv, Crash, TypeOK, BeforeMarker, WhileWiping, AfterSplit, BootStage, disk, Empty, Pending, MonoOwners, Content
<1> QED BY <1>1, <1>2, <1>3, <1>4, <1>5 DEF SplitInv

LEMMA PowerLossKeepsInv ==
  ASSUME SplitInv, PowerLoss
  PROVE  SplitInv'
<1> USE SplitAssumption, NoneIsNoData, CountsTell
<1>1. TypeOK'
  BY DEF SplitInv, PowerLoss, TypeOK, BeforeMarker, WhileWiping, AfterSplit, BootStage, disk, Empty, Pending, MonoOwners, Content, Statuses
<1>2. BeforeMarker'
  BY DEF SplitInv, PowerLoss, TypeOK, BeforeMarker, WhileWiping, AfterSplit, BootStage, disk, Empty, Pending, MonoOwners, Content
<1>3. WhileWiping'
  BY DEF SplitInv, PowerLoss, TypeOK, BeforeMarker, WhileWiping, AfterSplit, BootStage, disk, Empty, Pending, MonoOwners, Content
<1>4. AfterSplit'
  BY DEF SplitInv, PowerLoss, TypeOK, BeforeMarker, WhileWiping, AfterSplit, BootStage, disk, Empty, Pending, MonoOwners, Content
<1>5. BootStage'
  BY DEF SplitInv, PowerLoss, TypeOK, BeforeMarker, WhileWiping, AfterSplit, BootStage, disk, Empty, Pending, MonoOwners, Content
<1> QED BY <1>1, <1>2, <1>3, <1>4, <1>5 DEF SplitInv

LEMMA RestoreMonolithKeepsInv ==
  ASSUME SplitInv, RestoreMonolith
  PROVE  SplitInv'
<1> USE SplitAssumption, NoneIsNoData, CountsTell
<1>1. TypeOK'
  BY DEF SplitInv, RestoreMonolith, TypeOK, BeforeMarker, WhileWiping, AfterSplit, BootStage, disk, Empty, Pending, MonoOwners, Content, Statuses
<1>2. BeforeMarker'
  BY DEF SplitInv, RestoreMonolith, TypeOK, BeforeMarker, WhileWiping, AfterSplit, BootStage, disk, Empty, Pending, MonoOwners, Content
<1>3. WhileWiping'
  BY DEF SplitInv, RestoreMonolith, TypeOK, BeforeMarker, WhileWiping, AfterSplit, BootStage, disk, Empty, Pending, MonoOwners, Content
<1>4. AfterSplit'
  BY DEF SplitInv, RestoreMonolith, TypeOK, BeforeMarker, WhileWiping, AfterSplit, BootStage, disk, Empty, Pending, MonoOwners, Content
<1>5. BootStage'
  BY DEF SplitInv, RestoreMonolith, TypeOK, BeforeMarker, WhileWiping, AfterSplit, BootStage, disk, Empty, Pending, MonoOwners, Content
<1> QED BY <1>1, <1>2, <1>3, <1>4, <1>5 DEF SplitInv

LEMMA DamageFileKeepsInv ==
  ASSUME SplitInv, NEW o \in Owners, DamageFile(o)
  PROVE  SplitInv'
<1> USE SplitAssumption, NoneIsNoData, CountsTell
<1>1. TypeOK'
  BY DEF SplitInv, DamageFile, TypeOK, BeforeMarker, WhileWiping, AfterSplit, BootStage, disk, Empty, Pending, MonoOwners, Content, Statuses
<1>2. BeforeMarker'
  BY DEF SplitInv, DamageFile, TypeOK, BeforeMarker, WhileWiping, AfterSplit, BootStage, disk, Empty, Pending, MonoOwners, Content
<1>3. WhileWiping'
  BY DEF SplitInv, DamageFile, TypeOK, BeforeMarker, WhileWiping, AfterSplit, BootStage, disk, Empty, Pending, MonoOwners, Content
<1>4. AfterSplit'
  BY DEF SplitInv, DamageFile, TypeOK, BeforeMarker, WhileWiping, AfterSplit, BootStage, disk, Empty, Pending, MonoOwners, Content
<1>5. BootStage'
  BY DEF SplitInv, DamageFile, TypeOK, BeforeMarker, WhileWiping, AfterSplit, BootStage, disk, Empty, Pending, MonoOwners, Content
<1> QED BY <1>1, <1>2, <1>3, <1>4, <1>5 DEF SplitInv

LEMMA SaveRowKeepsInv ==
  ASSUME SplitInv, NEW o \in Owners, NEW r \in Rows, SaveRow(o, r)
  PROVE  SplitInv'
<1> USE SplitAssumption, NoneIsNoData, CountsTell
<1>1. TypeOK'
  BY DEF SplitInv, SaveRow, TypeOK, BeforeMarker, WhileWiping, AfterSplit, BootStage, disk, Empty, Pending, MonoOwners, Content, Statuses
<1>2. BeforeMarker'
  BY DEF SplitInv, SaveRow, TypeOK, BeforeMarker, WhileWiping, AfterSplit, BootStage, disk, Empty, Pending, MonoOwners, Content
<1>3. WhileWiping'
  BY DEF SplitInv, SaveRow, TypeOK, BeforeMarker, WhileWiping, AfterSplit, BootStage, disk, Empty, Pending, MonoOwners, Content
<1>4. AfterSplit'
  <2>1. marker.status = "done" /\ marker' = marker /\ pc' = "serving"
    BY DEF SplitInv, SaveRow, BootStage
  <2>2. file'[o] = Content(file[o]) \cup {r} /\ file'[o] # None
    BY DEF SplitInv, SaveRow, TypeOK, Content
  <2>3. \A p \in Owners \ {o} : file'[p] = file[p] /\ truth'[p] = truth[p]
    BY DEF SplitInv, SaveRow, TypeOK
  <2>4. truth'[o] = truth[o] \cup {r}
    BY DEF SplitInv, SaveRow, TypeOK
  <2>5. \A p \in Owners : Content(file'[p]) = truth'[p]
    <3>1. \A p \in Owners : Content(file[p]) = truth[p]
      BY <2>1 DEF SplitInv, AfterSplit
    <3>2. Content(file'[o]) = truth'[o]
      <4>1. Content(file'[o]) = file'[o]
        BY <2>2 DEF Content
      <4> QED BY <4>1, <3>1, <2>2, <2>4
    <3>3. ASSUME NEW p \in Owners \ {o} PROVE Content(file'[p]) = truth'[p]
      BY <3>1, <2>3 DEF Content
    <3> QED BY <3>2, <3>3
  <2>6. syncedFile' = file'
    <3>1. syncedFile = file /\ syncedFile' = [syncedFile EXCEPT ![o] = file'[o]]
      BY <2>1 DEF SplitInv, AfterSplit, SaveRow
    <3> QED BY <3>1 DEF SplitInv, TypeOK, SaveRow
  <2> QED BY <2>1, <2>5, <2>6 DEF AfterSplit, Content
<1>5. BootStage'
  BY DEF SplitInv, SaveRow, TypeOK, BeforeMarker, WhileWiping, AfterSplit, BootStage, disk, Empty, Pending, MonoOwners, Content
<1> QED BY <1>1, <1>2, <1>3, <1>4, <1>5 DEF SplitInv

LEMMA NextKeepsInv == SplitInv /\ [Next]_vars => SplitInv'
<1> SUFFICES ASSUME SplitInv, [Next]_vars PROVE SplitInv'
  OBVIOUS
<1>1. CASE Boot BY <1>1, BootKeepsInv
<1>2. CASE MarkFresh BY <1>2, MarkFreshKeepsInv
<1>3. CASE Preflight BY <1>3, PreflightKeepsInv
<1>4. CASE Backup BY <1>4, BackupKeepsInv
<1>5. CASE \E o \in Owners : CopyOwner(o) BY <1>5, CopyOwnerKeepsInv
<1>6. CASE MarkWiping BY <1>6, MarkWipingKeepsInv
<1>7. CASE VerifyResume BY <1>7, VerifyResumeKeepsInv
<1>8. CASE Wipe BY <1>8, WipeKeepsInv
<1>9. CASE MarkDone BY <1>9, MarkDoneKeepsInv
<1>10. CASE Checkpoint BY <1>10, CheckpointKeepsInv
<1>11. CASE Crash BY <1>11, CrashKeepsInv
<1>12. CASE PowerLoss BY <1>12, PowerLossKeepsInv
<1>13. CASE RestoreMonolith BY <1>13, RestoreMonolithKeepsInv
<1>14. CASE \E o \in Owners : DamageFile(o) BY <1>14, DamageFileKeepsInv
<1>15. CASE \E o \in Owners, r \in Rows : SaveRow(o, r)
  BY <1>15, SaveRowKeepsInv
<1>16. CASE UNCHANGED vars
  BY <1>16 DEF vars, SplitInv, TypeOK, BeforeMarker, WhileWiping, AfterSplit,
               BootStage, Empty, MonoOwners, Content
<1> QED
  BY <1>1, <1>2, <1>3, <1>4, <1>5, <1>6, <1>7, <1>8, <1>9, <1>10, <1>11,
     <1>12, <1>13, <1>14, <1>15, <1>16 DEF Next, Step

-----------------------------------------------------------------------------
\* In every reachable state, whatever has crashed, lost power, been restored
\* or been damaged, the files and the marker are in step (the protocol of
\* rnpmSplitter.ts:3-11).
THEOREM SplitInvariant == Spec => []SplitInv
<1>1. Init => SplitInv
  BY InitSplitInv
<1>2. SplitInv /\ [Next]_vars => SplitInv'
  BY NextKeepsInv
<1> QED BY <1>1, <1>2, PTL DEF Spec

\* No saved row is ever lost (rnpmSplitter.ts:4-11).
THEOREM NoRowLostHolds == Spec => []NoRowLost
<1>1. SplitInv => NoRowLost
  BY DEF SplitInv, TypeOK, BeforeMarker, WhileWiping, AfterSplit, BootStage,
         NoRowLost, Statuses
<1> QED BY <1>1, SplitInvariant, PTL

\* The application only ever serves complete files (index.ts:600-605).
THEOREM ServesAllRowsHolds == Spec => []ServesAllRows
<1>1. SplitInv => ServesAllRows
  BY DEF SplitInv, AfterSplit, BootStage, ServesAllRows
<1> QED BY <1>1, SplitInvariant, PTL

\* Rows leave the monolith only when the files hold them
\* (rnpmSplitter.ts:451-456).
THEOREM WipeKeepsRowsHolds == Spec => WipeKeepsRows
<1> DEFINE AllHeld == \A o \in Owners : Content(file[o]) = truth[o]
<1>1. ASSUME SplitInv, [Next]_vars, mono' = Empty, mono # Empty
      PROVE  AllHeld
  <2>1. CASE Wipe
    BY <1>1, <2>1 DEF Wipe, SplitInv, BootStage
  <2>2. CASE PowerLoss
    <3>1. syncedMono = Empty
      BY <1>1, <2>2 DEF PowerLoss
    <3>2. marker.status = "none" => FALSE
      BY <1>1, <3>1 DEF SplitInv, BeforeMarker
    <3>3. marker.status = "wiping" => FALSE
      BY <1>1, <3>1 DEF SplitInv, WhileWiping
    <3>4. marker.status = "done"
      BY <1>1, <3>2, <3>3 DEF SplitInv, TypeOK, Statuses
    <3> QED BY <1>1, <3>4 DEF SplitInv, AfterSplit
  <2>3. CASE RestoreMonolith
    <3>1. backup = Empty /\ backup # None
      BY <1>1, <2>3 DEF RestoreMonolith
    <3>2. CASE marker.status = "done"
      BY <1>1, <3>2 DEF SplitInv, AfterSplit
    <3>3. CASE marker.status # "done"
      <4>1. truth = Empty
        BY <1>1, <3>1, <3>3 DEF SplitInv, BootStage
      <4>2. marker.status \in {"none", "wiping"}
        BY <1>1, <3>3 DEF SplitInv, TypeOK, Statuses
      <4>3. mono = Empty
        BY <1>1, <4>1, <4>2 DEF SplitInv, BeforeMarker, WhileWiping
      <4> QED BY <1>1, <4>3
    <3> QED BY <3>2, <3>3
  <2>4. CASE ~(Wipe \/ PowerLoss \/ RestoreMonolith)
    BY <2>4, <1>1 DEF Next, Step, vars, disk, Boot, MarkFresh, Preflight, Backup,
       CopyOwner, Fails, MarkWiping, VerifyResume, MarkDone, Checkpoint, Crash,
       DamageFile, SaveRow
  <2> QED BY <2>1, <2>2, <2>3, <2>4
<1> QED BY <1>1, SplitInvariant, PTL DEF Spec, WipeKeepsRows

\* As long as nobody damages a file during the split, the split is one atomic
\* step: the durable marker "wiping" (rnpmSplitter.ts:4-8).
THEOREM SplitIsAtomic ==
  ASSUME "damage" \notin Env
  PROVE  Spec => MoveIsAtomic
<1> DEFINE home == IF marker.status = "none" THEN "monolith" ELSE "files"
           data == [o \in Owners |-> IF marker.status = "none" THEN mono[o]
                                    ELSE Content(file[o])]
<1>1. Init => Move!Init
  BY DEF Init, NoMarker, Marker, Move!Init
<1>2. ASSUME SplitInv, [Next]_vars
      PROVE  [Move!Next]_<<home, data>>
  <2>1. CASE MarkFresh
    <3>1. marker.status = "none" /\ marker'.status = "done"
      BY <1>2, <2>1 DEF MarkFresh, SplitInv, BootStage, WriteMarker, Marker
    <3>2. \A o \in Owners : mono[o] = Content(file'[o])
      BY <1>2, <2>1, <3>1 DEF MarkFresh, SplitInv, BootStage, BeforeMarker,
         TypeOK, Empty, Content
    <3>3. data' = data
      BY <3>1, <3>2
    <3> QED BY <3>1, <3>3 DEF Move!Next, Move!Move
  <2>2. CASE MarkWiping
    <3>1. marker.status = "none" /\ marker'.status = "wiping"
      BY <1>2, <2>2 DEF MarkWiping, SplitInv, BootStage, WriteMarker
    <3>2. \A o \in Owners : mono[o] = Content(file'[o])
      BY <1>2, <2>2, <3>1 DEF MarkWiping, SplitInv, BootStage, BeforeMarker
    <3>3. data' = data
      BY <3>1, <3>2
    <3> QED BY <3>1, <3>3 DEF Move!Next, Move!Move
  <2>3. ASSUME NEW o \in Owners, NEW r \in Rows, SaveRow(o, r)
        PROVE  Move!Next
    <3>1. marker.status = "done" /\ marker' = marker
      BY <1>2, <2>3 DEF SaveRow, SplitInv, BootStage
    <3>2. \A p \in Owners : Content(file'[p]) =
             IF p = o THEN Content(file[p]) \cup {r} ELSE Content(file[p])
      BY <1>2, <2>3, NoneIsNoData DEF SaveRow, SplitInv, TypeOK, Content
    <3>3. data' = [data EXCEPT ![o] = @ \cup {r}]
      BY <3>1, <3>2
    <3> QED BY <3>1, <3>3 DEF Move!Next, Move!Save
  <2>4. CASE PowerLoss
    <3>1. marker' = marker
      BY <2>4 DEF PowerLoss
    <3>2. CASE marker.status = "none"
      <4>1. mono' = mono
        BY <1>2, <2>4, <3>2 DEF PowerLoss, SplitInv, BeforeMarker
      <4> QED BY <3>1, <3>2, <4>1
    <3>3. CASE marker.status # "none"
      <4>1. syncedFile = file
        BY <1>2, <3>3 DEF SplitInv, WhileWiping, AfterSplit, TypeOK, Statuses
      <4>2. \A o \in Owners : file'[o] = file[o]
        BY <2>4, <4>1 DEF PowerLoss
      <4> QED BY <3>1, <3>3, <4>2 DEF Content
    <3> QED BY <3>2, <3>3
  <2>5. CASE RestoreMonolith
    <3>1. marker' = marker /\ file' = file
      BY <2>5 DEF RestoreMonolith
    <3>2. marker.status = "none" => mono' = mono
      BY <1>2, <2>5 DEF RestoreMonolith, SplitInv, BeforeMarker, BootStage
    <3> QED BY <3>1, <3>2
  <2>6. CASE \E o \in Owners : CopyOwner(o)
    <3>1. marker' = marker /\ marker.status = "none" /\ mono' = mono
      BY <1>2, <2>6 DEF CopyOwner, Fails, disk, SplitInv, BootStage
    <3> QED BY <3>1
  <2>7. CASE Wipe
    <3>1. marker' = marker /\ marker.status = "wiping" /\ file' = file
      BY <1>2, <2>7 DEF Wipe, SplitInv, BootStage
    <3> QED BY <3>1
  <2>8. CASE MarkDone
    <3>1. /\ marker'.status = "done" /\ marker.status = "wiping"
          /\ file' = file
      BY <1>2, <2>8 DEF MarkDone, WriteMarker, Marker, SplitInv, BootStage
    <3> QED BY <3>1
  <2>9. CASE \/ Boot \/ Preflight \/ Backup \/ VerifyResume \/ Checkpoint
            \/ Crash \/ UNCHANGED vars
    <3>1. marker' = marker /\ file' = file /\ mono' = mono
      BY <2>9 DEF Boot, Preflight, Backup, VerifyResume, Checkpoint, Crash,
         Fails, disk, vars
    <3> QED BY <3>1
  <2>10. ~\E o \in Owners : DamageFile(o)
    BY DEF DamageFile
  <2> QED
    BY <1>2, <2>1, <2>2, <2>3, <2>4, <2>5, <2>6, <2>7, <2>8, <2>9, <2>10
       DEF Next, Step
<1> QED BY <1>1, <1>2, SplitInvariant, PTL DEF Spec, Move!Spec, MoveIsAtomic
=============================================================================
