----------------------------- MODULE IccjBreaker -----------------------------
(***************************************************************************)
(* The circuit breaker that all calls to scj.ro share                      *)
(* (services/iccj/iccjBreaker.ts): a window of weighted failures of calls  *)
(* that overlap, a cooldown, and a single probe after it.                  *)
(*                                                                         *)
(* Time is in half-minutes: the cooldown is one, the window two, and the   *)
(* timeout of a call one (ICCJ_TIMEOUT_MS).  withBreaker reads the clock   *)
(* when a call begins and works with that reading when the call fails.     *)
(***************************************************************************)
EXTENDS Naturals, FiniteSetsExt

CONSTANTS
    Call,      \* calls that may be under way together
    NoCall,      \* no call; not open
    Threshold, \* BREAKER_THRESHOLD
    MaxTime    \* bound on the clock

ASSUME BreakerAssumption ==
    /\ Threshold \in Nat \ {0} /\ MaxTime \in Nat
    /\ NoCall \notin [caller : {"system", "pat"}, at : 0..MaxTime, probe : BOOLEAN]

VARIABLES
    now,
    calls,    \* calls under way: [caller, at, probe], or NoCall
    failures, \* by class of caller and beginning of the call
    openedAt,
    halfOpenProbeInFlight,
    blamed    \* a system's call has failed in distress since it last closed

breakerVars == <<now, calls, failures, openedAt, halfOpenProbeInFlight, blamed>>

Caller == {"system", "pat"}
Time == 0..MaxTime
Window == 2
Cooldown == 1

\* A failure weighs 1, one of a token's calls a quarter; in quarters:
Weight == [system |-> 4, pat |-> 1]
Full == 4 * Threshold

NoFailures == [k \in Caller |-> [t \in Time |-> 0]]

BreakerInit ==
    /\ now = 0 /\ calls = [c \in Call |-> NoCall] /\ failures = NoFailures
    /\ openedAt = NoCall /\ halfOpenProbeInFlight = FALSE /\ blamed = FALSE

\* The failures still in the window; done when a call begins.
Recent == [k \in Caller |-> [t \in Time |-> IF now < t + Window THEN failures[k][t] ELSE 0]]

Score(f, k) == Weight[k] * SumFunction(f[k])

\* MUTANT: the contribution of tokens has no cap.
UncappedScore(f) == Score(f, "system") + Score(f, "pat")

\* PAT contributes at most a point below the threshold.
TotalScore(f) == Score(f, "system") + Min({Score(f, "pat"), Full - 4})

\* One more; more than it takes to open, or than the cap, changes nothing.
Counted(k, t) ==
    [failures EXCEPT ![k][t] = Min({@ + 1, IF k = "pat" THEN Full - 4 ELSE Threshold})]

-----------------------------------------------------------------------------
(* A call begins. *)

Begin(c, caller, probe) ==
    calls' = [calls EXCEPT ![c] = [caller |-> caller, at |-> now, probe |-> probe]]

Cooling == openedAt # NoCall /\ now < openedAt + Cooldown

\* Open to nobody, and half-open to one call of the system's.
Shut(caller) == openedAt # NoCall /\ (Cooling \/ caller = "pat" \/ halfOpenProbeInFlight)

Refuse(caller) ==
    /\ Shut(caller)
    /\ failures' = Recent
    /\ UNCHANGED <<now, calls, openedAt, halfOpenProbeInFlight, blamed>>

Probe(c) ==
    /\ calls[c] = NoCall
    /\ openedAt # NoCall /\ ~Shut("system")
    /\ failures' = Recent
    /\ halfOpenProbeInFlight' = TRUE
    /\ Begin(c, "system", TRUE)
    /\ UNCHANGED <<now, openedAt, blamed>>

Pass(c, caller) ==
    /\ calls[c] = NoCall
    /\ openedAt = NoCall
    /\ failures' = Recent
    /\ Begin(c, caller, FALSE)
    /\ UNCHANGED <<now, openedAt, halfOpenProbeInFlight, blamed>>

-----------------------------------------------------------------------------
(* A call ends. *)

Ends(c, probe) ==
    /\ calls[c] # NoCall /\ calls[c].probe = probe
    /\ calls' = [calls EXCEPT ![c] = NoCall]

\* An answer that cannot be parsed is an answer too.
ProbeAnswered(c) ==
    /\ Ends(c, TRUE)
    /\ halfOpenProbeInFlight' = FALSE
    /\ openedAt' = NoCall /\ failures' = NoFailures /\ blamed' = FALSE
    /\ UNCHANGED now

ProbeInDistress(c) ==
    /\ Ends(c, TRUE)
    /\ halfOpenProbeInFlight' = FALSE
    /\ openedAt' = calls[c].at /\ failures' = NoFailures /\ blamed' = TRUE
    /\ UNCHANGED now

\* A result, an abort by the caller, a page that cannot be parsed.
CallEnds(c) ==
    /\ Ends(c, FALSE)
    /\ UNCHANGED <<now, failures, openedAt, halfOpenProbeInFlight, blamed>>

CallInDistress(c) ==
    /\ Ends(c, FALSE)
    /\ failures' = Counted(calls[c].caller, calls[c].at)
    /\ openedAt' = IF TotalScore(failures') >= Full THEN calls[c].at ELSE openedAt
    /\ blamed' = (blamed \/ calls[c].caller = "system")
    /\ UNCHANGED <<now, halfOpenProbeInFlight>>

\* combineSignals: no call outlives its timeout.
TimePasses30s ==
    /\ now < MaxTime
    /\ \A c \in Call : calls[c] # NoCall => calls[c].at = now
    /\ now' = now + 1
    /\ UNCHANGED <<calls, failures, openedAt, halfOpenProbeInFlight, blamed>>

BreakerNext ==
    \/ TimePasses30s
    \/ \E k \in Caller : Refuse(k) \/ \E c \in Call : Pass(c, k)
    \/ \E c \in Call : \/ Probe(c) \/ ProbeAnswered(c) \/ ProbeInDistress(c)
                       \/ CallEnds(c) \/ CallInDistress(c)

BreakerSpec == BreakerInit /\ [][BreakerNext]_breakerVars

-----------------------------------------------------------------------------
(* What the breaker promises. *)

BreakerTypeOK ==
    /\ now \in Time /\ openedAt \in Time \cup {NoCall}
    /\ calls \in [Call -> [caller : Caller, at : Time, probe : BOOLEAN] \cup {NoCall}]
    /\ failures \in [Caller -> [Time -> Nat]]
    /\ halfOpenProbeInFlight \in BOOLEAN /\ blamed \in BOOLEAN

\* Tokens alone never shut out the user interface and the monitoring, however
\* many of their calls overlap and fail and whatever has failed and recovered
\* before: it takes a failure of the system's own (iccjBreaker.ts:6, 92-97).
PatAloneNeverOpens == openedAt # NoCall => blamed

\* Half-open lets one probe through at a time, and as soon as it has ended,
\* in whatever way and beside whichever older calls, the next: an open breaker
\* is never stuck (withBreaker).
ProbeIsAlone ==
    /\ halfOpenProbeInFlight <=> \E c \in Call : calls[c] # NoCall /\ calls[c].probe
    /\ \A c, d \in Call : (calls[c] # NoCall /\ calls[d] # NoCall) =>
           (calls[c].probe /\ calls[d].probe => c = d)

\* The cooldown begins when the breaker opens, so that for half a minute nobody
\* calls.  FALSE of the code (README, section 6).
CooldownIsKept == [][openedAt' = openedAt \/ openedAt' \in {NoCall, now}]_breakerVars
=============================================================================
