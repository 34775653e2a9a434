---------------------------- MODULE BudgetWarning ----------------------------
(***************************************************************************)
(* The warning that a user's AI budget is 80% spent: the row of            *)
(* budget_notifications with its episodes (fired, cleared, fired again),   *)
(* the check after every recorded call, the retry every two minutes, and   *)
(* the mails under way (services/budgetWarningService.ts,                  *)
(* db/budgetNotificationsRepository.ts, the interval of index.ts).         *)
(*                                                                         *)
(* A check runs without an await up to its mail, so it is one step; the    *)
(* mail is answered later, whatever the episode has become, or its answer  *)
(* is lost after the server took it.  Nothing bounds a mail as a whole:    *)
(* the mailer's timeouts are of one phase or of silence each.              *)
(*                                                                         *)
(* Time is the age of the last attempt: below the backoff, below the       *)
(* cooldown of an hour, older.  It is the age as it is read: UTC taken for *)
(* local time makes it hours more or less than it is.  Nothing ties the    *)
(* budget to the checks either: the window rolls, an admin changes a       *)
(* limit, a grant expires.                                                 *)
(***************************************************************************)
EXTENDS Naturals

CONSTANTS
    MaxEpisodes, \* bound on the episodes
    MaxTroubles  \* bound on deaths of the process and marks that fail

ASSUME BudgetAssumption == {MaxEpisodes, MaxTroubles} \subseteq Nat

VARIABLES
    budget,   \* "none": no limit, "zero": nothing to spend, "under", "over"
    row,      \* budget_notifications: [active, sent, attempts]
    age,      \* of last_email_attempted_at: "none", "fresh", "aged", "old"
    episode,  \* how many times the warning has fired
    sends,    \* mails under way, by the episode they are of
    tried,    \* mails attempted, by episode
    accepted, \* mails the server took, by episode, counted when they end
    excuses,  \* by episode: mails taken without a mark, and mails begun
              \* beside one of the same episode
    troubles

budgetVars == <<budget, row, age, episode, sends, tried, accepted, excuses, troubles>>

Episodes == 1..MaxEpisodes
Count(f, e, n) == [f EXCEPT ![e] = @ + n]

BudgetInit ==
    /\ budget \in {"none", "under"}
    /\ row = [active |-> FALSE, sent |-> FALSE, attempts |-> 0]
    /\ age = "none" /\ episode = 0 /\ troubles = 0
    /\ sends = [e \in Episodes |-> 0]
    /\ tried = sends /\ accepted = sends /\ excuses = sends

-----------------------------------------------------------------------------
(* The check. *)

\* clearWarning: the attempts and their time stay.
Clear == row' = [row EXCEPT !.active = FALSE, !.sent = FALSE]

\* EMAIL_COOLDOWN_SECONDS, from the last attempt of any episode.
CoolingDown == age \in {"fresh", "aged"}

\* incrementEmailAttempt, then dispatchWarningEmail: nothing is sent to a
\* user without an address or with a higher minimum severity.  Whether one is
\* under way already is not asked.
Attempt(e) ==
    /\ age' = "fresh"
    /\ tried' = Count(tried, e, 1)
    /\ \E n \in {0, 1} :
         /\ sends' = Count(sends, e, n)
         /\ excuses' = IF sends[e] = 0 THEN excuses ELSE Count(excuses, e, n)

CheckClears ==
    /\ budget \in {"none", "under"} /\ row.active
    /\ Clear
    /\ UNCHANGED <<budget, age, episode, sends, tried, accepted, excuses, troubles>>

CheckFires ==
    /\ budget = "over" /\ ~row.active /\ episode < MaxEpisodes
    /\ episode' = episode + 1
    /\ IF CoolingDown
       THEN /\ row' = [row EXCEPT !.active = TRUE, !.sent = FALSE]
            /\ UNCHANGED <<age, sends, tried, excuses>>
       ELSE /\ row' = [active |-> TRUE, sent |-> FALSE, attempts |-> row.attempts + 1]
            /\ Attempt(episode + 1)
    /\ UNCHANGED <<budget, accepted, troubles>>

\* An unlimited user without a warning, no budget at all, or nothing new.
CheckSkips ==
    /\ \/ budget = "zero"
       \/ budget \in {"none", "under"} /\ ~row.active
       \/ budget = "over" /\ row.active
    /\ UNCHANGED budgetVars

-----------------------------------------------------------------------------
(* The retry. *)

MaxAttempts == 4

\* MUTANT: an episode is retried as long as it is open.
UnmailedEvenSent == row.active /\ row.attempts < MaxAttempts

\* selectPendingEmailRetries, and the state read again.
Unmailed == row.active /\ ~row.sent /\ row.attempts < MaxAttempts

BackedOff == age # "fresh"

RetrySends ==
    /\ Unmailed /\ BackedOff /\ budget = "over"
    /\ row' = [row EXCEPT !.attempts = @ + 1]
    /\ Attempt(episode)
    /\ UNCHANGED <<budget, episode, accepted, troubles>>

RetryClears ==
    /\ Unmailed /\ BackedOff /\ budget = "under"
    /\ Clear
    /\ UNCHANGED <<budget, age, episode, sends, tried, accepted, excuses, troubles>>

-----------------------------------------------------------------------------
(* The answers of the mail server. *)

MailEnds(e) == sends[e] > 0 /\ sends' = [sends EXCEPT ![e] = @ - 1]

\* What the server took and nobody marked.
Untold(e, n) == accepted' = Count(accepted, e, n) /\ excuses' = Count(excuses, e, n)

\* markEmailSent marks the open episode, be it another by now; if it throws,
\* that is caught and the row stays.
MailAccepted(e) ==
    /\ MailEnds(e)
    /\ \/ /\ row' = [row EXCEPT !.sent = row.active]
          /\ accepted' = Count(accepted, e, 1)
          /\ UNCHANGED <<excuses, troubles>>
       \/ /\ troubles < MaxTroubles /\ troubles' = troubles + 1
          /\ Untold(e, 1)
          /\ UNCHANGED row
    /\ UNCHANGED <<budget, age, episode, tried>>

\* send_failed: the server may have taken the mail and only its answer is lost.
MailFails(e) ==
    /\ MailEnds(e)
    /\ \E n \in {0, 1} : Untold(e, n)
    /\ UNCHANGED <<budget, row, age, episode, tried, troubles>>

-----------------------------------------------------------------------------
(* The surroundings. *)

Shift ==
    /\ \E b \in {"none", "zero", "under", "over"} \ {budget} : budget' = b
    /\ UNCHANGED <<row, age, episode, sends, tried, accepted, excuses, troubles>>

\* Mails under way or not.
Wait ==
    /\ \/ age = "fresh" /\ age' = "aged"
       \/ age = "aged" /\ age' = "old"
    /\ UNCHANGED <<budget, row, episode, sends, tried, accepted, excuses, troubles>>

\* What was under way may have been taken, and nobody marks it.
BudgetCrash ==
    /\ troubles < MaxTroubles /\ troubles' = troubles + 1
    /\ \E n \in [Episodes -> 0..MaxAttempts] :
         /\ \A e \in Episodes : n[e] <= sends[e]
         /\ accepted' = [e \in Episodes |-> accepted[e] + n[e]]
         /\ excuses' = [e \in Episodes |-> excuses[e] + n[e]]
    /\ sends' = [e \in Episodes |-> 0]
    /\ UNCHANGED <<budget, row, age, episode, tried>>

BudgetNext ==
    \/ CheckClears \/ CheckFires \/ CheckSkips \/ RetrySends \/ RetryClears
    \/ \E e \in Episodes : MailAccepted(e) \/ MailFails(e)
    \/ Shift \/ Wait \/ BudgetCrash

BudgetSpec == BudgetInit /\ [][BudgetNext]_budgetVars

-----------------------------------------------------------------------------
(* What the warning promises. *)

BudgetTypeOK ==
    /\ row \in [active : BOOLEAN, sent : BOOLEAN, attempts : Nat]
    /\ age \in {"none", "fresh", "aged", "old"} /\ episode \in 0..MaxEpisodes
    /\ {sends, tried, accepted, excuses} \subseteq [Episodes -> Nat]

\* A mail of an episode beyond the first has a cause, and each cause excuses one
\* mail only: one the server took and nobody marked (its answer was lost, the
\* mark failed, the process died), or one begun while another of the same
\* episode was under way.  So once a mail is marked the episode is told no more,
\* however checks, retries and slow answers interleave and however often it
\* clears and fires again, and it is tried four times at most (markEmailSent,
\* selectPendingEmailRetries; CHANGELOG.md:596 promises one mail per active
\* episode without the exceptions).
RepeatsAreExcused ==
    \A e \in Episodes :
        /\ accepted[e] <= 1 + excuses[e]
        /\ tried[e] <= MaxAttempts
=============================================================================
