------------------------------ MODULE MCClients -------------------------------
(* What contends: processes for a data directory, tabs for a cookie jar,     *)
(* windows for an inbox, administrators for the table of accounts, requests  *)
(* for captchas and for the courts, and what is under way for the time a     *)
(* shutdown gives it.  They share nothing here; a behaviour is of one kind,  *)
(* so that the run checks the sum of the state spaces and not the product.   *)
EXTENDS MCInstanceLock, WebSession, AlertStream, Accounts, RnpmIntake, Shutdown,
        DosareSearch, DosareMore, TLC

CONSTANT i1

VARIABLE which

\* With a token, without one, under the same id, and without an id.
SomeShapes ==
    {[kind |-> "json", id |-> i1, by |-> "token"], [kind |-> "stream", id |-> i1, by |-> "none"],
     [kind |-> "bulk", id |-> i1, by |-> "token"], [kind |-> "json", id |-> NoId, by |-> "none"]}

\* Three courts, of which one repeats a file.
RawRows == <<2, 1, 2>>
DistinctRows == <<1, 1, 2>>

\* A month of three days and one of a day; two files of one number, at one
\* court and at two.
TwoMonths == <<3, 4>>
File(c, d, n) == [court |-> c, day |-> d, numar |-> n]
SomeFiles == {File(1, 1, 1), File(1, 1, 2), File(1, 2, 1), File(1, 3, 3), File(2, 4, 1)}

\* What stands still stands still in one way only.
ClientsInit ==
    /\ which \in {"lock", "session", "inbox", "accounts", "intake", "shutdown", "courts", "more"}
    /\ Init /\ (which # "lock" => lock = None)
    /\ AcctInit /\ (which # "accounts" => \A u \in Users : MayAdminister(u))
    /\ SessInit /\ StreamInit /\ IntakeInit /\ DownInit /\ DosInit
    /\ MoreInit /\ (which # "more" => registry = {} /\ range = <<1, 1>> /\ had = {})

clientVars == <<which, vars, sessVars, streamVars, acctVars, intakeVars, downVars, dosVars, moreVars>>

ClientsNext ==
    \/ /\ which = "lock" /\ Next
       /\ UNCHANGED <<which, sessVars, streamVars, acctVars, intakeVars, downVars, dosVars, moreVars>>
    \/ /\ which = "session" /\ SessNext
       /\ UNCHANGED <<which, vars, streamVars, acctVars, intakeVars, downVars, dosVars, moreVars>>
    \/ /\ which = "inbox" /\ StreamNext
       /\ UNCHANGED <<which, vars, sessVars, acctVars, intakeVars, downVars, dosVars, moreVars>>
    \/ /\ which = "accounts" /\ AcctNext
       /\ UNCHANGED <<which, vars, sessVars, streamVars, intakeVars, downVars, dosVars, moreVars>>
    \/ /\ which = "intake" /\ IntakeNext
       /\ UNCHANGED <<which, vars, sessVars, streamVars, acctVars, downVars, dosVars, moreVars>>
    \/ /\ which = "shutdown" /\ DownNext
       /\ UNCHANGED <<which, vars, sessVars, streamVars, acctVars, intakeVars, dosVars, moreVars>>
    \/ /\ which = "courts" /\ DosNext
       /\ UNCHANGED <<which, vars, sessVars, streamVars, acctVars, intakeVars, downVars, moreVars>>
    \/ /\ which = "more" /\ MoreNext
       /\ UNCHANGED <<which, vars, sessVars, streamVars, acctVars, intakeVars, downVars, dosVars>>

\* Tabs are only compared.
Interchangeable == Permutations(Tabs)

ClientsSpec == ClientsInit /\ [][ClientsNext]_clientVars
===============================================================================
