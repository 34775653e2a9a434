------------------------------ MODULE MCServices ------------------------------
(* Six parts of the backend that share nothing here: an RNPM search, the     *)
(* one-time split, the migrations of a boot, the budget warning, the daily   *)
(* report and the breaker.  A behaviour is of one of them, so that the run   *)
(* checks the sum of their state spaces and not the product.                 *)
EXTENDS RnpmSearch, RnpmSplit, Migrations, BudgetWarning, DailyReport, IccjBreaker, TLC

CONSTANTS ana, dan, x, y

VARIABLE which

Pages(total, rows, said) == [total |-> total, rows |-> rows, pagesTotal |-> said]
Found(rows) == Pages(Len(rows), rows, 1)
Nothing == Pages(0, <<>>, 0)
Refused == Pages(1, <<>>, 1)
TooMany(n) == Pages(n, <<>>, 1)

\* A page and a half with the number of pages said wrong; two pages and a half
\* with a row without uuid and one that is listed twice.
Singles ==
    {[mode |-> "single", kinds |-> 0, answer |-> (<<>> :> a)] :
       a \in {Pages(3, <<"a", "b", "c">>, 3),
              Pages(5, <<"a", "x", "a", "d", "e">>, 3)}}

Split3(a, b, c, places) ==
    [mode |-> "split", kinds |-> 3,
     answer |-> (<<1>> :> a @@ <<2>> :> b @@ <<3>> :> c @@ places)]

Splits ==
    {Split3(Pages(3, <<"a", "b", "g">>, 2), TooMany(6), Found(<<"c">>),
            <<2, 1>> :> Found(<<"d", "f">>) @@ <<2, 2>> :> Found(<<"e">>)),
     Split3(Refused, Refused, Found(<<"c">>), <<>>),
     Split3(TooMany(6), TooMany(6), Refused,
            <<2, 1>> :> TooMany(7) @@ <<2, 2>> :> Nothing)}

Requests == [m \in {"single", "split"} |-> IF m = "single" THEN 2 ELSE 1]
AllWorlds == Singles \cup Splits

ServicesInit ==
    /\ which \in {"search", "split", "boot", "budget", "daily", "breaker"}
    /\ SearchInit /\ Init /\ MigInit /\ BudgetInit /\ DailyInit /\ BreakerInit
    \* What stands still stands still in one way only.
    /\ which # "search" => world = CHOOSE w \in AllWorlds : TRUE
    /\ which # "split" => mono = Empty
    /\ which # "boot" => mode = "web" /\ image = [f \in Files |-> Absent]
    /\ which # "budget" => budget = "none"
    /\ which # "daily" => ~late

ServicesNext ==
    \/ /\ which = "search" /\ SearchNext
       /\ UNCHANGED <<which, vars, migVars, budgetVars, dailyVars, breakerVars>>
    \/ /\ which = "split" /\ Next
       /\ UNCHANGED <<which, searchVars, migVars, budgetVars, dailyVars, breakerVars>>
    \/ /\ which = "boot" /\ MigNext
       /\ UNCHANGED <<which, searchVars, vars, budgetVars, dailyVars, breakerVars>>
    \/ /\ which = "budget" /\ BudgetNext
       /\ UNCHANGED <<which, searchVars, vars, migVars, dailyVars, breakerVars>>
    \/ /\ which = "daily" /\ DailyNext
       /\ UNCHANGED <<which, searchVars, vars, migVars, budgetVars, breakerVars>>
    \/ /\ which = "breaker" /\ BreakerNext
       /\ UNCHANGED <<which, searchVars, vars, migVars, budgetVars, dailyVars>>

ServicesSpec ==
    ServicesInit /\ [][ServicesNext]_<<which, searchVars, vars, migVars, budgetVars,
                                       dailyVars, breakerVars>>

\* Owners of reports are only compared, and served in any order.
Interchangeable == Permutations(Owner)
===============================================================================
