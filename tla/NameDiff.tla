------------------------------- MODULE NameDiff -------------------------------
(***************************************************************************)
(* The diff of a watched name: every case file that PortalJust gives for   *)
(* it, institution by institution, against the baseline                    *)
(* (services/monitoring/diff/nameSoap.ts).  A baseline maps the numbers of *)
(* the files to their stadiu; the institution of a file is Home[d].        *)
(***************************************************************************)
EXTENDS DosarDiff

CONSTANTS
    Home,     \* institution that has the file; a file has one
    Historic  \* files of earlier years without a later hearing

Dosare == DOMAIN Home

\* MUTANT: only what was found now is the next baseline.
CarriedNothing(prev, found, failed) == {}

\* Files of an institution that has not answered are neither there nor gone.
Carried(prev, found, failed) ==
    IF prev = Null THEN {}
    ELSE {d \in DOMAIN prev \ DOMAIN found : Home[d] \in failed}

NextNames(prev, found, failed) ==
    [d \in DOMAIN found \cup Carried(prev, found, failed) |->
       IF d \in DOMAIN found THEN found[d] ELSE prev[d]]

Relevant(files, d, config) == d \in DOMAIN files /\ PassesFilter(files[d], config)

FileAlerts(prev, found, d, config, id) ==
    LET before == Relevant(prev, d, config)
        now == Relevant(found, d, config)
        Tell(kind, due) == IF due THEN {Alert(kind, d, Null, Null, Anchor(id))} ELSE {}
    IN  IF d \notin DOMAIN prev
        THEN Tell("dosar_new", now /\ d \notin Historic)
        ELSE Tell("dosar_relevant_now", ~before /\ now)
             \cup Tell("dosar_no_longer_relevant", before /\ ~now)
             \cup Tell("stadiu_changed", prev[d] # found[d] /\ (before \/ now))

GoneAlerts(prev, found, failed, config, id) ==
    IF ~config.gone THEN {}
    ELSE {Alert("dosar_disappeared", d, Null, Null, Anchor(id)) :
            d \in {e \in DOMAIN prev \ DOMAIN found :
                     Home[e] \notin failed /\ Relevant(prev, e, config)}}

\* diffNameSoap; without a baseline everything is new.
DiffName(prev, found, failed, config, id) ==
    LET old == IF prev = Null THEN <<>> ELSE prev
    IN  [baseline |-> NextNames(prev, found, failed),
         alerts |-> (UNION {FileAlerts(old, found, d, config, id) : d \in DOMAIN found})
                    \cup GoneAlerts(old, found, failed, config, id)]
=============================================================================
