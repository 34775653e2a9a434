------------------------------ MODULE DosarDiff ------------------------------
(***************************************************************************)
(* The diff of a watched case file between two looks at PortalJust         *)
(* (services/monitoring/diff/dosarSoap.ts): a pure function of the         *)
(* baseline, the row found now and the user's filter, from which both the  *)
(* next baseline and the alerts come.                                      *)
(*                                                                         *)
(* A hearing's key is [stadiu, data, complet, sol], sol = "" without a     *)
(* ruling; date, hour and normalisation are one value.  A baseline is      *)
(* [present, keys, fp]: which hearings had a ruling can be read off its    *)
(* keys.  An alert is its dedup key: what it is about and its anchor.      *)
(***************************************************************************)
EXTENDS Naturals, Sequences, SequencesExt

CONSTANT Null

Alert(kind, subj, from, to, anchor) ==
    [kind |-> kind, subj |-> subj, from |-> from, to |-> to, anchor |-> anchor]

\* No stadii is no filter.
PassesFilter(stadiu, config) == config.stadii = {} \/ stadiu \in config.stadii

\* buildSedintaKey, buildSedintaKeyWithoutSolutie.
KeyOf(dosar, s) ==
    [stadiu |-> dosar.stadiu, data |-> s.data, complet |-> s.complet, sol |-> s.sol]
Sub(k) == [k EXCEPT !.sol = ""]
Bucket(k) == <<k.stadiu, k.complet>>

Snapshot(dosar, fp) ==
    [present |-> dosar # Null, fp |-> fp,
     keys |-> IF dosar = Null THEN <<>>
              ELSE [n \in DOMAIN dosar.sedinte |-> KeyOf(dosar, dosar.sedinte[n])]]

Elements(keys) == {keys[n] : n \in DOMAIN keys}

\* Array.filter: what is in the set, in its order.
Kept(keys, those) ==
    FoldLeft(LAMBDA kept, k : IF k \in those THEN Append(kept, k) ELSE kept, <<>>, keys)

\* sedinteWithSolution of the baseline is false: the last of its hearings at
\* that time has no ruling.
WithoutRuling(keys, sub) ==
    LET same == Kept(keys, {k \in Elements(keys) : Sub(k) = sub})
    IN  same # <<>> /\ Last(same).sol = ""

\* The row of several that goes on what the baseline has followed.
PickWatched(rows, prev) ==
    LET stadii == IF prev = Null THEN {} ELSE {k.stadiu : k \in Elements(prev.keys)}
        sticky == Kept(rows, {d \in Elements(rows) : d.stadiu \in stadii})
    IN  IF rows = <<>> THEN Null
        ELSE IF Len(rows) > 1 /\ sticky # <<>> THEN sticky[1] ELSE rows[1]

-----------------------------------------------------------------------------
(* The passes over hearings. *)

\* Pass 1: a hearing that has got its ruling.
Rulings(prev, fresh) ==
    {k \in Elements(fresh) : k.sol # "" /\ WithoutRuling(prev.keys, Sub(k))}
Ruled(prev, fresh) == Kept(fresh, Rulings(prev, fresh))
Unruled(prev, fresh) == Kept(fresh, Elements(fresh) \ Rulings(prev, fresh))

\* MUTANT: a move in the same room takes the ruling that waits there with it.
PairGreedily(acc, k) ==
    LET moved == {m \in acc.left : Bucket(m) = Bucket(k)}
        ruled == Kept(acc.pending, {p \in Elements(acc.pending) : Bucket(p) = Bucket(k)})
    IN  IF Cardinality(moved) = 1
        THEN [left |-> acc.left \ moved,
              pending |-> IF ruled = <<>> THEN acc.pending
                          ELSE RemoveFirst(acc.pending, ruled[1]),
              alerts |-> acc.alerts \cup
                {Alert("termen_changed", Null, m, k, 0) : m \in moved}]
        ELSE [acc EXCEPT !.alerts = @ \cup {Alert("termen_new", Null, Null, k, 0)}]

\* Pass 2: one hearing gone from its room has moved; else it comes after a
\* ruling there; else it is new.
Pair(acc, k) ==
    LET moved == {m \in acc.left : Bucket(m) = Bucket(k)}
        ruled == Kept(acc.pending, {p \in Elements(acc.pending) : Bucket(p) = Bucket(k)})
    IN  IF Cardinality(moved) = 1
        THEN [acc EXCEPT !.left = @ \ moved,
                         !.alerts = @ \cup {Alert("termen_changed", Null, m, k, 0) : m \in moved}]
        ELSE IF ruled # <<>>
        THEN [acc EXCEPT !.pending = RemoveFirst(@, ruled[1]),
                         !.alerts = @ \cup
                           {Alert("termen_dupa_solutie", Null, Sub(ruled[1]), k, 0)}]
        ELSE [acc EXCEPT !.alerts = @ \cup {Alert("termen_new", Null, Null, k, 0)}]

PairAll(start, keys) == FoldLeft(Pair, start, keys)

\* Pass 3 tells the rulings that are left.
HearingAlerts(prev, keys, config) ==
    LET fresh == Kept(keys, Elements(keys) \ Elements(prev.keys))
        ruled == Ruled(prev, fresh)
        gone == (Elements(prev.keys) \ Elements(keys)) \ {Sub(k) : k \in Elements(ruled)}
        paired == PairAll([left |-> gone, alerts |-> {},
                           pending |-> IF config.rulings THEN ruled ELSE <<>>],
                          IF config.hearings THEN Unruled(prev, fresh) ELSE <<>>)
    IN  paired.alerts \cup
        {Alert("solutie_aparuta", Null, Sub(p), Null, 0) : p \in Elements(paired.pending)}

-----------------------------------------------------------------------------
(* diffDosarSoap. *)

\* MUTANT: a transition has one key for the life of the job.
LifelongAnchor(id) == 0

\* Another baseline makes it another transition; a retry on the same does not.
Anchor(id) == id

DosarAlerts(prev, new, config, id) ==
    IF prev = Null \/ prev.fp # new.fp THEN {}
    ELSE IF prev.present /\ ~new.present
    THEN IF config.gone THEN {Alert("dosar_disappeared", Null, Null, Null, Anchor(id))} ELSE {}
    ELSE IF ~prev.present /\ new.present
    THEN {Alert("dosar_new", Null, Null, Null, Anchor(id))}
    ELSE IF new.present THEN HearingAlerts(prev, new.keys, config) ELSE {}

DiffDosar(prev, dosar, config, id) ==
    LET seen == dosar # Null /\ PassesFilter(dosar.stadiu, config)
        new == Snapshot(IF seen THEN dosar ELSE Null, config.stadii)
    IN  [baseline |-> new, alerts |-> DosarAlerts(prev, new, config, id)]
=============================================================================
