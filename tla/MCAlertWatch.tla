---------------------------- MODULE MCAlertWatch ----------------------------
EXTENDS AlertWatch

Term(data, complet, sol) == [data |-> data, complet |-> complet, sol |-> sol]
Row(stadiu, sedinte) == [stadiu |-> stadiu, sedinte |-> sedinte]

\* A hearing and another in the same room; the first is ruled on while the
\* other moves; it is ruled on and adjourned; the appeal opens, listed first.
First == Row("fond", <<Term(1, "c1", ""), Term(2, "c1", "")>>)
MCLookups ==
    { <<>>, <<First>>,
      <<Row("fond", <<Term(1, "c1", "admite"), Term(3, "c1", "")>>)>>,
      <<Row("fond", <<Term(1, "c1", "amana"), Term(2, "c1", ""), Term(3, "c1", "")>>)>>,
      <<Row("apel", <<Term(4, "c2", "")>>), First>> }

MCHome == [d1 |-> "i1", d2 |-> "i2", d3 |-> "i2"]
MCHistoric == {"d3"}
MCWorlds ==
    { <<>>, [d1 |-> "fond"], [d1 |-> "apel", d2 |-> "fond"],
      [d1 |-> "fond", d2 |-> "fond", d3 |-> "fond"] }

Config(stadii, on) == [stadii |-> stadii, hearings |-> TRUE, rulings |-> on, gone |-> on]
MCConfigs == {Config({}, TRUE), Config({"fond"}, TRUE), Config({}, FALSE)}
=============================================================================
