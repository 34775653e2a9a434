----------------------------- MODULE WatchProofs -----------------------------
(***************************************************************************)
(* The watched job, for any answers of PortalJust, any filters and any     *)
(* number of runs, crashes and restores.                                   *)
(***************************************************************************)
EXTENDS AlertWatch, FiniteSums, SequenceTheorems

-----------------------------------------------------------------------------
(* FoldLeft over a sequence, step by step.                                    *)

\* The last index that is left; what the fold computes over every subset of the
\* indices on its way, one step being the function F.
Steps(g, F, base, q) ==
    \A s \in SUBSET DOMAIN q : g[s] = IF s = {} THEN base
                                      ELSE F[<<g[s \ {Max(s)}], q[Max(s)]>>]

LEMMA MaxIsIn ==
  ASSUME NEW n \in Nat, NEW s \in SUBSET (1..n), s # {}
  PROVE  Max(s) \in s /\ \A m \in s : m <= Max(s)
<1> DEFINE V == {n - m : m \in s}
<1>1. V \in SUBSET Nat /\ V # {}
  <2>1. \A m \in s : n - m \in Nat
    OBVIOUS
  <2>2. PICK m \in s : TRUE
    OBVIOUS
  <2>3. n - m \in V
    OBVIOUS
  <2> QED BY <2>1, <2>3
<1>2. PICK v \in V : \A w \in V : v <= w
  <2> HIDE DEF V
  <2> QED BY <1>1, LeastNumber
<1>3. PICK x \in s : v = n - x
  OBVIOUS
<1>4. \A y \in s : n - x <= n - y
  BY <1>2, <1>3
<1>5. \A y \in s : x >= y
  BY <1>4
<1> QED BY <1>5 DEF Max

\* The steps have a solution: one for the sets of m indices at most extends to
\* those of m + 1.
LEMMA StepsExist ==
  ASSUME NEW A, NEW B, NEW base \in A, NEW F \in [A \X B -> A], NEW q \in Seq(B)
  PROVE  \E g \in [SUBSET DOMAIN q -> A] : Steps(g, F, base, q)
<1> DEFINE D == DOMAIN q
           Step(g, s) == IF s = {} THEN base ELSE F[<<g[s \ {Max(s)}], q[Max(s)]>>]
           Upto(g, n) == \A s \in SUBSET D : Cardinality(s) <= n => g[s] = Step(g, s)
           U == {n \in Nat : \E g \in [SUBSET D -> A] : Upto(g, n)}
<1>0. /\ \A s \in SUBSET D : Cardinality(s) \in Nat /\ (Cardinality(s) = 0 <=> s = {})
      /\ \A s \in SUBSET D : Cardinality(s) <= Cardinality(D)
      /\ \A s \in SUBSET D : s # {} => /\ s \ {Max(s)} \in SUBSET D
                                       /\ Cardinality(s \ {Max(s)}) = Cardinality(s) - 1
                                       /\ q[Max(s)] \in B
  <2>1. Len(q) \in Nat /\ D = 1..Len(q) /\ IsFiniteSet(D)
    BY FS_Interval
  <2>2. \A s \in SUBSET D : IsFiniteSet(s) /\ Cardinality(s) <= Cardinality(D)
    BY <2>1, FS_Subset
  <2>3. \A s \in SUBSET D : Cardinality(s) \in Nat /\ (Cardinality(s) = 0 <=> s = {})
    BY <2>2, FS_CardinalityType, FS_EmptySet
  <2>4. \A s \in SUBSET D : s # {} => Max(s) \in s
    BY <2>1, MaxIsIn
  <2>5. \A s \in SUBSET D : s # {} => Cardinality(s \ {Max(s)}) = Cardinality(s) - 1
    BY <2>2, <2>4, FS_RemoveElement
  <2>6. \A m \in D : q[m] \in B
    BY <2>1
  <2> QED BY <2>2, <2>3, <2>4, <2>5, <2>6
<1>1. 0 \in U
  <2> DEFINE g == [s \in SUBSET D |-> base]
  <2>1. g \in [SUBSET D -> A] /\ Upto(g, 0)
    BY <1>0
  <2> QED BY <2>1
<1>2. ASSUME NEW n \in U PROVE n + 1 \in U
  <2>1. PICK g \in [SUBSET D -> A] : Upto(g, n)
    OBVIOUS
  <2> DEFINE h == [s \in SUBSET D |-> IF Cardinality(s) <= n THEN g[s] ELSE Step(g, s)]
  <2>2. h \in [SUBSET D -> A]
    BY <1>0
  <2>3. ASSUME NEW s \in SUBSET D, Cardinality(s) <= n + 1 PROVE h[s] = Step(h, s)
    <3>1. ASSUME s # {} PROVE h[s \ {Max(s)}] = g[s \ {Max(s)}]
      <4> DEFINE r == s \ {Max(s)}
      <4>1. r \in SUBSET D /\ Cardinality(r) = Cardinality(s) - 1 /\ Cardinality(s) \in Nat
        BY <1>0, <3>1
      <4>2. Cardinality(r) <= n
        BY <2>3, <4>1
      <4> HIDE DEF r
      <4>3. h[r] = g[r]
        BY <4>1, <4>2
      <4> QED BY <4>3 DEF r
    <3>2. h[s] = Step(g, s)
      BY <2>1
    <3> QED BY <3>1, <3>2
  <2>4. Upto(h, n + 1)
    BY <2>3
  <2> HIDE DEF h, Upto
  <2> QED BY <2>2, <2>4
<1>3. U = Nat
  <2> HIDE DEF U
  <2>1. U \in SUBSET Nat
    BY DEF U
  <2> QED BY <1>1, <1>2, <2>1, NumberInduction
<1>4. Cardinality(D) \in Nat
  BY <1>0
<1>5. PICK g \in [SUBSET D -> A] : Upto(g, Cardinality(D))
  BY <1>3, <1>4
<1>6. \A s \in SUBSET D : g[s] = Step(g, s)
  BY <1>0, <1>5
<1> QED BY <1>6 DEF Steps

\* The sets of indices that a fold is at after each element.
LEMMA FirstOnes ==
  ASSUME NEW K, NEW q \in Seq(K)
  PROVE  /\ Len(q) \in Nat /\ DOMAIN q = 1..Len(q) /\ {} \in SUBSET DOMAIN q /\ 1..0 = {}
         /\ \A s \in SUBSET DOMAIN q : s # {} => Max(s) \in DOMAIN q /\ q[Max(s)] \in K
         /\ \A n \in 1..Len(q) : /\ 1..n \in SUBSET DOMAIN q /\ 1..n # {} /\ n - 1 \in 0..Len(q)
                                 /\ Max(1..n) = n /\ (1..n) \ {n} = 1..(n - 1)
<1>1. Len(q) \in Nat /\ DOMAIN q = 1..Len(q) /\ {} \in SUBSET DOMAIN q /\ 1..0 = {}
  OBVIOUS
<1>2. ASSUME NEW s \in SUBSET DOMAIN q, s # {} PROVE Max(s) \in DOMAIN q /\ q[Max(s)] \in K
  <2>1. Max(s) \in s
    BY <1>1, <1>2, MaxIsIn
  <2>2. \A m \in DOMAIN q : q[m] \in K
    OBVIOUS
  <2> QED BY <2>1, <2>2
<1>3. ASSUME NEW n \in 1..Len(q)
      PROVE  /\ 1..n \in SUBSET DOMAIN q /\ 1..n # {} /\ n - 1 \in 0..Len(q)
             /\ Max(1..n) = n /\ (1..n) \ {n} = 1..(n - 1)
  <2>1. n \in Nat /\ n \in 1..n /\ n - 1 \in 0..Len(q)
    BY <1>1
  <2>2. \A m \in 1..n : m \in 1..Len(q)
    BY <1>1
  <2>3. Max(1..n) \in 1..n /\ n <= Max(1..n)
    BY <2>1, MaxIsIn
  <2>4. Max(1..n) = n /\ (1..n) \ {n} = 1..(n - 1)
    BY <2>1, <2>3
  <2>5. 1..n \in SUBSET DOMAIN q /\ 1..n # {}
    BY <1>1, <2>1, <2>2
  <2> QED BY <2>1, <2>4, <2>5
<1> QED BY <1>1, <1>2, <1>3

-----------------------------------------------------------------------------
(* Kept: the elements that are in the set, all of them.                       *)

Keep(those, kept, k) == IF k \in those THEN Append(kept, k) ELSE kept

KeepStep(K, those) == [x \in Seq(K) \X K |-> Keep(those, x[1], x[2])]

Keeping(g, those, q) ==
    g = [s \in SUBSET DOMAIN q |-> IF s = {} THEN <<>>
                                   ELSE Keep(those, g[s \ {Max(s)}], q[Max(s)])]

LEMMA KeptAlong ==
  ASSUME NEW K, NEW q \in Seq(K), NEW those
  PROVE  \E h : /\ h[0] = <<>> /\ Kept(q, those) = h[Len(q)]
                /\ \A n \in 1..Len(q) : h[n] = Keep(those, h[n - 1], q[n])
<1> DEFINE D == DOMAIN q
           iter == CHOOSE g : Keeping(g, those, q)
<1>1. KeepStep(K, those) \in [Seq(K) \X K -> Seq(K)] /\ <<>> \in Seq(K)
  BY DEF KeepStep, Keep
<1>2. PICK g \in [SUBSET D -> Seq(K)] : Steps(g, KeepStep(K, those), <<>>, q)
  BY <1>1, StepsExist
<1>3. ASSUME NEW s \in SUBSET D, s # {}
      PROVE  g[s] = Keep(those, g[s \ {Max(s)}], q[Max(s)])
  <2>1. q[Max(s)] \in K /\ g[s \ {Max(s)}] \in Seq(K)
    BY <1>3, FirstOnes
  <2>2. g[s] = KeepStep(K, those)[<<g[s \ {Max(s)}], q[Max(s)]>>]
    BY <1>2, <1>3 DEF Steps
  <2> QED BY <2>1, <2>2 DEF KeepStep
<1>4. g[{}] = <<>>
  BY <1>2 DEF Steps
<1>5. Keeping(g, those, q)
  BY <1>3, <1>4 DEF Keeping
<1>6. Keeping(iter, those, q)
  BY <1>5
<1>7. Kept(q, those) = iter[D]
  BY DEF Kept, FoldLeft, MapThenFoldSet, Keeping, Keep
<1> HIDE DEF iter
<1>8. /\ iter[{}] = <<>>
      /\ \A s \in SUBSET D : s # {} => iter[s] = Keep(those, iter[s \ {Max(s)}], q[Max(s)])
  <2> DEFINE h == [s \in SUBSET D |-> IF s = {} THEN <<>>
                                      ELSE Keep(those, iter[s \ {Max(s)}], q[Max(s)])]
  <2>1. iter = h
    BY <1>6 DEF Keeping
  <2>2. h[{}] = <<>> /\ \A s \in SUBSET D : s # {} =>
                            h[s] = Keep(those, iter[s \ {Max(s)}], q[Max(s)])
    OBVIOUS
  <2> HIDE DEF h
  <2> QED BY <2>1, <2>2
<1> DEFINE along == [n \in 0..Len(q) |-> iter[1..n]]
<1>9. along[0] = <<>> /\ along[Len(q)] = iter[D]
  BY <1>8, FirstOnes
<1>10. ASSUME NEW n \in 1..Len(q) PROVE along[n] = Keep(those, along[n - 1], q[n])
  <2>1. iter[1..n] = Keep(those, iter[(1..n) \ {Max(1..n)}], q[Max(1..n)])
    BY <1>8, FirstOnes
  <2>2. n \in 0..Len(q) /\ n - 1 \in 0..Len(q) /\ Max(1..n) = n /\ (1..n) \ {n} = 1..(n - 1)
    BY FirstOnes
  <2> QED BY <2>1, <2>2
<1> QED BY <1>7, <1>9, <1>10

LEMMA AppendAdds ==
  ASSUME NEW K, NEW q \in Seq(K), NEW k \in K
  PROVE  Append(q, k) \in Seq(K) /\ Elements(Append(q, k)) = Elements(q) \cup {k}
<1>1. /\ Append(q, k) \in Seq(K) /\ DOMAIN q = 1..Len(q) /\ Len(q) \in Nat
      /\ DOMAIN Append(q, k) = 1..(Len(q) + 1) /\ Append(q, k)[Len(q) + 1] = k
      /\ \A n \in 1..Len(q) : Append(q, k)[n] = q[n]
  OBVIOUS
<1>2. 1..(Len(q) + 1) = (1..Len(q)) \cup {Len(q) + 1}
  BY <1>1
<1> QED BY <1>1, <1>2 DEF Elements

LEMMA KeptElements ==
  ASSUME NEW K, NEW q \in Seq(K), NEW those
  PROVE  Kept(q, those) \in Seq(K) /\ Elements(Kept(q, those)) = Elements(q) \cap those
<1>1. PICK h : /\ h[0] = <<>> /\ Kept(q, those) = h[Len(q)]
               /\ \A n \in 1..Len(q) : h[n] = Keep(those, h[n - 1], q[n])
  BY KeptAlong
<1>2. Len(q) \in Nat /\ DOMAIN q = 1..Len(q)
  OBVIOUS
<1> DEFINE Right(n) == h[n] \in Seq(K) /\ Elements(h[n]) = {q[m] : m \in 1..n} \cap those
           U == {n \in Nat : n <= Len(q) => Right(n)}
<1>3. 0 \in U
  <2>1. {q[m] : m \in 1..0} = {} /\ Elements(<<>>) = {}
    BY DEF Elements
  <2>2. <<>> \in Seq(K) /\ h[0] = <<>>
    BY <1>1
  <2> QED BY <2>1, <2>2
<1>4. ASSUME NEW n \in U PROVE n + 1 \in U
  <2> SUFFICES ASSUME n + 1 <= Len(q) PROVE Right(n + 1)
    OBVIOUS
  <2>1. Right(n) /\ n + 1 \in 1..Len(q) /\ n \in Nat
    BY <1>2
  <2>2. h[n + 1] = Keep(those, h[n], q[n + 1])
    BY <1>1, <2>1
  <2>3. {q[m] : m \in 1..(n + 1)} = {q[m] : m \in 1..n} \cup {q[n + 1]}
    BY <2>1
  <2>4. q[n + 1] \in K
    BY <2>1
  <2>5. CASE q[n + 1] \in those
    <3>1. h[n + 1] = Append(h[n], q[n + 1])
      BY <2>2, <2>5 DEF Keep
    <3>2. h[n + 1] \in Seq(K) /\ Elements(h[n + 1]) = Elements(h[n]) \cup {q[n + 1]}
      BY <2>1, <2>4, <3>1, AppendAdds
    <3> QED BY <2>1, <2>3, <2>5, <3>2
  <2>6. CASE q[n + 1] \notin those
    BY <2>1, <2>2, <2>3, <2>6 DEF Keep
  <2> QED BY <2>5, <2>6
<1>5. U = Nat
  <2> HIDE DEF U
  <2>1. U \in SUBSET Nat
    BY DEF U
  <2> QED BY <1>3, <1>4, <2>1, NumberInduction
<1>6. Right(Len(q))
  <2>1. Len(q) \in U /\ Len(q) <= Len(q)
    <3> HIDE DEF U
    <3> QED BY <1>2, <1>5
  <2> QED BY <2>1
<1>7. Elements(q) = {q[m] : m \in 1..Len(q)}
  BY <1>2 DEF Elements
<1> QED BY <1>1, <1>6, <1>7

-----------------------------------------------------------------------------
(* The second pass: each hearing is told, and a ruling that is taken from     *)
(* those that wait is told with the hearing it was taken for.                 *)

LEMMA LeastIndex ==
  ASSUME NEW n \in Nat, NEW s \in SUBSET (1..n), s # {}
  PROVE  Min(s) \in s
<1>1. PICK m \in s : \A x \in s : m <= x
  BY LeastNumber
<1> QED BY <1>1 DEF Min

LEMMA RemoveFirstKeeps ==
  ASSUME NEW K, NEW q \in Seq(K), NEW e
  PROVE  /\ RemoveFirst(q, e) \in Seq(K)
         /\ \A x \in Elements(q) : x = e \/ x \in Elements(RemoveFirst(q, e))
<1>1. Len(q) \in Nat /\ DOMAIN q = 1..Len(q)
  OBVIOUS
<1>2. CASE \E i \in 1..Len(q) : q[i] = e
  <2> DEFINE I == {i \in 1..Len(q) : q[i] = e}
             m == Min(I)
             p == SubSeq(q, 1, m - 1)
             r == SubSeq(q, m + 1, Len(q))
  <2>1. I # {} /\ I \in SUBSET (1..Len(q))
    BY <1>2
  <2>2. m \in 1..Len(q) /\ q[m] = e
    <3>1. m \in I
      <4> HIDE DEF I
      <4> QED BY <1>1, <2>1, LeastIndex
    <3> QED BY <3>1
  <2>3. RemoveFirst(q, e) = p \o r
    <3>1. SelectInSeq(q, LAMBDA v : v = e) = m
      BY <2>1 DEF SelectInSeq
    <3> HIDE DEF m
    <3> QED BY <1>2, <3>1 DEF RemoveFirst, RemoveAt
  <2> HIDE DEF I, m
  <2>4. /\ p \in Seq(K) /\ Len(p) = m - 1 /\ \A i \in 1..(m - 1) : p[i] = q[i]
        /\ r \in Seq(K) /\ Len(r) = Len(q) - m /\ \A i \in 1..(Len(q) - m) : r[i] = q[m + i]
    <3>0. \A i \in 1..Len(q) : q[i] \in K
      BY <1>1
    <3>1. /\ m - 1 \in Int /\ m + 1 \in Int /\ Len(q) \in Int
          /\ \A i \in 1..(m - 1) : i \in 1..Len(q)
          /\ \A i \in (m + 1)..Len(q) : i \in 1..Len(q)
      BY <1>1, <2>2
    <3>2. /\ p \in Seq(K)
          /\ Len(p) = IF 1 <= m - 1 THEN m - 1 - 1 + 1 ELSE 0
          /\ \A i \in 1..(m - 1 - 1 + 1) : p[i] = q[1 + i - 1]
      <4>1. \A i \in 1..(m - 1) : q[i] \in K
        BY <3>0, <3>1
      <4> QED BY <3>1, <4>1, SubSeqProperties
    <3>3. /\ r \in Seq(K)
          /\ Len(r) = IF m + 1 <= Len(q) THEN Len(q) - (m + 1) + 1 ELSE 0
          /\ \A i \in 1..(Len(q) - (m + 1) + 1) : r[i] = q[m + 1 + i - 1]
      <4>1. \A i \in (m + 1)..Len(q) : q[i] \in K
        BY <3>0, <3>1
      <4> QED BY <3>1, <4>1, SubSeqProperties
    <3> HIDE DEF p, r
    <3>4. Len(p) = m - 1 /\ \A i \in 1..(m - 1) : p[i] = q[i]
      <4>1. m - 1 - 1 + 1 = m - 1 /\ \A i \in 1..(m - 1) : 1 + i - 1 = i
        BY <2>2
      <4> QED BY <1>1, <2>2, <3>2, <4>1
    <3>5. Len(r) = Len(q) - m /\ \A i \in 1..(Len(q) - m) : r[i] = q[m + i]
      <4>1. /\ Len(q) - (m + 1) + 1 = Len(q) - m
            /\ \A i \in 1..(Len(q) - m) : m + 1 + i - 1 = m + i
        BY <1>1, <2>2
      <4>2. Len(r) = Len(q) - m
        <5>1. Len(r) = IF m + 1 <= Len(q) THEN Len(q) - (m + 1) + 1 ELSE 0
          BY <3>3
        <5>2. m \in Nat /\ Len(q) \in Nat /\ m <= Len(q)
          BY <1>1, <2>2
        <5>3. CASE m = Len(q)
          BY <5>1, <5>2, <5>3
        <5>4. CASE m + 1 <= Len(q)
          BY <5>1, <5>2, <5>4
        <5> QED BY <5>2, <5>3, <5>4
      <4>3. ASSUME NEW i \in 1..(Len(q) - m) PROVE r[i] = q[m + i]
        <5>1. r[i] = q[m + 1 + i - 1]
          BY <3>3, <4>1
        <5> QED BY <4>1, <5>1
      <4> QED BY <4>2, <4>3
    <3> QED BY <3>2, <3>3, <3>4, <3>5
  <2> HIDE DEF p, r
  <2>5. /\ p \o r \in Seq(K) /\ DOMAIN (p \o r) = 1..(Len(q) - 1)
        /\ \A i \in 1..(m - 1) : (p \o r)[i] = q[i]
        /\ \A i \in m..(Len(q) - 1) : (p \o r)[i] = q[i + 1]
    <3>1. /\ p \o r \in Seq(K) /\ Len(p \o r) = Len(q) - 1
          /\ \A i \in 1..(Len(q) - 1) : (p \o r)[i] = IF i <= m - 1 THEN p[i] ELSE r[i - (m - 1)]
      <4>1. p \o r \in Seq(K) /\ Len(p \o r) = Len(p) + Len(r)
        BY <2>4, ConcatProperties
      <4>2. \A i \in 1..(Len(p) + Len(r)) :
              (p \o r)[i] = IF i <= Len(p) THEN p[i] ELSE r[i - Len(p)]
        BY <2>4, ConcatProperties
      <4>3. Len(p) + Len(r) = Len(q) - 1
        BY <1>1, <2>2, <2>4
      <4> QED BY <2>4, <4>1, <4>2, <4>3
    <3>2. ASSUME NEW i \in m..(Len(q) - 1) PROVE (p \o r)[i] = q[i + 1]
      <4>1. i \in 1..(Len(q) - 1) /\ ~(i <= m - 1) /\ i - (m - 1) \in 1..(Len(q) - m)
        BY <1>1, <2>2
      <4>2. m + (i - (m - 1)) = i + 1
        BY <1>1, <2>2
      <4> QED BY <2>4, <3>1, <4>1, <4>2
    <3>3. ASSUME NEW i \in 1..(m - 1) PROVE (p \o r)[i] = q[i]
      <4>1. i \in 1..(Len(q) - 1) /\ i <= m - 1
        BY <1>1, <2>2
      <4> QED BY <2>4, <3>1, <4>1
    <3>4. DOMAIN (p \o r) = 1..(Len(q) - 1)
      BY <3>1
    <3> QED BY <3>1, <3>2, <3>3, <3>4
  <2>6. ASSUME NEW i \in 1..Len(q), q[i] # e PROVE q[i] \in Elements(p \o r)
    <3>1. CASE i < m
      <4>1. i \in 1..(m - 1) /\ i \in 1..(Len(q) - 1)
        BY <1>1, <2>2, <3>1
      <4> QED BY <2>5, <4>1 DEF Elements
    <3>2. CASE i > m
      <4>1. i - 1 \in m..(Len(q) - 1) /\ i - 1 \in 1..(Len(q) - 1) /\ i - 1 + 1 = i
        BY <1>1, <2>2, <3>2
      <4> QED BY <2>5, <4>1 DEF Elements
    <3>3. i # m
      BY <2>2, <2>6
    <3> QED BY <1>1, <2>2, <3>1, <3>2, <3>3
  <2>7. \A x \in Elements(q) : x = e \/ x \in Elements(p \o r)
    BY <1>1, <2>6 DEF Elements
  <2> QED BY <2>3, <2>5, <2>7
<1>3. CASE ~\E i \in 1..Len(q) : q[i] = e
  BY <1>3 DEF RemoveFirst
<1> QED BY <1>2, <1>3

Tellings(K) ==
    {Alert("termen_changed", Null, m, k, 0) : m \in K, k \in K} \cup
    {Alert("termen_dupa_solutie", Null, Sub(p), k, 0) : p \in K, k \in K} \cup
    {Alert("termen_new", Null, Null, k, 0) : k \in K}

Passing(K) == [left : SUBSET K, alerts : SUBSET Tellings(K), pending : Seq(K)]

\* What one hearing adds to, and takes from, what the pass has so far.
PairTells(acc, k, next) ==
    /\ acc.alerts \subseteq next.alerts
    /\ \E a \in next.alerts : a.to = k
    /\ \A p \in Elements(acc.pending) :
         \/ p \in Elements(next.pending)
         \/ \E a \in next.alerts : a.kind = "termen_dupa_solutie" /\ a.from = Sub(p)

LEMMA PairStep ==
  ASSUME NEW K, NEW acc \in Passing(K), NEW k \in K
  PROVE  Pair(acc, k) \in Passing(K) /\ PairTells(acc, k, Pair(acc, k))
<1> DEFINE moved == {m \in acc.left : Bucket(m) = Bucket(k)}
           same == {p \in Elements(acc.pending) : Bucket(p) = Bucket(k)}
           ruled == Kept(acc.pending, same)
<1>0. acc.left \in SUBSET K /\ acc.alerts \in SUBSET Tellings(K) /\ acc.pending \in Seq(K)
  BY DEF Passing
<1>1. CASE Cardinality(moved) = 1
  <2> DEFINE new == {Alert("termen_changed", Null, m, k, 0) : m \in moved}
  <2>1. moved # {}
    BY <1>1, FS_EmptySet
  <2>2. Pair(acc, k) = [acc EXCEPT !.left = @ \ moved, !.alerts = @ \cup new]
    BY <1>1 DEF Pair
  <2>3. new \subseteq Tellings(K)
    BY <1>0 DEF Tellings
  <2>4. \E a \in new : a.to = k
    <3>1. PICK m \in moved : TRUE
      BY <2>1
    <3>2. Alert("termen_changed", Null, m, k, 0) \in new
      BY <3>1
    <3>3. Alert("termen_changed", Null, m, k, 0).to = k
      BY DEF Alert
    <3> QED BY <3>2, <3>3
  <2> HIDE DEF new, moved
  <2>5. Pair(acc, k) = [left |-> acc.left \ moved, alerts |-> acc.alerts \cup new,
                        pending |-> acc.pending]
    BY <2>2 DEF Passing
  <2> QED BY <1>0, <2>3, <2>4, <2>5 DEF Passing, PairTells
<1>2. CASE Cardinality(moved) # 1 /\ ruled # <<>>
  <2> DEFINE p == ruled[1]
             new == Alert("termen_dupa_solutie", Null, Sub(p), k, 0)
             rest == RemoveFirst(acc.pending, p)
  <2>1. ruled \in Seq(K) /\ Elements(ruled) = Elements(acc.pending) \cap same
    BY <1>0, KeptElements
  <2>2. p \in K
    <3> HIDE DEF ruled
    <3> QED BY <1>2, <2>1
  <2>3. Pair(acc, k) = [acc EXCEPT !.pending = rest, !.alerts = @ \cup {new}]
    BY <1>2 DEF Pair
  <2>4. new \in Tellings(K)
    <3> HIDE DEF p
    <3> QED BY <2>2 DEF Tellings
  <2>5. new.to = k /\ new.kind = "termen_dupa_solutie" /\ new.from = Sub(p)
    BY DEF Alert
  <2>6. rest \in Seq(K) /\ \A x \in Elements(acc.pending) : x = p \/ x \in Elements(rest)
    BY <1>0, RemoveFirstKeeps
  <2> HIDE DEF new, rest, p, moved, ruled
  <2>7. Pair(acc, k) = [left |-> acc.left, alerts |-> acc.alerts \cup {new}, pending |-> rest]
    BY <2>3 DEF Passing
  <2> QED BY <1>0, <2>4, <2>5, <2>6, <2>7 DEF Passing, PairTells
<1>3. CASE Cardinality(moved) # 1 /\ ruled = <<>>
  <2> DEFINE new == Alert("termen_new", Null, Null, k, 0)
  <2>1. Pair(acc, k) = [acc EXCEPT !.alerts = @ \cup {new}]
    BY <1>3 DEF Pair
  <2>2. new \in Tellings(K) /\ new.to = k
    BY DEF Tellings, Alert
  <2> HIDE DEF new
  <2>3. Pair(acc, k) = [left |-> acc.left, alerts |-> acc.alerts \cup {new},
                        pending |-> acc.pending]
    BY <2>1 DEF Passing
  <2> QED BY <1>0, <2>2, <2>3 DEF Passing, PairTells
<1> QED BY <1>1, <1>2, <1>3

PairingStep(K) == [x \in Passing(K) \X K |-> Pair(x[1], x[2])]

Pairing(g, start, q) ==
    g = [s \in SUBSET DOMAIN q |-> IF s = {} THEN start
                                   ELSE Pair(g[s \ {Max(s)}], q[Max(s)])]

LEMMA PairAlong ==
  ASSUME NEW K, NEW q \in Seq(K), NEW start \in Passing(K)
  PROVE  \E h : /\ h[0] = start /\ PairAll(start, q) = h[Len(q)]
                /\ \A n \in 1..Len(q) : h[n] = Pair(h[n - 1], q[n])
<1> DEFINE D == DOMAIN q
           iter == CHOOSE g : Pairing(g, start, q)
<1>1. PairingStep(K) \in [Passing(K) \X K -> Passing(K)]
  BY PairStep DEF PairingStep
<1>2. PICK g \in [SUBSET D -> Passing(K)] : Steps(g, PairingStep(K), start, q)
  BY <1>1, StepsExist
<1>3. ASSUME NEW s \in SUBSET D, s # {} PROVE g[s] = Pair(g[s \ {Max(s)}], q[Max(s)])
  <2>1. q[Max(s)] \in K /\ g[s \ {Max(s)}] \in Passing(K)
    BY <1>3, FirstOnes
  <2>2. g[s] = PairingStep(K)[<<g[s \ {Max(s)}], q[Max(s)]>>]
    BY <1>2, <1>3 DEF Steps
  <2> QED BY <2>1, <2>2 DEF PairingStep
<1>4. g[{}] = start
  BY <1>2 DEF Steps
<1>5. Pairing(g, start, q)
  BY <1>3, <1>4 DEF Pairing
<1>6. Pairing(iter, start, q)
  BY <1>5
<1>7. PairAll(start, q) = iter[D]
  BY DEF PairAll, FoldLeft, MapThenFoldSet, Pairing
<1> HIDE DEF iter
<1>8. /\ iter[{}] = start
      /\ \A s \in SUBSET D : s # {} => iter[s] = Pair(iter[s \ {Max(s)}], q[Max(s)])
  <2> DEFINE h == [s \in SUBSET D |-> IF s = {} THEN start
                                      ELSE Pair(iter[s \ {Max(s)}], q[Max(s)])]
  <2>1. iter = h
    BY <1>6 DEF Pairing
  <2>2. h[{}] = start /\ \A s \in SUBSET D : s # {} => h[s] = Pair(iter[s \ {Max(s)}], q[Max(s)])
    OBVIOUS
  <2> HIDE DEF h
  <2> QED BY <2>1, <2>2
<1> DEFINE along == [n \in 0..Len(q) |-> iter[1..n]]
<1>9. along[0] = start /\ along[Len(q)] = iter[D]
  BY <1>8, FirstOnes
<1>10. ASSUME NEW n \in 1..Len(q) PROVE along[n] = Pair(along[n - 1], q[n])
  <2>1. iter[1..n] = Pair(iter[(1..n) \ {Max(1..n)}], q[Max(1..n)])
    BY <1>8, FirstOnes
  <2>2. n \in 0..Len(q) /\ n - 1 \in 0..Len(q) /\ Max(1..n) = n /\ (1..n) \ {n} = 1..(n - 1)
    BY FirstOnes
  <2> QED BY <2>1, <2>2
<1> QED BY <1>7, <1>9, <1>10

\* What a whole pass has told.
PassTells(start, q, n, acc) ==
    /\ \A m \in 1..n : \E a \in acc.alerts : a.to = q[m]
    /\ \A p \in Elements(start.pending) :
         \/ p \in Elements(acc.pending)
         \/ \E a \in acc.alerts : a.kind = "termen_dupa_solutie" /\ a.from = Sub(p)

LEMMA PassTellsAll ==
  ASSUME NEW K, NEW q \in Seq(K), NEW start \in Passing(K)
  PROVE  /\ PairAll(start, q) \in Passing(K)
         /\ PassTells(start, q, Len(q), PairAll(start, q))
<1>1. PICK h : /\ h[0] = start /\ PairAll(start, q) = h[Len(q)]
               /\ \A n \in 1..Len(q) : h[n] = Pair(h[n - 1], q[n])
  BY PairAlong
<1>2. Len(q) \in Nat
  OBVIOUS
<1> DEFINE Right(n) == h[n] \in Passing(K) /\ PassTells(start, q, n, h[n])
           U == {n \in Nat : n <= Len(q) => Right(n)}
<1>3. 0 \in U
  BY <1>1 DEF PassTells
<1>4. ASSUME NEW n \in U PROVE n + 1 \in U
  <2> SUFFICES ASSUME n + 1 <= Len(q) PROVE Right(n + 1)
    OBVIOUS
  <2>1. Right(n) /\ n + 1 \in 1..Len(q) /\ n \in Nat /\ n + 1 - 1 = n
    BY <1>2
  <2>2. h[n + 1] = Pair(h[n], q[n + 1])
    BY <1>1, <2>1
  <2>3. q[n + 1] \in K
    BY <2>1
  <2>4. h[n + 1] \in Passing(K) /\ PairTells(h[n], q[n + 1], h[n + 1])
    BY <2>1, <2>2, <2>3, PairStep
  <2>5. \A m \in 1..(n + 1) : m \in 1..n \/ m = n + 1
    BY <2>1
  <2>6. PassTells(start, q, n + 1, h[n + 1])
    BY <2>1, <2>4, <2>5 DEF PassTells, PairTells
  <2> QED BY <2>4, <2>6
<1>5. U = Nat
  <2> HIDE DEF U
  <2>1. U \in SUBSET Nat
    BY DEF U
  <2> QED BY <1>3, <1>4, <2>1, NumberInduction
<1>6. Right(Len(q))
  <2>1. Len(q) \in U /\ Len(q) <= Len(q)
    <3> HIDE DEF U
    <3> QED BY <1>2, <1>5
  <2> QED BY <2>1
<1> QED BY <1>1, <1>6

LEMMA PlainSequences ==
  \A S : <<>> \in Seq(S) /\ \A q \in Seq(S) : DOMAIN q = 1..Len(q)
OBVIOUS

\* The three passes drop nothing that is to be told.
LEMMA HearingsTold ==
  ASSUME NEW K, NEW prev, Elements(prev.keys) \subseteq K, NEW keys \in Seq(K), NEW set,
         NEW k \in Elements(keys) \ Elements(prev.keys),
         set.hearings, k.sol = "" \/ set.rulings
  PROVE  \E a \in HearingAlerts(prev, keys, set) : Tells(a, k)
<1> DEFINE fresh == Kept(keys, Elements(keys) \ Elements(prev.keys))
           rulings == Rulings(prev, fresh)
           ruled == Ruled(prev, fresh)
           unruled == Unruled(prev, fresh)
           gone == (Elements(prev.keys) \ Elements(keys)) \ {Sub(x) : x \in Elements(ruled)}
           start == [left |-> gone, alerts |-> {},
                     pending |-> IF set.rulings THEN ruled ELSE <<>>]
           paired == PairAll(start, unruled)
           rest == {Alert("solutie_aparuta", Null, Sub(p), Null, 0) : p \in Elements(paired.pending)}
<1>1. fresh \in Seq(K) /\ Elements(fresh) = Elements(keys) \ Elements(prev.keys)
  <2> DEFINE new == Elements(keys) \ Elements(prev.keys)
  <2>1. Kept(keys, new) \in Seq(K) /\ Elements(Kept(keys, new)) = Elements(keys) \cap new
    <3> HIDE DEF new
    <3> QED BY KeptElements
  <2> QED BY <2>1
<1>2. /\ ruled \in Seq(K) /\ Elements(ruled) = rulings
      /\ unruled \in Seq(K) /\ Elements(unruled) = Elements(fresh) \ rulings
  <2> HIDE DEF fresh
  <2>1. /\ Kept(fresh, rulings) \in Seq(K)
        /\ Elements(Kept(fresh, rulings)) = Elements(fresh) \cap rulings
    <3> HIDE DEF rulings
    <3> QED BY <1>1, KeptElements
  <2>2. /\ Kept(fresh, Elements(fresh) \ rulings) \in Seq(K)
        /\ Elements(Kept(fresh, Elements(fresh) \ rulings)) =
             Elements(fresh) \cap (Elements(fresh) \ rulings)
    <3> DEFINE those == Elements(fresh) \ rulings
    <3> HIDE DEF those
    <3>1. Kept(fresh, those) \in Seq(K) /\ Elements(Kept(fresh, those)) = Elements(fresh) \cap those
      BY <1>1, KeptElements
    <3> QED BY <3>1 DEF those
  <2>3. rulings \subseteq Elements(fresh)
    BY DEF Rulings
  <2> QED BY <2>1, <2>2, <2>3 DEF Ruled, Unruled
<1>3. start \in Passing(K)
  <2>1. gone \in SUBSET K
    OBVIOUS
  <2> HIDE DEF ruled, gone
  <2>2. (IF set.rulings THEN ruled ELSE <<>>) \in Seq(K)
    <3>1. ruled \in Seq(K) /\ <<>> \in Seq(K)
      BY <1>2, PlainSequences
    <3> QED BY <3>1
  <2> QED BY <2>1, <2>2 DEF Passing
<1>4. PassTells(start, unruled, Len(unruled), paired)
  <2> HIDE DEF start, unruled
  <2> QED BY <1>2, <1>3, PassTellsAll
<1>5. HearingAlerts(prev, keys, set) = paired.alerts \cup rest
  BY DEF HearingAlerts
<1> HIDE DEF paired
<1>6. CASE k \in rulings
  <2>1. k.sol # "" /\ k \in Elements(start.pending)
    <3>1. k.sol # ""
      BY <1>6 DEF Rulings
    <3>2. start.pending = ruled
      BY <3>1
    <3> QED BY <1>2, <1>6, <3>1, <3>2
  <2> HIDE DEF start
  <2>2. CASE k \in Elements(paired.pending)
    <3>1. Alert("solutie_aparuta", Null, Sub(k), Null, 0) \in rest
      BY <2>2
    <3>2. Tells(Alert("solutie_aparuta", Null, Sub(k), Null, 0), k)
      BY <2>1 DEF Tells, Alert
    <3> QED BY <1>5, <3>1, <3>2
  <2>3. CASE \E a \in paired.alerts : a.kind = "termen_dupa_solutie" /\ a.from = Sub(k)
    BY <1>5, <2>1, <2>3 DEF Tells
  <2> QED BY <1>4, <2>1, <2>2, <2>3 DEF PassTells
<1>7. CASE k \notin rulings
  <2>1. k \in Elements(unruled)
    <3> HIDE DEF unruled, fresh
    <3> QED BY <1>1, <1>2, <1>7
  <2> HIDE DEF unruled
  <2>2. PICK m \in 1..Len(unruled) : k = unruled[m]
    <3>1. DOMAIN unruled = 1..Len(unruled)
      <4>1. unruled \in Seq(K)
        BY <1>2
      <4> QED BY <4>1, PlainSequences
    <3> QED BY <2>1, <3>1 DEF Elements
  <2>3. PICK a \in paired.alerts : a.to = k
    BY <1>4, <2>2 DEF PassTells
  <2> QED BY <1>5, <2>3 DEF Tells
<1> QED BY <1>6, <1>7

-----------------------------------------------------------------------------
(* The inductive invariant.                                                   *)

RunShape ==
    run = [id |-> run.id, config |-> run.config, found |-> run.found,
           failed |-> run.failed, results |-> run.results]

\* Every row of the inbox has been mailed, or is the run's to mail, or was lost.
Mailing ==
    /\ mailed \subseteq inbox /\ ~twice
    /\ pc \in {"idle", "fetch", "commit"} => run.results = {}
    /\ run.results \cap mailed = {}
    /\ inbox \ mailed \subseteq lost \cup run.results

Transitions ==
    {"dosar_new", "dosar_disappeared", "dosar_relevant_now", "dosar_no_longer_relevant",
     "stadiu_changed"}

NameBaselines == UNION {[files -> Listed] : files \in SUBSET Dosare}

\* Of the database or of a copy of it: a transition is anchored on a baseline
\* before this one; the hearings of the baseline are told or silenced, and pass
\* the filter it was taken with; the files seen are in the baseline.
Together(db) ==
    /\ db.snapId \in Nat
    /\ \A a \in db.inbox : a.kind \in Transitions => a.anchor \in 0..(db.snapId - 1)
    /\ (kind = "dosar" /\ db.baseline # Null) =>
         \A k \in Elements(db.baseline.keys) :
           /\ k \in db.quiet \/ \E a \in db.inbox : Tells(a, k)
           /\ db.baseline.fp = {} \/ k.stadiu \in db.baseline.fp
    /\ kind = "name" =>
         IF db.baseline = Null THEN db.seen = {}
         ELSE db.baseline \in NameBaselines /\ db.seen \subseteq DOMAIN db.baseline

Answers == IF kind = "dosar" THEN Lookups ELSE NameBaselines

WatchInv ==
    /\ kind \in {"dosar", "name"} /\ RunShape /\ Mailing /\ Together(Stored)
    /\ copy # Null => Together(copy) /\ copy.inbox \subseteq inbox /\ copy.snapId <= snapId
    /\ pc = "commit" => run.found \in Answers

-----------------------------------------------------------------------------
(* What the diffs give.                                                       *)

HearingKinds == {"termen_changed", "termen_dupa_solutie", "termen_new", "solutie_aparuta"}

LEMMA HearingsOnly ==
  ASSUME NEW K, NEW prev, Elements(prev.keys) \subseteq K, NEW keys \in Seq(K), NEW set
  PROVE  \A a \in HearingAlerts(prev, keys, set) : a.kind \in HearingKinds
<1> DEFINE fresh == Kept(keys, Elements(keys) \ Elements(prev.keys))
           ruled == Ruled(prev, fresh)
           gone == (Elements(prev.keys) \ Elements(keys)) \ {Sub(x) : x \in Elements(ruled)}
           start == [left |-> gone, alerts |-> {},
                     pending |-> IF set.rulings THEN ruled ELSE <<>>]
           todo == IF set.hearings THEN Unruled(prev, fresh) ELSE <<>>
           paired == PairAll(start, todo)
           rest == {Alert("solutie_aparuta", Null, Sub(p), Null, 0) : p \in Elements(paired.pending)}
<1>1. fresh \in Seq(K)
  <2> DEFINE new == Elements(keys) \ Elements(prev.keys)
  <2> HIDE DEF new
  <2>1. Kept(keys, new) \in Seq(K)
    BY KeptElements
  <2> QED BY <2>1 DEF new
<1>2. ruled \in Seq(K) /\ Unruled(prev, fresh) \in Seq(K)
  <2> HIDE DEF fresh
  <2> DEFINE ones == Rulings(prev, fresh)
             others == Elements(fresh) \ ones
  <2> HIDE DEF ones, others
  <2>1. Kept(fresh, ones) \in Seq(K) /\ Kept(fresh, others) \in Seq(K)
    BY <1>1, KeptElements
  <2> QED BY <2>1 DEF Ruled, Unruled, ones, others
<1>3. start \in Passing(K)
  <2>1. gone \in SUBSET K
    OBVIOUS
  <2> HIDE DEF ruled, gone
  <2>2. (IF set.rulings THEN ruled ELSE <<>>) \in Seq(K)
    BY <1>2, PlainSequences
  <2> QED BY <2>1, <2>2 DEF Passing
<1>4. todo \in Seq(K)
  BY <1>2, PlainSequences
<1>5. paired \in Passing(K)
  <2> HIDE DEF start, todo
  <2> QED BY <1>3, <1>4, PassTellsAll
<1>6. HearingAlerts(prev, keys, set) = paired.alerts \cup rest
  BY DEF HearingAlerts
<1> HIDE DEF paired
<1>7. paired.alerts \subseteq Tellings(K)
  BY <1>5 DEF Passing
<1>8. \A a \in Tellings(K) : a.kind \in HearingKinds
  BY DEF Tellings, Alert, HearingKinds
<1>9. \A a \in rest : a.kind \in HearingKinds
  BY DEF Alert, HearingKinds
<1> QED BY <1>6, <1>7, <1>8, <1>9

\* The row picked is one of the answer, and one of a stadiu that the baseline
\* has if there is any.
LEMMA PickedIsFollowed ==
  ASSUME NEW rows \in Lookups, NEW prev
  PROVE  /\ PickWatched(rows, prev) # Null => PickWatched(rows, prev) \in Elements(rows)
         /\ prev # Null /\ Stadii(prev.keys) \cap {row.stadiu : row \in Elements(rows)} # {} =>
              /\ PickWatched(rows, prev) # Null
              /\ PickWatched(rows, prev).stadiu \in Stadii(prev.keys)
<1> DEFINE stadii == IF prev = Null THEN {} ELSE {k.stadiu : k \in Elements(prev.keys)}
           those == {d \in Elements(rows) : d.stadiu \in stadii}
           sticky == Kept(rows, those)
<1>1. /\ rows \in Seq(Elements(rows)) /\ Null \notin Elements(rows)
      /\ DOMAIN rows = 1..Len(rows) /\ Len(rows) \in Nat
  BY WatchAssumption, PlainSequences, LenProperties
<1>2. sticky \in Seq(Elements(rows)) /\ Elements(sticky) = those
  <2> HIDE DEF those
  <2>1. sticky \in Seq(Elements(rows)) /\ Elements(sticky) = Elements(rows) \cap those
    BY <1>1, KeptElements
  <2> QED BY <2>1 DEF those
<1>3. /\ sticky # <<>> => sticky[1] \in Elements(sticky)
      /\ rows # <<>> => rows[1] \in Elements(rows)
  <2>1. \A S : \A q \in Seq(S) : q # <<>> => 1 \in DOMAIN q
    OBVIOUS
  <2> HIDE DEF sticky
  <2> QED BY <1>1, <1>2, <2>1 DEF Elements
<1>4. PickWatched(rows, prev) = IF rows = <<>> THEN Null
                                ELSE IF Len(rows) > 1 /\ sticky # <<>> THEN sticky[1] ELSE rows[1]
  BY DEF PickWatched
<1> HIDE DEF sticky
<1>5. PickWatched(rows, prev) # Null => PickWatched(rows, prev) \in Elements(rows)
  BY <1>2, <1>3, <1>4
<1>6. ASSUME prev # Null, NEW row \in Elements(rows), row.stadiu \in Stadii(prev.keys)
      PROVE  /\ PickWatched(rows, prev) # Null
             /\ PickWatched(rows, prev).stadiu \in Stadii(prev.keys)
  <2>1. stadii = Stadii(prev.keys)
    BY <1>6 DEF Stadii
  <2>2. row \in those
    BY <1>6, <2>1
  <2>3. sticky # <<>> /\ rows # <<>>
    BY <1>2, <1>6, <2>2 DEF Elements
  <2>4. CASE Len(rows) > 1
    BY <1>1, <1>2, <1>3, <1>4, <2>1, <2>3, <2>4
  <2>5. CASE ~(Len(rows) > 1)
    <3>1. \A n \in DOMAIN rows : n = 1
      BY <1>1, <2>5
    <3>2. rows[1] = row
      BY <1>6, <3>1 DEF Elements
    <3> QED BY <1>1, <1>4, <1>6, <2>3, <2>5, <3>2
  <2> QED BY <2>4, <2>5
<1> QED BY <1>5, <1>6

\* The next baseline: its hearings are those of the row, if it passes.
Taken(dosar, new, set) ==
    /\ new.fp = set.stadii /\ new.present \in BOOLEAN
    /\ new.present <=> dosar # Null /\ PassesFilter(dosar.stadiu, set)
    /\ new.keys \in Seq(Elements(new.keys))
    /\ ~new.present => Elements(new.keys) = {}
    /\ \A k \in Elements(new.keys) : set.stadii = {} \/ k.stadiu \in set.stadii

LEMMA SnapshotTaken ==
  ASSUME NEW rows \in Lookups, NEW prev, NEW set, NEW id
  PROVE  Taken(PickWatched(rows, prev),
               DiffDosar(prev, PickWatched(rows, prev), set, id).baseline, set)
<1> DEFINE dosar == PickWatched(rows, prev)
           passes == dosar # Null /\ PassesFilter(dosar.stadiu, set)
           new == Snapshot(IF passes THEN dosar ELSE Null, set.stadii)
           keys == [n \in DOMAIN dosar.sedinte |-> KeyOf(dosar, dosar.sedinte[n])]
<1>1. DiffDosar(prev, dosar, set, id).baseline = new
  BY DEF DiffDosar
<1>2. CASE passes
  <2>1. dosar \in Elements(rows)
    BY <1>2, PickedIsFollowed
  <2>2. DOMAIN dosar.sedinte = 1..Len(dosar.sedinte) /\ Len(dosar.sedinte) \in Nat
    BY <2>1, WatchAssumption, PlainSequences, LenProperties
  <2>3. new = [present |-> TRUE, fp |-> set.stadii, keys |-> keys]
    BY <1>2 DEF Snapshot
  <2>4. keys \in Seq(Elements(keys))
    <3> DEFINE n == Len(dosar.sedinte)
    <3>1. n \in Nat /\ DOMAIN keys = 1..n /\ \A m \in 1..n : keys[m] \in Elements(keys)
      BY <2>2 DEF Elements
    <3>2. keys = [m \in 1..n |-> keys[m]]
      BY <2>2
    <3> HIDE DEF keys, n
    <3> QED BY <3>1, <3>2, IsASeq
  <2>5. ASSUME NEW k \in Elements(keys) PROVE set.stadii = {} \/ k.stadiu \in set.stadii
    <3>1. PICK n \in DOMAIN keys : k = keys[n]
      BY <2>5 DEF Elements
    <3>2. keys[n] = KeyOf(dosar, dosar.sedinte[n])
      BY <3>1
    <3>3. KeyOf(dosar, dosar.sedinte[n]).stadiu = dosar.stadiu
      BY DEF KeyOf
    <3> HIDE DEF keys, dosar
    <3> QED BY <1>2, <3>1, <3>2, <3>3 DEF PassesFilter
  <2> HIDE DEF keys, new, dosar
  <2> QED BY <1>1, <1>2, <2>3, <2>4, <2>5 DEF dosar, Taken
<1>3. CASE ~passes
  <2>1. new = [present |-> FALSE, fp |-> set.stadii, keys |-> <<>>]
    BY <1>3 DEF Snapshot
  <2>2. Elements(<<>>) = {} /\ \A S : <<>> \in Seq(S)
    BY DEF Elements
  <2> HIDE DEF new, dosar
  <2> QED BY <1>1, <1>3, <2>1, <2>2 DEF dosar, Taken
<1> QED BY <1>2, <1>3

\* What the diff of a file tells of a transition, and of a hearing.
FileTells(prev, diff, set, id) ==
    LET new == diff.baseline
        follows == prev # Null /\ prev.fp = new.fp
    IN  /\ \A a \in diff.alerts : a.kind \in Transitions => a.anchor = id
        /\ follows /\ prev.present /\ ~new.present /\ set.gone =>
             Alert("dosar_disappeared", Null, Null, Null, id) \in diff.alerts
        /\ follows /\ ~prev.present /\ new.present =>
             Alert("dosar_new", Null, Null, Null, id) \in diff.alerts
        /\ \A a \in diff.alerts : a.kind = "dosar_disappeared" =>
             follows /\ ~new.present
        /\ follows /\ prev.present /\ set.hearings =>
             \A k \in Elements(new.keys) \ Elements(prev.keys) :
               k.sol = "" \/ set.rulings => \E a \in diff.alerts : Tells(a, k)

LEMMA FileDiff ==
  ASSUME NEW rows \in Lookups, NEW prev, NEW set, NEW id
  PROVE  FileTells(prev, DiffDosar(prev, PickWatched(rows, prev), set, id), set, id)
<1> DEFINE diff == DiffDosar(prev, PickWatched(rows, prev), set, id)
           new == diff.baseline
           gone == Alert("dosar_disappeared", Null, Null, Null, id)
           back == Alert("dosar_new", Null, Null, Null, id)
           told == HearingAlerts(prev, new.keys, set)
           K == Elements(prev.keys) \cup Elements(new.keys)
<1>1. diff.alerts = IF prev = Null \/ prev.fp # new.fp THEN {}
                    ELSE IF prev.present /\ ~new.present THEN IF set.gone THEN {gone} ELSE {}
                    ELSE IF ~prev.present /\ new.present THEN {back}
                    ELSE IF new.present THEN told ELSE {}
  BY DEF DiffDosar, DosarAlerts, Anchor
<1>2. /\ new.present \in BOOLEAN /\ new.keys \in Seq(Elements(new.keys))
      /\ ~new.present => Elements(new.keys) = {}
  BY SnapshotTaken DEF Taken
<1> HIDE DEF diff
<1>3. new.keys \in Seq(K)
  <2>1. \A S, T : S \subseteq T => Seq(S) \subseteq Seq(T)
    OBVIOUS
  <2> HIDE DEF K, new
  <2>2. Elements(new.keys) \subseteq K
    BY DEF K
  <2> QED BY <1>2, <2>1, <2>2
<1>4. \A a \in told : a.kind \in HearingKinds
  <2> HIDE DEF new
  <2> HIDE DEF K
  <2>1. Elements(prev.keys) \subseteq K
    BY DEF K
  <2> QED BY <1>3, <2>1, HearingsOnly
<1>5. ASSUME set.hearings, NEW k \in Elements(new.keys) \ Elements(prev.keys),
             k.sol = "" \/ set.rulings
      PROVE  \E a \in told : Tells(a, k)
  <2> HIDE DEF new
  <2> HIDE DEF K
  <2>1. Elements(prev.keys) \subseteq K
    BY DEF K
  <2> QED BY <1>3, <1>5, <2>1, HearingsTold
<1>6. /\ gone.kind = "dosar_disappeared" /\ gone.anchor = id
      /\ back.kind = "dosar_new" /\ back.anchor = id
  BY DEF Alert
<1>7. HearingKinds \cap Transitions = {} /\ "dosar_disappeared" \in Transitions
  BY DEF HearingKinds, Transitions
<1> HIDE DEF new, told, gone, back, K
<1>8. \A a \in diff.alerts : a.kind \in Transitions => a = gone \/ a = back
  BY <1>1, <1>4, <1>7
<1>9. \A a \in diff.alerts : a.kind = "dosar_disappeared" =>
        prev # Null /\ prev.fp = new.fp /\ ~new.present
  <2>1. \A a \in diff.alerts : a.kind = "dosar_disappeared" => a \notin told /\ a # back
    BY <1>4, <1>6, <1>7
  <2> QED BY <1>1, <2>1
<1>10. \A k \in Elements(new.keys) \ Elements(prev.keys) : new.present
  BY <1>2
<1>11. (prev # Null /\ prev.fp = new.fp /\ prev.present /\ new.present) => diff.alerts = told
  BY <1>1
<1>12. /\ prev # Null /\ prev.fp = new.fp /\ prev.present /\ ~new.present /\ set.gone =>
             gone \in diff.alerts
       /\ prev # Null /\ prev.fp = new.fp /\ ~prev.present /\ new.present => back \in diff.alerts
  BY <1>1
<1>13. (prev # Null /\ prev.fp = new.fp /\ prev.present /\ set.hearings) =>
         \A k \in Elements(new.keys) \ Elements(prev.keys) :
           k.sol = "" \/ set.rulings => \E a \in diff.alerts : Tells(a, k)
  BY <1>5, <1>10, <1>11
<1>14. FileTells(prev, diff, set, id)
  BY <1>6, <1>8, <1>9, <1>12, <1>13 DEF new, gone, back, FileTells
<1> QED BY <1>14 DEF diff
-----------------------------------------------------------------------------
(* The diff of a name.                                                        *)

\* A baseline, or no file for no baseline.
LEMMA OldNames ==
  ASSUME NEW prev \in NameBaselines \cup {Null}
  PROVE  (IF prev = Null THEN <<>> ELSE prev) \in NameBaselines
<1>1. <<>> \in [{} -> Listed]
  OBVIOUS
<1>2. {} \in SUBSET Dosare
  OBVIOUS
<1>3. <<>> \in NameBaselines
  BY <1>1, <1>2 DEF NameBaselines
<1> QED BY <1>3

\* The next baseline has what was found and what could not be asked for.
NamesNext(old, new, found, failed) ==
    /\ new \in NameBaselines
    /\ DOMAIN new = DOMAIN found \cup {d \in DOMAIN old : Home[d] \in failed}
    /\ \A d \in DOMAIN found : new[d] = found[d]
    /\ \A d \in DOMAIN new \ DOMAIN found : new[d] = old[d]

LEMMA NamesTaken ==
  ASSUME NEW prev \in NameBaselines \cup {Null}, NEW found \in NameBaselines, NEW failed,
         NEW set, NEW id
  PROVE  NamesNext(IF prev = Null THEN <<>> ELSE prev,
                   DiffName(prev, found, failed, set, id).baseline, found, failed)
<1> DEFINE old == IF prev = Null THEN <<>> ELSE prev
           new == NextNames(prev, found, failed)
           carried == Carried(prev, found, failed)
<1>1. DiffName(prev, found, failed, set, id).baseline = new
  BY DEF DiffName
<1>2. carried = {d \in DOMAIN old \ DOMAIN found : Home[d] \in failed}
  BY DEF Carried
<1>3. new = [d \in DOMAIN found \cup carried |-> IF d \in DOMAIN found THEN found[d] ELSE prev[d]]
  BY DEF NextNames
<1>4. old \in NameBaselines
  BY OldNames
<1>5. \A f \in NameBaselines : DOMAIN f \subseteq Dosare /\ \A d \in DOMAIN f : f[d] \in Listed
  BY DEF NameBaselines
<1>6. carried # {} => old = prev
  BY DEF Carried
<1> HIDE DEF old, new, carried
<1>7. /\ DOMAIN new = DOMAIN found \cup carried
      /\ \A d \in DOMAIN found : new[d] = found[d]
      /\ \A d \in DOMAIN new \ DOMAIN found : new[d] = old[d]
  BY <1>3, <1>6
<1>8. new \in [DOMAIN found \cup carried -> Listed]
  <2>1. \A d \in carried : d \in DOMAIN old
    BY <1>2
  <2> QED BY <1>3, <1>4, <1>5, <1>6, <2>1
<1>9. DOMAIN found \cup carried \in SUBSET Dosare
  BY <1>2, <1>4, <1>5
<1>10. new \in NameBaselines
  BY <1>8, <1>9 DEF NameBaselines
<1>11. DOMAIN found \cup carried = DOMAIN found \cup {d \in DOMAIN old : Home[d] \in failed}
  BY <1>2
<1>12. NamesNext(old, new, found, failed)
  BY <1>7, <1>10, <1>11 DEF NamesNext
<1> QED BY <1>1, <1>12 DEF old

\* What the diff tells: on the anchor, and of the files alone that it is about.
NamesTell(old, found, failed, set, id, alerts) ==
    LET Says(about, d) == Alert(about, d, Null, Null, id) \in alerts
    IN  /\ \A a \in alerts :
             /\ a.anchor = id
             /\ a.kind = "dosar_new" => a.subj \in DOMAIN found \ DOMAIN old
             /\ a.kind = "dosar_disappeared" =>
                  Home[a.subj] \notin failed /\ a.subj \notin DOMAIN found
        /\ \A d \in DOMAIN found \cap DOMAIN old :
             /\ old[d] # found[d] /\ (Relevant(old, d, set) \/ Relevant(found, d, set)) =>
                  Says("stadiu_changed", d)
             /\ ~Relevant(old, d, set) /\ Relevant(found, d, set) =>
                  Says("dosar_relevant_now", d)
             /\ Relevant(old, d, set) /\ ~Relevant(found, d, set) =>
                  Says("dosar_no_longer_relevant", d)
        /\ \A d \in DOMAIN found \ DOMAIN old :
             Relevant(found, d, set) /\ d \notin Historic => Says("dosar_new", d)
        /\ \A d \in DOMAIN old \ DOMAIN found :
             Relevant(old, d, set) /\ set.gone /\ Home[d] \notin failed =>
               Says("dosar_disappeared", d)

LEMMA NamesTold ==
  ASSUME NEW prev \in NameBaselines \cup {Null}, NEW found \in NameBaselines, NEW failed,
         NEW set, NEW id
  PROVE  NamesTell(IF prev = Null THEN <<>> ELSE prev, found, failed, set, id,
                   DiffName(prev, found, failed, set, id).alerts)
<1> DEFINE diff == DiffName(prev, found, failed, set, id)
           old == IF prev = Null THEN <<>> ELSE prev
           files == UNION {FileAlerts(old, found, d, set, id) : d \in DOMAIN found}
           gone == GoneAlerts(old, found, failed, set, id)
           of(about, d) == Alert(about, d, Null, Null, id)
<1>1. diff.alerts = files \cup gone
  BY DEF DiffName
<1> HIDE DEF diff, old
<1>2. \A d : FileAlerts(old, found, d, set, id) =
        IF d \notin DOMAIN old
        THEN IF Relevant(found, d, set) /\ d \notin Historic THEN {of("dosar_new", d)} ELSE {}
        ELSE (IF ~Relevant(old, d, set) /\ Relevant(found, d, set)
              THEN {of("dosar_relevant_now", d)} ELSE {})
             \cup (IF Relevant(old, d, set) /\ ~Relevant(found, d, set)
                   THEN {of("dosar_no_longer_relevant", d)} ELSE {})
             \cup (IF old[d] # found[d] /\ (Relevant(old, d, set) \/ Relevant(found, d, set))
                   THEN {of("stadiu_changed", d)} ELSE {})
  BY DEF FileAlerts, Anchor
<1>3. gone = IF ~set.gone THEN {}
             ELSE {of("dosar_disappeared", d) :
                     d \in {e \in DOMAIN old \ DOMAIN found :
                              Home[e] \notin failed /\ Relevant(old, e, set)}}
  BY DEF GoneAlerts, Anchor
<1>4. \A about, d : /\ of(about, d).kind = about /\ of(about, d).subj = d
                    /\ of(about, d).anchor = id
  BY DEF Alert
<1> HIDE DEF of
<1>5. ASSUME NEW a \in files
      PROVE  /\ a.anchor = id /\ a.kind # "dosar_disappeared"
             /\ a.kind = "dosar_new" => a.subj \in DOMAIN found \ DOMAIN old
  <2>1. PICK d \in DOMAIN found : a \in FileAlerts(old, found, d, set, id)
    BY <1>5
  <2>2. \/ d \notin DOMAIN old /\ a = of("dosar_new", d)
        \/ a = of("dosar_relevant_now", d) \/ a = of("dosar_no_longer_relevant", d)
        \/ a = of("stadiu_changed", d)
    BY <1>2, <2>1
  <2> QED BY <1>4, <2>1, <2>2
<1>6. ASSUME NEW a \in gone
      PROVE  /\ a.anchor = id /\ a.kind = "dosar_disappeared"
             /\ Home[a.subj] \notin failed /\ a.subj \notin DOMAIN found
  BY <1>3, <1>4
<1>7. \A d \in DOMAIN found : FileAlerts(old, found, d, set, id) \subseteq files
  OBVIOUS
<1> HIDE DEF files, gone
<1>8. \A d \in DOMAIN found \cap DOMAIN old :
        /\ old[d] # found[d] /\ (Relevant(old, d, set) \/ Relevant(found, d, set)) =>
             of("stadiu_changed", d) \in diff.alerts
        /\ ~Relevant(old, d, set) /\ Relevant(found, d, set) =>
             of("dosar_relevant_now", d) \in diff.alerts
        /\ Relevant(old, d, set) /\ ~Relevant(found, d, set) =>
             of("dosar_no_longer_relevant", d) \in diff.alerts
  BY <1>1, <1>2, <1>7
<1>9. \A d \in DOMAIN found \ DOMAIN old :
        Relevant(found, d, set) /\ d \notin Historic => of("dosar_new", d) \in diff.alerts
  BY <1>1, <1>2, <1>7
<1>10. \A d \in DOMAIN old \ DOMAIN found :
         Relevant(old, d, set) /\ set.gone /\ Home[d] \notin failed =>
           of("dosar_disappeared", d) \in diff.alerts
  BY <1>1, <1>3
<1>11. \A a \in diff.alerts :
         /\ a.anchor = id
         /\ a.kind = "dosar_new" => a.subj \in DOMAIN found \ DOMAIN old
         /\ a.kind = "dosar_disappeared" =>
              Home[a.subj] \notin failed /\ a.subj \notin DOMAIN found
  BY <1>1, <1>5, <1>6
<1>12. NamesTell(old, found, failed, set, id, diff.alerts)
  BY <1>8, <1>9, <1>10, <1>11 DEF of, NamesTell
<1> QED BY <1>12 DEF diff, old
-----------------------------------------------------------------------------
(* Every step keeps the invariant.                                            *)

LEMMA StoredIs ==
  /\ Stored.config = config /\ Stored.baseline = baseline /\ Stored.snapId = snapId
  /\ Stored.inbox = inbox /\ Stored.lastRun = lastRun
  /\ Stored.quiet = quiet /\ Stored.seen = seen
BY DEF Stored

LEMMA StoredTogether ==
  ASSUME WatchInv
  PROVE  /\ snapId \in Nat
         /\ \A a \in inbox : a.kind \in Transitions => a.anchor \in 0..(snapId - 1)
         /\ (kind = "dosar" /\ baseline # Null) =>
              \A k \in Elements(baseline.keys) :
                /\ k \in quiet \/ \E a \in inbox : Tells(a, k)
                /\ baseline.fp = {} \/ k.stadiu \in baseline.fp
         /\ kind = "name" =>
              /\ baseline \in NameBaselines \cup {Null}
              /\ baseline = Null => seen = {}
              /\ baseline # Null => seen \subseteq DOMAIN baseline
<1>1. Together(Stored)
  BY DEF WatchInv
<1> QED BY <1>1, StoredIs DEF Together

LEMMA WatchStarts == Init => WatchInv
<1> SUFFICES ASSUME Init PROVE WatchInv
  OBVIOUS
<1>1. RunShape /\ run.results = {}
  BY DEF Init, RunShape, NoRun
<1>2. Mailing
  BY <1>1 DEF Init, Mailing
<1>3. Together(Stored)
  BY StoredIs DEF Init, Together
<1> QED BY <1>1, <1>2, <1>3 DEF Init, WatchInv

\* The alerts a commit adds: those of transitions on the baseline before it.
LEMMA Anchored ==
  ASSUME WatchInv, pc = "commit"
  PROVE  \A a \in Diff.alerts \cup SeveralCourts : a.kind \in Transitions => a.anchor = snapId
<1>1. \A a \in SeveralCourts : a.kind \notin Transitions
  BY DEF SeveralCourts, Alert, Transitions
<1>2. CASE kind = "dosar"
  <2>1. run.found \in Lookups
    BY <1>2 DEF WatchInv, Answers
  <2>2. Diff = DiffDosar(baseline, PickWatched(run.found, baseline), run.config, snapId)
    BY <1>2 DEF Diff
  <2>3. FileTells(baseline, Diff, run.config, snapId)
    BY <2>1, <2>2, FileDiff
  <2> QED BY <1>1, <2>3 DEF FileTells
<1>3. CASE kind = "name"
  <2>1. run.found \in NameBaselines /\ baseline \in NameBaselines \cup {Null}
    BY <1>3, StoredIs DEF WatchInv, Answers, Together
  <2>2. Diff = DiffName(baseline, run.found, run.failed, run.config, snapId)
    BY <1>3 DEF Diff
  <2>3. NamesTell(IF baseline = Null THEN <<>> ELSE baseline, run.found, run.failed,
                  run.config, snapId, Diff.alerts)
    BY <2>1, <2>2, NamesTold
  <2>4. \A a \in Diff.alerts : a.anchor = snapId
    BY <2>3 DEF NamesTell
  <2> QED BY <1>1, <2>4
<1> QED BY <1>2, <1>3 DEF WatchInv

\* The hearings of the next baseline: told before, told now, or silenced.
LEMMA CommitTellsHearings ==
  ASSUME WatchInv, Commit, kind = "dosar", NEW k \in Elements(baseline'.keys)
  PROVE  /\ k \in quiet' \/ \E a \in inbox' : Tells(a, k)
         /\ baseline'.fp = {} \/ k.stadiu \in baseline'.fp
<1> DEFINE dosar == PickWatched(run.found, baseline)
           diff == DiffDosar(baseline, dosar, run.config, snapId)
           new == diff.baseline
           alerts == diff.alerts
<1>1. /\ run.found \in Lookups /\ baseline' = new
      /\ inbox' = inbox \cup alerts \cup SeveralCourts
      /\ quiet' = quiet \cup (IF baseline = Null THEN Elements(new.keys)
                             ELSE Silenced(baseline, new))
  BY DEF WatchInv, Answers, Commit, Diff, Observe
<1>2. Taken(dosar, new, run.config) /\ FileTells(baseline, diff, run.config, snapId)
  BY <1>1, SnapshotTaken, FileDiff
<1> HIDE DEF diff
<1>3. /\ new.fp = run.config.stadii
      /\ \A h \in Elements(new.keys) : new.fp = {} \/ h.stadiu \in new.fp
  BY <1>2 DEF Taken
<1>4. (baseline # Null /\ baseline.fp = new.fp /\ baseline.present /\ run.config.hearings) =>
        \A h \in Elements(new.keys) \ Elements(baseline.keys) :
          h.sol = "" \/ run.config.rulings => \E a \in alerts : Tells(a, h)
  BY <1>2 DEF FileTells
<1> HIDE DEF new, alerts
<1>5. CASE baseline = Null
  BY <1>1, <1>3, <1>5
<1>6. CASE baseline # Null
  <2>1. CASE baseline.fp # new.fp \/ ~baseline.present
    <3>1. Silenced(baseline, new) = Elements(new.keys)
      BY <2>1 DEF Silenced
    <3> QED BY <1>1, <1>3, <1>6, <3>1
  <2>2. CASE ~(baseline.fp # new.fp \/ ~baseline.present)
    <3>1. CASE k \in Elements(baseline.keys)
      <4>1. k \in quiet \/ \E a \in inbox : Tells(a, k)
        BY <1>6, <3>1, StoredTogether
      <4> QED BY <1>1, <1>3, <4>1
    <3>2. CASE k \notin Elements(baseline.keys)
      <4>1. CASE ~run.config.hearings \/ (k.sol # "" /\ ~run.config.rulings)
        <5>1. k \in Silenced(baseline, new)
          BY <1>1, <2>2, <3>2, <4>1 DEF Silenced
        <5> QED BY <1>1, <1>3, <1>6, <5>1
      <4>2. CASE ~(~run.config.hearings \/ (k.sol # "" /\ ~run.config.rulings))
        BY <1>1, <1>3, <1>4, <1>6, <2>2, <3>2, <4>2
      <4> QED BY <4>1, <4>2
    <3> QED BY <3>1, <3>2
  <2> QED BY <2>1, <2>2
<1> QED BY <1>5, <1>6

\* The next baseline of a name has every file that its institution last gave.
LEMMA CommitKeepsSeen ==
  ASSUME WatchInv, Commit, kind = "name"
  PROVE  baseline' \in NameBaselines /\ seen' \subseteq DOMAIN baseline'
<1> DEFINE diff == DiffName(baseline, run.found, run.failed, run.config, snapId)
           old == IF baseline = Null THEN <<>> ELSE baseline
<1>1. /\ run.found \in NameBaselines /\ baseline \in NameBaselines \cup {Null}
      /\ seen \subseteq DOMAIN old
  <2>1. run.found \in NameBaselines
    BY DEF WatchInv, Answers, Commit
  <2>2. baseline = Null => seen = {}
    BY StoredTogether
  <2>3. baseline # Null => seen \subseteq DOMAIN baseline
    BY StoredTogether
  <2>4. baseline \in NameBaselines \cup {Null}
    BY StoredTogether
  <2>5. baseline # Null => old = baseline
    OBVIOUS
  <2> HIDE DEF old
  <2> QED BY <2>1, <2>2, <2>3, <2>4, <2>5
<1>2. /\ baseline' = diff.baseline
      /\ seen' = {d \in seen : Home[d] \in run.failed} \cup DOMAIN run.found
  BY DEF Commit, Diff, Observe
<1>3. NamesNext(old, diff.baseline, run.found, run.failed)
  BY <1>1, NamesTaken
<1> HIDE DEF diff, old
<1> QED BY <1>1, <1>2, <1>3 DEF NamesNext

LEMMA CommitKeepsTogether ==
  ASSUME WatchInv, Commit
  PROVE  Together(Stored)'
<1>1. snapId \in Nat /\ \A a \in inbox : a.kind \in Transitions => a.anchor \in 0..(snapId - 1)
  BY StoredTogether
<1>2. /\ kind' = kind /\ snapId' = snapId + 1 /\ pc = "commit"
      /\ inbox' = inbox \cup (Diff.alerts \cup SeveralCourts)
  BY DEF Commit
<1>3. \A a \in Diff.alerts \cup SeveralCourts : a.kind \in Transitions => a.anchor = snapId
  BY <1>2, Anchored
<1>4. ASSUME NEW a \in inbox', a.kind \in Transitions PROVE a.anchor \in 0..(snapId' - 1)
  <2>1. CASE a \in inbox
    BY <1>1, <1>2, <1>4, <2>1
  <2>2. CASE a \notin inbox
    <3>1. a.anchor = snapId
      BY <1>2, <1>3, <1>4, <2>2
    <3> QED BY <1>1, <1>2, <3>1
  <2> QED BY <2>1, <2>2
<1>5. kind = "dosar" =>
        \A k \in Elements(baseline'.keys) :
          /\ k \in quiet' \/ \E a \in inbox' : Tells(a, k)
          /\ baseline'.fp = {} \/ k.stadiu \in baseline'.fp
  BY CommitTellsHearings
<1>6. kind = "name" => baseline' \in NameBaselines /\ seen' \subseteq DOMAIN baseline'
  BY CommitKeepsSeen
<1>7. kind = "name" => baseline' # Null
  BY <1>6, WatchAssumption DEF NameBaselines
<1>8. /\ Stored'.snapId = snapId' /\ Stored'.inbox = inbox' /\ Stored'.baseline = baseline'
      /\ Stored'.quiet = quiet' /\ Stored'.seen = seen'
  BY DEF Stored
<1> QED BY <1>1, <1>2, <1>4, <1>5, <1>6, <1>7, <1>8 DEF Together
LEMMA CommitKeeps ==
  ASSUME WatchInv, Commit
  PROVE  WatchInv'
<1>1. Together(Stored)'
  BY CommitKeepsTogether
<1>2. /\ kind' = kind /\ copy' = copy /\ pc' \in {"dispatch", "partial"}
      /\ inbox \subseteq inbox' /\ snapId' = snapId + 1 /\ snapId \in Nat
      /\ run' = [run EXCEPT !.results = Inserted(Diff.alerts \cup SeveralCourts)]
      /\ inbox' = inbox \cup (Diff.alerts \cup SeveralCourts)
      /\ mailed' = mailed /\ twice' = twice /\ lost' = lost /\ pc = "commit"
  BY StoredTogether DEF Commit, mails
<1>3. RunShape' /\ run'.results = (Diff.alerts \cup SeveralCourts) \ inbox
  BY <1>2 DEF WatchInv, RunShape, Inserted
<1>4. Mailing'
  BY <1>2, <1>3 DEF WatchInv, Mailing
<1>5. copy' # Null =>
        Together(copy)' /\ copy'.inbox \subseteq inbox' /\ copy'.snapId <= snapId'
  <2>1. ASSUME copy # Null PROVE copy.snapId \in Nat /\ copy.snapId <= snapId /\ Together(copy)
    BY <2>1 DEF WatchInv, Together
  <2>2. copy # Null => Together(copy)'
    BY <1>2, <2>1 DEF Together
  <2>3. copy # Null => copy.inbox \subseteq inbox'
    BY <1>2 DEF WatchInv
  <2>4. copy # Null => copy.snapId <= snapId + 1
    BY <1>2, <2>1
  <2> QED BY <1>2, <2>2, <2>3, <2>4
<1> QED BY <1>1, <1>2, <1>3, <1>4, <1>5 DEF WatchInv

\* An alert of no transition goes into the inbox and among the run's results.
LEMMA TellingKeeps ==
  ASSUME WatchInv, NEW alert, alert.kind \notin Transitions,
         inbox' = inbox \cup {alert}, pc' = "dispatch",
         \/ pc = "commit" /\ run' = [run EXCEPT !.results = Inserted({alert})]
         \/ run' = [run EXCEPT !.results = @ \cup Inserted({alert})],
         UNCHANGED <<kind, config, baseline, snapId, lastRun, quiet, seen, mails, copy, upsets>>
  PROVE  WatchInv'
<1>1. RunShape' /\ run'.results = run.results \cup ({alert} \ inbox)
  BY DEF WatchInv, Mailing, RunShape, Inserted
<1>2. Mailing'
  BY <1>1 DEF WatchInv, Mailing, mails
<1>3. Together(Stored)'
  <2>1. /\ Stored'.snapId = snapId /\ Stored'.inbox = inbox \cup {alert}
        /\ Stored'.baseline = baseline /\ Stored'.quiet = quiet /\ Stored'.seen = seen
        /\ kind' = kind
    BY DEF Stored
  <2> QED BY <2>1, StoredTogether DEF Together
<1>4. copy # Null => Together(copy)'
  BY DEF WatchInv, Together
<1> QED BY <1>1, <1>2, <1>3, <1>4 DEF WatchInv

\* Steps that leave the database alone.
LEMMA ElsewhereKeeps ==
  ASSUME WatchInv, UNCHANGED <<kind, baseline, snapId, inbox, quiet, seen, copy>>,
         RunShape', Mailing', pc' = "commit" => run'.found \in Answers
  PROVE  WatchInv'
<1>1. Together(Stored)'
  <2>1. /\ Stored'.snapId = snapId /\ Stored'.inbox = inbox
        /\ Stored'.baseline = baseline /\ Stored'.quiet = quiet /\ Stored'.seen = seen
        /\ kind' = kind
    BY DEF Stored
  <2> QED BY <2>1, StoredTogether DEF Together
<1>2. copy # Null => Together(copy)'
  BY DEF WatchInv, Together
<1> QED BY <1>1, <1>2 DEF WatchInv, Answers

LEMMA NoRunIs == /\ NoRun.results = {} /\ run = NoRun => RunShape
BY DEF NoRun, RunShape

LEMMA AnswersAreAnswers ==
  ASSUME WatchInv, LookupAnswers \/ FanOutAnswers
  PROVE  RunShape' /\ run'.results = run.results /\ run'.found \in Answers
<1>1. CASE LookupAnswers
  BY <1>1 DEF LookupAnswers, WatchInv, RunShape, Answers
<1>2. CASE FanOutAnswers
  <2>1. PICK world \in Worlds, failed \in (SUBSET Institutions) \ {Institutions} :
          run' = [run EXCEPT !.failed = failed,
                             !.found = [d \in {e \in DOMAIN world : Home[e] \notin failed}
                                          |-> world[d]]]
    BY <1>2 DEF FanOutAnswers
  <2> DEFINE there == {e \in DOMAIN world : Home[e] \notin failed}
             found == [d \in there |-> world[d]]
  <2>2. there \in SUBSET Dosare /\ \A d \in there : world[d] \in Listed
    BY WatchAssumption DEF Listed
  <2>3. found \in [there -> Listed]
    BY <2>2
  <2> HIDE DEF there
  <2>4. found \in NameBaselines
    BY <2>2, <2>3 DEF NameBaselines
  <2>5. Answers = NameBaselines
    BY <1>2 DEF FanOutAnswers, Answers
  <2> HIDE DEF found
  <2>6. run' = [run EXCEPT !.failed = failed, !.found = found]
    BY <2>1 DEF found, there
  <2> QED BY <2>4, <2>5, <2>6 DEF WatchInv, RunShape
<1> QED BY <1>1, <1>2

LEMMA RestoreKeeps ==
  ASSUME WatchInv, RestoreMonolith
  PROVE  WatchInv'
<1>1. /\ Stored'.snapId = copy.snapId /\ Stored'.inbox = copy.inbox
      /\ Stored'.baseline = copy.baseline /\ Stored'.quiet = copy.quiet
      /\ Stored'.seen = copy.seen /\ kind' = kind /\ copy' = copy /\ copy # Null
      /\ inbox' = copy.inbox /\ snapId' = copy.snapId
      /\ mailed' = mailed \cap copy.inbox /\ pc' = pc /\ run' = run
      /\ lost' = lost /\ twice' = twice
  BY DEF RestoreMonolith, Stored
<1>2. Together(copy) /\ copy.inbox \subseteq inbox /\ copy.snapId \in Nat
  BY <1>1 DEF WatchInv, Together
<1>3. Together(Stored)' /\ Together(copy)'
  BY <1>1, <1>2 DEF Together
<1>4. Mailing' /\ RunShape'
  BY <1>1, <1>2 DEF WatchInv, Mailing, RunShape
<1>5. pc' = "commit" => run'.found \in Answers'
  BY <1>1 DEF WatchInv, Answers
<1>6. copy'.inbox \subseteq inbox' /\ copy'.snapId <= snapId'
  BY <1>1, <1>2
<1> QED BY <1>1, <1>3, <1>4, <1>5, <1>6 DEF WatchInv

LEMMA WatchSteps == WatchInv /\ [Next]_vars => WatchInv'
<1> SUFFICES ASSUME WatchInv, [Next]_vars PROVE WatchInv'
  OBVIOUS
<1>1. CASE Start
  <2>1. RunShape' /\ run'.results = {}
    BY <1>1 DEF Start, RunShape, NoRun
  <2>2. Mailing'
    BY <1>1, <2>1 DEF Start, WatchInv, Mailing, mails
  <2> QED BY <1>1, <2>1, <2>2, ElsewhereKeeps DEF Start
<1>2. CASE LookupAnswers \/ FanOutAnswers
  <2>1. RunShape' /\ run'.results = run.results /\ run'.found \in Answers
    BY <1>2, AnswersAreAnswers
  <2>2. UNCHANGED <<kind, stored, mails, copy, upsets>> /\ pc = "fetch" /\ pc' = "commit"
    BY <1>2 DEF LookupAnswers, FanOutAnswers
  <2>3. Mailing'
    BY <2>1, <2>2 DEF WatchInv, Mailing, mails, stored
  <2> QED BY <2>1, <2>2, <2>3, ElsewhereKeeps DEF stored
<1>3. CASE FetchFails \/ CommitFails
  <2>1. /\ UNCHANGED <<kind, stored, mails, copy>> /\ pc \in {"fetch", "commit"}
        /\ pc' = "idle" /\ run' = NoRun
    BY <1>3 DEF FetchFails, CommitFails, Finish
  <2>2. RunShape' /\ run'.results = {}
    BY <2>1 DEF RunShape, NoRun
  <2>3. Mailing'
    BY <2>1, <2>2 DEF WatchInv, Mailing, mails, stored
  <2> QED BY <2>1, <2>2, <2>3, ElsewhereKeeps DEF stored
<1>4. CASE Commit
  BY <1>4, CommitKeeps
<1>5. CASE CommitOversize
  <2>1. OversizeAlert.kind \notin Transitions
    BY DEF OversizeAlert, Alert, Transitions
  <2> QED BY <1>5, <2>1, TellingKeeps DEF CommitOversize
<1>6. CASE TellPartial
  <2>1. PartialAlert.kind \notin Transitions
    BY DEF PartialAlert, Alert, Transitions
  <2> QED BY <1>6, <2>1, TellingKeeps DEF TellPartial
<1>7. CASE TellPartialFails \/ Crash
  <2>1. /\ UNCHANGED <<kind, stored, mailed, twice, copy>>
        /\ pc' = "idle" /\ run' = NoRun /\ lost' = lost \cup run.results
    BY <1>7 DEF TellPartialFails, Crash, Finish
  <2>2. RunShape' /\ run'.results = {}
    BY <2>1 DEF RunShape, NoRun
  <2>3. Mailing'
    BY <2>1, <2>2 DEF WatchInv, Mailing, stored
  <2> QED BY <2>1, <2>2, <2>3, ElsewhereKeeps DEF stored
<1>8. CASE Dispatch
  <2>1. /\ UNCHANGED <<kind, stored, copy, lost>> /\ pc' = "idle" /\ run' = NoRun
        /\ mailed' = mailed \cup (run.results \cap inbox)
        /\ twice' = (twice \/ run.results \cap mailed # {})
    BY <1>8 DEF Dispatch, Finish
  <2>2. RunShape' /\ run'.results = {}
    BY <2>1 DEF RunShape, NoRun
  <2>3. ~twice'
    BY <2>1 DEF WatchInv, Mailing
  <2>4. Mailing'
    BY <2>1, <2>2, <2>3 DEF WatchInv, Mailing, stored
  <2> QED BY <2>1, <2>2, <2>4, ElsewhereKeeps DEF stored
<1>9. CASE Patch
  <2>1. RunShape' /\ Mailing'
    BY <1>9 DEF Patch, WatchInv, RunShape, Mailing, mails
  <2>2. pc' = "commit" => run'.found \in Answers
    BY <1>9 DEF Patch, WatchInv
  <2> QED BY <1>9, <2>1, <2>2, ElsewhereKeeps DEF Patch
<1>10. CASE TakeBackup
  <2>1. /\ UNCHANGED <<kind, stored, pc, run, mails>> /\ copy' = Stored
    BY <1>10 DEF TakeBackup
  <2>2. Stored' = Stored /\ Together(Stored)' /\ Together(copy)'
    <3>1. Stored' = Stored /\ kind' = kind
      BY <2>1 DEF Stored, stored
    <3>2. Together(Stored)
      BY DEF WatchInv
    <3> QED BY <2>1, <3>1, <3>2 DEF Together
  <2>3. copy'.inbox \subseteq inbox' /\ copy'.snapId <= snapId'
    BY <2>1, StoredIs, StoredTogether DEF stored
  <2>4. RunShape' /\ Mailing' /\ (pc' = "commit" => run'.found \in Answers')
    BY <2>1 DEF WatchInv, RunShape, Mailing, Answers, mails, stored
  <2> QED BY <2>1, <2>2, <2>3, <2>4 DEF WatchInv
<1>11. CASE RestoreMonolith
  BY <1>11, RestoreKeeps
<1>12. CASE UNCHANGED vars
  <2>1. RunShape' /\ Mailing' /\ (pc' = "commit" => run'.found \in Answers)
    BY <1>12 DEF vars, WatchInv, RunShape, Mailing, mails, stored
  <2> QED BY <1>12, <2>1, ElsewhereKeeps DEF vars, stored
<1> QED BY <1>1, <1>2, <1>3, <1>4, <1>5, <1>6, <1>7, <1>8, <1>9, <1>10, <1>11, <1>12 DEF Next
-----------------------------------------------------------------------------
(* The theorems.                                                              *)

\* In every state a transition in the inbox is anchored on a baseline before
\* the one that stands, the alerts, the baseline and what was seen belong
\* together, here and in the backup, and each row is mailed, the run's or lost.
THEOREM WatchInvariant == Spec => []WatchInv
<1>1. Init => WatchInv
  BY WatchStarts
<1>2. WatchInv /\ [Next]_vars => WatchInv'
  BY WatchSteps
<1> QED BY <1>1, <1>2, PTL DEF Spec

\* No hearing enters the baseline of a case file without an alert or a reason
\* for silence (diffDosarSoap and the transaction of dosarSoapRunner).
THEOREM NothingUntoldHolds == Spec => []NothingUntold
<1>1. WatchInv => NothingUntold
  BY StoredTogether DEF NothingUntold
<1> QED BY <1>1, WatchInvariant, PTL

\* A row is mailed once, and not at all only with a death or a restore between
\* the commit and the mails (dispatchInsertedAlertEmails).
THEOREM MailedOnceHolds == Spec => []MailedOnce
<1>1. WatchInv => MailedOnce
  BY DEF WatchInv, Mailing, MailedOnce
<1> QED BY <1>1, WatchInvariant, PTL

\* Only a commit raises the number of the baseline by one.
LEMMA CommitsCommit ==
  ASSUME WatchInv, Next, Committed
  PROVE  Commit
<1>1. pc = "commit" /\ snapId' = snapId + 1 /\ snapId \in Nat
  BY StoredTogether DEF Committed
<1>2. snapId' # snapId
  BY <1>1
<1>3. ~(Start \/ LookupAnswers \/ FanOutAnswers \/ FetchFails \/ TellPartial
        \/ TellPartialFails \/ Dispatch)
  BY <1>1 DEF Start, LookupAnswers, FanOutAnswers, FetchFails, TellPartial,
              TellPartialFails, Dispatch
<1>4. ~(CommitOversize \/ CommitFails \/ Crash \/ Patch \/ TakeBackup)
  BY <1>2 DEF CommitOversize, CommitFails, Crash, Patch, TakeBackup, stored
<1>5. ~RestoreMonolith
  <2> SUFFICES ASSUME RestoreMonolith PROVE FALSE
    OBVIOUS
  <2>1. copy # Null /\ snapId' = copy.snapId
    BY DEF RestoreMonolith
  <2>2. copy.snapId \in Nat /\ copy.snapId <= snapId
    BY <2>1 DEF WatchInv, Together
  <2> QED BY <1>1, <2>1, <2>2
<1> QED BY <1>3, <1>4, <1>5 DEF Next

\* What is said on the number of the baseline before is new in the inbox.
LEMMA SaidAnew ==
  ASSUME WatchInv, Commit, NEW about \in Transitions, NEW subj,
         Alert(about, subj, Null, Null, snapId) \in Diff.alerts
  PROVE  Told(about, subj)
<1> DEFINE a == Alert(about, subj, Null, Null, snapId)
<1>1. a.kind = about /\ a.subj = subj /\ a.anchor = snapId
  BY DEF Alert
<1> HIDE DEF a
<1>2. a \notin inbox
  <2>1. snapId \notin 0..(snapId - 1)
    BY StoredTogether
  <2> QED BY <1>1, <2>1, StoredTogether
<1>3. a \in inbox'
  BY DEF Commit, a
<1> QED BY <1>1, <1>2, <1>3 DEF Told

LEMMA FileIsTold ==
  ASSUME WatchInv, Commit, kind = "dosar"
  PROVE  FileTold(baseline, baseline')
<1> DEFINE diff == DiffDosar(baseline, PickWatched(run.found, baseline), run.config, snapId)
<1>1. run.found \in Lookups /\ diff = Diff /\ baseline' = diff.baseline
  BY DEF WatchInv, Answers, Commit, Diff
<1>2. FileTells(baseline, diff, run.config, snapId)
  BY <1>1, FileDiff
<1> HIDE DEF diff
<1>3. {"dosar_disappeared", "dosar_new"} \subseteq Transitions
  BY DEF Transitions
<1>4. \A about \in Transitions :
        Alert(about, Null, Null, Null, snapId) \in diff.alerts => Told(about, Null)
  BY <1>1, SaidAnew
<1> QED BY <1>1, <1>2, <1>3, <1>4 DEF FileTells, FileTold

LEMMA NameIsTold ==
  ASSUME WatchInv, Commit, kind = "name", NEW d \in Dosare
  PROVE  NameTold(IF baseline = Null THEN <<>> ELSE baseline, baseline', d)
<1> DEFINE diff == DiffName(baseline, run.found, run.failed, run.config, snapId)
           old == IF baseline = Null THEN <<>> ELSE baseline
           new == diff.baseline
           before == Relevant(old, d, run.config)
           now == Relevant(new, d, run.config)
           Says(about) == Alert(about, d, Null, Null, snapId) \in diff.alerts
<1>1. /\ run.found \in NameBaselines /\ baseline \in NameBaselines \cup {Null}
      /\ diff = Diff /\ baseline' = new
  BY StoredTogether DEF WatchInv, Answers, Commit, Diff
<1>2. /\ NamesNext(old, new, run.found, run.failed)
      /\ NamesTell(old, run.found, run.failed, run.config, snapId, diff.alerts)
  BY <1>1, NamesTaken, NamesTold
<1>3. \A about \in Transitions : Says(about) => Told(about, d)
  BY <1>1, SaidAnew
<1> HIDE DEF diff, old
<1>4. d \in DOMAIN run.found => new[d] = run.found[d] /\ d \in DOMAIN new
  BY <1>2 DEF NamesNext
<1>5. d \in DOMAIN new \ DOMAIN run.found => new[d] = old[d] /\ d \in DOMAIN old
  BY <1>2 DEF NamesNext
<1>6. d \in DOMAIN old \ DOMAIN new => d \notin DOMAIN run.found /\ Home[d] \notin run.failed
  BY <1>2 DEF NamesNext
<1>7. d \in DOMAIN run.found => (now <=> Relevant(run.found, d, run.config))
  BY <1>4 DEF Relevant
<1>8. now => d \in DOMAIN new
  BY DEF Relevant
<1>9. before => d \in DOMAIN old
  BY DEF Relevant
<1>10. CASE d \in DOMAIN old /\ d \in DOMAIN new
  <2>1. CASE d \in DOMAIN run.found
    <3>1. old[d] # new[d] /\ (before \/ now) => Says("stadiu_changed")
      BY <1>2, <1>4, <1>7, <1>10, <2>1 DEF NamesTell
    <3>2. before # now => Says("dosar_relevant_now") \/ Says("dosar_no_longer_relevant")
      <4>1. ~before /\ now => Says("dosar_relevant_now")
        BY <1>2, <1>7, <1>10, <2>1 DEF NamesTell
      <4>2. before /\ ~now => Says("dosar_no_longer_relevant")
        BY <1>2, <1>7, <1>10, <2>1 DEF NamesTell
      <4>3. before \in BOOLEAN /\ now \in BOOLEAN
        BY DEF Relevant
      <4> QED BY <4>1, <4>2, <4>3
    <3> HIDE DEF before, now, Says, new
    <3>3. /\ old[d] # new[d] /\ (before \/ now) => Told("stadiu_changed", d)
          /\ before # now => Told("dosar_relevant_now", d) \/ Told("dosar_no_longer_relevant", d)
      BY <1>3, <3>1, <3>2 DEF Transitions
    <3> QED BY <1>1, <1>10, <3>3 DEF NameTold, before, now, old, new
  <2>2. CASE d \notin DOMAIN run.found
    <3>1. new[d] = old[d] /\ before = now
      BY <1>5, <1>10, <2>2 DEF Relevant
    <3> QED BY <1>1, <1>10, <3>1 DEF NameTold, old
  <2> QED BY <2>1, <2>2
<1>11. CASE ~(d \in DOMAIN old /\ d \in DOMAIN new)
  <2>1. now /\ d \notin Historic => Says("dosar_new")
    BY <1>2, <1>5, <1>7, <1>8, <1>11 DEF NamesTell
  <2>2. before /\ run.config.gone => Says("dosar_disappeared")
    BY <1>2, <1>6, <1>9, <1>11 DEF NamesTell
  <2> HIDE DEF before, now, Says, new
  <2>3. /\ now /\ d \notin Historic => Told("dosar_new", d)
        /\ before /\ run.config.gone => Told("dosar_disappeared", d)
    BY <1>3, <2>1, <2>2 DEF Transitions
  <2> QED BY <1>1, <1>11, <2>3 DEF NameTold, before, now, old, new
<1> QED BY <1>10, <1>11

\* A file that goes, comes back, changes its stadiu or crosses the filter is
\* said again each time (transitionAnchor, dedupKey of nameSoap.ts).
THEOREM TransitionsToldHolds == Spec => TransitionsTold
<1> DEFINE Tell == IF kind = "dosar" THEN FileTold(baseline, baseline')
                   ELSE \A d \in Dosare :
                          NameTold(IF baseline = Null THEN <<>> ELSE baseline, baseline', d)
<1>1. WatchInv /\ Next => (Committed => Tell)
  <2> SUFFICES ASSUME WatchInv, Next, Committed PROVE Tell
    OBVIOUS
  <2>1. Commit
    BY CommitsCommit
  <2>2. kind \in {"dosar", "name"}
    BY DEF WatchInv
  <2> QED BY <2>1, <2>2, FileIsTold, NameIsTold
<1> HIDE DEF Tell
<1>2. WatchInv /\ [Next]_vars => [Committed => Tell]_vars
  BY <1>1
<1>3. Spec => [][Committed => Tell]_vars
  BY <1>2, WatchInvariant, PTL DEF Spec
<1> QED BY <1>3 DEF TransitionsTold, Tell
TrueAlarm(a) ==
    /\ kind = "name" /\ a.kind = "dosar_disappeared" =>
           Home[a.subj] \notin run.failed /\ a.subj \notin DOMAIN run.found
    /\ kind = "name" /\ a.kind = "dosar_new" => a.subj \notin seen
    /\ kind = "dosar" /\ a.kind = "dosar_disappeared" =>
           Stadii(baseline.keys) \cap {row.stadiu : row \in Elements(run.found)} = {}

LEMMA NameAlarmsAreTrue ==
  ASSUME WatchInv, Commit, kind = "name", NEW a \in Diff.alerts
  PROVE  TrueAlarm(a)
<1> DEFINE diff == DiffName(baseline, run.found, run.failed, run.config, snapId)
           old == IF baseline = Null THEN <<>> ELSE baseline
<1>1. /\ run.found \in NameBaselines /\ baseline \in NameBaselines \cup {Null}
      /\ diff = Diff
  BY StoredTogether DEF WatchInv, Answers, Commit, Diff
<1>2. NamesTell(old, run.found, run.failed, run.config, snapId, diff.alerts)
  BY <1>1, NamesTold
<1>3. seen \subseteq DOMAIN old
  <2>1. baseline = Null => seen = {}
    BY StoredTogether
  <2>2. baseline # Null => old = baseline /\ seen \subseteq DOMAIN baseline
    BY StoredTogether
  <2> HIDE DEF old
  <2> QED BY <2>1, <2>2
<1> HIDE DEF diff, old
<1> QED BY <1>1, <1>2, <1>3 DEF NamesTell, TrueAlarm

\* The row picked has a stadiu of the baseline if any row has; the baseline
\* passed the filter, and an alert is only said under the same one.
LEMMA FileAlarmsAreTrue ==
  ASSUME WatchInv, Commit, kind = "dosar", NEW a \in Diff.alerts
  PROVE  TrueAlarm(a)
<1> DEFINE dosar == PickWatched(run.found, baseline)
           diff == DiffDosar(baseline, dosar, run.config, snapId)
           new == diff.baseline
           there == {row.stadiu : row \in Elements(run.found)}
<1>1. run.found \in Lookups /\ diff = Diff
  BY DEF WatchInv, Answers, Commit, Diff
<1>2. FileTells(baseline, diff, run.config, snapId) /\ Taken(dosar, new, run.config)
  BY <1>1, SnapshotTaken, FileDiff
<1>3. baseline # Null /\ Stadii(baseline.keys) \cap there # {} =>
        dosar # Null /\ dosar.stadiu \in Stadii(baseline.keys)
  BY <1>1, PickedIsFollowed
<1> HIDE DEF diff, dosar, there
<1>4. ASSUME a.kind = "dosar_disappeared", Stadii(baseline.keys) \cap there # {} PROVE FALSE
  <2>1. baseline # Null /\ baseline.fp = new.fp /\ ~new.present
    BY <1>1, <1>2, <1>4 DEF FileTells
  <2>2. dosar # Null /\ dosar.stadiu \in Stadii(baseline.keys)
    BY <1>3, <1>4, <2>1
  <2>3. PICK k \in Elements(baseline.keys) : dosar.stadiu = k.stadiu
    BY <2>2 DEF Stadii
  <2>4. baseline.fp = {} \/ k.stadiu \in baseline.fp
    BY <2>1, StoredTogether
  <2>5. PassesFilter(dosar.stadiu, run.config)
    BY <1>2, <2>1, <2>3, <2>4 DEF Taken, PassesFilter
  <2> QED BY <1>2, <2>1, <2>2, <2>5 DEF Taken
<1> QED BY <1>4 DEF TrueAlarm, there

LEMMA AlarmsAreTrue ==
  ASSUME WatchInv, [Next]_vars, NEW a \in inbox' \ inbox
  PROVE  TrueAlarm(a)
<1>1. CASE Commit
  <2>1. CASE a \in SeveralCourts
    <3>1. a.kind = "source_partial"
      BY <2>1 DEF SeveralCourts, Alert
    <3> QED BY <3>1 DEF TrueAlarm
  <2>2. CASE a \notin SeveralCourts
    <3>1. a \in Diff.alerts
      BY <1>1, <2>2 DEF Commit
    <3>2. kind \in {"dosar", "name"}
      BY DEF WatchInv
    <3> QED BY <1>1, <3>1, <3>2, NameAlarmsAreTrue, FileAlarmsAreTrue
  <2> QED BY <2>1, <2>2
<1>2. CASE CommitOversize \/ TellPartial
  <2>1. a.kind \in {"source_error", "source_partial"}
    BY <1>2 DEF CommitOversize, TellPartial, OversizeAlert, PartialAlert, Alert
  <2> QED BY <2>1 DEF TrueAlarm
<1>3. CASE RestoreMonolith
  BY <1>3 DEF RestoreMonolith, WatchInv
<1>4. CASE ~(Commit \/ CommitOversize \/ TellPartial \/ RestoreMonolith)
  <2>1. inbox' = inbox
    BY <1>4 DEF Next, Start, LookupAnswers, FanOutAnswers, FetchFails, CommitFails,
                TellPartialFails, Dispatch, Crash, Patch, TakeBackup, Finish, stored, vars
  <2> QED BY <2>1
<1> QED BY <1>1, <1>2, <1>3, <1>4

\* No alarm comes of an answer that did not come, of rows in another order or
\* of a restore (failedInstitutii of diffNameSoap, pickWatchedDosar).
THEOREM NoFalseAlarmHolds == Spec => NoFalseAlarm
<1> DEFINE True == \A a \in inbox' \ inbox : TrueAlarm(a)
<1>1. WatchInv /\ [Next]_vars => [True]_vars
  BY AlarmsAreTrue
<1> HIDE DEF True
<1>2. Spec => [][True]_vars
  BY <1>1, WatchInvariant, PTL DEF Spec
<1> QED BY <1>2 DEF NoFalseAlarm, True, TrueAlarm
=============================================================================
