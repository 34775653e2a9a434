------------------------------ MODULE FiniteSums ------------------------------
(***************************************************************************)
(* Sums over finite sets.  The induction they rest on is stated about      *)
(* sets: a set of subsets that holds the empty one, and each other one     *)
(* whose rest it holds, holds all of them.  That the recursive function    *)
(* of a fold exists follows from it, and what it computes too.             *)
(***************************************************************************)
EXTENDS FiniteSets, Functions, FiniteSetTheorems, TLAPS

\* A set of finite sets that is not empty has a member none of whose other
\* subsets are in it.
LEMMA MinimalSet ==
  ASSUME NEW S, IsFiniteSet(S), NEW U \in SUBSET SUBSET S, U # {}
  PROVE  \E s \in U : \A t \in U : t \subseteq s => t = s
<1>1. SUBSET S \subseteq FiniteSubsetsOf(S)
  BY FS_Subset DEF FiniteSubsetsOf
<1>2. \E s \in U : \A t \in U : <<t, s>> \notin StrictSubsetOrdering(S)
  BY <1>1, WFMin, FS_StrictSubsetOrderingWellFounded
<1> QED BY <1>2 DEF StrictSubsetOrdering

\* The element that a fold takes next.
Chosen(s) == CHOOSE x \in s : TRUE

LEMMA ChosenIsIn == \A s : s # {} => Chosen(s) \in s
BY DEF Chosen

\* What holds of the empty set, and of a set if of what is left when the next
\* element is taken, holds of every subset.
LEMMA SetInduction ==
  ASSUME NEW S, IsFiniteSet(S), NEW U \in SUBSET SUBSET S,
         {} \in U,
         \A s \in SUBSET S : s # {} /\ (s \ {Chosen(s)}) \in U => s \in U
  PROVE  U = SUBSET S
<1> DEFINE V == (SUBSET S) \ U
<1> SUFFICES ASSUME V # {} PROVE FALSE
  OBVIOUS
<1>1. PICK s \in V : \A t \in V : t \subseteq s => t = s
  <2> HIDE DEF V
  <2>1. V \in SUBSET SUBSET S
    BY DEF V
  <2> QED BY <2>1, MinimalSet
<1>2. s # {} /\ Chosen(s) \in s /\ s \in SUBSET S /\ s \notin U
  BY ChosenIsIn
<1>3. s \ {Chosen(s)} \notin V
  BY <1>1, <1>2
<1>4. s \ {Chosen(s)} \in U
  BY <1>2, <1>3
<1> QED BY <1>2, <1>4

\* A set of numbers that is not empty has a least one.
LEMMA LeastNumber ==
  ASSUME NEW V \in SUBSET Nat, V # {}
  PROVE  \E n \in V : \A m \in V : n <= m
<1>1. PICK n \in V : \A m \in V : <<m, n>> \notin OpToRel(<, Nat)
  BY WFMin, NatLessThanWellFounded
<1>2. \A m \in V : ~(m < n)
  BY <1>1 DEF OpToRel
<1> QED BY <1>2

\* Induction over the numbers, of a set of them.
LEMMA NumberInduction ==
  ASSUME NEW U \in SUBSET Nat, 0 \in U, \A n \in U : n + 1 \in U
  PROVE  U = Nat
<1> DEFINE V == Nat \ U
<1> SUFFICES ASSUME V # {} PROVE FALSE
  OBVIOUS
<1>1. PICK n \in V : \A m \in V : n <= m
  <2> HIDE DEF V
  <2>1. V \in SUBSET Nat
    BY DEF V
  <2> QED BY <2>1, LeastNumber
<1>2. \A m \in V : ~(m < n)
  BY <1>1
<1>3. n \in Nat /\ n # 0
  OBVIOUS
<1>4. n - 1 \in U
  BY <1>2, <1>3
<1>5. n - 1 + 1 = n
  BY <1>3
<1> QED BY <1>4, <1>5

\* What the fold of a sum computes over every subset on its way.
Sums(g, f, S) ==
  g = [s \in SUBSET S |-> IF s = {} THEN 0 ELSE f[Chosen(s)] + g[s \ {Chosen(s)}]]

\* The fold's recursion has a solution: one for the sets of n elements at most
\* extends to those of n + 1.
LEMMA SumsExist ==
  ASSUME NEW S, IsFiniteSet(S), NEW f \in [S -> Nat]
  PROVE  \E g : Sums(g, f, S)
<1> DEFINE Next(g, s) == IF s = {} THEN 0 ELSE f[Chosen(s)] + g[s \ {Chosen(s)}]
           Upto(g, n) == \A s \in SUBSET S : Cardinality(s) <= n => g[s] = Next(g, s)
           U == {n \in Nat : \E g \in [SUBSET S -> Nat] : Upto(g, n)}
<1>0. /\ \A s \in SUBSET S : Cardinality(s) \in Nat /\ (Cardinality(s) = 0 <=> s = {})
      /\ \A s \in SUBSET S : s # {} => /\ s \ {Chosen(s)} \in SUBSET S
                                       /\ Cardinality(s \ {Chosen(s)}) = Cardinality(s) - 1
                                       /\ f[Chosen(s)] \in Nat
  <2>1. \A s \in SUBSET S : IsFiniteSet(s)
    BY FS_Subset
  <2>2. \A s \in SUBSET S : Cardinality(s) \in Nat /\ (Cardinality(s) = 0 <=> s = {})
    BY <2>1, FS_CardinalityType, FS_EmptySet
  <2>3. \A s \in SUBSET S : s # {} => Chosen(s) \in s
    BY ChosenIsIn
  <2>4. \A s \in SUBSET S : s # {} => Cardinality(s \ {Chosen(s)}) = Cardinality(s) - 1
    BY <2>1, <2>3, FS_RemoveElement
  <2> QED BY <2>2, <2>3, <2>4
<1>1. 0 \in U
  <2> DEFINE g == [s \in SUBSET S |-> 0]
  <2>1. g \in [SUBSET S -> Nat] /\ Upto(g, 0)
    BY <1>0
  <2> QED BY <2>1
<1>2. ASSUME NEW n \in U PROVE n + 1 \in U
  <2>1. PICK g \in [SUBSET S -> Nat] : Upto(g, n)
    OBVIOUS
  <2> DEFINE h == [s \in SUBSET S |-> IF Cardinality(s) <= n THEN g[s] ELSE Next(g, s)]
  <2>2. h \in [SUBSET S -> Nat]
    BY <1>0
  <2>3. ASSUME NEW s \in SUBSET S, Cardinality(s) <= n + 1 PROVE h[s] = Next(h, s)
    <3>1. s # {} => h[s \ {Chosen(s)}] = g[s \ {Chosen(s)}]
      BY <1>0, <2>3
    <3>2. h[s] = Next(g, s)
      BY <2>1
    <3> QED BY <3>1, <3>2
  <2>4. Upto(h, n + 1)
    BY <2>3
  <2> HIDE DEF h, Upto
  <2> QED BY <2>2, <2>4
<1>3. U = Nat
  <2> HIDE DEF U
  <2>1. U \in SUBSET Nat
    BY DEF U
  <2> QED BY <1>1, <1>2, <2>1, NumberInduction
<1>4. Cardinality(S) \in Nat /\ \A s \in SUBSET S : Cardinality(s) <= Cardinality(S)
  BY FS_Subset, FS_CardinalityType
<1>5. PICK g \in [SUBSET S -> Nat] : Upto(g, Cardinality(S))
  BY <1>3, <1>4
<1>6. \A s \in SUBSET S : g[s] = Next(g, s)
  BY <1>4, <1>5
<1> QED BY <1>6 DEF Sums

LEMMA SumsUnfold ==
  ASSUME NEW S, NEW f, NEW g, Sums(g, f, S)
  PROVE  /\ g[{}] = 0
         /\ \A s \in SUBSET S : s # {} => g[s] = f[Chosen(s)] + g[s \ {Chosen(s)}]
<1> DEFINE h == [s \in SUBSET S |-> IF s = {} THEN 0 ELSE f[Chosen(s)] + g[s \ {Chosen(s)}]]
<1>1. g = h
  BY DEF Sums
<1>2. h[{}] = 0 /\ \A s \in SUBSET S : s # {} => h[s] = f[Chosen(s)] + g[s \ {Chosen(s)}]
  OBVIOUS
<1> HIDE DEF h
<1> QED BY <1>1, <1>2

LEMMA SumsTyped ==
  ASSUME NEW S, IsFiniteSet(S), NEW f \in [S -> Nat], NEW g, Sums(g, f, S)
  PROVE  \A s \in SUBSET S : g[s] \in Nat
<1> DEFINE U == {s \in SUBSET S : g[s] \in Nat}
<1>1. {} \in U
  BY SumsUnfold
<1>2. ASSUME NEW s \in SUBSET S, s # {}, s \ {Chosen(s)} \in U PROVE s \in U
  <2>1. f[Chosen(s)] \in Nat
    BY <1>2, ChosenIsIn
  <2>2. g[s \ {Chosen(s)}] \in Nat /\ g[s] = f[Chosen(s)] + g[s \ {Chosen(s)}]
    BY <1>2, SumsUnfold
  <2> QED BY <2>1, <2>2
<1>3. U = SUBSET S
  <2> HIDE DEF U
  <2>1. U \in SUBSET SUBSET S
    BY DEF U
  <2> QED BY <1>1, <1>2, <2>1, SetInduction
<1> QED BY <1>3

\* SumFunction is a solution's value for the whole set.
LEMMA SumIsFold ==
  ASSUME NEW S, IsFiniteSet(S), NEW f \in [S -> Nat]
  PROVE  \E g : Sums(g, f, S) /\ SumFunction(f) = g[S]
<1> DEFINE iter == CHOOSE g : Sums(g, f, S)
<1>1. Sums(iter, f, S)
  BY SumsExist
<1>2. DOMAIN f = S
  OBVIOUS
<1>3. SumFunction(f) = iter[S]
  BY <1>2 DEF SumFunction, SumFunctionOnSet, FoldFunctionOnSet, MapThenFoldSet, Sums, Chosen
<1> QED BY <1>1, <1>3

\* A sum of numbers is a number; and if no term but one is greater than that of
\* another sum, and that one by n at most, the sum is greater by n at most.
LEMMA SumBound ==
  ASSUME NEW S, IsFiniteSet(S), NEW f \in [S -> Nat], NEW h \in [S -> Nat],
         NEW x \in S, NEW n \in Nat, f[x] <= h[x] + n,
         \A y \in S \ {x} : f[y] <= h[y]
  PROVE  /\ SumFunction(f) \in Nat /\ SumFunction(h) \in Nat
         /\ SumFunction(f) <= SumFunction(h) + n
<1>1. PICK F : Sums(F, f, S) /\ SumFunction(f) = F[S]
  BY SumIsFold
<1>2. PICK H : Sums(H, h, S) /\ SumFunction(h) = H[S]
  BY SumIsFold
<1>3. \A s \in SUBSET S : F[s] \in Nat /\ H[s] \in Nat
  BY <1>1, <1>2, SumsTyped
<1> DEFINE U == {s \in SUBSET S : F[s] <= H[s] + (IF x \in s THEN n ELSE 0)}
<1>4. {} \in U
  BY <1>1, <1>2, SumsUnfold
<1>5. ASSUME NEW s \in SUBSET S, s # {}, s \ {Chosen(s)} \in U PROVE s \in U
  <2> DEFINE c == Chosen(s)
             r == s \ {c}
  <2>1. c \in s /\ c \in S /\ c \notin r
    BY <1>5, ChosenIsIn
  <2>2. F[s] = f[c] + F[r] /\ H[s] = h[c] + H[r]
    BY <1>1, <1>2, <1>5, SumsUnfold
  <2>3. F[r] \in Nat /\ H[r] \in Nat /\ f[c] \in Nat /\ h[c] \in Nat
    BY <1>3, <2>1
  <2>4. F[r] <= H[r] + (IF x \in r THEN n ELSE 0)
    BY <1>5
  <2>5. x \in s <=> x \in r \/ x = c
    BY <2>1
  <2> HIDE DEF c, r
  <2>6. CASE x = c
    BY <2>1, <2>2, <2>3, <2>4, <2>5, <2>6
  <2>7. CASE x # c
    <3>1. f[c] <= h[c]
      BY <2>1, <2>7
    <3>2. F[s] <= H[s] + (IF x \in s THEN n ELSE 0)
      BY <2>2, <2>3, <2>4, <2>5, <2>7, <3>1
    <3> QED BY <3>2
  <2> QED BY <2>6, <2>7
<1>6. U = SUBSET S
  <2> HIDE DEF U
  <2>1. U \in SUBSET SUBSET S
    BY DEF U
  <2> QED BY <1>4, <1>5, <2>1, SetInduction
<1>7. F[S] <= H[S] + (IF x \in S THEN n ELSE 0)
  BY <1>6
<1> QED BY <1>1, <1>2, <1>3, <1>7

\* Sums of numbers are numbers, and grow with their terms.
LEMMA SumMono ==
  ASSUME NEW S, IsFiniteSet(S), NEW f \in [S -> Nat], NEW h \in [S -> Nat],
         \A y \in S : f[y] <= h[y]
  PROVE  /\ SumFunction(f) \in Nat /\ SumFunction(h) \in Nat
         /\ SumFunction(f) <= SumFunction(h)
<1>1. CASE S = {}
  <2>1. PICK F : Sums(F, f, S) /\ SumFunction(f) = F[S]
    BY SumIsFold
  <2>2. PICK H : Sums(H, h, S) /\ SumFunction(h) = H[S]
    BY SumIsFold
  <2> QED BY <1>1, <2>1, <2>2, SumsUnfold
<1>2. CASE S # {}
  <2>1. PICK x \in S : TRUE
    BY <1>2
  <2>2. \A y \in S : f[y] \in Nat /\ h[y] \in Nat
    OBVIOUS
  <2>3. f[x] <= h[x] + 0
    BY <2>2
  <2>4. /\ SumFunction(f) \in Nat /\ SumFunction(h) \in Nat
        /\ SumFunction(f) <= SumFunction(h) + 0
    BY <2>3, SumBound
  <2> QED BY <2>4
<1> QED BY <1>1, <1>2

\* A sum of nothing but zeros is zero.
LEMMA SumOfZeros ==
  ASSUME NEW S, IsFiniteSet(S), NEW f \in [S -> Nat], \A x \in S : f[x] = 0
  PROVE  SumFunction(f) = 0
<1>1. PICK F : Sums(F, f, S) /\ SumFunction(f) = F[S]
  BY SumIsFold
<1> DEFINE U == {s \in SUBSET S : F[s] = 0}
<1>2. {} \in U
  BY <1>1, SumsUnfold
<1>3. ASSUME NEW s \in SUBSET S, s # {}, s \ {Chosen(s)} \in U PROVE s \in U
  <2>1. f[Chosen(s)] = 0
    BY <1>3, ChosenIsIn
  <2>2. F[s] = f[Chosen(s)] + F[s \ {Chosen(s)}]
    BY <1>1, <1>3, SumsUnfold
  <2> QED BY <1>3, <2>1, <2>2
<1>4. U = SUBSET S
  <2> HIDE DEF U
  <2>1. U \in SUBSET SUBSET S
    BY DEF U
  <2> QED BY <1>2, <1>3, <2>1, SetInduction
<1> QED BY <1>1, <1>4

LEMMA SumTyped ==
  ASSUME NEW S, IsFiniteSet(S), NEW f \in [S -> Nat]
  PROVE  SumFunction(f) \in Nat
BY SumIsFold, SumsTyped

\* The terms can be taken in any order.
LEMMA SumsTakeAny ==
  ASSUME NEW S, IsFiniteSet(S), NEW f \in [S -> Nat], NEW g, Sums(g, f, S)
  PROVE  \A s \in SUBSET S : \A x \in s : g[s] = f[x] + g[s \ {x}]
<1> DEFINE Any(s) == \A x \in s : g[s] = f[x] + g[s \ {x}]
           U == {n \in Nat : \A s \in SUBSET S : Cardinality(s) <= n => Any(s)}
<1>0. \A s \in SUBSET S : /\ IsFiniteSet(s) /\ Cardinality(s) \in Nat /\ g[s] \in Nat
                          /\ Cardinality(s) = 0 <=> s = {}
                          /\ \A x \in s : Cardinality(s \ {x}) = Cardinality(s) - 1
  <2>1. \A s \in SUBSET S : IsFiniteSet(s)
    BY FS_Subset
  <2> QED BY <2>1, SumsTyped, FS_CardinalityType, FS_EmptySet, FS_RemoveElement
<1>1. 0 \in U
  BY <1>0
<1>5. \A s \in SUBSET S : s # {} => Chosen(s) \in s /\ g[s] = f[Chosen(s)] + g[s \ {Chosen(s)}]
  <2> HIDE DEF U, Any
  <2>1. ASSUME NEW s \in SUBSET S, s # {} PROVE g[s] = f[Chosen(s)] + g[s \ {Chosen(s)}]
    <3>1. f[Chosen(s)] \in Nat /\ g[s \ {Chosen(s)}] \in Nat
      BY <1>0, <2>1, ChosenIsIn
    <3> QED BY <2>1, <3>1, SumsUnfold
  <2> QED BY <2>1, ChosenIsIn
<1>2. ASSUME NEW n \in U PROVE n + 1 \in U
  <2>1. ASSUME NEW s \in SUBSET S, Cardinality(s) <= n + 1, NEW x \in s
        PROVE  g[s] = f[x] + g[s \ {x}]
    <3> DEFINE c == Chosen(s)
    <3>1. c \in s /\ g[s] = f[c] + g[s \ {c}]
      BY <1>5, <2>1
    <3>2. CASE x = c
      BY <3>1, <3>2
    <3>3. CASE x # c
      <4> HIDE DEF c
      <4>1. Cardinality(s \ {c}) <= n /\ Cardinality(s \ {x}) <= n
        BY <1>0, <2>1, <3>1
      <4>2. g[s \ {c}] = f[x] + g[(s \ {c}) \ {x}]
        BY <2>1, <3>3, <4>1
      <4>3. g[s \ {x}] = f[c] + g[(s \ {x}) \ {c}]
        BY <3>1, <3>3, <4>1
      <4>4. (s \ {c}) \ {x} = (s \ {x}) \ {c}
        OBVIOUS
      <4> DEFINE rest == g[(s \ {x}) \ {c}]
      <4>5. f[x] \in Nat /\ f[c] \in Nat /\ rest \in Nat
        BY <1>0, <2>1, <3>1
      <4>6. g[s] = f[c] + (f[x] + rest) /\ g[s \ {x}] = f[c] + rest
        BY <3>1, <4>2, <4>3, <4>4
      <4> HIDE DEF rest
      <4> QED BY <4>5, <4>6
    <3> QED BY <3>2, <3>3
  <2> QED BY <2>1
<1>3. U = Nat
  <2> HIDE DEF U
  <2>1. U \in SUBSET Nat
    BY DEF U
  <2> QED BY <1>1, <1>2, <2>1, NumberInduction
<1>4. ASSUME NEW s \in SUBSET S PROVE Any(s)
  BY <1>0, <1>3
<1> QED BY <1>4

\* One more term adds to the sum.
LEMMA SumAdds ==
  ASSUME NEW S, IsFiniteSet(S), NEW h \in [S -> Nat], NEW x, x \notin S,
         NEW f \in [S \cup {x} -> Nat], \A y \in S : f[y] = h[y]
  PROVE  SumFunction(f) = SumFunction(h) + f[x]
<1> DEFINE T == S \cup {x}
<1>0. IsFiniteSet(T) /\ S \in SUBSET T /\ T \in SUBSET T /\ T \ {x} = S
      /\ f \in [T -> Nat]
  BY FS_AddElement
<1>1. PICK F : Sums(F, f, T) /\ SumFunction(f) = F[T]
  BY <1>0, SumIsFold
<1>2. PICK H : Sums(H, h, S) /\ SumFunction(h) = H[S]
  BY SumIsFold
<1>3. F[T] = f[x] + F[S]
  <2> HIDE DEF T
  <2>1. x \in T
    BY DEF T
  <2>2. F[T] = f[x] + F[T \ {x}]
    BY <1>0, <1>1, <2>1, SumsTakeAny
  <2> QED BY <1>0, <2>2
<1> DEFINE U == {s \in SUBSET S : F[s] = H[s]}
<1>4. {} \in U
  BY <1>0, <1>1, <1>2, SumsUnfold
<1>5. ASSUME NEW s \in SUBSET S, s # {}, s \ {Chosen(s)} \in U PROVE s \in U
  <2>1. Chosen(s) \in s /\ f[Chosen(s)] = h[Chosen(s)]
    BY <1>5, ChosenIsIn
  <2>2. F[s] = f[Chosen(s)] + F[s \ {Chosen(s)}]
    <3> HIDE DEF U, T
    <3>1. s \in SUBSET T
      BY <1>0
    <3> QED BY <1>1, <1>5, <3>1, SumsUnfold
  <2>3. H[s] = h[Chosen(s)] + H[s \ {Chosen(s)}]
    <3> HIDE DEF U
    <3> QED BY <1>2, <1>5, SumsUnfold
  <2> QED BY <1>5, <2>1, <2>2, <2>3
<1>6. U = SUBSET S
  <2> HIDE DEF U
  <2>1. U \in SUBSET SUBSET S
    BY DEF U
  <2> QED BY <1>4, <1>5, <2>1, SetInduction
<1>7. F[S] = H[S] /\ H[S] \in Nat /\ f[x] \in Nat
  BY <1>2, <1>6, SumsTyped
<1> QED BY <1>1, <1>2, <1>3, <1>7

\* And terms that are zero do not.
LEMMA SumKeeps ==
  ASSUME NEW T, IsFiniteSet(T), NEW S \in SUBSET T,
         NEW f \in [T -> Nat], NEW h \in [S -> Nat],
         \A y \in S : f[y] = h[y], \A y \in T \ S : f[y] = 0
  PROVE  SumFunction(f) = SumFunction(h)
<1>0. IsFiniteSet(S) /\ IsFiniteSet(T \ S)
  BY FS_Subset
<1>1. PICK F : Sums(F, f, T) /\ SumFunction(f) = F[T]
  BY SumIsFold
<1> DEFINE part(s) == [y \in S \cup s |-> f[y]]
           U == {s \in SUBSET (T \ S) : SumFunction(part(s)) = SumFunction(h)}
<1>2. {} \in U
  <2>1. part({}) = h
    OBVIOUS
  <2> QED BY <2>1
<1>3. ASSUME NEW s \in SUBSET (T \ S), s # {}, s \ {Chosen(s)} \in U PROVE s \in U
  <2> DEFINE c == Chosen(s)
             r == S \cup (s \ {c})
  <2>1. c \in s
    BY <1>3, ChosenIsIn
  <2>2. f[c] = 0 /\ c \notin r /\ r \cup {c} = S \cup s /\ r \in SUBSET T
    BY <2>1
  <2>3. IsFiniteSet(r)
    BY <2>2, FS_Subset
  <2>4. PICK p : p = part(s)
    OBVIOUS
  <2>5. PICK q : q = part(s \ {c})
    OBVIOUS
  <2>6. p \in [r \cup {c} -> Nat]
    BY <2>1, <2>2, <2>4
  <2>7. q \in [r -> Nat]
    BY <2>2, <2>5
  <2>8. \A y \in r : p[y] = q[y]
    BY <2>1, <2>2, <2>4, <2>5
  <2>9. p[c] = 0
    BY <2>1, <2>2, <2>4
  <2>10. SumFunction(q) = SumFunction(h)
    BY <1>3, <2>5
  <2> HIDE DEF c, r, part
  <2>11. SumFunction(q) \in Nat
    BY <2>3, <2>7, SumTyped
  <2>12. SumFunction(p) = SumFunction(q) + p[c]
    BY <2>2, <2>3, <2>6, <2>7, <2>8, <2>9, <2>11, SumAdds
  <2> QED BY <2>4, <2>9, <2>10, <2>11, <2>12
<1>4. U = SUBSET (T \ S)
  <2> HIDE DEF U
  <2>1. U \in SUBSET SUBSET (T \ S)
    BY DEF U
  <2> QED BY <1>0, <1>2, <1>3, <2>1, SetInduction
<1>5. part(T \ S) = f
  OBVIOUS
<1>6. T \ S \in U
  BY <1>4
<1> QED BY <1>5, <1>6
=============================================================================
