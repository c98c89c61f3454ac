------------------------------ MODULE SumFacts ------------------------------
(***************************************************************************)
(* Sums of integers over finite sets.  SumFunctionOnSet is defined by      *)
(* recursion over subsets; the library's induction theorems cannot be      *)
(* instantiated here, so induction is done with the least counterexample,  *)
(* from the theorem that < is well founded on Nat.                         *)
(***************************************************************************)
EXTENDS FiniteSetsExt, FiniteSetTheorems, TLAPS

\* Division with remainder.
LEMMA DivisionRule ==
  ASSUME NEW t \in Nat, NEW n \in Nat \ {0}
  PROVE  t \div n \in Nat /\ t % n \in Nat /\ n * (t \div n) + (t % n) = t
<1>1. t \div n \in Nat
  OBVIOUS
<1>2. t % n \in 0 .. (n - 1)
  OBVIOUS
<1>3. n * (t \div n) + (t % n) = t
  OBVIOUS
<1> QED BY <1>1, <1>2, <1>3

\* Every nonempty set of naturals has a least element.
LEMMA LeastNumber ==
  ASSUME NEW T, T \subseteq Nat, T # {}
  PROVE  \E n \in T : \A m \in T : n <= m
<1>1. PICK n \in T : \A m \in T : ~(<<m, n>> \in OpToRel(<, Nat))
  BY NatLessThanWellFounded, WFMin
<1>2. \A m \in T : ~(m < n)
  BY <1>1 DEF OpToRel
<1> QED BY <1>2

\* Induction for sets of naturals.
LEMMA SetInduction ==
  ASSUME NEW T, 0 \in T, \A n \in Nat : n \in T => n + 1 \in T
  PROVE  Nat \subseteq T
<1> SUFFICES ASSUME Nat \ T # {} PROVE FALSE
  OBVIOUS
<1>1. PICK n \in Nat \ T : \A m \in Nat \ T : n <= m
  BY LeastNumber
<1>2. n # 0 /\ n - 1 \in Nat
  BY <1>1
<1>3. n - 1 \in T
  BY <1>1, <1>2
<1> QED BY <1>2, <1>3

\* The subsets of a finite set, by size.
LEMMA SubsetSizes ==
  ASSUME NEW S, IsFiniteSet(S), NEW s \in SUBSET S
  PROVE  /\ IsFiniteSet(s) /\ Cardinality(s) \in Nat
         /\ Cardinality(s) = 0 <=> s = {}
         /\ \A x \in s : s \ {x} \in SUBSET S /\ Cardinality(s \ {x}) = Cardinality(s) - 1
<1>1. IsFiniteSet(s)
  BY FS_Subset
<1>2. Cardinality(s) \in Nat
  BY <1>1, FS_CardinalityType
<1>3. Cardinality(s) = 0 <=> s = {}
  BY <1>1, FS_EmptySet
<1>4. \A x \in s : Cardinality(s \ {x}) = Cardinality(s) - 1
  BY <1>1, FS_RemoveElement
<1> QED BY <1>1, <1>2, <1>3, <1>4

\* The equation that defines the partial sums of f over the subsets of S.
FirstOf(s) == CHOOSE x \in s : TRUE
IsSum(f, g, S) ==
  g = [s \in SUBSET S |-> IF s = {} THEN 0 ELSE f[FirstOf(s)] + g[s \ {FirstOf(s)}]]

\* The sum over S is the last of the partial sums, the one at S itself.
LEMMA SumUnfold ==
  ASSUME NEW f, NEW S
  PROVE  SumFunctionOnSet(f, S) = (CHOOSE g : IsSum(f, g, S))[S]
BY DEF SumFunctionOnSet, FoldFunctionOnSet, MapThenFoldSet, IsSum, FirstOf

\* The partial sums exist, one size of subset after the other.
LEMMA SumExists ==
  ASSUME NEW f, NEW S, IsFiniteSet(S)
  PROVE  \E g : IsSum(f, g, S)
<1> DEFINE Small(n) == {s \in SUBSET S : Cardinality(s) <= n}
           Partial(g, n) == g = [s \in Small(n) |->
                                   IF s = {} THEN 0 ELSE f[FirstOf(s)] + g[s \ {FirstOf(s)}]]
           T == {n \in Nat : \E g : Partial(g, n)}
<1>1. \A s \in SUBSET S : /\ IsFiniteSet(s) /\ Cardinality(s) \in Nat
                          /\ Cardinality(s) = 0 <=> s = {}
  BY SubsetSizes
<1>2. ASSUME NEW s \in SUBSET S, s # {}
      PROVE  /\ FirstOf(s) \in s /\ s \ {FirstOf(s)} \in SUBSET S
             /\ Cardinality(s \ {FirstOf(s)}) = Cardinality(s) - 1
  BY <1>2, SubsetSizes DEF FirstOf
<1>3. 0 \in T
  <2>1. Partial([s \in Small(0) |-> 0], 0)
    BY <1>1
  <2> QED BY <2>1
<1>4. ASSUME NEW n \in Nat, n \in T PROVE n + 1 \in T
  <2>1. PICK g : Partial(g, n)
    BY <1>4
  <2> DEFINE h == [s \in Small(n + 1) |-> IF s = {} THEN 0 ELSE f[FirstOf(s)] + g[s \ {FirstOf(s)}]]
  <2>2. ASSUME NEW s \in Small(n) PROVE s \in Small(n + 1) /\ h[s] = g[s]
    <3>1. s \in Small(n + 1)
      BY <1>1
    <3>2. g[s] = IF s = {} THEN 0 ELSE f[FirstOf(s)] + g[s \ {FirstOf(s)}]
      BY <2>1
    <3>3. h[s] = IF s = {} THEN 0 ELSE f[FirstOf(s)] + g[s \ {FirstOf(s)}]
      BY <3>1
    <3> QED BY <3>1, <3>2, <3>3
  <2>3. \A s \in Small(n + 1) : s # {} => s \ {FirstOf(s)} \in Small(n)
    BY <1>1, <1>2
  <2>4. \A s \in Small(n + 1) : s # {} => h[s \ {FirstOf(s)}] = g[s \ {FirstOf(s)}]
    BY <2>2, <2>3
  <2>5. Partial(h, n + 1)
    BY <2>4
  <2>6. \E k : Partial(k, n + 1)
    <3> HIDE DEF h, Partial
    <3> QED BY <2>5
  <2>7. n + 1 \in Nat
    OBVIOUS
  <2> HIDE DEF Partial
  <2> QED BY <2>6, <2>7
<1>5. Cardinality(S) \in T
  <2> HIDE DEF T
  <2>1. Nat \subseteq T
    BY <1>3, <1>4, SetInduction
  <2> QED BY <2>1, <1>1
<1>6. PICK g : Partial(g, Cardinality(S))
  BY <1>5
<1>7. Small(Cardinality(S)) = SUBSET S
  BY FS_Subset, <1>1
<1> QED BY <1>6, <1>7 DEF IsSum

\* Two functions that satisfy the equations agree where both are defined.
LEMMA SumUnique ==
  ASSUME NEW f, NEW S, IsFiniteSet(S), NEW R \in SUBSET S, NEW g, NEW h,
         IsSum(f, g, S), IsSum(f, h, R)
  PROVE  \A s \in SUBSET R : g[s] = h[s]
<1> DEFINE T == {n \in Nat : \A s \in SUBSET R : Cardinality(s) = n => g[s] = h[s]}
<1>1. \A s \in SUBSET R : /\ s \in SUBSET S /\ IsFiniteSet(s) /\ Cardinality(s) \in Nat
                          /\ Cardinality(s) = 0 <=> s = {}
  BY SubsetSizes
<1>2. \A s \in SUBSET R :
        /\ g[s] = IF s = {} THEN 0 ELSE f[FirstOf(s)] + g[s \ {FirstOf(s)}]
        /\ h[s] = IF s = {} THEN 0 ELSE f[FirstOf(s)] + h[s \ {FirstOf(s)}]
  BY <1>1 DEF IsSum
<1>3. 0 \in T
  BY <1>1, <1>2
<1>4. ASSUME NEW n \in Nat, n \in T PROVE n + 1 \in T
  <2> SUFFICES ASSUME NEW s \in SUBSET R, Cardinality(s) = n + 1 PROVE g[s] = h[s]
    OBVIOUS
  <2>1. s # {} /\ FirstOf(s) \in s
    BY <1>1 DEF FirstOf
  <2>2. s \ {FirstOf(s)} \in SUBSET R /\ Cardinality(s \ {FirstOf(s)}) = n
    BY <2>1, SubsetSizes
  <2>3. g[s \ {FirstOf(s)}] = h[s \ {FirstOf(s)}]
    BY <2>2, <1>4
  <2> QED BY <2>1, <2>3, <1>2
<1>5. Nat \subseteq T
  <2> HIDE DEF T
  <2> QED BY <1>3, <1>4, SetInduction
<1> QED BY <1>1, <1>5

\* The sum satisfies the equation it is defined by.
LEMMA SumRecursive ==
  ASSUME NEW f, NEW S, IsFiniteSet(S)
  PROVE  SumFunctionOnSet(f, S) =
           IF S = {} THEN 0 ELSE f[FirstOf(S)] + SumFunctionOnSet(f, S \ {FirstOf(S)})
<1> DEFINE g == CHOOSE k : IsSum(f, k, S)
           R == S \ {FirstOf(S)}
           h == CHOOSE k : IsSum(f, k, R)
<1>1. R \in SUBSET S /\ IsFiniteSet(R)
  BY FS_Subset
<1>2. IsSum(f, g, S) /\ IsSum(f, h, R)
  BY <1>1, SumExists
<1>3. SumFunctionOnSet(f, S) = g[S] /\ SumFunctionOnSet(f, R) = h[R]
  BY SumUnfold
<1> HIDE DEF g, h
<1>4. g[R] = h[R]
  BY <1>1, <1>2, SumUnique
<1>5. g[S] = IF S = {} THEN 0 ELSE f[FirstOf(S)] + g[S \ {FirstOf(S)}]
  BY <1>2 DEF IsSum
<1> QED BY <1>3, <1>4, <1>5

\* A sum of integers is an integer.
LEMMA SumType ==
  ASSUME NEW f, NEW S, IsFiniteSet(S), \A x \in S : f[x] \in Int
  PROVE  SumFunctionOnSet(f, S) \in Int
<1> DEFINE T == {n \in Nat : \A s \in SUBSET S : Cardinality(s) = n => SumFunctionOnSet(f, s) \in Int}
<1>1. \A s \in SUBSET S : /\ IsFiniteSet(s) /\ Cardinality(s) \in Nat
                          /\ Cardinality(s) = 0 <=> s = {}
  BY SubsetSizes
<1>2. 0 \in T
  <2>1. SumFunctionOnSet(f, {}) = 0
    BY SumRecursive, FS_EmptySet
  <2> QED BY <1>1, <2>1
<1>3. ASSUME NEW n \in Nat, n \in T PROVE n + 1 \in T
  <2> SUFFICES ASSUME NEW s \in SUBSET S, Cardinality(s) = n + 1 PROVE SumFunctionOnSet(f, s) \in Int
    OBVIOUS
  <2>1. s # {} /\ FirstOf(s) \in s
    BY <1>1 DEF FirstOf
  <2>2. s \ {FirstOf(s)} \in SUBSET S /\ Cardinality(s \ {FirstOf(s)}) = n
    BY <2>1, SubsetSizes
  <2>3. SumFunctionOnSet(f, s) = f[FirstOf(s)] + SumFunctionOnSet(f, s \ {FirstOf(s)})
    BY <2>1, <1>1, SumRecursive
  <2> QED BY <2>1, <2>2, <2>3, <1>3
<1>4. Nat \subseteq T
  <2> HIDE DEF T
  <2> QED BY <1>2, <1>3, SetInduction
<1> QED BY <1>1, <1>4

\* Nothing sums to 0.
LEMMA SumEmpty == ASSUME NEW f PROVE SumFunctionOnSet(f, {}) = 0
BY SumRecursive, FS_EmptySet

\* Any element may be the one that is taken out first.
LEMMA SumRemove ==
  ASSUME NEW f, NEW S, IsFiniteSet(S), \A x \in S : f[x] \in Int, NEW e \in S
  PROVE  SumFunctionOnSet(f, S) = f[e] + SumFunctionOnSet(f, S \ {e})
<1> DEFINE Good(s) == \A x \in s : SumFunctionOnSet(f, s) = f[x] + SumFunctionOnSet(f, s \ {x})
           T == {n \in Nat : \A s \in SUBSET S : Cardinality(s) = n => Good(s)}
<1>1. \A s \in SUBSET S : /\ IsFiniteSet(s) /\ Cardinality(s) \in Nat
                          /\ Cardinality(s) = 0 <=> s = {}
                          /\ SumFunctionOnSet(f, s) \in Int
  <2> TAKE s \in SUBSET S
  <2>1. IsFiniteSet(s)
    BY FS_Subset
  <2>2. SumFunctionOnSet(f, s) \in Int
    BY <2>1, SumType
  <2> QED BY <2>1, <2>2, SubsetSizes
<1>2. 0 \in T
  BY <1>1
<1>3. ASSUME NEW n \in Nat, n \in T PROVE n + 1 \in T
  <2> SUFFICES ASSUME NEW s \in SUBSET S, Cardinality(s) = n + 1, NEW x \in s
               PROVE  SumFunctionOnSet(f, s) = f[x] + SumFunctionOnSet(f, s \ {x})
    OBVIOUS
  <2> DEFINE c == FirstOf(s)
  <2>1. s # {} /\ c \in s
    BY DEF FirstOf
  <2>2. SumFunctionOnSet(f, s) = f[c] + SumFunctionOnSet(f, s \ {c})
    BY <2>1, <1>1, SumRecursive
  <2>3. CASE x = c
    BY <2>2, <2>3
  <2>4. CASE x # c
    <3> DEFINE r == (s \ {x}) \ {c}
    <3> HIDE DEF c
    <3>1. \A y \in s : s \ {y} \in SUBSET S /\ Cardinality(s \ {y}) = n
      BY SubsetSizes
    <3>2. Good(s \ {c}) /\ Good(s \ {x})
      BY <3>1, <2>1, <1>3
    <3>3. (s \ {c}) \ {x} = r /\ r \in SUBSET S
      OBVIOUS
    <3>4. SumFunctionOnSet(f, s \ {c}) = f[x] + SumFunctionOnSet(f, r)
      BY <3>2, <3>3, <2>4
    <3>5. SumFunctionOnSet(f, s \ {x}) = f[c] + SumFunctionOnSet(f, r)
      BY <3>2, <2>1, <2>4
    <3>6. f[c] \in Int /\ f[x] \in Int /\ SumFunctionOnSet(f, r) \in Int
      BY <2>1, <3>3, <1>1
    <3> HIDE DEF r
    <3> QED BY <2>2, <3>4, <3>5, <3>6
  <2> QED BY <2>3, <2>4
<1>4. Nat \subseteq T
  <2> HIDE DEF T
  <2> QED BY <1>2, <1>3, SetInduction
<1>5. Good(S)
  BY <1>1, <1>4
<1> QED BY <1>5

\* One element more.
LEMMA SumAdd ==
  ASSUME NEW f, NEW S, IsFiniteSet(S), NEW e, e \notin S, \A x \in S \cup {e} : f[x] \in Int
  PROVE  SumFunctionOnSet(f, S \cup {e}) = SumFunctionOnSet(f, S) + f[e]
<1>1. IsFiniteSet(S \cup {e}) /\ (S \cup {e}) \ {e} = S
  BY FS_AddElement
<1>2. SumFunctionOnSet(f, S \cup {e}) = f[e] + SumFunctionOnSet(f, S)
  BY <1>1, SumRemove
<1>3. SumFunctionOnSet(f, S) \in Int /\ f[e] \in Int
  BY SumType
<1> QED BY <1>2, <1>3

\* Smaller summands make no larger a sum.
LEMMA SumMonotone ==
  ASSUME NEW f, NEW g, NEW S, IsFiniteSet(S),
         \A x \in S : f[x] \in Int /\ g[x] \in Int /\ f[x] <= g[x]
  PROVE  SumFunctionOnSet(f, S) <= SumFunctionOnSet(g, S)
<1> DEFINE Good(s) == SumFunctionOnSet(f, s) <= SumFunctionOnSet(g, s)
           T == {n \in Nat : \A s \in SUBSET S : Cardinality(s) = n => Good(s)}
<1>1. \A s \in SUBSET S : /\ IsFiniteSet(s) /\ Cardinality(s) \in Nat
                          /\ Cardinality(s) = 0 <=> s = {}
  BY SubsetSizes
<1>2. 0 \in T
  BY <1>1, SumEmpty
<1>3. ASSUME NEW n \in Nat, n \in T PROVE n + 1 \in T
  <2> SUFFICES ASSUME NEW s \in SUBSET S, Cardinality(s) = n + 1 PROVE Good(s)
    OBVIOUS
  <2>1. PICK x \in s : TRUE
    BY <1>1
  <2> DEFINE r == s \ {x}
  <2>2. r \in SUBSET S /\ Cardinality(r) = n
    BY SubsetSizes
  <2>3. /\ SumFunctionOnSet(f, s) = f[x] + SumFunctionOnSet(f, r)
        /\ SumFunctionOnSet(g, s) = g[x] + SumFunctionOnSet(g, r)
    BY <1>1, SumRemove
  <2>4. SumFunctionOnSet(f, r) \in Int /\ SumFunctionOnSet(g, r) \in Int
    BY <2>2, <1>1, SumType
  <2> HIDE DEF r
  <2>5. Good(r)
    BY <2>2, <1>3
  <2>6. f[x] \in Int /\ g[x] \in Int /\ f[x] <= g[x]
    OBVIOUS
  <2> QED BY <2>3, <2>4, <2>5, <2>6
<1>4. Nat \subseteq T
  <2> HIDE DEF T
  <2> QED BY <1>2, <1>3, SetInduction
<1> QED BY <1>1, <1>4

\* Equal summands make equal sums.
LEMMA SumSame ==
  ASSUME NEW f, NEW g, NEW S, IsFiniteSet(S), \A x \in S : f[x] \in Int /\ f[x] = g[x]
  PROVE  SumFunctionOnSet(f, S) = SumFunctionOnSet(g, S)
<1>1. SumFunctionOnSet(f, S) <= SumFunctionOnSet(g, S) /\ SumFunctionOnSet(g, S) <= SumFunctionOnSet(f, S)
  BY SumMonotone
<1>2. SumFunctionOnSet(f, S) \in Int /\ SumFunctionOnSet(g, S) \in Int
  BY SumType
<1> QED BY <1>1, <1>2

\* One summand changes.
LEMMA SumChange ==
  ASSUME NEW f, NEW g, NEW S, IsFiniteSet(S), NEW e \in S,
         \A x \in S : f[x] \in Int /\ g[x] \in Int,
         \A x \in S \ {e} : g[x] = f[x]
  PROVE  SumFunctionOnSet(g, S) = SumFunctionOnSet(f, S) - f[e] + g[e]
<1> DEFINE r == S \ {e}
<1>1. IsFiniteSet(r)
  BY FS_RemoveElement
<1>2. SumFunctionOnSet(f, r) = SumFunctionOnSet(g, r)
  BY <1>1, SumSame
<1>3. /\ SumFunctionOnSet(f, S) = f[e] + SumFunctionOnSet(f, r)
      /\ SumFunctionOnSet(g, S) = g[e] + SumFunctionOnSet(g, r)
  BY SumRemove
<1>4. SumFunctionOnSet(f, r) \in Int /\ f[e] \in Int /\ g[e] \in Int
  BY <1>1, SumType
<1> HIDE DEF r
<1> QED BY <1>2, <1>3, <1>4

\* Two summands change by the same amount in opposite directions.
LEMMA SumMove ==
  ASSUME NEW f, NEW g, NEW S, IsFiniteSet(S), NEW d \in S, NEW e \in S, NEW n \in Int,
         d # e,
         \A x \in S : f[x] \in Int /\ g[x] \in Int,
         g[d] = f[d] - n, g[e] = f[e] + n,
         \A x \in S \ {d, e} : g[x] = f[x]
  PROVE  SumFunctionOnSet(g, S) = SumFunctionOnSet(f, S)
<1> DEFINE h == [x \in S |-> IF x = d THEN g[d] ELSE f[x]]
<1>1. \A x \in S : h[x] \in Int
  OBVIOUS
<1>2. SumFunctionOnSet(h, S) = SumFunctionOnSet(f, S) - f[d] + h[d]
  BY <1>1, SumChange
<1>3. SumFunctionOnSet(g, S) = SumFunctionOnSet(h, S) - h[e] + g[e]
  BY <1>1, SumChange
<1>4. h[d] = f[d] - n /\ h[e] = f[e] /\ f[d] \in Int /\ f[e] \in Int
  OBVIOUS
<1>5. SumFunctionOnSet(f, S) \in Int
  BY SumType
<1> HIDE DEF h
<1> QED BY <1>2, <1>3, <1>4, <1>5

\* The sum over a part of a set, for summands that are not negative.
LEMMA SumPart ==
  ASSUME NEW f, NEW S, IsFiniteSet(S), NEW R \in SUBSET S, \A x \in S : f[x] \in Nat
  PROVE  0 <= SumFunctionOnSet(f, R) /\ SumFunctionOnSet(f, R) <= SumFunctionOnSet(f, S)
<1> DEFINE T == {n \in Nat : \A s \in SUBSET S :
                   Cardinality(s) = n => SumFunctionOnSet(f, s \cap R) <= SumFunctionOnSet(f, s)
                                          /\ SumFunctionOnSet(f, s \cap R) >= 0}
<1>1. \A s \in SUBSET S : /\ IsFiniteSet(s) /\ Cardinality(s) \in Nat
                          /\ Cardinality(s) = 0 <=> s = {}
  BY SubsetSizes
<1>2. 0 \in T
  BY <1>1, SumEmpty
<1>3. ASSUME NEW n \in Nat, n \in T PROVE n + 1 \in T
  <2> SUFFICES ASSUME NEW s \in SUBSET S, Cardinality(s) = n + 1
               PROVE  SumFunctionOnSet(f, s \cap R) <= SumFunctionOnSet(f, s)
                       /\ SumFunctionOnSet(f, s \cap R) >= 0
    OBVIOUS
  <2>1. PICK x \in s : TRUE
    BY <1>1
  <2> DEFINE r == s \ {x}
  <2>2. r \in SUBSET S /\ Cardinality(r) = n
    BY SubsetSizes
  <2>3. SumFunctionOnSet(f, s) = f[x] + SumFunctionOnSet(f, r)
    BY <1>1, SumRemove
  <2>4. SumFunctionOnSet(f, r \cap R) <= SumFunctionOnSet(f, r) /\ SumFunctionOnSet(f, r \cap R) >= 0
    BY <2>2, <1>3
  <2>5. SumFunctionOnSet(f, r) \in Int /\ SumFunctionOnSet(f, r \cap R) \in Int /\ f[x] \in Nat
    <3>1. r \cap R \in SUBSET S
      BY <2>2
    <3> QED BY <3>1, <2>2, <1>1, SumType
  <2>6. CASE x \in R
    <3>1. s \cap R \in SUBSET S /\ (s \cap R) \ {x} = r \cap R
      OBVIOUS
    <3>2. SumFunctionOnSet(f, s \cap R) = f[x] + SumFunctionOnSet(f, r \cap R)
      BY <3>1, <2>6, <1>1, SumRemove
    <3> HIDE DEF r
    <3> QED BY <3>2, <2>3, <2>4, <2>5
  <2>7. CASE x \notin R
    <3>1. s \cap R = r \cap R
      BY <2>7
    <3>2. SumFunctionOnSet(f, s \cap R) = SumFunctionOnSet(f, r \cap R)
      BY <3>1
    <3> HIDE DEF r
    <3> QED BY <3>2, <2>3, <2>4, <2>5
  <2> QED BY <2>6, <2>7
<1>4. Nat \subseteq T
  <2> HIDE DEF T
  <2> QED BY <1>2, <1>3, SetInduction
<1>5. S \cap R = R
  OBVIOUS
<1> QED BY <1>1, <1>4, <1>5

\* Equal summands.
LEMMA SumConstant ==
  ASSUME NEW f, NEW S, IsFiniteSet(S), NEW d \in Int, \A x \in S : f[x] = d
  PROVE  SumFunctionOnSet(f, S) = Cardinality(S) * d
<1> DEFINE T == {n \in Nat : \A s \in SUBSET S : Cardinality(s) = n => SumFunctionOnSet(f, s) = n * d}
<1>1. \A s \in SUBSET S : /\ IsFiniteSet(s) /\ Cardinality(s) \in Nat
                          /\ Cardinality(s) = 0 <=> s = {}
  BY SubsetSizes
<1>2. 0 \in T
  <2>1. ASSUME NEW s \in SUBSET S, Cardinality(s) = 0 PROVE SumFunctionOnSet(f, s) = 0 * d
    BY <1>1, <2>1, SumEmpty
  <2> QED BY <2>1
<1>3. ASSUME NEW n \in Nat, n \in T PROVE n + 1 \in T
  <2>1. ASSUME NEW s \in SUBSET S, Cardinality(s) = n + 1
        PROVE  SumFunctionOnSet(f, s) = (n + 1) * d
    <3>1. PICK x \in s : TRUE
      BY <1>1, <2>1
    <3>2. s \ {x} \in SUBSET S /\ Cardinality(s \ {x}) = n
      BY <2>1, <1>1, SubsetSizes
    <3>3. SumFunctionOnSet(f, s \ {x}) = n * d
      BY <1>3, <3>2
    <3>4. IsFiniteSet(s) /\ (\A y \in s : f[y] \in Int) /\ f[x] = d
      BY <1>1
    <3>5. SumFunctionOnSet(f, s) = f[x] + SumFunctionOnSet(f, s \ {x})
      BY <3>1, <3>4, SumRemove
    <3> HIDE DEF T
    <3>6. d + n * d = (n + 1) * d
      OBVIOUS
    <3> QED BY <3>3, <3>4, <3>5, <3>6
  <2> QED BY <2>1
<1>4. Nat \subseteq T
  <2> HIDE DEF T
  <2> QED BY <1>2, <1>3, SetInduction
<1>5. S \in SUBSET S /\ Cardinality(S) \in T
  BY <1>1, <1>4
<1> QED BY <1>5

\* The sum of two functions.
LEMMA SumPlus ==
  ASSUME NEW f, NEW g, NEW h, NEW S, IsFiniteSet(S),
         \A x \in S : f[x] \in Int /\ g[x] \in Int /\ h[x] = f[x] + g[x]
  PROVE  SumFunctionOnSet(h, S) = SumFunctionOnSet(f, S) + SumFunctionOnSet(g, S)
<1> DEFINE Good(s) == SumFunctionOnSet(h, s) = SumFunctionOnSet(f, s) + SumFunctionOnSet(g, s)
           T == {n \in Nat : \A s \in SUBSET S : Cardinality(s) = n => Good(s)}
<1>1. \A s \in SUBSET S : /\ IsFiniteSet(s) /\ Cardinality(s) \in Nat
                          /\ Cardinality(s) = 0 <=> s = {}
  BY SubsetSizes
<1>2. 0 \in T
  <2>1. ASSUME NEW s \in SUBSET S, Cardinality(s) = 0 PROVE Good(s)
    <3>1. s = {}
      BY <1>1, <2>1
    <3>2. /\ SumFunctionOnSet(h, s) = 0 /\ SumFunctionOnSet(f, s) = 0 /\ SumFunctionOnSet(g, s) = 0
      BY <3>1, SumEmpty
    <3> QED BY <3>2
  <2> QED BY <2>1
<1>3. ASSUME NEW n \in Nat, n \in T PROVE n + 1 \in T
  <2>1. ASSUME NEW s \in SUBSET S, Cardinality(s) = n + 1 PROVE Good(s)
    <3>1. PICK x \in s : TRUE
      BY <1>1, <2>1
    <3> DEFINE r == s \ {x}
    <3>2. r \in SUBSET S /\ Cardinality(r) = n
      BY <2>1, <1>1, SubsetSizes
    <3>3. Good(r)
      BY <1>3, <3>2
    <3>4. /\ IsFiniteSet(s) /\ IsFiniteSet(r)
          /\ \A y \in s : f[y] \in Int /\ g[y] \in Int /\ h[y] \in Int
          /\ h[x] = f[x] + g[x] /\ f[x] \in Int /\ g[x] \in Int
      BY <1>1, <3>1, <3>2
    <3>5. /\ SumFunctionOnSet(f, s) = f[x] + SumFunctionOnSet(f, r)
          /\ SumFunctionOnSet(g, s) = g[x] + SumFunctionOnSet(g, r)
          /\ SumFunctionOnSet(h, s) = h[x] + SumFunctionOnSet(h, r)
      BY <3>1, <3>4, SumRemove
    <3>6. SumFunctionOnSet(f, r) \in Int /\ SumFunctionOnSet(g, r) \in Int
      BY <3>4, SumType
    <3> HIDE DEF T, r
    <3> QED BY <3>3, <3>4, <3>5, <3>6
  <2> QED BY <2>1
<1>4. Nat \subseteq T
  <2> HIDE DEF T
  <2> QED BY <1>2, <1>3, SetInduction
<1>5. S \in SUBSET S /\ Cardinality(S) \in T
  BY <1>1, <1>4
<1> QED BY <1>5

\* All summands but one are nothing.
LEMMA SumSingle ==
  ASSUME NEW f, NEW S, IsFiniteSet(S), NEW e \in S, f[e] \in Int, \A x \in S \ {e} : f[x] = 0
  PROVE  SumFunctionOnSet(f, S) = f[e]
<1>1. IsFiniteSet(S \ {e}) /\ Cardinality(S \ {e}) \in Nat
  BY FS_RemoveElement, FS_CardinalityType
<1>2. SumFunctionOnSet(f, S \ {e}) = Cardinality(S \ {e}) * 0
  BY <1>1, SumConstant
<1>3. SumFunctionOnSet(f, S) = f[e] + SumFunctionOnSet(f, S \ {e})
  BY SumRemove
<1>4. Cardinality(S \ {e}) * 0 = 0
  BY <1>1
<1> QED BY <1>2, <1>3, <1>4

\* Only the summands that are not nothing count.
LEMMA SumSupport ==
  ASSUME NEW f, NEW S, IsFiniteSet(S), NEW R \in SUBSET S, \A x \in S : f[x] \in Int,
         \A x \in S \ R : f[x] = 0
  PROVE  SumFunctionOnSet(f, S) = SumFunctionOnSet(f, R)
<1> DEFINE T == {n \in Nat : \A s \in SUBSET S :
                   Cardinality(s) = n => SumFunctionOnSet(f, s) = SumFunctionOnSet(f, s \cap R)}
<1>1. \A s \in SUBSET S : /\ IsFiniteSet(s) /\ Cardinality(s) \in Nat
                          /\ Cardinality(s) = 0 <=> s = {}
  BY SubsetSizes
<1>2. 0 \in T
  <2>1. {} \cap R = {}
    OBVIOUS
  <2> QED BY <1>1, <2>1
<1>3. ASSUME NEW n \in Nat, n \in T PROVE n + 1 \in T
  <2> SUFFICES ASSUME NEW s \in SUBSET S, Cardinality(s) = n + 1
               PROVE  SumFunctionOnSet(f, s) = SumFunctionOnSet(f, s \cap R)
    OBVIOUS
  <2>1. PICK x \in s : TRUE
    BY <1>1
  <2> DEFINE r == s \ {x}
  <2>2. r \in SUBSET S /\ Cardinality(r) = n
    BY SubsetSizes
  <2>3. SumFunctionOnSet(f, s) = f[x] + SumFunctionOnSet(f, r)
    BY <1>1, SumRemove
  <2>4. SumFunctionOnSet(f, r) = SumFunctionOnSet(f, r \cap R)
    BY <2>2, <1>3
  <2>5. SumFunctionOnSet(f, r) \in Int /\ f[x] \in Int
    BY <2>2, <1>1, SumType
  <2>6. CASE x \in R
    <3>1. s \cap R \in SUBSET S /\ (s \cap R) \ {x} = r \cap R
      OBVIOUS
    <3>2. SumFunctionOnSet(f, s \cap R) = f[x] + SumFunctionOnSet(f, r \cap R)
      BY <3>1, <2>6, <1>1, SumRemove
    <3> HIDE DEF r
    <3> QED BY <3>2, <2>3, <2>4, <2>5
  <2>7. CASE x \notin R
    <3>1. s \cap R = r \cap R /\ f[x] = 0
      BY <2>7
    <3>2. SumFunctionOnSet(f, s \cap R) = SumFunctionOnSet(f, r \cap R)
      BY <3>1
    <3> HIDE DEF r
    <3> QED BY <3>1, <3>2, <2>3, <2>4, <2>5
  <2> QED BY <2>6, <2>7
<1>4. Nat \subseteq T
  <2> HIDE DEF T
  <2> QED BY <1>2, <1>3, SetInduction
<1>5. S \cap R = R
  OBVIOUS
<1> QED BY <1>1, <1>4, <1>5

\* One summand changes while the others do not grow.
LEMMA SumFalls ==
  ASSUME NEW f, NEW g, NEW S, IsFiniteSet(S), NEW e \in S,
         \A x \in S : f[x] \in Int /\ g[x] \in Int,
         \A x \in S \ {e} : g[x] <= f[x]
  PROVE  SumFunctionOnSet(g, S) <= SumFunctionOnSet(f, S) - f[e] + g[e]
<1> DEFINE r == S \ {e}
<1>1. IsFiniteSet(r)
  BY FS_RemoveElement
<1>2. SumFunctionOnSet(g, r) <= SumFunctionOnSet(f, r)
  BY <1>1, SumMonotone
<1>3. /\ SumFunctionOnSet(f, S) = f[e] + SumFunctionOnSet(f, r)
      /\ SumFunctionOnSet(g, S) = g[e] + SumFunctionOnSet(g, r)
  BY SumRemove
<1>4. SumFunctionOnSet(f, r) \in Int /\ SumFunctionOnSet(g, r) \in Int /\ f[e] \in Int /\ g[e] \in Int
  BY <1>1, SumType
<1> HIDE DEF r
<1> QED BY <1>2, <1>3, <1>4
=============================================================================
