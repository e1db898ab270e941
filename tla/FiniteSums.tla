----------------------------- MODULE FiniteSums -----------------------------
(***************************************************************************)
(* Sums over finite sets (SumFunctionOnSet of Functions), which the        *)
(* accounts of the cash modules are stated with: a sum does not depend on  *)
(* the order in which it is taken, and changing one term changes the sum   *)
(* by as much.                                                             *)
(*                                                                         *)
(* The proofs are by induction on the size of a set.  It is used in the    *)
(* form of CountingUp, which speaks of a set of numbers.                   *)
(***************************************************************************)
EXTENDS Functions, FiniteSets, FiniteSetTheorems, WellFoundedInduction, TLAPS

(* A non-empty set of natural numbers has a least one. *)
LEMMA LeastNumber ==
  ASSUME NEW T \in SUBSET Nat, T # {}
  PROVE  \E n \in T : \A m \in T : n <= m
<1> DEFINE Less == {ss \in Nat \X Nat : ss[1] < ss[2]}
<1>1. Less = OpToRel(<, Nat)
  BY Zenon DEF OpToRel
<1>2. IsWellFoundedOn(Less, Nat)
  BY <1>1, NatLessThanWellFounded, Zenon
<1>3. \A m, n \in Nat : m < n => <<m, n>> \in Less
  OBVIOUS
<1> HIDE DEF Less
<1>4. PICK n \in T : \A m \in T : ~ (<<m, n>> \in Less)
  BY <1>2, WFMin
<1>5. ASSUME NEW m \in T PROVE n <= m
  <2>1. m \in Nat /\ n \in Nat
    OBVIOUS
  <2>2. ~ (m < n)
    BY <1>3, <1>4, <2>1, Zenon
  <2> QED BY <2>1, <2>2
<1> QED BY <1>5

(* A set of numbers with zero and every successor has them all. *)
LEMMA CountingUp ==
  ASSUME NEW T \in SUBSET Nat, 0 \in T, \A n \in T : n + 1 \in T
  PROVE  T = Nat
<1> SUFFICES ASSUME Nat \ T # {} PROVE FALSE
  OBVIOUS
<1>1. PICK n \in Nat \ T : \A m \in Nat \ T : n <= m
  BY LeastNumber
<1>2. n # 0 /\ n - 1 \in Nat /\ n = (n - 1) + 1
  OBVIOUS
<1>3. n - 1 \in T
  BY <1>1, <1>2
<1> QED BY <1>2, <1>3

(* The subsets of a finite set, and what is left of them without the       *)
(* element a sum starts from.                                              *)
Pick(s) == CHOOSE x \in s : TRUE

LEMMA PickIn == ASSUME NEW s, s # {} PROVE Pick(s) \in s
  BY DEF Pick

LEMMA SubsetSizes ==
  ASSUME NEW S, IsFiniteSet(S)
  PROVE  /\ \A s \in SUBSET S : /\ IsFiniteSet(s) /\ Cardinality(s) \in Nat
                                /\ Cardinality(s) <= Cardinality(S)
                                /\ Cardinality(s) = 0 <=> s = {}
         /\ \A s \in SUBSET S : \A x \in s :
              s \ {x} \in SUBSET S /\ Cardinality(s \ {x}) = Cardinality(s) - 1
         /\ Cardinality(S) \in Nat
<1>1. \A s \in SUBSET S : IsFiniteSet(s) /\ Cardinality(s) <= Cardinality(S)
  BY FS_Subset
<1>2. \A s \in SUBSET S : Cardinality(s) \in Nat /\ (Cardinality(s) = 0 <=> s = {})
  BY <1>1, FS_CardinalityType, FS_EmptySet
<1>3. \A s \in SUBSET S : \A x \in s :
        s \ {x} \in SUBSET S /\ Cardinality(s \ {x}) = Cardinality(s) - 1
  BY <1>1, FS_RemoveElement
<1> QED BY <1>1, <1>2, <1>3, FS_CardinalityType

-----------------------------------------------------------------------------
(* The recursive function that takes a sum, and its equation for the       *)
(* subsets of up to n elements.                                            *)
Step(g, fun, s) == IF s = {} THEN 0 ELSE fun[Pick(s)] + g[s \ {Pick(s)}]

IsSum(g, fun, S) == g = [s \in SUBSET S |-> Step(g, fun, s)]

SumsUpTo(g, fun, S, n) ==
  \A s \in SUBSET S : Cardinality(s) <= n => g[s] = Step(g, fun, s)

(* There is such a function. *)
LEMMA SumExists ==
  ASSUME NEW S, IsFiniteSet(S), NEW fun, \A x \in S : fun[x] \in Int
  PROVE  \E g \in [SUBSET S -> Int] : IsSum(g, fun, S)
<1> DEFINE Good == {n \in Nat : \E g \in [SUBSET S -> Int] : SumsUpTo(g, fun, S, n)}
<1>1. 0 \in Good
  <2> DEFINE g == [s \in SUBSET S |-> 0]
  <2>1. \A s \in SUBSET S : Cardinality(s) <= 0 => s = {}
    BY SubsetSizes
  <2>2. g \in [SUBSET S -> Int] /\ SumsUpTo(g, fun, S, 0)
    BY <2>1 DEF SumsUpTo, Step
  <2> QED BY <2>2
<1>2. ASSUME NEW n \in Good PROVE n + 1 \in Good
  <2>1. PICK g \in [SUBSET S -> Int] : SumsUpTo(g, fun, S, n)
    OBVIOUS
  <2> DEFINE h == [s \in SUBSET S |-> Step(g, fun, s)]
  <2>2. \A s \in SUBSET S : Step(g, fun, s) \in Int
    BY PickIn DEF Step
  <2>3. \A s \in SUBSET S : s # {} /\ Cardinality(s) <= n + 1
          => h[s \ {Pick(s)}] = g[s \ {Pick(s)}]
    <3>1. \A s \in SUBSET S : s # {} /\ Cardinality(s) <= n + 1
            => s \ {Pick(s)} \in SUBSET S /\ Cardinality(s \ {Pick(s)}) <= n
      BY SubsetSizes, PickIn
    <3> QED BY <2>1, <3>1 DEF SumsUpTo
  <2>4. h \in [SUBSET S -> Int] /\ SumsUpTo(h, fun, S, n + 1)
    BY <2>2, <2>3 DEF SumsUpTo, Step
  <2> HIDE DEF h
  <2>5. n \in Nat
    OBVIOUS
  <2>6. n + 1 \in Nat
    BY <2>5
  <2>7. \E g2 \in [SUBSET S -> Int] : SumsUpTo(g2, fun, S, n + 1)
    BY <2>4, Zenon
  <2> QED BY <2>6, <2>7, Zenon
<1>3. Good = Nat
  BY <1>1, <1>2, CountingUp
<1>4. PICK g \in [SUBSET S -> Int] : SumsUpTo(g, fun, S, Cardinality(S))
  BY <1>3, SubsetSizes
<1>5. \A s \in SUBSET S : g[s] = Step(g, fun, s)
  BY <1>4, SubsetSizes DEF SumsUpTo
<1> QED BY <1>5 DEF IsSum

(* It is the same on smaller sets, and where the terms are the same.       *)
LEMMA SumUnique ==
  ASSUME NEW S, IsFiniteSet(S), NEW T \in SUBSET S,
         NEW f, NEW g, \A x \in T : f[x] = g[x],
         NEW i, NEW j, IsSum(i, f, S), IsSum(j, g, T)
  PROVE  i[T] = j[T]
<1> DEFINE Good == {n \in Nat : \A s \in SUBSET T : Cardinality(s) <= n => i[s] = j[s]}
<1>1. \A s \in SUBSET T : i[s] = Step(i, f, s) /\ j[s] = Step(j, g, s)
  BY DEF IsSum
<1>2. IsFiniteSet(T)
  BY FS_Subset
<1>3. 0 \in Good
  <2>1. \A s \in SUBSET T : Cardinality(s) <= 0 => s = {}
    BY <1>2, SubsetSizes
  <2>2. i[{}] = j[{}]
    BY <1>1 DEF Step
  <2> QED BY <2>1, <2>2
<1>4. ASSUME NEW n \in Good PROVE n + 1 \in Good
  <2>1. ASSUME NEW s \in SUBSET T, Cardinality(s) <= n + 1, s # {}
        PROVE  i[s] = j[s]
    <3>1. s \ {Pick(s)} \in SUBSET T /\ Cardinality(s \ {Pick(s)}) <= n
      BY <1>2, <2>1, SubsetSizes, PickIn
    <3>2. i[s \ {Pick(s)}] = j[s \ {Pick(s)}]
      BY <3>1
    <3>3. f[Pick(s)] = g[Pick(s)]
      BY <2>1, PickIn
    <3> QED BY <1>1, <2>1, <3>2, <3>3 DEF Step
  <2>2. i[{}] = j[{}]
    BY <1>1 DEF Step
  <2> QED BY <2>1, <2>2
<1>5. Good = Nat
  BY <1>3, <1>4, CountingUp
<1> QED BY <1>2, <1>5, SubsetSizes

(* A sum is taken by such a function. *)
LEMMA SumIterates ==
  ASSUME NEW S, IsFiniteSet(S), NEW fun, \A x \in S : fun[x] \in Int
  PROVE  \E g : g \in [SUBSET S -> Int] /\ IsSum(g, fun, S)
                /\ SumFunctionOnSet(fun, S) = g[S]
<1>1. PICK g \in [SUBSET S -> Int] : IsSum(g, fun, S)
  BY SumExists
<1> DEFINE chosen == CHOOSE iter : IsSum(iter, fun, S)
<1>2. SumFunctionOnSet(fun, S) = chosen[S]
  BY DEF SumFunctionOnSet, FoldFunctionOnSet, MapThenFoldSet, IsSum, Step, Pick
<1>3. IsSum(chosen, fun, S)
  BY <1>1
<1> HIDE DEF chosen
<1>4. chosen[S] = g[S]
  BY <1>1, <1>3, SumUnique
<1> QED BY <1>1, <1>2, <1>4

(* Sums of the same terms are the same, and a sum is a number. *)
LEMMA SumSame ==
  ASSUME NEW S, IsFiniteSet(S), NEW f, NEW g,
         \A x \in S : f[x] \in Int /\ g[x] = f[x]
  PROVE  /\ SumFunctionOnSet(f, S) \in Int
         /\ SumFunctionOnSet(g, S) = SumFunctionOnSet(f, S)
<1>1. PICK i : i \in [SUBSET S -> Int] /\ IsSum(i, f, S) /\ SumFunctionOnSet(f, S) = i[S]
  BY SumIterates
<1>2. PICK j : IsSum(j, g, S) /\ SumFunctionOnSet(g, S) = j[S]
  BY SumIterates
<1>3. i[S] = j[S]
  BY <1>1, <1>2, SumUnique
<1> QED BY <1>1, <1>2, <1>3

LEMMA SumUnfolds ==
  ASSUME NEW S, IsFiniteSet(S), NEW fun, \A x \in S : fun[x] \in Int
  PROVE  /\ S = {} => SumFunctionOnSet(fun, S) = 0
         /\ S # {} => SumFunctionOnSet(fun, S)
                       = fun[Pick(S)] + SumFunctionOnSet(fun, S \ {Pick(S)})
<1> DEFINE T == S \ {Pick(S)}
<1>1. IsFiniteSet(T) /\ T \in SUBSET S /\ \A x \in T : fun[x] \in Int
  BY FS_RemoveElement
<1> HIDE DEF T
<1>2. PICK i : IsSum(i, fun, S) /\ SumFunctionOnSet(fun, S) = i[S]
  BY SumIterates
<1>3. PICK j : IsSum(j, fun, T) /\ SumFunctionOnSet(fun, T) = j[T]
  BY <1>1, SumIterates
<1>4. i[T] = j[T]
  BY <1>1, <1>2, <1>3, SumUnique
<1>5. i[S] = Step(i, fun, S)
  BY <1>2 DEF IsSum
<1> QED BY <1>2, <1>3, <1>4, <1>5 DEF Step, T

-----------------------------------------------------------------------------
(* Any term may be taken off first. *)
LEMMA SumSplit ==
  ASSUME NEW S, IsFiniteSet(S), NEW fun, \A x \in S : fun[x] \in Int, NEW x \in S
  PROVE  SumFunctionOnSet(fun, S) = fun[x] + SumFunctionOnSet(fun, S \ {x})
<1> DEFINE Sum(s) == SumFunctionOnSet(fun, s)
           Good == {n \in Nat : \A s \in SUBSET S : Cardinality(s) <= n
                                  => \A y \in s : Sum(s) = fun[y] + Sum(s \ {y})}
<1>1. \A s \in SUBSET S : IsFiniteSet(s) /\ Sum(s) \in Int
  BY SubsetSizes, SumSame
<1>2. \A s \in SUBSET S : s # {} => Sum(s) = fun[Pick(s)] + Sum(s \ {Pick(s)})
  BY <1>1, SumUnfolds
<1> HIDE DEF Sum
<1>3. 0 \in Good
  <2>1. \A s \in SUBSET S : Cardinality(s) <= 0 => s = {}
    BY SubsetSizes
  <2> QED BY <2>1
<1>4. ASSUME NEW n \in Good PROVE n + 1 \in Good
  <2>1. ASSUME NEW s \in SUBSET S, Cardinality(s) <= n + 1, NEW y \in s
        PROVE  Sum(s) = fun[y] + Sum(s \ {y})
    <3> DEFINE p == Pick(s)
    <3>1. p \in s
      BY PickIn
    <3> HIDE DEF p
    <3>2. CASE y = p
      BY <1>2, <3>2 DEF p
    <3>3. CASE y # p
      <4>1. /\ s \ {p} \in SUBSET S /\ Cardinality(s \ {p}) <= n
            /\ s \ {y} \in SUBSET S /\ Cardinality(s \ {y}) <= n
        BY <2>1, <3>1, SubsetSizes
      <4>2. Sum(s \ {p}) = fun[y] + Sum((s \ {p}) \ {y})
        BY <3>3, <4>1
      <4>3. Sum(s \ {y}) = fun[p] + Sum((s \ {y}) \ {p})
        BY <3>1, <3>3, <4>1
      <4>4. (s \ {p}) \ {y} = (s \ {y}) \ {p} /\ (s \ {p}) \ {y} \in SUBSET S
        OBVIOUS
      <4>5. Sum(s) = fun[p] + Sum(s \ {p})
        BY <1>2 DEF p
      <4>6. Sum((s \ {p}) \ {y}) \in Int /\ fun[p] \in Int /\ fun[y] \in Int
        BY <1>1, <3>1, <4>4
      <4> DEFINE r == Sum((s \ {p}) \ {y})
      <4>7. Sum(s \ {p}) = fun[y] + r /\ Sum(s \ {y}) = fun[p] + r /\ r \in Int
        BY <4>2, <4>3, <4>4, <4>6
      <4> HIDE DEF r
      <4> QED BY <4>5, <4>6, <4>7
    <3> QED BY <3>2, <3>3
  <2> QED BY <2>1
<1>5. Good = Nat
  BY <1>3, <1>4, CountingUp
<1>6. Cardinality(S) \in Good
  BY <1>5, SubsetSizes
<1>7. Cardinality(S) <= Cardinality(S)
  BY SubsetSizes
<1>8. Sum(S) = fun[x] + Sum(S \ {x})
  BY <1>6, <1>7
<1> QED BY <1>8 DEF Sum

(* The sum over no set, and over one element more. *)
LEMMA SumEmpty == ASSUME NEW fun PROVE SumFunctionOnSet(fun, {}) = 0
  BY FS_EmptySet, SumUnfolds

LEMMA SumAdd ==
  ASSUME NEW S, IsFiniteSet(S), NEW fun, NEW x, x \notin S,
         \A y \in S \cup {x} : fun[y] \in Int
  PROVE  SumFunctionOnSet(fun, S \cup {x}) = SumFunctionOnSet(fun, S) + fun[x]
<1>1. IsFiniteSet(S \cup {x}) /\ (S \cup {x}) \ {x} = S
  BY FS_AddElement
<1>2. SumFunctionOnSet(fun, S \cup {x}) = fun[x] + SumFunctionOnSet(fun, S)
  BY <1>1, SumSplit
<1>3. SumFunctionOnSet(fun, S) \in Int
  BY SumSame
<1> QED BY <1>2, <1>3

(* A sum of nothing but zeros is zero. *)
LEMMA SumOfZeros ==
  ASSUME NEW S, IsFiniteSet(S), NEW fun, \A x \in S : fun[x] = 0
  PROVE  SumFunctionOnSet(fun, S) = 0
<1> DEFINE Sum(s) == SumFunctionOnSet(fun, s)
           Good == {n \in Nat : \A s \in SUBSET S : Cardinality(s) <= n => Sum(s) = 0}
<1>0. \A s \in SUBSET S : IsFiniteSet(s) /\ \A x \in s : fun[x] \in Int
  BY SubsetSizes
<1>1. \A s \in SUBSET S : \A x \in s : Sum(s) = fun[x] + Sum(s \ {x})
  BY <1>0, SumSplit
<1>2. Sum({}) = 0
  BY SumEmpty
<1> HIDE DEF Sum
<1>3. 0 \in Good
  <2>1. \A s \in SUBSET S : Cardinality(s) <= 0 => s = {}
    BY SubsetSizes
  <2> QED BY <1>2, <2>1
<1>4. ASSUME NEW n \in Good PROVE n + 1 \in Good
  <2>1. ASSUME NEW s \in SUBSET S, Cardinality(s) <= n + 1, NEW y \in s
        PROVE  Sum(s) = 0
    <3>1. s \ {y} \in SUBSET S /\ Cardinality(s \ {y}) <= n
      BY <2>1, SubsetSizes
    <3>2. Sum(s \ {y}) = 0 /\ fun[y] = 0
      BY <3>1
    <3> QED BY <1>1, <3>2
  <2> QED BY <1>2, <2>1
<1>5. Good = Nat
  BY <1>3, <1>4, CountingUp
<1>6. Sum(S) = 0
  BY <1>5, SubsetSizes
<1> QED BY <1>6 DEF Sum

(* A change of one term changes the sum by as much. *)
THEOREM SumChange ==
  ASSUME NEW S, IsFiniteSet(S), NEW f, NEW g, NEW x \in S,
         \A y \in S : f[y] \in Int /\ g[y] \in Int,
         \A y \in S : y # x => g[y] = f[y]
  PROVE  /\ SumFunctionOnSet(g, S) = SumFunctionOnSet(f, S) + (g[x] - f[x])
         /\ SumFunctionOnSet(f, S) \in Int /\ SumFunctionOnSet(g, S) \in Int
<1>1. IsFiniteSet(S \ {x})
  BY FS_RemoveElement
<1>2. /\ SumFunctionOnSet(f, S \ {x}) \in Int
      /\ SumFunctionOnSet(g, S \ {x}) = SumFunctionOnSet(f, S \ {x})
  BY <1>1, SumSame
<1>3. /\ SumFunctionOnSet(f, S) = f[x] + SumFunctionOnSet(f, S \ {x})
      /\ SumFunctionOnSet(g, S) = g[x] + SumFunctionOnSet(g, S \ {x})
  BY SumSplit
<1> QED BY <1>2, <1>3

(* A sum of natural numbers is one, and none of its terms exceeds it. *)
THEOREM SumBounds ==
  ASSUME NEW S, IsFiniteSet(S), NEW fun, \A x \in S : fun[x] \in Nat
  PROVE  /\ SumFunctionOnSet(fun, S) \in Nat
         /\ \A x \in S : fun[x] <= SumFunctionOnSet(fun, S)
<1> DEFINE Sum(s) == SumFunctionOnSet(fun, s)
           Good == {n \in Nat : \A s \in SUBSET S : Cardinality(s) <= n => Sum(s) \in Nat}
<1>1. \A s \in SUBSET S : IsFiniteSet(s) /\ Sum(s) \in Int
  BY SubsetSizes, SumSame
<1>2. \A s \in SUBSET S : \A x \in s : Sum(s) = fun[x] + Sum(s \ {x})
  BY <1>1, SumSplit
<1>3. Sum({}) = 0
  BY SumEmpty
<1> HIDE DEF Sum
<1>4. 0 \in Good
  BY <1>3, SubsetSizes
<1>5. ASSUME NEW n \in Good PROVE n + 1 \in Good
  <2>1. ASSUME NEW s \in SUBSET S, Cardinality(s) <= n + 1, NEW y \in s
        PROVE  Sum(s) \in Nat
    <3>1. s \ {y} \in SUBSET S /\ Cardinality(s \ {y}) <= n
      BY <2>1, SubsetSizes
    <3> QED BY <1>2, <3>1
  <2> QED BY <1>3, <2>1
<1>6. Good = Nat
  BY <1>4, <1>5, CountingUp
<1>7. \A s \in SUBSET S : Sum(s) \in Nat
  BY <1>6, SubsetSizes
<1>8. ASSUME NEW x \in S PROVE fun[x] <= Sum(S)
  <2>1. S \in SUBSET S /\ S \ {x} \in SUBSET S
    OBVIOUS
  <2>2. Sum(S) = fun[x] + Sum(S \ {x}) /\ Sum(S \ {x}) \in Nat
    BY <1>2, <1>7, <2>1
  <2> QED BY <2>2
<1> QED BY <1>7, <1>8 DEF Sum
=============================================================================
