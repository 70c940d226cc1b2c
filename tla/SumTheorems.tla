---------------------------- MODULE SumTheorems -----------------------------
(***************************************************************************)
(* Facts on SumFunctionOnSet of module Functions over any finite set: a    *)
(* sum does not depend on the order its elements are taken in.             *)
(*                                                                         *)
(* The provers cannot instantiate an induction theorem whose predicate is  *)
(* an operator.  Here a predicate is the set of the values it holds for,   *)
(* and induction is the existence of a least value outside of that set     *)
(* (WFMin), which is first order.                                          *)
(***************************************************************************)
EXTENDS Integers, Functions, FiniteSetTheorems, WellFoundedInduction, TLAPS

\* Induction over the subsets of a finite set.
LEMMA SubsetInduction ==
  ASSUME NEW S, IsFiniteSet(S), NEW B \in SUBSET (SUBSET S),
         \A T \in SUBSET S : (\A U \in SUBSET T : U # T => U \in B) => T \in B
  PROVE  \A T \in SUBSET S : T \in B
<1> SUFFICES ASSUME NEW X \in SUBSET S, X \notin B PROVE FALSE
  OBVIOUS
<1> DEFINE Bad == {T \in SUBSET S : T \notin B}
<1>1. FiniteSubsetsOf(S) = SUBSET S
  BY FS_Subset DEF FiniteSubsetsOf
<1>2. \E T \in Bad : \A U \in Bad : <<U, T>> \notin StrictSubsetOrdering(S)
  <2>1. IsWellFoundedOn(StrictSubsetOrdering(S), FiniteSubsetsOf(S))
    BY FS_StrictSubsetOrderingWellFounded
  <2>2. Bad \subseteq FiniteSubsetsOf(S) /\ Bad # {}
    BY <1>1
  <2> HIDE DEF Bad
  <2> QED BY <2>1, <2>2, WFMin
<1>3. PICK T \in Bad : \A U \in Bad : <<U, T>> \notin StrictSubsetOrdering(S)
  BY <1>2
<1>4. \A U \in SUBSET T : U # T => U \in B
  BY <1>3 DEF StrictSubsetOrdering
<1> QED BY <1>3, <1>4

\* A set of natural numbers has a least element.
LEMMA NatLeast ==
  ASSUME NEW S, S \subseteq Nat, S # {}
  PROVE  \E n \in S : \A m \in S : n <= m
<1> DEFINE Less == OpToRel(<, Nat)
<1>1. \E n \in S : \A m \in S : <<m, n>> \notin Less
  <2>1. IsWellFoundedOn(Less, Nat)
    BY NatLessThanWellFounded
  <2> HIDE DEF Less
  <2> QED BY <2>1, WFMin
<1>2. PICK n \in S : \A m \in S : <<m, n>> \notin Less
  BY <1>1
<1>3. \A m \in S : ~(m < n)
  BY <1>2 DEF OpToRel
<1>4. \A m \in S : n <= m
  BY <1>3
<1> QED BY <1>4

\* A set of natural numbers that has a bound has a greatest element.
LEMMA NatGreatest ==
  ASSUME NEW S, S \subseteq Nat, S # {}, NEW b \in Nat, \A n \in S : n <= b
  PROVE  \E n \in S : \A m \in S : m <= n
<1> DEFINE B == {b - n : n \in S}
<1>1. B \subseteq Nat /\ B # {}
  <2>1. \A n \in S : n \in Nat /\ n <= b
    OBVIOUS
  <2>2. \A n \in S : b - n \in Nat
    BY <2>1
  <2>3. PICK n \in S : TRUE
    OBVIOUS
  <2>4. b - n \in B
    OBVIOUS
  <2> QED BY <2>2, <2>4
<1>2. PICK k \in B : \A m \in B : k <= m
  <2> HIDE DEF B
  <2> QED BY <1>1, NatLeast
<1>3. PICK n \in S : k = b - n
  BY <1>2
<1>4. ASSUME NEW m \in S PROVE m <= n
  <2>1. k <= b - m
    BY <1>2
  <2> QED BY <1>3, <2>1
<1> QED BY <1>4

\* Induction over the natural numbers, with the predicate as a set.
LEMMA NatSetInduction ==
  ASSUME NEW B, 0 \in B, \A n \in Nat : n \in B => n + 1 \in B
  PROVE  \A n \in Nat : n \in B
<1> SUFFICES ASSUME NEW k \in Nat, k \notin B PROVE FALSE
  OBVIOUS
<1> DEFINE Bad == {n \in Nat : n \notin B}
<1>1. PICK n \in Bad : \A m \in Bad : n <= m
  <2>1. Bad \subseteq Nat /\ Bad # {}
    OBVIOUS
  <2> HIDE DEF Bad
  <2> QED BY <2>1, NatLeast
<1>2. n # 0 /\ n - 1 \in Nat /\ n - 1 < n /\ (n - 1) + 1 = n
  BY <1>1
<1>3. n - 1 \in B
  BY <1>1, <1>2
<1> QED BY <1>1, <1>2, <1>3

\* The element that the recursion takes out of T.
Chosen(T) == CHOOSE x \in T : TRUE

\* What one step of the sum does.
SumStep(f, g, T) == IF T = {} THEN 0 ELSE f[Chosen(T)] + g[T \ {Chosen(T)}]

\* The recursive function that a sum is defined by.
SumBy(f, S) == CHOOSE g : g = [T \in SUBSET S |-> SumStep(f, g, T)]

\* SumFunctionOnSet is the value of that function.
LEMMA SumIsSumBy == ASSUME NEW f, NEW S PROVE SumFunctionOnSet(f, S) = SumBy(f, S)[S]
  BY DEF SumFunctionOnSet, FoldFunctionOnSet, MapThenFoldSet, SumBy, SumStep, Chosen

\* CHOOSE takes an element of the set.
LEMMA ChosenIn == ASSUME NEW T, T # {} PROVE Chosen(T) \in T
  BY DEF Chosen

\* The recursive definition of the sum has a solution: one step of it.
LEMMA SumByStep ==
  ASSUME NEW f, NEW S, IsFiniteSet(S)
  PROVE  \A T \in SUBSET S : SumBy(f, S)[T] = SumStep(f, SumBy(f, S), T)
<1> DEFINE Good(g, n) == \A T \in SUBSET S : Cardinality(T) <= n => g[T] = SumStep(f, g, T)
           Reach == {n \in Nat : \E g : g = [T \in SUBSET S |-> g[T]] /\ Good(g, n)}
<1>1. \A T \in SUBSET S : /\ IsFiniteSet(T) /\ Cardinality(T) \in Nat
                          /\ Cardinality(T) <= Cardinality(S)
  BY FS_Subset, FS_CardinalityType
<1>2. \A T \in SUBSET S : T # {} => /\ T \ {Chosen(T)} \in SUBSET S
                                    /\ Cardinality(T \ {Chosen(T)}) = Cardinality(T) - 1
  BY <1>1, ChosenIn, FS_RemoveElement
<1>3. 0 \in Reach
  <2> DEFINE g == [T \in SUBSET S |-> 0]
  <2>1. \A T \in SUBSET S : Cardinality(T) <= 0 => T = {}
    BY <1>1, FS_EmptySet
  <2>2. Good(g, 0)
    BY <2>1 DEF SumStep
  <2> QED BY <2>2
<1>4. ASSUME NEW n \in Nat, n \in Reach PROVE n + 1 \in Reach
  <2>1. PICK g : g = [T \in SUBSET S |-> g[T]] /\ Good(g, n)
    BY <1>4
  <2> DEFINE h == [T \in SUBSET S |-> IF Cardinality(T) <= n THEN g[T] ELSE SumStep(f, g, T)]
  <2>2. \A T \in SUBSET S : (T # {} /\ Cardinality(T) <= n + 1) => h[T \ {Chosen(T)}] = g[T \ {Chosen(T)}]
    BY <1>1, <1>2
  <2>3. \A T \in SUBSET S : Cardinality(T) <= n + 1 => h[T] = SumStep(f, g, T)
    BY <2>1
  <2>4. \A T \in SUBSET S : Cardinality(T) <= n + 1 => SumStep(f, g, T) = SumStep(f, h, T)
    BY <2>2 DEF SumStep
  <2>5. Good(h, n + 1)
    BY <2>3, <2>4
  <2>6. h = [T \in SUBSET S |-> h[T]]
    OBVIOUS
  <2> HIDE DEF h, Good
  <2> QED BY <2>5, <2>6
<1>5. Cardinality(S) \in Reach
  <2> HIDE DEF Reach
  <2> QED BY <1>1, <1>3, <1>4, NatSetInduction
<1>6. PICK g : g = [T \in SUBSET S |-> g[T]] /\ Good(g, Cardinality(S))
  BY <1>5
<1>7. \A T \in SUBSET S : g[T] = SumStep(f, g, T)
  BY <1>1, <1>6
<1>8. g = [T \in SUBSET S |-> SumStep(f, g, T)]
  BY <1>6, <1>7
<1> DEFINE s == SumBy(f, S)
<1>9. s = [T \in SUBSET S |-> SumStep(f, s, T)]
  BY <1>8 DEF SumBy
<1> HIDE DEF s
<1>10. \A T \in SUBSET S : s[T] = SumStep(f, s, T)
  BY <1>9
<1> QED BY <1>10 DEF s

\* The sum takes its elements in any order.
LEMMA SumByRemove ==
  ASSUME NEW S, IsFiniteSet(S), NEW f \in [S -> Nat]
  PROVE  \A T \in SUBSET S :
           /\ SumBy(f, S)[T] \in Nat
           /\ \A x \in T : SumBy(f, S)[T] = f[x] + SumBy(f, S)[T \ {x}]
<1> DEFINE g == SumBy(f, S)
           B == {T \in SUBSET S : g[T] \in Nat /\ \A x \in T : g[T] = f[x] + g[T \ {x}]}
<1>1. \A T \in SUBSET S : g[T] = SumStep(f, g, T)
  BY SumByStep
<1> HIDE DEF g
<1>2. ASSUME NEW T \in SUBSET S, \A U \in SUBSET T : U # T => U \in B
      PROVE  T \in B
  <2>1. CASE T = {}
    <3>1. g[T] = 0
      BY <1>1, <2>1 DEF SumStep
    <3> QED BY <2>1, <3>1
  <2>2. CASE T # {}
    <3> DEFINE y == Chosen(T)
    <3>1. y \in T
      BY <2>2, ChosenIn
    <3> HIDE DEF y
    <3>2. g[T] = f[y] + g[T \ {y}]
      BY <1>1, <2>2 DEF SumStep, y
    <3>3. T \ {y} \in B
      BY <1>2, <3>1
    <3>4. g[T \ {y}] \in Nat /\ f[y] \in Nat
      BY <3>1, <3>3
    <3>5. ASSUME NEW x \in T, x # y
          PROVE  g[T] = f[x] + g[T \ {x}]
      <4>1. T \ {x} \in B /\ (T \ {x}) \ {y} \in B
        BY <1>2, <3>1
      <4>2. g[T \ {y}] = f[x] + g[(T \ {y}) \ {x}]
        BY <3>3, <3>5
      <4>3. g[T \ {x}] = f[y] + g[(T \ {x}) \ {y}]
        BY <3>1, <3>5, <4>1
      <4>4. (T \ {x}) \ {y} = (T \ {y}) \ {x}
        OBVIOUS
      <4>5. f[x] \in Nat /\ g[(T \ {x}) \ {y}] \in Nat
        BY <4>1
      <4> QED BY <3>2, <3>4, <4>2, <4>3, <4>4, <4>5
    <3>6. g[T] \in Nat
      BY <3>2, <3>4
    <3>7. \A x \in T : g[T] = f[x] + g[T \ {x}]
      BY <3>2, <3>5
    <3> QED BY <3>6, <3>7
  <2> QED BY <2>1, <2>2
<1>3. \A T \in SUBSET S : T \in B
  <2>1. B \in SUBSET (SUBSET S)
    OBVIOUS
  <2>2. \A T \in SUBSET S : (\A U \in SUBSET T : U # T => U \in B) => T \in B
    BY <1>2
  <2> HIDE DEF B
  <2> QED BY <2>1, <2>2, SubsetInduction
<1> QED BY <1>3 DEF g

\* The sum looks at the elements of the set only.
LEMMA SumByAgree ==
  ASSUME NEW S, IsFiniteSet(S), NEW R, IsFiniteSet(R), NEW f, NEW h,
         NEW T, T \subseteq S, T \subseteq R, \A x \in T : f[x] = h[x]
  PROVE  SumBy(f, S)[T] = SumBy(h, R)[T]
<1> DEFINE B == {U \in SUBSET T : SumBy(f, S)[U] = SumBy(h, R)[U]}
<1>1. /\ \A U \in SUBSET T : SumBy(f, S)[U] = SumStep(f, SumBy(f, S), U)
      /\ \A U \in SUBSET T : SumBy(h, R)[U] = SumStep(h, SumBy(h, R), U)
  BY SumByStep
<1>2. ASSUME NEW U \in SUBSET T, \A V \in SUBSET U : V # U => V \in B
      PROVE  U \in B
  <2>1. CASE U = {}
    BY <1>1, <2>1 DEF SumStep
  <2>2. CASE U # {}
    <3>1. Chosen(U) \in U
      BY <2>2, ChosenIn
    <3>2. U \ {Chosen(U)} \in B
      BY <1>2, <3>1
    <3> QED BY <1>1, <2>2, <3>1, <3>2 DEF SumStep
  <2> QED BY <2>1, <2>2
<1>3. IsFiniteSet(T)
  BY FS_Subset
<1>4. T \in B
  <2>1. B \in SUBSET (SUBSET T)
    OBVIOUS
  <2>2. \A U \in SUBSET T : (\A V \in SUBSET U : V # U => V \in B) => U \in B
    BY <1>2
  <2> HIDE DEF B
  <2>3. \A U \in SUBSET T : U \in B
    BY <1>3, <2>1, <2>2, SubsetInduction
  <2> QED BY <2>3
<1> QED BY <1>4

\* The sum over no element.
LEMMA SumOfNone ==
  ASSUME NEW f
  PROVE  SumFunctionOnSet(f, {}) = 0
<1>1. IsFiniteSet({})
  BY FS_EmptySet
<1>2. SumBy(f, {})[{}] = SumStep(f, SumBy(f, {}), {})
  BY <1>1, SumByStep
<1> QED BY <1>2, SumIsSumBy DEF SumStep

\* A sum of natural numbers is one, and no less than any of them.
LEMMA SumIsNat ==
  ASSUME NEW S, IsFiniteSet(S), NEW f \in [S -> Nat]
  PROVE  SumFunctionOnSet(f, S) \in Nat /\ \A x \in S : f[x] <= SumFunctionOnSet(f, S)
<1>1. SumFunctionOnSet(f, S) = SumBy(f, S)[S]
  BY SumIsSumBy
<1>2. SumBy(f, S)[S] \in Nat /\ \A x \in S : /\ SumBy(f, S)[S] = f[x] + SumBy(f, S)[S \ {x}]
                                             /\ SumBy(f, S)[S \ {x}] \in Nat
  BY SumByRemove, SMTT(30)
<1> DEFINE g == SumBy(f, S)
<1> HIDE DEF g
<1>3. \A x \in S : f[x] \in Nat /\ g[S] = f[x] + g[S \ {x}] /\ g[S \ {x}] \in Nat
  BY <1>2 DEF g
<1>4. ASSUME NEW x \in S PROVE f[x] <= g[S]
  <2>1. f[x] \in Nat /\ g[S] = f[x] + g[S \ {x}] /\ g[S \ {x}] \in Nat
    BY <1>3
  <2>2. \A a, b, d \in Nat : d = a + b => a <= d
    OBVIOUS
  <2>3. g[S] \in Nat
    BY <2>1
  <2> QED BY <2>1, <2>2, <2>3
<1> QED BY <1>1, <1>2, <1>4 DEF g

\* A sum looks at the elements of its set only.
LEMMA SumAgrees ==
  ASSUME NEW S, IsFiniteSet(S), NEW f, NEW h, \A x \in S : f[x] = h[x]
  PROVE  SumFunctionOnSet(f, S) = SumFunctionOnSet(h, S)
<1>1. SumBy(f, S)[S] = SumBy(h, S)[S]
  BY SumByAgree
<1> QED BY <1>1, SumIsSumBy

\* One more element adds its value.
LEMMA SumOfOneMore ==
  ASSUME NEW S, IsFiniteSet(S), NEW x, x \notin S, NEW f, NEW h,
         h[x] \in Nat, \A y \in S : f[y] \in Nat /\ h[y] = f[y]
  PROVE  SumFunctionOnSet(h, S \cup {x}) = SumFunctionOnSet(f, S) + h[x]
<1> DEFINE R == S \cup {x}
           k == [y \in R |-> h[y]]
<1>1. IsFiniteSet(R)
  BY FS_AddElement
<1>2. k \in [R -> Nat] /\ R \ {x} = S /\ x \in R
  OBVIOUS
<1>3. \A y \in R : k[y] = h[y]
  OBVIOUS
<1> HIDE DEF R, k
<1>4. SumBy(k, R)[R] = k[x] + SumBy(k, R)[S] /\ SumBy(k, R)[S] \in Nat
  BY <1>1, <1>2, SumByRemove
<1>5. SumBy(h, R)[R] = SumBy(k, R)[R]
  BY <1>1, <1>3, SumByAgree
<1>6. SumBy(f, S)[S] = SumBy(k, R)[S]
  <2>1. S \subseteq R /\ \A y \in S : f[y] = k[y]
    BY <1>3 DEF R
  <2> QED BY <1>1, <2>1, SumByAgree
<1> QED BY <1>2, <1>3, <1>4, <1>5, <1>6, SumIsSumBy DEF R

\* One term of a sum changes.
LEMMA SumChanges ==
  ASSUME NEW S, IsFiniteSet(S), NEW f \in [S -> Nat], NEW h \in [S -> Nat], NEW x \in S,
         \A y \in S : y # x => h[y] = f[y]
  PROVE  SumFunctionOnSet(h, S) = SumFunctionOnSet(f, S) - f[x] + h[x]
<1>0. PICK R : R = S \ {x}
  OBVIOUS
<1>1. IsFiniteSet(R) /\ x \notin R /\ S = R \cup {x}
  BY <1>0, FS_RemoveElement
<1>2. /\ \A y \in R : f[y] \in Nat /\ h[y] = f[y]
      /\ f[x] \in Nat /\ h[x] \in Nat
  BY <1>1
<1>3. SumFunctionOnSet(h, R \cup {x}) = SumFunctionOnSet(f, R) + h[x]
  BY <1>1, <1>2, SumOfOneMore
<1>4. SumFunctionOnSet(f, R \cup {x}) = SumFunctionOnSet(f, R) + f[x]
  BY <1>1, <1>2, SumOfOneMore
<1>5. SumFunctionOnSet(f, R) \in Nat
  <2>1. [y \in R |-> f[y]] \in [R -> Nat]
    BY <1>2
  <2>2. SumFunctionOnSet(f, R) = SumFunctionOnSet([y \in R |-> f[y]], R)
    BY <1>1, SumAgrees
  <2> QED BY <1>1, <2>1, <2>2, SumIsNat
<1> QED BY <1>1, <1>2, <1>3, <1>4, <1>5

\* A sum of integers is one.
LEMMA SumIsInt ==
  ASSUME NEW S, IsFiniteSet(S), NEW f \in [S -> Int]
  PROVE  SumFunctionOnSet(f, S) \in Int
<1> DEFINE B == {T \in SUBSET S : SumBy(f, S)[T] \in Int}
<1>1. ASSUME NEW T \in SUBSET S, \A U \in SUBSET T : U # T => U \in B
      PROVE  T \in B
  <2>1. SumBy(f, S)[T] = SumStep(f, SumBy(f, S), T)
    BY SumByStep
  <2>2. CASE T = {}
    BY <2>1, <2>2 DEF SumStep
  <2>3. CASE T # {}
    <3>1. Chosen(T) \in T
      BY <2>3, ChosenIn
    <3>2. T \ {Chosen(T)} \in B /\ f[Chosen(T)] \in Int
      BY <1>1, <3>1
    <3> QED BY <2>1, <2>3, <3>2 DEF SumStep
  <2> QED BY <2>2, <2>3
<1>2. S \in B
  <2>1. B \in SUBSET (SUBSET S)
    OBVIOUS
  <2>2. \A T \in SUBSET S : (\A U \in SUBSET T : U # T => U \in B) => T \in B
    BY <1>1
  <2> HIDE DEF B
  <2>3. \A T \in SUBSET S : T \in B
    BY <2>1, <2>2, SubsetInduction
  <2> QED BY <2>3
<1> QED BY <1>2, SumIsSumBy

\* A sum of zeroes.
LEMMA SumOfZeroes ==
  ASSUME NEW S, IsFiniteSet(S), NEW f, \A x \in S : f[x] = 0
  PROVE  SumFunctionOnSet(f, S) = 0
<1> DEFINE B == {T \in SUBSET S : SumBy(f, S)[T] = 0}
<1>1. ASSUME NEW T \in SUBSET S, \A U \in SUBSET T : U # T => U \in B
      PROVE  T \in B
  <2>1. SumBy(f, S)[T] = SumStep(f, SumBy(f, S), T)
    BY SumByStep
  <2>2. CASE T = {}
    BY <2>1, <2>2 DEF SumStep
  <2>3. CASE T # {}
    <3>1. Chosen(T) \in T
      BY <2>3, ChosenIn
    <3>2. T \ {Chosen(T)} \in B
      BY <1>1, <3>1
    <3> QED BY <2>1, <2>3, <3>1, <3>2 DEF SumStep
  <2> QED BY <2>2, <2>3
<1>2. S \in B
  <2>1. B \in SUBSET (SUBSET S)
    OBVIOUS
  <2>2. \A T \in SUBSET S : (\A U \in SUBSET T : U # T => U \in B) => T \in B
    BY <1>1
  <2> HIDE DEF B
  <2>3. \A T \in SUBSET S : T \in B
    BY <2>1, <2>2, SubsetInduction
  <2> QED BY <2>3
<1> QED BY <1>2, SumIsSumBy

\* A sum grows with its terms.
LEMMA SumMonotone ==
  ASSUME NEW S, IsFiniteSet(S), NEW f \in [S -> Nat], NEW h \in [S -> Nat],
         \A x \in S : f[x] <= h[x]
  PROVE  SumFunctionOnSet(f, S) <= SumFunctionOnSet(h, S)
<1> DEFINE g == SumBy(f, S)
           k == SumBy(h, S)
           B == {T \in SUBSET S : g[T] <= k[T]}
<1>1. \A T \in SUBSET S : /\ g[T] \in Nat /\ k[T] \in Nat
                          /\ \A x \in T : /\ g[T] = f[x] + g[T \ {x}]
                                          /\ k[T] = h[x] + k[T \ {x}]
  <2>1. \A T \in SUBSET S : g[T] \in Nat /\ \A x \in T : g[T] = f[x] + g[T \ {x}]
    BY SumByRemove
  <2>2. \A T \in SUBSET S : k[T] \in Nat /\ \A x \in T : k[T] = h[x] + k[T \ {x}]
    BY SumByRemove
  <2> HIDE DEF g, k
  <2> QED BY <2>1, <2>2
<1>2. g[{}] = 0 /\ k[{}] = 0
  BY SumByStep DEF SumStep
<1> HIDE DEF g, k
<1>3. ASSUME NEW T \in SUBSET S, \A U \in SUBSET T : U # T => U \in B
      PROVE  T \in B
  <2>1. CASE T = {}
    BY <1>2, <2>1
  <2>2. ASSUME NEW x \in T PROVE T \in B
    <3>1. T \ {x} \in B
      BY <1>3
    <3>2. /\ g[T] = f[x] + g[T \ {x}] /\ k[T] = h[x] + k[T \ {x}]
          /\ f[x] \in Nat /\ h[x] \in Nat /\ f[x] <= h[x]
          /\ g[T \ {x}] \in Nat /\ k[T \ {x}] \in Nat /\ g[T \ {x}] <= k[T \ {x}]
      BY <1>1, <3>1
    <3>3. \A a, b, d, e \in Nat : a <= b /\ d <= e => a + d <= b + e
      OBVIOUS
    <3> QED BY <3>2, <3>3
  <2> QED BY <2>1, <2>2
<1>4. S \in B
  <2>1. B \in SUBSET (SUBSET S)
    OBVIOUS
  <2>2. \A T \in SUBSET S : (\A U \in SUBSET T : U # T => U \in B) => T \in B
    BY <1>3
  <2> HIDE DEF B
  <2>3. \A T \in SUBSET S : T \in B
    BY <2>1, <2>2, SubsetInduction
  <2> QED BY <2>3
<1> QED BY <1>4, SumIsSumBy DEF g, k

\* A sum over two parts that share nothing.
LEMMA SumOfParts ==
  ASSUME NEW S, IsFiniteSet(S), NEW f \in [S -> Nat],
         NEW A \in SUBSET S, NEW B \in SUBSET S, A \cap B = {}
  PROVE  SumFunctionOnSet(f, A \cup B) = SumFunctionOnSet(f, A) + SumFunctionOnSet(f, B)
<1> DEFINE g == SumBy(f, S)
           C == {T \in SUBSET A : g[T \cup B] = g[T] + g[B]}
<1>1. \A T \in SUBSET S : g[T] \in Nat /\ \A x \in T : g[T] = f[x] + g[T \ {x}]
  BY SumByRemove
<1>2. g[{}] = 0
  BY SumByStep DEF SumStep
<1>3. \A T \in SUBSET S : SumFunctionOnSet(f, T) = g[T]
  <2> TAKE T \in SUBSET S
  <2>1. IsFiniteSet(T)
    BY FS_Subset
  <2>2. SumBy(f, T)[T] = SumBy(f, S)[T]
    BY <2>1, SumByAgree
  <2> QED BY <2>2, SumIsSumBy
<1>4. IsFiniteSet(A)
  BY FS_Subset
<1> HIDE DEF g
<1>5. ASSUME NEW T \in SUBSET A, \A U \in SUBSET T : U # T => U \in C
      PROVE  T \in C
  <2>1. CASE T = {}
    <3>1. T \cup B = B
      BY <2>1
    <3>2. g[B] \in Nat
      BY <1>1
    <3>3. g[T] = 0
      BY <1>2, <2>1
    <3>4. g[T \cup B] = g[T] + g[B]
      <4>1. g[T \cup B] = g[B]
        BY <3>1, Zenon
      <4>2. \A a \in Nat : a = 0 + a
        OBVIOUS
      <4> QED BY <3>2, <3>3, <4>1, <4>2
    <3> QED BY <3>4
  <2>2. ASSUME NEW x \in T PROVE T \in C
    <3>1. T \ {x} \in C
      BY <1>5
    <3>2. (T \cup B) \ {x} = (T \ {x}) \cup B /\ x \in T \cup B /\ T \cup B \in SUBSET S
      OBVIOUS
    <3>3. g[T \cup B] = f[x] + g[(T \cup B) \ {x}]
      BY <1>1, <3>2
    <3>4. /\ g[T] = f[x] + g[T \ {x}] /\ g[T \ {x}] \in Nat /\ g[B] \in Nat
          /\ f[x] \in Nat
      <4>1. T \in SUBSET S /\ T \ {x} \in SUBSET S
        OBVIOUS
      <4> QED BY <1>1, <4>1
    <3>5. g[(T \ {x}) \cup B] = g[T \ {x}] + g[B]
      BY <3>1
    <3>6. g[T \cup B] = f[x] + g[(T \ {x}) \cup B]
      BY <3>2, <3>3, Zenon
    <3>7. PICK a, b : a = g[T \ {x}] /\ b = g[B]
      OBVIOUS
    <3>8. a \in Nat /\ b \in Nat /\ f[x] + (a + b) = (f[x] + a) + b
      BY <3>4, <3>7
    <3>9. g[T \cup B] = g[T] + g[B]
      BY <3>4, <3>5, <3>6, <3>7, <3>8
    <3> QED BY <3>9
  <2> QED BY <2>1, <2>2
<1>6. A \in C
  <2>1. C \in SUBSET (SUBSET A)
    OBVIOUS
  <2>2. \A T \in SUBSET A : (\A U \in SUBSET T : U # T => U \in C) => T \in C
    BY <1>5
  <2> HIDE DEF C
  <2>3. \A T \in SUBSET A : T \in C
    BY <1>4, <2>1, <2>2, SubsetInduction
  <2> QED BY <2>3
<1>7. g[A \cup B] = g[A] + g[B]
  BY <1>6
<1> QED BY <1>3, <1>7

\* The elements of P that w sends to s.
Group(P, w, s) == {p \in P : w[p] = s}

\* A sum taken group by group: what w sends to T adds up to the groups of T.
LEMMA SumOfGroups ==
  ASSUME NEW P, IsFiniteSet(P), NEW f \in [P -> Nat], NEW S, IsFiniteSet(S), NEW w \in [P -> S],
         NEW g, \A s \in S : g[s] = SumFunctionOnSet(f, Group(P, w, s)),
         NEW O \in SUBSET S, \A p \in P : w[p] \notin O => f[p] = 0
  PROVE  SumFunctionOnSet(g, O) = SumFunctionOnSet(f, P)
<1> DEFINE G(T) == {p \in P : w[p] \in T}
           C == {T \in SUBSET O : SumFunctionOnSet(g, T) = SumFunctionOnSet(f, G(T))}
<1>1. \A T \in SUBSET P : SumFunctionOnSet(f, T) \in Nat
  <2> TAKE T \in SUBSET P
  <2>1. IsFiniteSet(T) /\ [p \in T |-> f[p]] \in [T -> Nat]
    BY FS_Subset
  <2>2. SumFunctionOnSet(f, T) = SumFunctionOnSet([p \in T |-> f[p]], T)
    BY <2>1, SumAgrees
  <2> QED BY <2>1, <2>2, SumIsNat
<1>2. \A s \in S : g[s] \in Nat
  BY <1>1 DEF Group
<1>3. ASSUME NEW T \in SUBSET O, \A U \in SUBSET T : U # T => U \in C
      PROVE  T \in C
  <2>1. CASE T = {}
    <3>1. G(T) = {}
      BY <2>1
    <3> HIDE DEF G
    <3> QED BY <2>1, <3>1, SumOfNone
  <2>2. ASSUME NEW x \in T PROVE T \in C
    <3>1. PICK R : R = T \ {x}
      OBVIOUS
    <3>2. R \in C /\ x \notin R /\ T = R \cup {x} /\ R \in SUBSET S /\ x \in S
      BY <1>3, <3>1
    <3>3. IsFiniteSet(R)
      BY <3>2, FS_Subset
    <3>4. SumFunctionOnSet(g, R \cup {x}) = SumFunctionOnSet(g, R) + g[x]
      <4>1. PICK h : h = g
        OBVIOUS
      <4>2. g[x] \in Nat /\ \A y \in R : h[y] \in Nat /\ g[y] = h[y]
        BY <1>2, <3>2, <4>1
      <4>3. SumFunctionOnSet(g, R \cup {x}) = SumFunctionOnSet(h, R) + g[x]
        BY <3>2, <3>3, <4>2, SumOfOneMore
      <4> QED BY <4>1, <4>3
    <3>5. PICK A, B : A = G(R) /\ B = Group(P, w, x)
      OBVIOUS
    <3>6. A \in SUBSET P /\ B \in SUBSET P /\ A \cap B = {} /\ G(T) = A \cup B
      BY <3>2, <3>5 DEF Group
    <3>7. SumFunctionOnSet(f, A \cup B) = SumFunctionOnSet(f, A) + SumFunctionOnSet(f, B)
      BY <3>6, SumOfParts
    <3>8. g[x] = SumFunctionOnSet(f, B) /\ SumFunctionOnSet(g, R) = SumFunctionOnSet(f, A)
      BY <3>2, <3>5
    <3>9. SumFunctionOnSet(g, T) = SumFunctionOnSet(f, G(T))
      BY <3>2, <3>4, <3>6, <3>7, <3>8
    <3> QED BY <3>9
  <2> QED BY <2>1, <2>2
<1>4. O \in C
  <2>1. C \in SUBSET (SUBSET O)
    OBVIOUS
  <2>2. \A T \in SUBSET O : (\A U \in SUBSET T : U # T => U \in C) => T \in C
    BY <1>3
  <2>3. IsFiniteSet(O)
    BY FS_Subset
  <2> HIDE DEF C
  <2>4. \A T \in SUBSET O : T \in C
    BY <2>1, <2>2, <2>3, SubsetInduction
  <2> QED BY <2>4
<1>5. PICK A, B : A = G(O) /\ B = P \ G(O)
  OBVIOUS
<1>6. A \in SUBSET P /\ B \in SUBSET P /\ A \cap B = {} /\ P = A \cup B /\ \A p \in B : f[p] = 0
  BY <1>5
<1>7. SumFunctionOnSet(f, A \cup B) = SumFunctionOnSet(f, A) + SumFunctionOnSet(f, B)
  BY <1>6, SumOfParts
<1>8. SumFunctionOnSet(f, B) = 0
  BY <1>6, FS_Subset, SumOfZeroes
<1>9. SumFunctionOnSet(f, A) \in Nat /\ SumFunctionOnSet(g, O) = SumFunctionOnSet(f, A)
  BY <1>1, <1>4, <1>5, <1>6
<1> QED BY <1>6, <1>7, <1>8, <1>9

\* The sum of two functions.
LEMMA SumOfSum ==
  ASSUME NEW S, IsFiniteSet(S), NEW f \in [S -> Nat], NEW h \in [S -> Nat],
         NEW k, \A x \in S : k[x] = f[x] + h[x]
  PROVE  SumFunctionOnSet(k, S) = SumFunctionOnSet(f, S) + SumFunctionOnSet(h, S)
<1> DEFINE q == [x \in S |-> f[x] + h[x]]
           C == {T \in SUBSET S : SumBy(q, S)[T] = SumBy(f, S)[T] + SumBy(h, S)[T]}
<1>0. q \in [S -> Nat] /\ \A x \in S : q[x] = f[x] + h[x]
  OBVIOUS
<1> HIDE DEF q
<1>1. /\ \A T \in SUBSET S : /\ SumBy(f, S)[T] \in Nat
                             /\ \A x \in T : SumBy(f, S)[T] = f[x] + SumBy(f, S)[T \ {x}]
      /\ \A T \in SUBSET S : /\ SumBy(h, S)[T] \in Nat
                             /\ \A x \in T : SumBy(h, S)[T] = h[x] + SumBy(h, S)[T \ {x}]
      /\ \A T \in SUBSET S : /\ SumBy(q, S)[T] \in Nat
                             /\ \A x \in T : SumBy(q, S)[T] = q[x] + SumBy(q, S)[T \ {x}]
  BY <1>0, SumByRemove
<1>2. SumBy(f, S)[{}] = 0 /\ SumBy(h, S)[{}] = 0 /\ SumBy(q, S)[{}] = 0
  BY SumByStep DEF SumStep
<1>3. ASSUME NEW T \in SUBSET S, \A U \in SUBSET T : U # T => U \in C
      PROVE  T \in C
  <2>1. CASE T = {}
    BY <1>2, <2>1
  <2>2. ASSUME NEW x \in T PROVE T \in C
    <3>1. T \ {x} \in C
      BY <1>3
    <3>2. PICK a, b, d : a = SumBy(f, S)[T \ {x}] /\ b = SumBy(h, S)[T \ {x}] /\ d = SumBy(q, S)[T \ {x}]
      OBVIOUS
    <3>3. a \in Nat /\ b \in Nat /\ d = a + b
      BY <1>1, <3>1, <3>2
    <3>4. f[x] \in Nat /\ h[x] \in Nat /\ q[x] = f[x] + h[x]
      BY <1>0
    <3>5. SumBy(f, S)[T] = f[x] + a /\ SumBy(h, S)[T] = h[x] + b /\ SumBy(q, S)[T] = q[x] + d
      BY <1>1, <3>2
    <3>6. \A e, i \in Nat : (e + i) + (a + b) = (e + a) + (i + b)
      BY <3>3
    <3> QED BY <3>3, <3>4, <3>5, <3>6
  <2> QED BY <2>1, <2>2
<1>4. S \in C
  <2>1. C \in SUBSET (SUBSET S)
    OBVIOUS
  <2>2. \A T \in SUBSET S : (\A U \in SUBSET T : U # T => U \in C) => T \in C
    BY <1>3
  <2> HIDE DEF C
  <2>3. \A T \in SUBSET S : T \in C
    BY <2>1, <2>2, SubsetInduction
  <2> QED BY <2>3
<1>5. SumFunctionOnSet(k, S) = SumFunctionOnSet(q, S)
  BY <1>0, SumAgrees
<1> QED BY <1>4, <1>5, SumIsSumBy

\* A sum with one term that is not zero.
LEMMA SumOfOneTerm ==
  ASSUME NEW S, IsFiniteSet(S), NEW x \in S, NEW f, f[x] \in Nat, \A y \in S : y # x => f[y] = 0
  PROVE  SumFunctionOnSet(f, S) = f[x]
<1>1. PICK R : R = S \ {x}
  OBVIOUS
<1>2. IsFiniteSet(R) /\ x \notin R /\ S = R \cup {x} /\ \A y \in R : f[y] = 0
  BY <1>1, FS_RemoveElement
<1>3. SumFunctionOnSet(f, R) = 0
  BY <1>2, SumOfZeroes
<1>4. SumFunctionOnSet(f, R \cup {x}) = SumFunctionOnSet(f, R) + f[x]
  BY <1>2, SumOfOneMore
<1> QED BY <1>2, <1>3, <1>4
=============================================================================
