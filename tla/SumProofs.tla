------------------------------- MODULE SumProofs -------------------------------
(***************************************************************************)
(* Lemmas about SumFunctionOnSet of the module Functions: the sum of the   *)
(* values of a function over a finite set, for every function and set.     *)
(*                                                                         *)
(* The operator is a recursive function on the subsets of the set, which   *)
(* takes one element away at a time, whichever CHOOSE names.  That there   *)
(* is such a function, and that the order does not matter, follows from    *)
(* this: among finite sets there is always a smallest one.                 *)
(***************************************************************************)
EXTENDS FiniteSetTheorems, TLAPS

-----------------------------------------------------------------------------
(* Smallest sets in the place of induction.                                *)

\* Of finitely many or infinitely many finite sets one contains no other.
LEMMA SmallestSet ==
    ASSUME NEW S, NEW B, B \subseteq FiniteSubsetsOf(S), B # {}
    PROVE  \E T \in B : \A U \in B : U \subseteq T => U = T
<1>1. PICK T \in B : \A U \in B : ~ (<<U, T>> \in StrictSubsetOrdering(S))
  BY FS_StrictSubsetOrderingWellFounded, WFMin
<1>2. T \in SUBSET S /\ \A U \in B : U \in SUBSET S
  BY DEF FiniteSubsetsOf
<1>3. ASSUME NEW U \in B, U \subseteq T, U # T PROVE FALSE
  BY <1>1, <1>2, <1>3 DEF StrictSubsetOrdering
<1>4. QED BY <1>3

\* A set that is larger by one element than one of the family.
LEMMA SmallestHasPredecessor ==
    ASSUME NEW S, IsFiniteSet(S), NEW B, B \subseteq SUBSET S, B # {}, {} \notin B
    PROVE  \E T \in B : \E x \in T : T \ {x} \in SUBSET S /\ T \ {x} \notin B
<1>1. B \subseteq FiniteSubsetsOf(S)
  BY FS_Subset DEF FiniteSubsetsOf
<1>2. PICK T \in B : \A U \in B : U \subseteq T => U = T
  BY <1>1, SmallestSet
<1>3. PICK x : x \in T
  OBVIOUS
<1>4. T \ {x} \in SUBSET S /\ T \ {x} \subseteq T /\ T \ {x} # T
  BY <1>3
<1>5. QED BY <1>2, <1>3, <1>4

-----------------------------------------------------------------------------
(* The sums over all subsets of a set.                                     *)

Sums(w, S, f) ==
    /\ f \in [SUBSET S -> Int]
    /\ f[{}] = 0
    /\ \A T \in SUBSET S : \A x \in S \ T : f[T \cup {x}] = f[T] + w[x]

\* One element more: the sums with it and those without.
LEMMA SumsExtend ==
    ASSUME NEW w, NEW S, NEW y \in S, \A x \in S : w[x] \in Int,
           NEW g, Sums(w, S \ {y}, g)
    PROVE  \E f : Sums(w, S, f)
<1> DEFINE f == [T \in SUBSET S |-> IF y \in T THEN g[T \ {y}] + w[y] ELSE g[T]]
<1> SUFFICES Sums(w, S, f)
  OBVIOUS
<1>1. \A T \in SUBSET S : T \ {y} \in SUBSET (S \ {y}) /\ (y \notin T => T \in SUBSET (S \ {y}))
  OBVIOUS
<1>2. f \in [SUBSET S -> Int]
  BY <1>1 DEF Sums
<1>3. f[{}] = 0
  BY DEF Sums
<1>4. ASSUME NEW T \in SUBSET S, NEW x \in S \ T PROVE f[T \cup {x}] = f[T] + w[x]
  <2>1. f[T \cup {x}] = IF y \in T \cup {x} THEN g[(T \cup {x}) \ {y}] + w[y] ELSE g[T \cup {x}]
    OBVIOUS
  <2>2. CASE x = y
    <3>1. (T \cup {x}) \ {y} = T /\ y \notin T
      BY <2>2
    <3>2. QED BY <2>1, <2>2, <3>1
  <2>3. CASE x # y /\ y \in T
    <3>1. (T \cup {x}) \ {y} = (T \ {y}) \cup {x}
      BY <2>3
    <3>2. g[(T \ {y}) \cup {x}] = g[T \ {y}] + w[x]
      BY <1>1, <2>3 DEF Sums
    <3>3. g[T \ {y}] \in Int /\ g[(T \ {y}) \cup {x}] \in Int
      BY <1>1, <2>3 DEF Sums
    <3>4. f[T] = g[T \ {y}] + w[y]
      BY <2>3
    <3>5. f[T \cup {x}] = g[(T \ {y}) \cup {x}] + w[y]
      BY <2>1, <2>3, <3>1
    <3>6. w[x] \in Int /\ w[y] \in Int
      OBVIOUS
    <3> HIDE DEF f
    <3>7. QED BY <3>2, <3>3, <3>4, <3>5, <3>6
  <2>4. CASE x # y /\ y \notin T
    <3>1. f[T \cup {x}] = g[T \cup {x}] /\ f[T] = g[T]
      BY <2>1, <2>4
    <3>2. QED BY <1>1, <2>4, <3>1 DEF Sums
  <2>5. QED BY <2>2, <2>3, <2>4
<1>5. QED BY <1>2, <1>3, <1>4 DEF Sums

\* Every finite set has its sums.
LEMMA SumsExist ==
    ASSUME NEW w, NEW S, IsFiniteSet(S), \A x \in S : w[x] \in Int
    PROVE  \E f : Sums(w, S, f)
<1> DEFINE B == {T \in SUBSET S : ~ \E f : Sums(w, T, f)}
<1> SUFFICES ASSUME B # {} PROVE FALSE
  OBVIOUS
<1>1. {} \notin B
  <2> DEFINE f == [T \in SUBSET {} |-> 0]
  <2>1. Sums(w, {}, f)
    BY DEF Sums
  <2>2. QED BY <2>1
<1>2. PICK T \in B : \E y \in T : T \ {y} \in SUBSET S /\ T \ {y} \notin B
  BY <1>1, SmallestHasPredecessor
<1>3. PICK y \in T : T \ {y} \in SUBSET S /\ T \ {y} \notin B
  BY <1>2
<1>4. PICK g : Sums(w, T \ {y}, g)
  BY <1>3
<1>5. \E f : Sums(w, T, f)
  BY <1>4, SumsExtend
<1>6. QED BY <1>5

\* The function that SumFunctionOnSet recurs on, for the subsets of a set.
Recursion(w, S, h) ==
    h = [T \in SUBSET S |-> IF T = {} THEN 0
                            ELSE LET x == CHOOSE y \in T : TRUE IN w[x] + h[T \ {x}]]

\* It is the one that Recursion determines.
LEMMA SumUnfolded ==
    ASSUME NEW w, NEW S
    PROVE  SumFunctionOnSet(w, S) = (CHOOSE h : Recursion(w, S, h))[S]
BY DEF SumFunctionOnSet, FoldFunctionOnSet, MapThenFoldSet, Recursion

\* The sums over the subsets obey the recursion, whichever element it takes.
LEMMA SumsRecur ==
    ASSUME NEW w, NEW S, \A x \in S : w[x] \in Int, NEW f, Sums(w, S, f)
    PROVE  Recursion(w, S, f)
<1> DEFINE F == [T \in SUBSET S |-> IF T = {} THEN 0
                                   ELSE LET x == CHOOSE y \in T : TRUE IN w[x] + f[T \ {x}]]
<1>1. ASSUME NEW T \in SUBSET S PROVE f[T] = F[T]
  <2>1. CASE T = {}
    BY <2>1 DEF Sums
  <2>2. CASE T # {}
    <3>1. PICK x : x = CHOOSE y \in T : TRUE
      OBVIOUS
    <3>2. x \in T
      BY <2>2, <3>1
    <3>3. T \ {x} \in SUBSET S /\ x \in S \ (T \ {x}) /\ (T \ {x}) \cup {x} = T
      BY <3>2
    <3>4. f[T] = f[T \ {x}] + w[x] /\ f[T \ {x}] \in Int /\ w[x] \in Int
      BY <3>3 DEF Sums
    <3>5. F[T] = w[x] + f[T \ {x}]
      BY <2>2, <3>1
    <3>6. QED BY <3>4, <3>5
  <2>3. QED BY <2>1, <2>2
<1>2. f = [T \in SUBSET S |-> f[T]]
  BY DEF Sums
<1>3. f = F
  BY <1>1, <1>2
<1>4. QED BY <1>3 DEF Recursion

\* No other function obeys it.
LEMMA RecursionUnique ==
    ASSUME NEW w, NEW S, IsFiniteSet(S), NEW f, Recursion(w, S, f), NEW h, Recursion(w, S, h)
    PROVE  f[S] = h[S]
<1> DEFINE B == {T \in SUBSET S : f[T] # h[T]}
<1> SUFFICES ASSUME B # {} PROVE FALSE
  OBVIOUS
<1>1. f[{}] = h[{}]
  BY DEF Recursion
<1>2. B \subseteq FiniteSubsetsOf(S)
  BY FS_Subset DEF FiniteSubsetsOf
<1>a. \A T : T \in B <=> T \in SUBSET S /\ f[T] # h[T]
  OBVIOUS
<1>b. B # {}
  OBVIOUS
<1> HIDE DEF B
<1>3. PICK T \in B : \A U \in B : U \subseteq T => U = T
  BY <1>2, <1>b, SmallestSet
<1>4. T # {} /\ T \in SUBSET S
  BY <1>1, <1>3, <1>a
<1>5. PICK x : x = CHOOSE y \in T : TRUE
  OBVIOUS
<1>6. x \in T
  BY <1>4, <1>5
<1>7. f[T \ {x}] = h[T \ {x}]
  BY <1>3, <1>4, <1>6, <1>a
<1>8. f[T] = w[x] + f[T \ {x}] /\ h[T] = w[x] + h[T \ {x}]
  BY <1>4, <1>5 DEF Recursion
<1>9. QED BY <1>3, <1>7, <1>8, <1>a

\* SumFunctionOnSet is what the sums say.
LEMMA SumIsSums ==
    ASSUME NEW w, NEW S, IsFiniteSet(S), \A x \in S : w[x] \in Int, NEW f, Sums(w, S, f)
    PROVE  SumFunctionOnSet(w, S) = f[S]
<1> DEFINE h == CHOOSE f0 : Recursion(w, S, f0)
<1>1. Recursion(w, S, f)
  BY SumsRecur
<1>2. Recursion(w, S, h)
  BY <1>1
<1>3. SumFunctionOnSet(w, S) = h[S]
  BY SumUnfolded
<1> HIDE DEF h
<1>4. f[S] = h[S]
  BY <1>1, <1>2, RecursionUnique
<1>5. QED BY <1>3, <1>4

-----------------------------------------------------------------------------
(* What the other modules cite.                                            *)

\* The sums of all subsets at once.
LEMMA SumOfSubsets ==
    ASSUME NEW w, NEW S, IsFiniteSet(S), \A x \in S : w[x] \in Int
    PROVE  \E f : Sums(w, S, f) /\ \A T \in SUBSET S : SumFunctionOnSet(w, T) = f[T]
<1>1. PICK f : Sums(w, S, f)
  BY SumsExist
<1>2. ASSUME NEW T \in SUBSET S PROVE SumFunctionOnSet(w, T) = f[T]
  <2> DEFINE g == [U \in SUBSET T |-> f[U]]
  <2>1. /\ IsFiniteSet(T) /\ \A x \in T : w[x] \in Int
        /\ \A U \in SUBSET T : U \in SUBSET S
    BY FS_Subset
  <2>2. Sums(w, T, g)
    BY <1>1, <2>1 DEF Sums
  <2>3. g[T] = f[T]
    OBVIOUS
  <2> HIDE DEF g
  <2>4. QED BY <2>1, <2>2, <2>3, SumIsSums
<1>3. QED BY <1>1, <1>2

\* The sum of integers is an integer.
LEMMA SumType ==
    ASSUME NEW w, NEW S, IsFiniteSet(S), \A x \in S : w[x] \in Int
    PROVE  SumFunctionOnSet(w, S) \in Int
<1>1. PICK f : Sums(w, S, f) /\ \A T \in SUBSET S : SumFunctionOnSet(w, T) = f[T]
  BY SumOfSubsets
<1>2. f[S] \in Int /\ SumFunctionOnSet(w, S) = f[S]
  BY <1>1 DEF Sums
<1>3. QED BY <1>2

\* The sum of nothing.
LEMMA SumEmpty == ASSUME NEW w PROVE SumFunctionOnSet(w, {}) = 0
<1>1. IsFiniteSet({}) /\ \A x \in {} : w[x] \in Int
  BY FS_EmptySet
<1>2. PICK f : Sums(w, {}, f) /\ \A T \in SUBSET {} : SumFunctionOnSet(w, T) = f[T]
  BY <1>1, SumOfSubsets
<1>3. f[{}] = 0 /\ SumFunctionOnSet(w, {}) = f[{}]
  BY <1>2 DEF Sums
<1>4. QED BY <1>3

\* One element more.
LEMMA SumAdd ==
    ASSUME NEW w, NEW S, IsFiniteSet(S), \A x \in S : w[x] \in Int, NEW y, y \notin S, w[y] \in Int
    PROVE  SumFunctionOnSet(w, S \cup {y}) = SumFunctionOnSet(w, S) + w[y]
<1>1. IsFiniteSet(S \cup {y}) /\ \A x \in S \cup {y} : w[x] \in Int
  BY FS_AddElement
<1>2. PICK f : /\ Sums(w, S \cup {y}, f)
               /\ \A T \in SUBSET (S \cup {y}) : SumFunctionOnSet(w, T) = f[T]
  BY <1>1, SumOfSubsets
<1>3. f[S \cup {y}] = f[S] + w[y]
  BY <1>2 DEF Sums
<1>4. QED BY <1>2, <1>3

\* One element less.
LEMMA SumRemove ==
    ASSUME NEW w, NEW S, IsFiniteSet(S), \A x \in S : w[x] \in Int, NEW y \in S
    PROVE  SumFunctionOnSet(w, S \ {y}) = SumFunctionOnSet(w, S) - w[y]
<1>1. IsFiniteSet(S \ {y}) /\ (\A x \in S \ {y} : w[x] \in Int) /\ w[y] \in Int
  BY FS_RemoveElement
<1>2. (S \ {y}) \cup {y} = S /\ y \notin S \ {y}
  OBVIOUS
<1> DEFINE T == S \ {y}
<1>3. SumFunctionOnSet(w, T \cup {y}) = SumFunctionOnSet(w, T) + w[y]
  <2> HIDE DEF T
  <2> SUFFICES y \notin T /\ IsFiniteSet(T) /\ \A x \in T : w[x] \in Int
    BY <1>1, SumAdd
  <2> QED BY <1>1, <1>2 DEF T
<1>4. SumFunctionOnSet(w, T) \in Int /\ SumFunctionOnSet(w, S) \in Int
  BY <1>1, SumType
<1>5. SumFunctionOnSet(w, S) = SumFunctionOnSet(w, T) + w[y]
  BY <1>2, <1>3, Zenon
<1> HIDE DEF T
<1>6. SumFunctionOnSet(w, T) = SumFunctionOnSet(w, S) - w[y]
  BY <1>1, <1>4, <1>5
<1>7. QED BY <1>6 DEF T

\* Only the values on the set count.
LEMMA SumCongruent ==
    ASSUME NEW w, NEW v, NEW S, IsFiniteSet(S), \A x \in S : w[x] \in Int /\ v[x] = w[x]
    PROVE  SumFunctionOnSet(v, S) = SumFunctionOnSet(w, S)
<1>1. PICK f : Sums(w, S, f)
  BY SumsExist
<1>2. Sums(v, S, f)
  BY <1>1 DEF Sums
<1>3. QED BY <1>1, <1>2, SumIsSums

\* One value changed.
LEMMA SumUpdate ==
    ASSUME NEW w, NEW v, NEW S, IsFiniteSet(S), \A x \in S : w[x] \in Int /\ v[x] \in Int,
           NEW y \in S, \A x \in S \ {y} : v[x] = w[x]
    PROVE  SumFunctionOnSet(v, S) = SumFunctionOnSet(w, S) - w[y] + v[y]
<1>1. IsFiniteSet(S \ {y})
  BY FS_RemoveElement
<1>2. SumFunctionOnSet(v, S \ {y}) = SumFunctionOnSet(w, S \ {y})
  BY <1>1, SumCongruent
<1>3. /\ SumFunctionOnSet(v, S \ {y}) = SumFunctionOnSet(v, S) - v[y]
      /\ SumFunctionOnSet(w, S \ {y}) = SumFunctionOnSet(w, S) - w[y]
  BY SumRemove
<1>4. SumFunctionOnSet(v, S) \in Int /\ SumFunctionOnSet(w, S) \in Int
  BY SumType
<1>5. QED BY <1>2, <1>3, <1>4

\* Values none of which is below zero.
LEMMA SumNonNegative ==
    ASSUME NEW w, NEW S, IsFiniteSet(S), \A x \in S : w[x] \in Int /\ w[x] >= 0
    PROVE  SumFunctionOnSet(w, S) >= 0
<1>1. PICK f : Sums(w, S, f) /\ \A T \in SUBSET S : SumFunctionOnSet(w, T) = f[T]
  BY SumOfSubsets
<1> DEFINE B == {T \in SUBSET S : ~ (f[T] >= 0)}
<1>2. ASSUME B # {} PROVE FALSE
  <2>1. {} \notin B
    BY <1>1 DEF Sums
  <2>2. B \subseteq SUBSET S /\ \A T \in SUBSET S : T \notin B => f[T] >= 0
    OBVIOUS
  <2>3. \A T \in B : ~ (f[T] >= 0)
    OBVIOUS
  <2> HIDE DEF B
  <2>4. PICK T \in B : \E x \in T : T \ {x} \in SUBSET S /\ T \ {x} \notin B
    BY <1>2, <2>1, <2>2, SmallestHasPredecessor
  <2>5. PICK x \in T : T \ {x} \in SUBSET S /\ T \ {x} \notin B
    BY <2>4
  <2>6. T \in SUBSET S /\ (T \ {x}) \cup {x} = T /\ x \in S \ (T \ {x})
    BY <2>2, <2>4, <2>5
  <2>7. f[T] = f[T \ {x}] + w[x] /\ f[T \ {x}] \in Int /\ w[x] \in Int /\ w[x] >= 0
    BY <1>1, <2>5, <2>6 DEF Sums
  <2>8. f[T \ {x}] >= 0
    BY <2>2, <2>5
  <2>9. QED BY <2>3, <2>4, <2>7, <2>8
<1>3. f[S] >= 0
  BY <1>2
<1>4. QED BY <1>1, <1>3

\* Values none of which is above a bound.
LEMMA SumBounded ==
    ASSUME NEW w, NEW S, IsFiniteSet(S), NEW b \in Int, \A x \in S : w[x] \in Int /\ w[x] <= b
    PROVE  SumFunctionOnSet(w, S) <= Cardinality(S) * b
<1>1. PICK f : Sums(w, S, f) /\ \A T \in SUBSET S : SumFunctionOnSet(w, T) = f[T]
  BY SumOfSubsets
<1> DEFINE B == {T \in SUBSET S : ~ (f[T] <= Cardinality(T) * b)}
<1>2. ASSUME B # {} PROVE FALSE
  <2>1. {} \notin B
    BY <1>1, FS_EmptySet DEF Sums
  <2>2. B \subseteq SUBSET S /\ \A T \in SUBSET S : T \notin B => f[T] <= Cardinality(T) * b
    OBVIOUS
  <2>3. \A T \in B : ~ (f[T] <= Cardinality(T) * b)
    OBVIOUS
  <2> HIDE DEF B
  <2>4. PICK T \in B : \E x \in T : T \ {x} \in SUBSET S /\ T \ {x} \notin B
    BY <1>2, <2>1, <2>2, SmallestHasPredecessor
  <2>5. PICK x \in T : T \ {x} \in SUBSET S /\ T \ {x} \notin B
    BY <2>4
  <2>6. T \in SUBSET S /\ (T \ {x}) \cup {x} = T /\ x \in S \ (T \ {x})
    BY <2>2, <2>4, <2>5
  <2>7. f[T] = f[T \ {x}] + w[x] /\ f[T \ {x}] \in Int /\ w[x] \in Int /\ w[x] <= b
    BY <1>1, <2>5, <2>6 DEF Sums
  <2>8. f[T \ {x}] <= Cardinality(T \ {x}) * b
    BY <2>2, <2>5
  <2>9. IsFiniteSet(T)
    BY <2>6, FS_Subset
  <2>10. Cardinality(T) = Cardinality(T \ {x}) + 1 /\ Cardinality(T \ {x}) \in Nat
    <3>1. IsFiniteSet(T \ {x}) /\ Cardinality(T \ {x}) = Cardinality(T) - 1
      BY <2>5, <2>9, FS_RemoveElement
    <3>2. Cardinality(T \ {x}) \in Nat /\ Cardinality(T) \in Nat
      BY <2>9, <3>1, FS_CardinalityType
    <3>3. QED BY <3>1, <3>2
  <2>11. Cardinality(T) * b = Cardinality(T \ {x}) * b + b
    BY <2>10
  <2>12. Cardinality(T \ {x}) * b \in Int
    BY <2>10
  <2>13. f[T] <= Cardinality(T) * b
    BY <2>7, <2>8, <2>11, <2>12
  <2>14. QED BY <2>3, <2>4, <2>13
<1>3. f[S] <= Cardinality(S) * b
  BY <1>2
<1>4. QED BY <1>1, <1>3
=============================================================================
