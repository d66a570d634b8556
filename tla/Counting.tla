------------------------------- MODULE Counting -------------------------------
(***************************************************************************)
(* Induction, and the sums that the models take with MapThenSumSet.  The   *)
(* provers cannot instantiate an induction theorem, whose hypothesis is an *)
(* operator, but they can use the least element of a set of numbers: a     *)
(* fact about every finite set is proved by looking at a counterexample of *)
(* the least cardinality.                                                  *)
(***************************************************************************)
EXTENDS Integers, FiniteSets, FiniteSetsExt, FiniteSetTheorems, WellFoundedInduction, TLAPS

(* A set of natural numbers that is not empty has a least element.           *)
LEMMA LeastNat ==
  ASSUME NEW T, T \subseteq Nat, T # {}
  PROVE  \E x \in T : \A y \in T : x <= y
<1>1. \E x \in T : \A y \in T : ~ (<<y, x>> \in OpToRel(<, Nat))
  BY NatLessThanWellFounded, WFMin, Zenon
<1>2. PICK x \in T : \A y \in T : ~ (<<y, x>> \in OpToRel(<, Nat)) BY <1>1, Zenon
<1>3. \A y \in T : ~(y < x) BY <1>2 DEF OpToRel
<1> QED BY <1>3

-----------------------------------------------------------------------------
(* The sum of a function over a set, as the community module computes it.    *)
SumOver(f, S) == MapThenSumSet(LAMBDA x : f[x], S)

(* What MapThenSumSet's recursive function satisfies on a set of sets.       *)
Unfolds(f, D, g) ==
  g = [s \in D |-> IF s = {} THEN 0 ELSE f[CHOOSE x \in s : TRUE] + g[s \ {CHOOSE x \in s : TRUE}]]

(* The sum over S is the value at S of a function that Unfolds on its subsets. *)
LEMMA SumIsUnfolded ==
  ASSUME NEW f, NEW S
  PROVE  SumOver(f, S) = (CHOOSE g : Unfolds(f, SUBSET S, g))[S]
  BY DEF SumOver, MapThenSumSet, MapThenFoldSet, Unfolds

(* Taking the chosen element away leaves a set with one element less.        *)
LEMMA SmallerByOne ==
  ASSUME NEW s, IsFiniteSet(s), s # {}
  PROVE  LET x == CHOOSE x \in s : TRUE
         IN  /\ x \in s /\ IsFiniteSet(s \ {x}) 
             /\ Cardinality(s \ {x}) = Cardinality(s) - 1 
             /\ Cardinality(s) \in Nat /\ Cardinality(s) # 0
  BY FS_RemoveElement, FS_CardinalityType, FS_EmptySet

(* The subsets of S with at most n elements.                                 *)
Sub(S, n) == {s \in SUBSET S : Cardinality(s) <= n}

(* On the subsets of a finite set such a function exists.                    *)
LEMMA SumExists ==
  ASSUME NEW f, NEW S, IsFiniteSet(S)
  PROVE  \E g : Unfolds(f, SUBSET S, g)
<1> DEFINE T == {n \in Nat : ~ \E g : Unfolds(f, Sub(S, n), g)}
<1>1. T = {}
  <2> SUFFICES ASSUME T # {} PROVE FALSE OBVIOUS
  <2>1. PICK n \in T : \A m \in T : n <= m BY LeastNat
  <2>2. n # 0
    <3>1. Sub(S, 0) = {{}} BY FS_Subset, FS_EmptySet, FS_CardinalityType DEF Sub
    <3> HIDE DEF T
    <3>2. Unfolds(f, {{}}, [s \in {{}} |-> 0]) BY DEF Unfolds
    <3> USE DEF T
    <3> QED BY <3>1, <3>2
  <2>3. n - 1 \in Nat /\ n - 1 \notin T BY <2>1, <2>2
  <2>4. PICK g : Unfolds(f, Sub(S, n - 1), g) BY <2>3
  <2> DEFINE c(s) == CHOOSE x \in s : TRUE
             h == [s \in Sub(S, n) |-> IF s = {} THEN 0 ELSE f[c(s)] + g[s \ {c(s)}]]
  <2>5. \A s \in Sub(S, n) : s # {} => s \ {c(s)} \in Sub(S, n - 1) /\ s \ {c(s)} \in Sub(S, n)
    BY SmallerByOne, FS_Subset, <2>1, FS_CardinalityType DEF Sub
  <2>6. \A s \in Sub(S, n - 1) : s \in Sub(S, n) /\ h[s] = g[s]
    <3> SUFFICES ASSUME NEW s \in Sub(S, n - 1) PROVE s \in Sub(S, n) /\ h[s] = g[s] OBVIOUS
    <3>1. s \in Sub(S, n) BY FS_Subset, FS_CardinalityType, <2>1 DEF Sub
    <3>2. h[s] = IF s = {} THEN 0 ELSE f[c(s)] + g[s \ {c(s)}] BY <3>1
    <3>3. g[s] = IF s = {} THEN 0 ELSE f[c(s)] + g[s \ {c(s)}] BY <2>4 DEF Unfolds
    <3> QED BY <3>1, <3>2, <3>3
  <2>7. \A s \in Sub(S, n) : s # {} => h[s \ {c(s)}] = g[s \ {c(s)}] BY <2>5, <2>6
  <2>8. h = [s \in Sub(S, n) |-> IF s = {} THEN 0 ELSE f[c(s)] + h[s \ {c(s)}]]
    <3> HIDE DEF c
    <3> QED BY <2>7
  <2>9. Unfolds(f, Sub(S, n), h) 
    <3> HIDE DEF h
    <3> QED BY <2>8 DEF Unfolds
  <2> QED BY <2>1, <2>9
<1>2. Sub(S, Cardinality(S)) = SUBSET S BY FS_Subset DEF Sub
<1>3. \E g : Unfolds(f, Sub(S, Cardinality(S)), g) BY <1>1, FS_CardinalityType
<1> QED BY <1>2, <1>3, Zenon

(* Its values do not depend on the set it is defined for.                    *)
LEMMA SumIsUnique ==
  ASSUME NEW f, NEW S, NEW R \in SUBSET S, IsFiniteSet(S),
         NEW g, NEW h, Unfolds(f, SUBSET S, g), Unfolds(f, SUBSET R, h)
  PROVE  \A s \in SUBSET R : g[s] = h[s]
<1> DEFINE T == {n \in Nat : \E s \in SUBSET R : Cardinality(s) = n /\ g[s] # h[s]}
<1>1. \A s \in SUBSET R : IsFiniteSet(s) /\ Cardinality(s) \in Nat BY FS_Subset, FS_CardinalityType
<1>2. T = {}
  <2> SUFFICES ASSUME T # {} PROVE FALSE OBVIOUS
  <2>1. PICK n \in T : \A m \in T : n <= m BY LeastNat
  <2>2. PICK s \in SUBSET R : Cardinality(s) = n /\ g[s] # h[s] BY <2>1
  <2> DEFINE c == CHOOSE x \in s : TRUE
  <2>3. /\ g[s] = IF s = {} THEN 0 ELSE f[c] + g[s \ {c}]
        /\ h[s] = IF s = {} THEN 0 ELSE f[c] + h[s \ {c}]
    BY <2>2 DEF Unfolds
  <2>4. s # {} BY <2>2, <2>3
  <2>5. Cardinality(s \ {c}) = n - 1 /\ n - 1 \in Nat BY <2>2, <2>4, <1>1, SmallerByOne
  <2>6. g[s \ {c}] = h[s \ {c}] 
    <3>1. s \ {c} \in SUBSET R BY <2>2
    <3>2. n - 1 \notin T BY <2>1, <2>5
    <3> QED BY <3>1, <3>2, <2>5
  <2> QED BY <2>2, <2>3, <2>4, <2>6
<1> QED BY <1>1, <1>2

(* The sum over a set that is not empty is that of one element and the rest, *)
(* the sum over no element is zero.                                          *)
LEMMA SumByChoice ==
  ASSUME NEW f, NEW S, IsFiniteSet(S)
  PROVE  SumOver(f, S) = IF S = {} THEN 0 ELSE f[CHOOSE x \in S : TRUE] + SumOver(f, S \ {CHOOSE x \in S : TRUE})
<1> DEFINE c == CHOOSE x \in S : TRUE
           R == S \ {c}
           g == CHOOSE g : Unfolds(f, SUBSET S, g)
           h == CHOOSE h : Unfolds(f, SUBSET R, h)
<1>1. IsFiniteSet(R) /\ R \in SUBSET S BY FS_Subset
<1>2. Unfolds(f, SUBSET S, g) BY SumExists
<1>3. Unfolds(f, SUBSET R, h) BY SumExists, <1>1
<1>4. SumOver(f, S) = g[S] /\ SumOver(f, R) = h[R] BY SumIsUnfolded
<1> HIDE DEF g, h
<1>5. g[R] = h[R]
  <2> HIDE DEF R
  <2>1. \A s \in SUBSET R : g[s] = h[s] BY <1>1, <1>2, <1>3, SumIsUnique, SMTT(60)
  <2> QED BY <2>1
<1>6. g[S] = IF S = {} THEN 0 ELSE f[c] + g[R] BY <1>2 DEF Unfolds
<1> QED BY <1>4, <1>5, <1>6

(* A sum of natural numbers is one.                                          *)
LEMMA SumIsNat ==
  ASSUME NEW f, NEW S, IsFiniteSet(S), \A x \in S : f[x] \in Nat
  PROVE  SumOver(f, S) \in Nat
<1> DEFINE T == {n \in Nat : \E s \in SUBSET S : Cardinality(s) = n /\ SumOver(f, s) \notin Nat}
<1>1. \A s \in SUBSET S : IsFiniteSet(s) /\ Cardinality(s) \in Nat BY FS_Subset, FS_CardinalityType
<1>2. T = {}
  <2> SUFFICES ASSUME T # {} PROVE FALSE OBVIOUS
  <2>1. PICK n \in T : \A m \in T : n <= m BY LeastNat
  <2>2. PICK s \in SUBSET S : Cardinality(s) = n /\ SumOver(f, s) \notin Nat BY <2>1
  <2> DEFINE c == CHOOSE x \in s : TRUE
  <2>3. SumOver(f, s) = IF s = {} THEN 0 ELSE f[c] + SumOver(f, s \ {c}) BY <2>2, <1>1, SumByChoice
  <2>4. s # {} BY <2>2, <2>3
  <2>5. Cardinality(s \ {c}) = n - 1 /\ n - 1 \in Nat /\ c \in s BY <2>2, <2>4, <1>1, SmallerByOne
  <2>6. SumOver(f, s \ {c}) \in Nat
    <3>1. s \ {c} \in SUBSET S BY <2>2
    <3>2. n - 1 \notin T BY <2>1, <2>5
    <3> QED BY <3>1, <3>2, <2>5
  <2> QED BY <2>2, <2>3, <2>4, <2>5, <2>6
<1> QED BY <1>1, <1>2

(* The sum does not depend on the element taken first.                       *)
LEMMA SumByElement ==
  ASSUME NEW f, NEW S, IsFiniteSet(S), \A x \in S : f[x] \in Nat, NEW y \in S
  PROVE  SumOver(f, S) = f[y] + SumOver(f, S \ {y})
<1> DEFINE Splits(s) == \A z \in s : SumOver(f, s) = f[z] + SumOver(f, s \ {z})
           T == {n \in Nat : \E s \in SUBSET S : Cardinality(s) = n /\ ~Splits(s)}
<1>1. \A s \in SUBSET S : IsFiniteSet(s) /\ Cardinality(s) \in Nat BY FS_Subset, FS_CardinalityType
<1>2. \A s \in SUBSET S : SumOver(f, s) \in Nat BY SumIsNat, <1>1
<1>3. T = {}
  <2> SUFFICES ASSUME T # {} PROVE FALSE OBVIOUS
  <2>1. PICK n \in T : \A m \in T : n <= m BY LeastNat
  <2>2. PICK s \in SUBSET S : Cardinality(s) = n /\ ~Splits(s) BY <2>1
  <2>3. PICK z \in s : SumOver(f, s) # f[z] + SumOver(f, s \ {z}) BY <2>2
  <2> DEFINE c == CHOOSE x \in s : TRUE
  <2>4. SumOver(f, s) = f[c] + SumOver(f, s \ {c}) /\ c \in s BY <2>2, <2>3, <1>1, SumByChoice
  <2>5. c # z BY <2>3, <2>4
  <2>6. \A x \in s : Cardinality(s \ {x}) = n - 1 /\ n - 1 \in Nat
    <3> SUFFICES ASSUME NEW x \in s PROVE Cardinality(s \ {x}) = n - 1 /\ n - 1 \in Nat OBVIOUS
    <3>1. IsFiniteSet(s) /\ Cardinality(s) = n /\ n \in Nat BY <2>2, <1>1
    <3>2. Cardinality(s \ {x}) = Cardinality(s) - 1 BY <3>1, FS_RemoveElement
    <3>3. n # 0 BY <3>1, FS_EmptySet
    <3> QED BY <3>1, <3>2, <3>3
  <2>7. \A x \in s : Splits(s \ {x})
    <3> SUFFICES ASSUME NEW x \in s PROVE Splits(s \ {x}) OBVIOUS
    <3>1. s \ {x} \in SUBSET S BY <2>2
    <3>2. n - 1 \notin T BY <2>1, <2>6, SMTT(60)
    <3> QED BY <3>1, <3>2, <2>6
  <2> HIDE DEF T
  <2>8. SumOver(f, s \ {c}) = f[z] + SumOver(f, (s \ {c}) \ {z}) BY <2>7, <2>4, <2>5
  <2>9. SumOver(f, s \ {z}) = f[c] + SumOver(f, (s \ {z}) \ {c}) BY <2>7, <2>4, <2>5
  <2>10. (s \ {c}) \ {z} = (s \ {z}) \ {c} OBVIOUS
  <2>11. f[c] \in Nat /\ f[z] \in Nat /\ SumOver(f, (s \ {c}) \ {z}) \in Nat
    <3>1. (s \ {c}) \ {z} \in SUBSET S BY <2>2
    <3> QED BY <3>1, <1>2, <2>2, <2>4
  <2> HIDE DEF c
  <2>12. f[c] + (f[z] + SumOver(f, (s \ {c}) \ {z})) = f[z] + (f[c] + SumOver(f, (s \ {z}) \ {c})) BY <2>10, <2>11
  <2> QED BY <2>3, <2>4, <2>8, <2>9, <2>12
<1>4. Splits(S) BY <1>1, <1>3
<1> QED BY <1>4

(* Functions that agree on a set have the same sum over it.                  *)
LEMMA SumSame ==
  ASSUME NEW f, NEW g, NEW S, IsFiniteSet(S), \A x \in S : f[x] = g[x]
  PROVE  SumOver(f, S) = SumOver(g, S)
<1> DEFINE T == {n \in Nat : \E s \in SUBSET S : Cardinality(s) = n /\ SumOver(f, s) # SumOver(g, s)}
<1>1. \A s \in SUBSET S : IsFiniteSet(s) /\ Cardinality(s) \in Nat BY FS_Subset, FS_CardinalityType
<1>2. T = {}
  <2> SUFFICES ASSUME T # {} PROVE FALSE OBVIOUS
  <2>1. PICK n \in T : \A m \in T : n <= m BY LeastNat
  <2>2. PICK s \in SUBSET S : Cardinality(s) = n /\ SumOver(f, s) # SumOver(g, s) BY <2>1
  <2> DEFINE c == CHOOSE x \in s : TRUE
  <2>3. /\ SumOver(f, s) = IF s = {} THEN 0 ELSE f[c] + SumOver(f, s \ {c})
        /\ SumOver(g, s) = IF s = {} THEN 0 ELSE g[c] + SumOver(g, s \ {c})
    BY <2>2, <1>1, SumByChoice
  <2>4. s # {} BY <2>2, <2>3
  <2>5. Cardinality(s \ {c}) = n - 1 /\ n - 1 \in Nat /\ c \in s BY <2>2, <2>4, <1>1, SmallerByOne
  <2>6. SumOver(f, s \ {c}) = SumOver(g, s \ {c})
    <3>1. s \ {c} \in SUBSET S BY <2>2
    <3>2. n - 1 \notin T BY <2>1, <2>5
    <3> QED BY <3>1, <3>2, <2>5
  <2>7. f[c] = g[c] BY <2>2, <2>5
  <2> HIDE DEF c
  <2> QED BY <2>2, <2>3, <2>4, <2>6, <2>7
<1> QED BY <1>1, <1>2

(* A change at one element changes the sum by the difference.                *)
LEMMA SumChangedAt ==
  ASSUME NEW f, NEW g, NEW S, IsFiniteSet(S), NEW y \in S,
         \A x \in S : f[x] \in Nat /\ g[x] \in Nat, \A x \in S \ {y} : f[x] = g[x]
  PROVE  SumOver(g, S) + f[y] = SumOver(f, S) + g[y]
<1>1. IsFiniteSet(S \ {y}) BY FS_Subset
<1>2. SumOver(f, S \ {y}) = SumOver(g, S \ {y}) BY <1>1, SumSame
<1>3. SumOver(f, S) = f[y] + SumOver(f, S \ {y}) BY SumByElement
<1>4. SumOver(g, S) = g[y] + SumOver(g, S \ {y}) BY SumByElement
<1>5. SumOver(f, S \ {y}) \in Nat BY <1>1, SumIsNat
<1> QED BY <1>2, <1>3, <1>4, <1>5

(* A sum of zeros is zero.                                                   *)
LEMMA SumOfZeros ==
  ASSUME NEW f, NEW S, IsFiniteSet(S), \A x \in S : f[x] = 0
  PROVE  SumOver(f, S) = 0
<1> DEFINE T == {n \in Nat : \E s \in SUBSET S : Cardinality(s) = n /\ SumOver(f, s) # 0}
<1>1. \A s \in SUBSET S : IsFiniteSet(s) /\ Cardinality(s) \in Nat BY FS_Subset, FS_CardinalityType
<1>2. T = {}
  <2> SUFFICES ASSUME T # {} PROVE FALSE OBVIOUS
  <2>1. PICK n \in T : \A m \in T : n <= m BY LeastNat
  <2>2. PICK s \in SUBSET S : Cardinality(s) = n /\ SumOver(f, s) # 0 BY <2>1
  <2> DEFINE c == CHOOSE x \in s : TRUE
  <2>3. SumOver(f, s) = IF s = {} THEN 0 ELSE f[c] + SumOver(f, s \ {c}) BY <2>2, <1>1, SumByChoice
  <2>4. s # {} BY <2>2, <2>3
  <2>5. Cardinality(s \ {c}) = n - 1 /\ n - 1 \in Nat /\ c \in s BY <2>2, <2>4, <1>1, SmallerByOne
  <2>6. SumOver(f, s \ {c}) = 0
    <3>1. s \ {c} \in SUBSET S BY <2>2
    <3>2. n - 1 \notin T BY <2>1, <2>5
    <3> QED BY <3>1, <3>2, <2>5
  <2> QED BY <2>2, <2>3, <2>4, <2>5, <2>6
<1> QED BY <1>1, <1>2

(* The sum over two disjoint sets together is that of the one and the other. *)
LEMMA SumOfParts ==
  ASSUME NEW f, NEW A, NEW B, IsFiniteSet(A), IsFiniteSet(B), A \cap B = {},
         \A x \in A \cup B : f[x] \in Nat
  PROVE  SumOver(f, A \cup B) = SumOver(f, A) + SumOver(f, B)
<1> DEFINE Adds(s) == SumOver(f, s \cup B) = SumOver(f, s) + SumOver(f, B)
           T == {n \in Nat : \E s \in SUBSET A : Cardinality(s) = n /\ ~Adds(s)}
<1>1. \A s \in SUBSET A : IsFiniteSet(s) /\ Cardinality(s) \in Nat BY FS_Subset, FS_CardinalityType
<1>2. SumOver(f, B) \in Nat BY SumIsNat
<1>3. T = {}
  <2> SUFFICES ASSUME T # {} PROVE FALSE OBVIOUS
  <2>1. PICK n \in T : \A m \in T : n <= m BY LeastNat
  <2>2. PICK s \in SUBSET A : Cardinality(s) = n /\ ~Adds(s) BY <2>1
  <2>3. s # {}
    <3> SUFFICES ASSUME s = {} PROVE FALSE OBVIOUS
    <3>1. SumOver(f, {}) = 0 BY FS_EmptySet, SumOfZeros
    <3>2. s \cup B = B OBVIOUS
    <3> QED BY <1>2, <2>2, <3>1, <3>2
  <2> DEFINE c == CHOOSE x \in s : TRUE
  <2>4. Cardinality(s \ {c}) = n - 1 /\ n - 1 \in Nat /\ c \in s BY <2>2, <2>3, <1>1, SmallerByOne
  <2> HIDE DEF c
  <2>5. Adds(s \ {c})
    <3>1. s \ {c} \in SUBSET A BY <2>2
    <3> HIDE DEF Adds
    <3>2. n - 1 \notin T 
      <4>1. n \in Nat OBVIOUS
      <4> HIDE DEF T
      <4> QED BY <2>1, <2>4, <4>1
    <3> QED BY <3>1, <3>2, <2>4
  <2>6. SumOver(f, s) = f[c] + SumOver(f, s \ {c})
    <3>1. IsFiniteSet(s) /\ \A x \in s : f[x] \in Nat BY <1>1, <2>2
    <3> QED BY <2>4, <3>1, SumByElement
  <2>7. SumOver(f, s \cup B) = f[c] + SumOver(f, (s \ {c}) \cup B)
    <3>1. IsFiniteSet(s \cup B) BY <1>1, <2>2, FS_Union
    <3>2. \A x \in s \cup B : f[x] \in Nat BY <2>2
    <3>3. SumOver(f, s \cup B) = f[c] + SumOver(f, (s \cup B) \ {c}) BY <2>4, <3>1, <3>2, SumByElement
    <3>4. (s \cup B) \ {c} = (s \ {c}) \cup B BY <2>2, <2>4
    <3> QED BY <3>3, <3>4
  <2>8. f[c] \in Nat /\ SumOver(f, s \ {c}) \in Nat
    <3>1. IsFiniteSet(s \ {c}) /\ \A x \in s \ {c} : f[x] \in Nat BY <1>1, <2>2, FS_Subset
    <3> QED BY <2>2, <2>4, <3>1, SumIsNat
  <2> QED BY <1>2, <2>2, <2>5, <2>6, <2>7, <2>8
<1>4. Adds(A) BY <1>1, <1>3
<1> QED BY <1>4

(* A part has no larger sum than the whole.                                  *)
LEMMA SumOfPart ==
  ASSUME NEW f, NEW S, IsFiniteSet(S), NEW A \in SUBSET S, \A x \in S : f[x] \in Nat
  PROVE  SumOver(f, A) \in Nat /\ SumOver(f, A) <= SumOver(f, S)
<1> DEFINE B == S \ A
<1>1. IsFiniteSet(A) /\ IsFiniteSet(B) BY FS_Subset
<1>2. A \cap B = {} /\ A \cup B = S OBVIOUS
<1> HIDE DEF B
<1>3. SumOver(f, A \cup B) = SumOver(f, A) + SumOver(f, B) BY <1>1, <1>2, SumOfParts
<1>4. SumOver(f, A) \in Nat /\ SumOver(f, B) \in Nat BY <1>1, <1>2, SumIsNat
<1>5. SumOver(f, S) = SumOver(f, A) + SumOver(f, B) BY <1>2, <1>3, Zenon
<1> QED BY <1>4, <1>5

-----------------------------------------------------------------------------
(* Cardinalities.                                                            *)

(* A set whose elements are all the same has at most one.                    *)
LEMMA AtMostOne ==
  ASSUME NEW S, \A x, y \in S : x = y
  PROVE  IsFiniteSet(S) /\ Cardinality(S) <= 1
<1>1. CASE S = {}
  <2>1. IsFiniteSet({}) /\ Cardinality({}) = 0 BY FS_EmptySet
  <2> QED BY <1>1, <2>1
<1>2. CASE S # {}
  <2>1. PICK x : S = {x} BY <1>2
  <2>2. IsFiniteSet({x}) /\ Cardinality({x}) = 1 BY FS_Singleton
  <2> QED BY <2>1, <2>2
<1> QED BY <1>1, <1>2

(* Two disjoint parts of 1..n have n elements between them when they are all *)
(* of it, and otherwise fewer.                                               *)
LEMMA PartsOfInterval ==
  ASSUME NEW n \in Nat, NEW A \in SUBSET (1..n), NEW B \in SUBSET (1..n), A \cap B = {}
  PROVE  /\ IsFiniteSet(A) /\ Cardinality(A) \in Nat /\ Cardinality(B) \in Nat
         /\ Cardinality(A) + Cardinality(B) <= n
         /\ (Cardinality(A) + Cardinality(B) = n) <=> (A \cup B = 1..n)
         /\ (Cardinality(A) = 0) <=> (A = {})
<1>1. IsFiniteSet(1..n) /\ Cardinality(1..n) = n BY FS_Interval
<1>2. /\ IsFiniteSet(A) /\ IsFiniteSet(B) /\ Cardinality(A) \in Nat /\ Cardinality(B) \in Nat
  BY <1>1, FS_Subset, FS_CardinalityType
<1>3. Cardinality(A \cup B) = Cardinality(A) + Cardinality(B)
  <2>1. Cardinality(A \cup B) = Cardinality(A) + Cardinality(B) - Cardinality(A \cap B) BY <1>2, FS_Union
  <2>2. Cardinality(A \cap B) = 0 BY FS_EmptySet
  <2> QED BY <1>2, <2>1, <2>2
<1>4. A \cup B \in SUBSET (1..n) OBVIOUS
<1>5. Cardinality(A \cup B) <= n /\ (n = Cardinality(A \cup B) => 1..n = A \cup B) BY <1>1, <1>4, FS_Subset
<1>6. (A \cup B = 1..n) => Cardinality(A \cup B) = n BY <1>1
<1>7. (Cardinality(A) = 0) <=> (A = {}) BY <1>2, FS_EmptySet
<1> QED BY <1>2, <1>3, <1>5, <1>6, <1>7

(* A set of pairs <<b, i>> with i at most n[b] has no more elements than the *)
(* sum of n says.                                                            *)
LEMMA PairsAreCounted ==
  ASSUME NEW B, IsFiniteSet(B), NEW n, \A b \in B : n[b] \in Nat,
         NEW P, \A p \in P : p = <<p[1], p[2]>> /\ p[1] \in B /\ p[2] \in 1..n[p[1]]
  PROVE  IsFiniteSet(P) /\ Cardinality(P) <= SumOver(n, B)
<1> DEFINE Of(s) == {p \in P : p[1] \in s}
           Counted(s) == IsFiniteSet(Of(s)) /\ Cardinality(Of(s)) <= SumOver(n, s)
           T == {m \in Nat : \E s \in SUBSET B : Cardinality(s) = m /\ ~Counted(s)}
<1>1. \A s \in SUBSET B : IsFiniteSet(s) /\ Cardinality(s) \in Nat BY FS_Subset, FS_CardinalityType
<1>2. T = {}
  <2> SUFFICES ASSUME T # {} PROVE FALSE OBVIOUS
  <2>1. PICK m \in T : \A k \in T : m <= k BY LeastNat
  <2>2. PICK s \in SUBSET B : Cardinality(s) = m /\ ~Counted(s) BY <2>1
  <2> DEFINE c == CHOOSE x \in s : TRUE
  <2>3. SumOver(n, s) = IF s = {} THEN 0 ELSE n[c] + SumOver(n, s \ {c}) BY <2>2, <1>1, SumByChoice
  <2>4. s # {}
    <3> SUFFICES ASSUME s = {} PROVE FALSE OBVIOUS
    <3>1. Of(s) = {} OBVIOUS
    <3> HIDE DEF Of
    <3> QED BY <2>2, <2>3, <3>1, FS_EmptySet
  <2>5. Cardinality(s \ {c}) = m - 1 /\ m - 1 \in Nat /\ c \in s BY <2>2, <2>4, <1>1, SmallerByOne
  <2>6. Counted(s \ {c})
    <3>1. s \ {c} \in SUBSET B BY <2>2
    <3> HIDE DEF Counted
    <3>2. m - 1 \notin T
      <4>1. m \in Nat OBVIOUS
      <4> HIDE DEF T
      <4> QED BY <2>1, <2>5, <4>1
    <3> QED BY <3>1, <3>2, <2>5
  <2>7. IsFiniteSet(Of({c})) /\ Cardinality(Of({c})) <= n[c] /\ Cardinality(Of({c})) \in Nat
    <3>1. n[c] \in Nat BY <2>2, <2>5
    <3>2. IsFiniteSet(1..n[c]) /\ Cardinality(1..n[c]) = n[c]
      <4> HIDE DEF c
      <4>1. 1 \in Int /\ n[c] \in Int BY <3>1
      <4>2. IsFiniteSet(1..n[c]) /\ Cardinality(1..n[c]) = IF 1 > n[c] THEN 0 ELSE n[c] - 1 + 1 BY <4>1, FS_Interval
      <4> QED BY <3>1, <4>2
    <3> DEFINE f == [p \in Of({c}) |-> p[2]]
    <3>3. \A p \in Of({c}) : p = <<c, p[2]>> /\ p[2] \in 1..n[c] OBVIOUS
    <3> HIDE DEF c, Of
    <3>4. f \in [Of({c}) -> 1..n[c]] BY <3>3
    <3>5. \A p, q \in Of({c}) : f[p] = f[q] => p = q BY <3>3
    <3> HIDE DEF f
    <3>6. f \in Injection(Of({c}), 1..n[c]) BY <3>4, <3>5 DEF Injection, IsInjective
    <3> QED BY <3>2, <3>6, FS_Injection, FS_CardinalityType
  <2>8. Of(s) = Of({c}) \cup Of(s \ {c}) /\ Of({c}) \cap Of(s \ {c}) = {} BY <2>5
  <2>9. SumOver(n, s \ {c}) \in Nat
    <3>1. s \ {c} \in SUBSET B BY <2>2
    <3> QED BY <3>1, <1>1, SumIsNat
  <2>10. n[c] \in Nat BY <2>2, <2>5
  <2>11. Counted(s)
    <3>1. IsFiniteSet(Of(s \ {c})) /\ Cardinality(Of(s \ {c})) <= SumOver(n, s \ {c}) BY <2>6
    <3> HIDE DEF c, Of
    <3>2. Cardinality(Of(s \ {c})) \in Nat BY <3>1, FS_CardinalityType
    <3>3. IsFiniteSet(Of(s)) /\ Cardinality(Of(s)) = Cardinality(Of({c})) + Cardinality(Of(s \ {c}))
      <4> DEFINE U == Of({c})
                 V == Of(s \ {c})
      <4>1. IsFiniteSet(U) /\ IsFiniteSet(V) /\ Cardinality(U) \in Nat /\ Cardinality(V) \in Nat BY <2>7, <3>1, <3>2
      <4>2. Of(s) = U \cup V /\ U \cap V = {} BY <2>8
      <4> HIDE DEF U, V
      <4>3. /\ IsFiniteSet(U \cup V)
            /\ Cardinality(U \cup V) = Cardinality(U) + Cardinality(V) - Cardinality(U \cap V)
        BY <4>1, FS_Union
      <4>4. Cardinality(U \cap V) = 0 BY <4>2, FS_EmptySet
      <4>5. IsFiniteSet(Of(s)) /\ Cardinality(Of(s)) = Cardinality(U) + Cardinality(V) BY <4>1, <4>2, <4>3, <4>4
      <4> QED BY <4>5 DEF U, V
    <3> QED BY <2>3, <2>4, <2>7, <2>9, <2>10, <3>1, <3>2, <3>3
  <2> HIDE DEF Counted
  <2> QED BY <2>2, <2>11
<1>3. Of(B) = P OBVIOUS
<1>4. Counted(B)
  <2> HIDE DEF Counted
  <2> QED BY <1>1, <1>2
<1> QED BY <1>3, <1>4
===============================================================================
