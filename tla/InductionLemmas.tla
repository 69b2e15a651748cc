------------------------- MODULE InductionLemmas -------------------------
(***************************************************************************)
(* Induction over the natural numbers in the form the proofs of this       *)
(* project cite: about sets of numbers, never about an operator.           *)
(***************************************************************************)
EXTENDS Integers, FiniteSets, FiniteSetTheorems, WellFoundedInduction, TLAPS

(* Every non-empty set of natural numbers has a least element: what a      *)
(* scan that stops at the first match relies on.                           *)
LEMMA LeastElement ==
  ASSUME NEW T, T \subseteq Nat, T # {}
  PROVE  \E x \in T : \A y \in T : x <= y
<1> DEFINE R == {ss \in Nat \X Nat : ss[1] < ss[2]}
<1>1. IsWellFoundedOn(R, Nat)
  BY NatLessThanWellFounded DEF OpToRel
<1> HIDE DEF R
<1>2. \E x \in T : \A y \in T : ~ (<<y, x>> \in R)
  BY <1>1, WFMin
<1>3. \A x, y \in Nat : x > y => <<y, x>> \in R
  BY DEF R
<1>4. PICK x \in T : \A y \in T : ~ (<<y, x>> \in R)
  BY <1>2
<1>5. ASSUME NEW y \in T PROVE x <= y
  <2>1. x \in Nat /\ y \in Nat
    OBVIOUS
  <2>2. ~ (x > y)
    BY <1>3, <1>4, <2>1
  <2> QED BY <2>1, <2>2
<1> QED BY <1>5

(* A set with 0 that is closed under successor holds every number: the     *)
(* induction behind each loop modelled by a recursive function.            *)
LEMMA SetInduction ==
  ASSUME NEW T, 0 \in T, \A n \in Nat : n \in T => n + 1 \in T
  PROVE  \A n \in Nat : n \in T
<1> SUFFICES ASSUME Nat \ T # {} PROVE FALSE
  OBVIOUS
<1>1. PICK x \in Nat \ T : \A y \in Nat \ T : x <= y
  BY LeastElement
<1>2. x # 0 /\ x - 1 \in Nat
  BY <1>1
<1>3. x - 1 \in T
  BY <1>1, <1>2
<1> QED BY <1>1, <1>2, <1>3
---------------------------------------------------------------------------
(* Sums over finite sets, in the form MapThenSumSet computes them: g is    *)
(* the recursive function of the fold that adds f over the subsets of S.   *)

Chosen(z) == CHOOSE x \in z : TRUE
SumsUp(g, f, S) ==
  g = [z \in SUBSET S |-> IF z = {} THEN 0 ELSE f[Chosen(z)] + g[z \ {Chosen(z)}]]
SumOf(f, S) == (CHOOSE g : SumsUp(g, f, S))[S]

LEMMA ChosenIs == ASSUME NEW z, z # {} PROVE Chosen(z) \in z
BY DEF Chosen

LEMMA SmallerSet ==
  ASSUME NEW S, IsFiniteSet(S), NEW z \in SUBSET S, NEW x \in z
  PROVE  /\ z \ {x} \in SUBSET S
         /\ Cardinality(z) \in Nat
         /\ Cardinality(z \ {x}) = Cardinality(z) - 1
<1>1. IsFiniteSet(z)
  BY FS_Subset
<1> QED BY <1>1, FS_RemoveElement, FS_CardinalityType

(* The fold's recursive function exists.                                   *)
LEMMA SumExists ==
  ASSUME NEW S, IsFiniteSet(S), NEW f, \A x \in S : f[x] \in Int
  PROVE  \E g \in [SUBSET S -> Int] : SumsUp(g, f, S)
<1> DEFINE V(g, z) == IF z = {} THEN 0 ELSE f[Chosen(z)] + g[z \ {Chosen(z)}]
           Upto(g, n) == \A z \in SUBSET S : Cardinality(z) <= n => g[z] = V(g, z)
           T == {n \in Nat : \E g \in [SUBSET S -> Int] : Upto(g, n)}
<1>1. 0 \in T
  <2> DEFINE g == [z \in SUBSET S |-> 0]
  <2>1. ASSUME NEW z \in SUBSET S, Cardinality(z) <= 0 PROVE z = {}
    <3>1. IsFiniteSet(z)
      BY FS_Subset
    <3> QED BY <2>1, <3>1, FS_CardinalityType, FS_EmptySet
  <2>2. ASSUME NEW z \in SUBSET S, Cardinality(z) <= 0 PROVE g[z] = V(g, z)
    BY <2>1, <2>2
  <2>3. g \in [SUBSET S -> Int]
    OBVIOUS
  <2> HIDE DEF g, V
  <2> QED BY <2>2, <2>3
<1>2. ASSUME NEW n \in Nat, n \in T PROVE n + 1 \in T
  <2>1. PICK g \in [SUBSET S -> Int] : Upto(g, n)
    BY <1>2
  <2> DEFINE h == [z \in SUBSET S |-> V(g, z)]
  <2>2. \A z \in SUBSET S : V(g, z) \in Int
    BY ChosenIs
  <2>3. h \in [SUBSET S -> Int]
    BY <2>2
  <2>4. ASSUME NEW z \in SUBSET S, Cardinality(z) <= n + 1 PROVE h[z] = V(h, z)
    <3>1. CASE z = {}
      BY <3>1
    <3>2. CASE z # {}
      <4> DEFINE y == z \ {Chosen(z)}
      <4>1. y \in SUBSET S /\ Cardinality(y) <= n
        BY <2>4, <3>2, ChosenIs, SmallerSet
      <4>2. h[y] = g[y]
        BY <2>1, <4>1
      <4> QED BY <3>2, <4>2
    <3> QED BY <3>1, <3>2
  <2>5. Upto(h, n + 1)
    BY <2>4
  <2> HIDE DEF h, Upto
  <2> QED BY <2>3, <2>5
<1> HIDE DEF T
<1>3. Cardinality(S) \in T
  BY <1>1, <1>2, SetInduction, FS_CardinalityType
<1> USE DEF T
<1>4. PICK g \in [SUBSET S -> Int] : Upto(g, Cardinality(S))
  BY <1>3
<1>5. \A z \in SUBSET S : g[z] = V(g, z)
  BY <1>4, FS_Subset
<1> QED BY <1>5 DEF SumsUp

(* The fold depends only on the values of f over the set it sums.          *)
LEMMA SumAgrees ==
  ASSUME NEW S, IsFiniteSet(S), NEW f, NEW g, SumsUp(g, f, S),
         NEW R, NEW e, NEW h, SumsUp(h, e, R), S \subseteq R, \A x \in S : f[x] = e[x]
  PROVE  \A z \in SUBSET S : g[z] = h[z]
<1> DEFINE T == {n \in Nat : \A z \in SUBSET S : Cardinality(z) = n => g[z] = h[z]}
<1>1. \A z \in SUBSET S :
        /\ g[z] = IF z = {} THEN 0 ELSE f[Chosen(z)] + g[z \ {Chosen(z)}]
        /\ h[z] = IF z = {} THEN 0 ELSE e[Chosen(z)] + h[z \ {Chosen(z)}]
  BY DEF SumsUp
<1>2. 0 \in T
  <2>1. ASSUME NEW z \in SUBSET S, Cardinality(z) = 0 PROVE z = {}
    <3>1. IsFiniteSet(z)
      BY FS_Subset
    <3> QED BY <2>1, <3>1, FS_EmptySet
  <2>2. g[{}] = h[{}]
    BY <1>1
  <2> QED BY <2>1, <2>2
<1>3. ASSUME NEW n \in Nat, n \in T PROVE n + 1 \in T
  <2> SUFFICES ASSUME NEW z \in SUBSET S, Cardinality(z) = n + 1 PROVE g[z] = h[z]
    OBVIOUS
  <2>1. z # {}
    BY FS_EmptySet
  <2>2. Chosen(z) \in z
    BY <2>1, ChosenIs
  <2>3. z \ {Chosen(z)} \in SUBSET S /\ Cardinality(z \ {Chosen(z)}) = n
    BY <2>2, SmallerSet
  <2>4. g[z \ {Chosen(z)}] = h[z \ {Chosen(z)}]
    BY <1>3, <2>3
  <2> QED BY <1>1, <2>1, <2>2, <2>4
<1> HIDE DEF T
<1>4. \A n \in Nat : n \in T
  BY <1>2, <1>3, SetInduction
<1>5. \A z \in SUBSET S : Cardinality(z) \in Nat
  BY FS_Subset, FS_CardinalityType
<1> QED BY <1>4, <1>5 DEF T

(* Whatever element is taken out first, the rest of the sum is the same.   *)
LEMMA SumAnyOrder ==
  ASSUME NEW S, NEW f, NEW g, SumsUp(g, f, S), IsFiniteSet(S), \A x \in S : f[x] \in Int
  PROVE  /\ g[S] \in Int /\ (S = {} => g[S] = 0)
         /\ \A x \in S : g[S] = f[x] + g[S \ {x}]
<1> DEFINE Ok(z) == \A x \in z : g[z] = f[x] + g[z \ {x}]
           T == {n \in Nat : \A z \in SUBSET S : Cardinality(z) = n => Ok(z)}
<1>1. \A z \in SUBSET S :
        g[z] = IF z = {} THEN 0 ELSE f[Chosen(z)] + g[z \ {Chosen(z)}]
  BY DEF SumsUp
<1>2. \A z \in SUBSET S : g[z] \in Int
  <2>1. PICK h \in [SUBSET S -> Int] : SumsUp(h, f, S)
    BY SumExists
  <2>2. \A z \in SUBSET S : g[z] = h[z]
    BY <2>1, SumAgrees
  <2> QED BY <2>1, <2>2
<1>3. 0 \in T
  <2>1. ASSUME NEW z \in SUBSET S, Cardinality(z) = 0 PROVE z = {}
    <3>1. IsFiniteSet(z)
      BY FS_Subset
    <3> QED BY <2>1, <3>1, FS_EmptySet
  <2> QED BY <2>1
<1>4. ASSUME NEW n \in Nat, n \in T PROVE n + 1 \in T
  <2> SUFFICES ASSUME NEW z \in SUBSET S, Cardinality(z) = n + 1 PROVE Ok(z)
    OBVIOUS
  <2> DEFINE c == Chosen(z)
  <2>1. z # {}
    BY FS_EmptySet
  <2>2. c \in z /\ g[z] = f[c] + g[z \ {c}] /\ f[c] \in Int
    BY <1>1, <2>1, ChosenIs
  <2>3. \A x \in z : z \ {x} \in SUBSET S /\ Cardinality(z \ {x}) = n
    BY SmallerSet
  <2>4. \A x \in z : Ok(z \ {x})
    BY <1>4, <2>3
  <2> HIDE DEF c
  <2>5. ASSUME NEW x \in z, x # c PROVE g[z] = f[x] + g[z \ {x}]
    <3>1. g[z \ {c}] = f[x] + g[(z \ {c}) \ {x}]
      BY <2>2, <2>4, <2>5
    <3>2. g[z \ {x}] = f[c] + g[(z \ {x}) \ {c}]
      BY <2>2, <2>4, <2>5
    <3>3. g[(z \ {c}) \ {x}] = g[(z \ {x}) \ {c}]
      <4>1. (z \ {c}) \ {x} = (z \ {x}) \ {c}
        OBVIOUS
      <4> QED BY <4>1
    <3>4. f[x] \in Int /\ g[(z \ {c}) \ {x}] \in Int
      BY <1>2
    <3> HIDE DEF Ok
    <3> QED BY <2>2, <3>1, <3>2, <3>3, <3>4
  <2> QED BY <2>2, <2>4, <2>5
<1> HIDE DEF T
<1>5. \A n \in Nat : n \in T
  BY <1>3, <1>4, SetInduction
<1> USE DEF T
<1>6. ASSUME NEW z \in SUBSET S PROVE Ok(z)
  <2>1. Cardinality(z) \in Nat
    BY FS_Subset, FS_CardinalityType
  <2> QED BY <1>5, <2>1
<1> QED BY <1>1, <1>6, <1>2 DEF SumsUp

(* The laws of SumOf.                                                      *)
LEMMA SumLaws ==
  ASSUME NEW S, IsFiniteSet(S), NEW f, \A x \in S : f[x] \in Int
  PROVE  /\ SumOf(f, S) \in Int
         /\ S = {} => SumOf(f, S) = 0
         /\ \A x \in S : SumOf(f, S) = f[x] + SumOf(f, S \ {x})
<1>1. PICK g : SumsUp(g, f, S) /\ g[S] = SumOf(f, S)
  <2>1. \E g : SumsUp(g, f, S)
    BY SumExists
  <2> QED BY <2>1 DEF SumOf
<1>2. g[S] = SumOf(f, S)
  BY <1>1
<1>3. /\ g[S] \in Int /\ (S = {} => g[S] = 0)
      /\ \A x \in S : g[S] = f[x] + g[S \ {x}]
  BY <1>1, SumAnyOrder
<1>4. ASSUME NEW x \in S PROVE g[S \ {x}] = SumOf(f, S \ {x})
  <2> DEFINE R == S \ {x}
             h == CHOOSE h : SumsUp(h, f, R)
  <2>1. IsFiniteSet(R) /\ R \subseteq S
    BY FS_Subset
  <2>2. \E j : SumsUp(j, f, R)
    <3> HIDE DEF R
    <3> QED BY <2>1, SumExists
  <2>3. SumsUp(h, f, R)
    BY <2>2
  <2>4. h[R] = SumOf(f, R)
    BY DEF SumOf
  <2> HIDE DEF h, R
  <2>5. h[R] = g[R]
    BY <1>1, <2>1, <2>3, SumAgrees
  <2> QED BY <2>4, <2>5 DEF R
<1> QED BY <1>2, <1>3, <1>4

LEMMA SumSame ==
  ASSUME NEW S, IsFiniteSet(S), NEW f, \A x \in S : f[x] \in Int,
         NEW e, \A x \in S : e[x] = f[x]
  PROVE  SumOf(e, S) = SumOf(f, S)
<1> DEFINE g == CHOOSE g : SumsUp(g, f, S)
           h == CHOOSE h : SumsUp(h, e, S)
<1>1. SumsUp(g, f, S) /\ SumsUp(h, e, S)
  BY SumExists
<1>2. g[S] = SumOf(f, S) /\ h[S] = SumOf(e, S)
  BY DEF SumOf
<1> HIDE DEF g, h
<1>3. g[S] = h[S]
  BY <1>1, SumAgrees
<1> QED BY <1>2, <1>3

(* A sum of natural numbers is one.                                        *)
LEMMA SumNatural ==
  ASSUME NEW S, IsFiniteSet(S), NEW f, \A x \in S : f[x] \in Nat
  PROVE  SumOf(f, S) \in Nat
<1> DEFINE T == {n \in Nat : \A z \in SUBSET S : Cardinality(z) = n => SumOf(f, z) \in Nat}
<1>1. ASSUME NEW z \in SUBSET S
      PROVE  /\ IsFiniteSet(z) /\ Cardinality(z) \in Nat /\ (Cardinality(z) = 0 => z = {})
             /\ SumOf(f, z) \in Int /\ (z = {} => SumOf(f, z) = 0)
             /\ \A x \in z : SumOf(f, z) = f[x] + SumOf(f, z \ {x})
  <2>1. IsFiniteSet(z) /\ \A x \in z : f[x] \in Int
    BY FS_Subset
  <2> QED BY <2>1, SumLaws, FS_CardinalityType, FS_EmptySet
<1>2. 0 \in T
  BY <1>1
<1>3. ASSUME NEW n \in Nat, n \in T PROVE n + 1 \in T
  <2>1. ASSUME NEW z \in SUBSET S, Cardinality(z) = n + 1 PROVE SumOf(f, z) \in Nat
    <3>1. z # {}
      BY <2>1, FS_EmptySet
    <3>2. PICK x : x \in z
      BY <3>1
    <3>3. z \ {x} \in SUBSET S /\ Cardinality(z \ {x}) = n
      BY <2>1, <3>2, SmallerSet
    <3>4. SumOf(f, z \ {x}) \in Nat
      BY <1>3, <3>3
    <3>5. SumOf(f, z) = f[x] + SumOf(f, z \ {x}) /\ f[x] \in Nat
      BY <1>1, <3>2
    <3> QED BY <3>4, <3>5
  <2> QED BY <2>1
<1>4. \A n \in Nat : n \in T
  <2> HIDE DEF T
  <2> QED BY <1>2, <1>3, SetInduction
<1> QED BY <1>1, <1>4

(* A sum over the places of a list without repetition is the sum over what *)
(* is in it.                                                               *)
LEMMA SumOfPlaces ==
  ASSUME NEW N \in Nat, NEW a, NEW f, \A k \in 1 .. N : f[a[k]] \in Int,
         \A j, k \in 1 .. N : a[j] = a[k] => j = k
  PROVE  LET placed == {a[k] : k \in 1 .. N}
         IN  /\ IsFiniteSet(placed)
             /\ SumOf([k \in 1 .. N |-> f[a[k]]], 1 .. N) = SumOf(f, placed)
<1> DEFINE e == [k \in 1 .. N |-> f[a[k]]]
           P(n) == {a[k] : k \in 1 .. n}
           Ok(n) == IsFiniteSet(P(n)) /\ SumOf(e, 1 .. n) = SumOf(f, P(n))
           T == {n \in Nat : n <= N => Ok(n)}
<1>1. 0 \in T
  <2>1. 1 .. 0 = {} /\ P(0) = {}
    OBVIOUS
  <2>2. SumOf(e, {}) = 0 /\ SumOf(f, {}) = 0 /\ IsFiniteSet({})
    BY FS_EmptySet, SumLaws
  <2> QED BY <2>1, <2>2
<1>2. ASSUME NEW n \in Nat, n \in T PROVE n + 1 \in T
  <2> SUFFICES ASSUME n + 1 <= N PROVE Ok(n + 1)
    OBVIOUS
  <2>1. Ok(n)
    BY <1>2
  <2>2. /\ IsFiniteSet(1 .. n + 1) /\ n + 1 \in 1 .. n + 1
        /\ (1 .. n + 1) \ {n + 1} = 1 .. n
        /\ \A k \in 1 .. n + 1 : e[k] = f[a[k]] /\ e[k] \in Int
    BY FS_Interval
  <2>3. SumOf(e, 1 .. n + 1) = e[n + 1] + SumOf(e, 1 .. n)
    <3> HIDE DEF e
    <3>1. \A x \in 1 .. n + 1 : SumOf(e, 1 .. n + 1) = e[x] + SumOf(e, (1 .. n + 1) \ {x})
      BY <2>2, SumLaws
    <3> QED BY <2>2, <3>1
  <2>4. /\ P(n + 1) = P(n) \cup {a[n + 1]} /\ a[n + 1] \notin P(n)
        /\ \A x \in P(n + 1) : f[x] \in Int
    <3>1. \A k \in 1 .. n + 1 : k = n + 1 \/ k \in 1 .. n
      OBVIOUS
    <3> QED BY <3>1
  <2>5. IsFiniteSet(P(n + 1))
    <3>1. P(n + 1) = P(n) \cup {a[n + 1]} /\ IsFiniteSet(P(n))
      BY <2>1, <2>4
    <3> HIDE DEF P
    <3> QED BY <3>1, FS_AddElement
  <2>6. SumOf(f, P(n + 1)) = f[a[n + 1]] + SumOf(f, P(n))
    <3>1. P(n + 1) \ {a[n + 1]} = P(n) /\ a[n + 1] \in P(n + 1)
      BY <2>4
    <3> HIDE DEF P
    <3>2. \A x \in P(n + 1) : SumOf(f, P(n + 1)) = f[x] + SumOf(f, P(n + 1) \ {x})
      BY <2>4, <2>5, SumLaws
    <3> QED BY <3>1, <3>2
  <2> QED BY <2>1, <2>2, <2>3, <2>5, <2>6
<1> HIDE DEF T
<1>3. N \in T
  BY <1>1, <1>2, SetInduction
<1> QED BY <1>3 DEF T
=============================================================================
