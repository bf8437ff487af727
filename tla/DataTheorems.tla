---------------------------- MODULE DataTheorems ---------------------------
(***************************************************************************)
(* Facts about the data the models compute with, stated once: induction in *)
(* a form that mentions sets only, sums over finite sets as MapThenSumSet  *)
(* computes them, minima, and what sequences hold.                         *)
(***************************************************************************)
EXTENDS Integers, Sequences, FiniteSets, FiniteSetsExt, FiniteSetTheorems,
        WellFoundedInduction, NaturalsInduction, TLAPS

Total(f, S) == MapThenSumSet(LAMBDA x : f[x], S)

\* What the lemmas ask of the values on a set.
IntOn(f, S) == \A x \in S : f[x] \in Int
NatOn(f, S) == \A x \in S : f[x] \in Nat
ZeroOn(f, S) == \A x \in S : f[x] = 0
SameOn(f, g, S) == \A x \in S : f[x] = g[x]
SumOn(h, f, g, S) == \A x \in S : h[x] = f[x] + g[x]

---------------------------------------------------------------------------
(* Induction *)

LEMMA NatSetInduction ==
  ASSUME NEW T,
         0 \in T, \A n \in Nat : n \in T => n + 1 \in T
  PROVE  Nat \subseteq T
<1> SUFFICES ASSUME NEW k \in Nat, k \notin T PROVE FALSE
  OBVIOUS
<1> DEFINE U == {n \in Nat : n \notin T}
           R == OpToRel(<, Nat)
<1>1. IsWellFoundedOn(R, Nat)
  BY NatLessThanWellFounded
<1>2. PICK m \in U : \A n \in U : ~(<<n, m>> \in R)
  <2>1. U \subseteq Nat /\ U # {}
    OBVIOUS
  <2> HIDE DEF U, R
  <2> QED  BY <1>1, <2>1, WFMin
<1>3. m \in Nat /\ m # 0 /\ m \notin T
  OBVIOUS
<1>4. m - 1 \in Nat /\ m - 1 < m /\ (m - 1) + 1 = m
  BY <1>3
<1>5. m - 1 \in T
  <2>1. <<m - 1, m>> \in R
    BY <1>3, <1>4 DEF OpToRel
  <2> QED  BY <1>2, <1>4, <2>1
<1> QED  BY <1>3, <1>4, <1>5

LEMMA FiniteSetInduction ==
  ASSUME NEW S, NEW T,
         IsFiniteSet(S), {} \in T,
         \A s \in SUBSET S : \A x \in S \ s : s \in T => s \union {x} \in T
  PROVE  S \in T
<1> DEFINE N == {n \in Nat : \A s \in SUBSET S : Cardinality(s) = n => s \in T}
<1>1. \A s \in SUBSET S : IsFiniteSet(s) /\ Cardinality(s) \in Nat
  BY FS_Subset, FS_CardinalityType
<1>2. 0 \in N
  BY <1>1, FS_EmptySet
<1>3. ASSUME NEW n \in Nat, n \in N PROVE n + 1 \in N
  <2> SUFFICES ASSUME NEW s \in SUBSET S, Cardinality(s) = n + 1 PROVE s \in T
    OBVIOUS
  <2>0. IsFiniteSet(s)
    BY <1>1
  <2>1. PICK x \in s : TRUE
    BY <1>3, <2>0, FS_EmptySet
  <2>2. Cardinality(s \ {x}) = n
    <3>1. Cardinality(s \ {x}) = (n + 1) - 1
      BY <2>0, <2>1, FS_RemoveElement
    <3> QED  BY <3>1
  <2>3. s \ {x} \in T
    BY <1>3, <2>2
  <2>4. s = (s \ {x}) \union {x}
    BY <2>1
  <2> QED  BY <2>1, <2>3, <2>4
<1>4. Nat \subseteq N
  <2> HIDE DEF N
  <2> QED  BY <1>2, <1>3, NatSetInduction
<1> QED  BY <1>1, <1>4

---------------------------------------------------------------------------
(* The recursive function that MapThenSumSet evaluates *)

Body(f, s, g) == IF s = {} THEN 0
                 ELSE LET x == CHOOSE x \in s : TRUE IN f[x] + g[s \ {x}]

Unfolding(f, S, g) == [s \in SUBSET S |-> Body(f, s, g)]

LEMMA TotalDef ==
  ASSUME NEW f, NEW S
  PROVE  Total(f, S) = (CHOOSE g : g = Unfolding(f, S, g))[S]
BY DEF Total, MapThenSumSet, MapThenFoldSet, Unfolding, Body

LEMMA SumExists ==
  ASSUME NEW S, NEW f,
         IsFiniteSet(S), IntOn(f, S)
  PROVE  \E g \in [SUBSET S -> Int] : g = Unfolding(f, S, g)
<1> USE DEF IntOn
<1> DEFINE Good(n, g) == \A s \in SUBSET S : Cardinality(s) <= n => g[s] = Body(f, s, g)
           N == {n \in Nat : \E g \in [SUBSET S -> Int] : Good(n, g)}
<1>1. \A s \in SUBSET S : IsFiniteSet(s) /\ Cardinality(s) \in Nat
  BY FS_Subset, FS_CardinalityType
<1>2. \A s \in SUBSET S : s # {} =>
         LET x == CHOOSE x \in s : TRUE
         IN  x \in s /\ s \ {x} \in SUBSET S /\ Cardinality(s \ {x}) = Cardinality(s) - 1
  BY <1>1, FS_RemoveElement
<1>3. 0 \in N
  <2>1. \A s \in SUBSET S : Cardinality(s) <= 0 => s = {}
    BY <1>1, FS_EmptySet
  <2> DEFINE z == [s \in SUBSET S |-> 0]
  <2>2. Good(0, z)
    BY <2>1 DEF Body
  <2>3. z \in [SUBSET S -> Int]
    OBVIOUS
  <2> HIDE DEF z, Good
  <2> QED  BY <2>2, <2>3
<1>4. ASSUME NEW n \in Nat, n \in N PROVE n + 1 \in N
  <2>1. PICK g \in [SUBSET S -> Int] : Good(n, g)
    BY <1>4
  <2> DEFINE h == [s \in SUBSET S |-> IF Cardinality(s) <= n THEN g[s] ELSE Body(f, s, g)]
  <2>2. h \in [SUBSET S -> Int]
    <3> SUFFICES ASSUME NEW s \in SUBSET S PROVE Body(f, s, g) \in Int
      OBVIOUS
    <3> QED  BY <1>2 DEF Body
  <2>3. Good(n + 1, h)
    <3> SUFFICES ASSUME NEW s \in SUBSET S, Cardinality(s) <= n + 1
                 PROVE  h[s] = Body(f, s, h)
      OBVIOUS
    <3>1. h[s] = Body(f, s, g)
      BY <2>1
    <3>2. CASE s = {}
      BY <3>1, <3>2 DEF Body
    <3>3. CASE s # {}
      <4> DEFINE x == CHOOSE x \in s : TRUE
      <4>1. s \ {x} \in SUBSET S /\ Cardinality(s \ {x}) = Cardinality(s) - 1
        BY <1>2, <3>3
      <4>2. h[s \ {x}] = g[s \ {x}]
        BY <1>1, <4>1
      <4> QED  BY <3>1, <3>3, <4>2 DEF Body
    <3> QED  BY <3>2, <3>3
  <2> HIDE DEF h, Good
  <2> QED  BY <2>2, <2>3
<1>5. Nat \subseteq N
  <2> HIDE DEF N
  <2> QED  BY <1>3, <1>4, NatSetInduction
<1>6. PICK g \in [SUBSET S -> Int] : Good(Cardinality(S), g)
  BY <1>1, <1>5
<1>7. \A s \in SUBSET S : Cardinality(s) <= Cardinality(S)
  BY FS_Subset
<1>8. g = Unfolding(f, S, g)
  BY <1>6, <1>7 DEF Unfolding
<1> QED  BY <1>8

Solves(f, S, g) == \A s \in SUBSET S : g[s] = Body(f, s, g)

LEMMA SumUnique ==
  ASSUME NEW S, NEW f, NEW g, NEW h, IsFiniteSet(S), Solves(f, S, g), Solves(f, S, h)
  PROVE  g[S] = h[S]
<1> USE DEF Solves
<1> DEFINE N == {n \in Nat : \A s \in SUBSET S : Cardinality(s) = n => g[s] = h[s]}
<1>1. \A s \in SUBSET S : IsFiniteSet(s) /\ Cardinality(s) \in Nat
  BY FS_Subset, FS_CardinalityType
<1>2. 0 \in N
  BY <1>1, FS_EmptySet DEF Body
<1>3. ASSUME NEW n \in Nat, n \in N PROVE n + 1 \in N
  <2> SUFFICES ASSUME NEW s \in SUBSET S, Cardinality(s) = n + 1 PROVE g[s] = h[s]
    OBVIOUS
  <2> DEFINE x == CHOOSE x \in s : TRUE
  <2>1. s # {}
    BY FS_EmptySet
  <2>2. x \in s
    BY <2>1
  <2>3. s \ {x} \in SUBSET S /\ Cardinality(s \ {x}) = n
    <3>1. Cardinality(s \ {x}) = (n + 1) - 1
      BY <1>1, <2>2, FS_RemoveElement
    <3> QED  BY <3>1
  <2>4. g[s \ {x}] = h[s \ {x}]
    BY <1>3, <2>3
  <2> QED  BY <2>1, <2>4 DEF Body
<1>4. Nat \subseteq N
  <2> HIDE DEF N
  <2> QED  BY <1>2, <1>3, NatSetInduction
<1> QED  BY <1>1, <1>4

\* On the subsets of S the sum is a function: one fixpoint gives the sum over each of them.
LEMMA SumOverSubsets ==
  ASSUME NEW S, NEW f,
         IsFiniteSet(S), IntOn(f, S)
  PROVE  \E g : \A A \in SUBSET S :
           g[A] \in Int /\ g[A] = Body(f, A, g) /\ Total(f, A) = g[A]
<1>1. PICK g \in [SUBSET S -> Int] : g = Unfolding(f, S, g)
  BY SumExists
<1>2. \A A \in SUBSET S : g[A] = Body(f, A, g)
  BY <1>1 DEF Unfolding
<1>3. ASSUME NEW A \in SUBSET S PROVE Total(f, A) = g[A]
  <2>1. IsFiniteSet(A)
    BY FS_Subset
  <2>2. \E h : h = Unfolding(f, A, h)
    BY <2>1, SumExists DEF IntOn
  <2> DEFINE h == CHOOSE h : h = Unfolding(f, A, h)
  <2>3. h = Unfolding(f, A, h)
    BY <2>2
  <2>4. Total(f, A) = h[A]
    BY TotalDef
  <2> HIDE DEF h
  <2>5. Solves(f, A, h)
    BY <2>3 DEF Unfolding, Solves
  <2>6. Solves(f, A, g)
    BY <1>2 DEF Solves
  <2>7. h[A] = g[A]
    BY <2>1, <2>5, <2>6, SumUnique
  <2> QED  BY <2>4, <2>7
<1> QED  BY <1>2, <1>3

---------------------------------------------------------------------------
(* What a sum is *)

LEMMA TotalEmpty ==
  ASSUME NEW f
  PROVE  Total(f, {}) = 0
<1>1. IsFiniteSet({})
  BY FS_EmptySet
<1>2. IntOn(f, {})
  BY DEF IntOn
<1>3. PICK g : \A A \in SUBSET {} :
        g[A] \in Int /\ g[A] = Body(f, A, g) /\ Total(f, A) = g[A]
  BY <1>1, <1>2, SumOverSubsets
<1> QED  BY <1>3 DEF Body

LEMMA TotalInt ==
  ASSUME NEW S, NEW f,
         IsFiniteSet(S), IntOn(f, S)
  PROVE  Total(f, S) \in Int
BY SumOverSubsets

\* Any element may be taken out first, whatever CHOOSE would take.
LEMMA TotalRemove ==
  ASSUME NEW S, NEW f,
         IsFiniteSet(S), IntOn(f, S), NEW x \in S, NEW R, R = S \ {x}
  PROVE  Total(f, S) = f[x] + Total(f, R)
<1>1. PICK g : \A A \in SUBSET S :
        g[A] \in Int /\ g[A] = Body(f, A, g) /\ Total(f, A) = g[A]
  BY SumOverSubsets
<1> DEFINE N == {n \in Nat : \A A \in SUBSET S : \A y \in A :
                   Cardinality(A) = n => g[A] = f[y] + g[A \ {y}]}
<1>2. \A s \in SUBSET S : IsFiniteSet(s) /\ Cardinality(s) \in Nat
  BY FS_Subset, FS_CardinalityType
<1>3. 0 \in N
  BY <1>2, FS_EmptySet
<1>4. ASSUME NEW n \in Nat, n \in N PROVE n + 1 \in N
  <2> SUFFICES \A A \in SUBSET S : \A y \in A :
                 Cardinality(A) = n + 1 => g[A] = f[y] + g[A \ {y}]
    <3>1. n + 1 \in Nat
      OBVIOUS
    <3> QED  BY <3>1, Zenon
  <2> TAKE A \in SUBSET S
  <2> TAKE y \in A
  <2> HAVE Cardinality(A) = n + 1
  <2> DEFINE c == CHOOSE c \in A : TRUE
  <2>1. c \in A /\ g[A] = f[c] + g[A \ {c}]
    BY <1>1 DEF Body
  <2> HIDE DEF c
  <2>2. CASE c = y
    BY <2>1, <2>2
  <2>3. CASE c # y
    <3>1. Cardinality(A \ {c}) = (n + 1) - 1 /\ Cardinality(A \ {y}) = (n + 1) - 1
      BY <1>2, <2>1, FS_RemoveElement
    <3>2. Cardinality(A \ {c}) = n /\ Cardinality(A \ {y}) = n
      BY <3>1
    <3>3. g[A \ {c}] = f[y] + g[(A \ {c}) \ {y}]
      BY <1>4, <2>3, <3>2
    <3>4. g[A \ {y}] = f[c] + g[(A \ {y}) \ {c}]
      BY <1>4, <2>1, <2>3, <3>2
    <3>5. (A \ {c}) \ {y} = (A \ {y}) \ {c}
      OBVIOUS
    <3>6. /\ f[c] \in Int /\ f[y] \in Int
          /\ g[A \ {c}] \in Int /\ g[A \ {y}] \in Int /\ g[(A \ {y}) \ {c}] \in Int
      BY <1>1, <2>1 DEF IntOn
    <3> DEFINE C == A \ {c}  Y == A \ {y}  B == (A \ {y}) \ {c}
    <3>7. g[A] = f[c] + g[C] /\ g[C] = f[y] + g[B] /\ g[Y] = f[c] + g[B]
      BY <2>1, <3>3, <3>4, <3>5
    <3> HIDE DEF C, Y, B
    <3>8. g[A] = f[y] + g[Y]
      BY <3>6, <3>7 DEF C, Y, B
    <3> QED  BY <3>8 DEF Y
  <2> QED  BY <2>2, <2>3
<1>5. Nat \subseteq N
  <2> HIDE DEF N
  <2> QED  BY <1>3, <1>4, NatSetInduction
<1>6. g[S] = f[x] + g[S \ {x}]
  BY <1>2, <1>5
<1>7. R \in SUBSET S /\ g[S] = f[x] + g[R]
  BY <1>6
<1> QED  BY <1>1, <1>7

\* A is S and one more element, x.
Adds(A, S, x) == x \notin S /\ A = S \union {x}

LEMMA TotalAdd ==
  ASSUME NEW S, NEW f, NEW x, NEW A, IsFiniteSet(S), Adds(A, S, x), IntOn(f, A)
  PROVE  Total(f, A) = Total(f, S) + f[x]
<1> USE DEF IntOn
<1>1. IsFiniteSet(A)
  BY FS_AddElement DEF Adds
<1>2. S = A \ {x} /\ x \in A
  BY DEF Adds
<1>3. Total(f, A) = f[x] + Total(f, S)
  BY <1>1, <1>2, TotalRemove
<1>4. Total(f, S) \in Int /\ f[x] \in Int
  BY <1>2, TotalInt
<1> QED  BY <1>3, <1>4

---------------------------------------------------------------------------
(* How sums compare *)

\* The sum of f and g, element by element.
LEMMA TotalPlus ==
  ASSUME NEW S, NEW f, NEW g, NEW h,
         IsFiniteSet(S), IntOn(f, S), IntOn(g, S), SumOn(h, f, g, S)
  PROVE  Total(h, S) = Total(f, S) + Total(g, S)
<1> DEFINE T == {s \in SUBSET S : Total(h, s) = Total(f, s) + Total(g, s)}
<1>1. {} \in T
  BY TotalEmpty
<1>2. ASSUME NEW s \in SUBSET S, NEW x \in S \ s, s \in T PROVE s \union {x} \in T
  <2> SUFFICES ASSUME NEW A \in SUBSET S, Adds(A, s, x) PROVE A \in T
    BY DEF Adds
  <2>1. IsFiniteSet(s)
    BY FS_Subset
  <2>2. IntOn(f, A) /\ IntOn(g, A) /\ IntOn(h, A)
    BY DEF IntOn, SumOn
  <2>4. Total(f, A) = Total(f, s) + f[x]
    BY <2>1, <2>2, TotalAdd
  <2>5. Total(g, A) = Total(g, s) + g[x]
    BY <2>1, <2>2, TotalAdd
  <2>6. Total(h, A) = Total(h, s) + h[x]
    BY <2>1, <2>2, TotalAdd
  <2>3. Total(f, s) \in Int /\ Total(g, s) \in Int
    <3>1. IntOn(f, s) /\ IntOn(g, s)
      BY DEF IntOn
    <3> QED  BY <2>1, <3>1, TotalInt
  <2>7. f[x] \in Int /\ g[x] \in Int /\ h[x] = f[x] + g[x]
    BY DEF IntOn, SumOn
  <2> QED  BY <1>2, <2>3, <2>4, <2>5, <2>6, <2>7
<1> HIDE DEF T
<1>3. S \in T
  BY <1>1, <1>2, FiniteSetInduction
<1> QED  BY <1>3 DEF T

LEMMA TotalNat ==
  ASSUME NEW S, NEW f,
         IsFiniteSet(S), NatOn(f, S)
  PROVE  Total(f, S) \in Nat
<1> DEFINE T == {s \in SUBSET S : Total(f, s) \in Nat}
<1>1. {} \in T
  BY TotalEmpty
<1>2. ASSUME NEW s \in SUBSET S, NEW x \in S \ s, s \in T PROVE s \union {x} \in T
  <2> SUFFICES ASSUME NEW A \in SUBSET S, Adds(A, s, x) PROVE A \in T
    BY DEF Adds
  <2>1. IsFiniteSet(s)
    BY FS_Subset
  <2>2. IntOn(f, A) /\ f[x] \in Nat
    BY DEF IntOn, NatOn
  <2>3. Total(f, A) = Total(f, s) + f[x]
    BY <2>1, <2>2, TotalAdd
  <2> QED  BY <1>2, <2>2, <2>3
<1> HIDE DEF T
<1>3. S \in T
  BY <1>1, <1>2, FiniteSetInduction
<1> QED  BY <1>3 DEF T

LEMMA TotalZero ==
  ASSUME NEW S, NEW f,
         IsFiniteSet(S), ZeroOn(f, S)
  PROVE  Total(f, S) = 0
<1> DEFINE T == {s \in SUBSET S : Total(f, s) = 0}
<1>1. {} \in T
  BY TotalEmpty
<1>2. ASSUME NEW s \in SUBSET S, NEW x \in S \ s, s \in T PROVE s \union {x} \in T
  <2> SUFFICES ASSUME NEW A \in SUBSET S, Adds(A, s, x) PROVE A \in T
    BY DEF Adds
  <2>1. IsFiniteSet(s)
    BY FS_Subset
  <2>2. IntOn(f, A) /\ f[x] = 0
    BY DEF IntOn, ZeroOn
  <2>3. Total(f, A) = Total(f, s) + f[x]
    BY <2>1, <2>2, TotalAdd
  <2> QED  BY <1>2, <2>2, <2>3
<1> HIDE DEF T
<1>3. S \in T
  BY <1>1, <1>2, FiniteSetInduction
<1> QED  BY <1>3 DEF T

LEMMA TotalCongruence ==
  ASSUME NEW S, NEW f, NEW g,
         IsFiniteSet(S), IntOn(f, S), SameOn(g, f, S)
  PROVE  Total(g, S) = Total(f, S)
<1> DEFINE z == [x \in S |-> 0]
<1>1. ZeroOn(z, S) /\ IntOn(z, S) /\ SumOn(g, f, z, S)
  BY DEF ZeroOn, IntOn, SameOn, SumOn
<1> HIDE DEF z
<1>2. Total(g, S) = Total(f, S) + Total(z, S)
  BY <1>1, TotalPlus
<1>3. Total(z, S) = 0
  BY <1>1, TotalZero
<1>4. Total(f, S) \in Int
  BY TotalInt
<1> QED  BY <1>2, <1>3, <1>4

\* One value changes.
LEMMA TotalUpdate ==
  ASSUME NEW S, NEW f, NEW g,
         IsFiniteSet(S), NEW x \in S, IntOn(f, S), IntOn(g, S), SameOn(g, f, S \ {x})
  PROVE  Total(g, S) = Total(f, S) - f[x] + g[x]
<1> DEFINE R == S \ {x}
<1>1. R = S \ {x} /\ IntOn(f, R) /\ SameOn(g, f, R)
  BY DEF IntOn
<1>2. IsFiniteSet(R)
  BY FS_RemoveElement
<1> HIDE DEF R
<1>3. Total(f, S) = f[x] + Total(f, R) /\ Total(g, S) = g[x] + Total(g, R)
  BY <1>1, TotalRemove
<1>4. Total(g, R) = Total(f, R)
  BY <1>1, <1>2, TotalCongruence
<1>5. Total(f, R) \in Int
  BY <1>1, <1>2, TotalInt
<1>6. f[x] \in Int /\ g[x] \in Int
  BY DEF IntOn
<1> QED  BY <1>3, <1>4, <1>5, <1>6

\* No value is larger.
LEMMA TotalLeq ==
  ASSUME NEW S, NEW f, NEW g,
         IsFiniteSet(S), IntOn(f, S), IntOn(g, S), \A x \in S : g[x] <= f[x]
  PROVE  Total(g, S) <= Total(f, S)
<1> DEFINE d == [x \in S |-> f[x] - g[x]]
<1>1. NatOn(d, S) /\ IntOn(d, S) /\ SumOn(f, g, d, S)
  BY DEF IntOn, NatOn, SumOn
<1> HIDE DEF d
<1>2. Total(f, S) = Total(g, S) + Total(d, S)
  BY <1>1, TotalPlus
<1>3. Total(d, S) \in Nat /\ Total(g, S) \in Int
  BY <1>1, TotalNat, TotalInt
<1> QED  BY <1>2, <1>3

\* The values on a part of the set are withdrawn.
LEMMA TotalDrop ==
  ASSUME NEW S, NEW f, NEW g,
         IsFiniteSet(S), NEW D \in SUBSET S, IntOn(f, S), ZeroOn(g, D), SameOn(g, f, S \ D)
  PROVE  Total(f, S) = Total(g, S) + Total(f, D)
<1> DEFINE T == {s \in SUBSET S : Total(f, s) = Total(g, s) + Total(f, s \intersect D)}
<1>1. {} \in T
  BY TotalEmpty
<1>2. ASSUME NEW s \in SUBSET S, NEW x \in S \ s, s \in T PROVE s \union {x} \in T
  <2> SUFFICES ASSUME NEW A \in SUBSET S, Adds(A, s, x) PROVE A \in T
    BY DEF Adds
  <2>1. IsFiniteSet(s) /\ IsFiniteSet(s \intersect D)
    BY FS_Subset
  <2>2. IntOn(f, A) /\ IntOn(g, A)
    BY DEF IntOn, ZeroOn, SameOn
  <2>8. IntOn(f, s) /\ IntOn(g, s) /\ IntOn(f, s \intersect D)
    BY DEF IntOn, ZeroOn, SameOn
  <2>3. Total(f, s) \in Int /\ Total(g, s) \in Int /\ Total(f, s \intersect D) \in Int
    BY <2>1, <2>8, TotalInt
  <2>4. Total(f, A) = Total(f, s) + f[x]
    BY <2>1, <2>2, TotalAdd
  <2>7. Total(g, A) = Total(g, s) + g[x]
    BY <2>1, <2>2, TotalAdd
  <2>5. CASE x \in D
    <3>1. A \intersect D = (s \intersect D) \union {x}
      BY <2>5 DEF Adds
    <3>2. Total(f, A \intersect D) = Total(f, s \intersect D) + f[x]
      <4> DEFINE B == s \intersect D  C == A \intersect D
      <4>1. IsFiniteSet(B) /\ Adds(C, B, x) /\ IntOn(f, C)
        BY <2>1, <2>5, <3>1 DEF Adds, IntOn
      <4> HIDE DEF B, C
      <4>2. Total(f, C) = Total(f, B) + f[x]
        BY <4>1, TotalAdd
      <4> QED  BY <4>2 DEF B, C
    <3>3. f[x] \in Int /\ g[x] = 0
      BY <2>5 DEF IntOn, ZeroOn
    <3> DEFINE B == s \intersect D  C == A \intersect D
    <3>4. /\ Total(f, s) = Total(g, s) + Total(f, B)
          /\ Total(f, C) = Total(f, B) + f[x] /\ Total(f, B) \in Int
      BY <1>2, <2>3, <3>2
    <3>5. SUFFICES Total(f, A) = Total(g, A) + Total(f, C)
      OBVIOUS
    <3> HIDE DEF B, C
    <3> QED  BY <2>3, <2>4, <2>7, <3>3, <3>4
  <2>6. CASE x \notin D
    <3>1. A \intersect D = s \intersect D
      BY <2>6 DEF Adds
    <3>2. f[x] \in Int /\ g[x] = f[x]
      BY <2>6 DEF IntOn, SameOn
    <3> DEFINE B == s \intersect D  C == A \intersect D
    <3>3. Total(f, s) = Total(g, s) + Total(f, B) /\ C = B /\ Total(f, B) \in Int
      BY <1>2, <2>3, <3>1
    <3>4. SUFFICES Total(f, A) = Total(g, A) + Total(f, C)
      OBVIOUS
    <3> HIDE DEF B, C
    <3> QED  BY <2>3, <2>4, <2>7, <3>2, <3>3
  <2> QED  BY <2>5, <2>6
<1> HIDE DEF T
<1>3. S \in T
  BY <1>1, <1>2, FiniteSetInduction
<1>4. S \intersect D = D
  OBVIOUS
<1> QED  BY <1>3, <1>4 DEF T

---------------------------------------------------------------------------
(* Sums over a prefix of a sequence's elements *)

Prefix(f, n) == Total(f, 1..n)

IntUpTo(f, n) == \A i \in 1..n : f[i] \in Int
NatUpTo(f, n) == \A i \in 1..n : f[i] \in Nat
SameUpTo(f, g, n) == \A i \in 1..n : f[i] = g[i]
ShiftUpTo(f, g, n) == \A i \in 1..n : g[i] = f[i + 1]

LEMMA PrefixZero ==
  ASSUME NEW f
  PROVE  Prefix(f, 0) = 0
<1>1. 1..0 = {}
  OBVIOUS
<1> QED  BY <1>1, TotalEmpty DEF Prefix

LEMMA PrefixInt ==
  ASSUME NEW f, NEW n \in Nat, IntUpTo(f, n)
  PROVE  Prefix(f, n) \in Int
<1> DEFINE S == 1..n
<1>1. IsFiniteSet(S) /\ IntOn(f, S)
  BY FS_Interval DEF IntUpTo, IntOn
<1> HIDE DEF S
<1>2. Total(f, S) \in Int
  BY <1>1, TotalInt
<1> QED  BY <1>2 DEF Prefix, S

LEMMA PrefixNat ==
  ASSUME NEW f, NEW n \in Nat, NatUpTo(f, n)
  PROVE  Prefix(f, n) \in Nat
<1> DEFINE S == 1..n
<1>1. IsFiniteSet(S) /\ NatOn(f, S)
  BY FS_Interval DEF NatUpTo, NatOn
<1> HIDE DEF S
<1>2. Total(f, S) \in Nat
  BY <1>1, TotalNat
<1> QED  BY <1>2 DEF Prefix, S

LEMMA PrefixSame ==
  ASSUME NEW f, NEW g, NEW n \in Nat, IntUpTo(f, n), SameUpTo(g, f, n)
  PROVE  Prefix(g, n) = Prefix(f, n)
<1> DEFINE S == 1..n
<1>1. IsFiniteSet(S) /\ IntOn(f, S) /\ SameOn(g, f, S)
  BY FS_Interval DEF IntUpTo, IntOn, SameUpTo, SameOn
<1> HIDE DEF S
<1>2. Total(g, S) = Total(f, S)
  BY <1>1, TotalCongruence
<1> QED  BY <1>2 DEF Prefix, S

\* The next element is added to the sum of those before it.
LEMMA PrefixStep ==
  ASSUME NEW f, NEW n \in Nat, IntUpTo(f, n + 1)
  PROVE  Prefix(f, n + 1) = Prefix(f, n) + f[n + 1]
<1> DEFINE A == 1..(n + 1)  S == 1..n  x == n + 1
<1>1. IsFiniteSet(S) /\ Adds(A, S, x) /\ IntOn(f, A)
  BY FS_Interval DEF Adds, IntOn, IntUpTo
<1> HIDE DEF A, S, x
<1>2. Total(f, A) = Total(f, S) + f[x]
  BY <1>1, TotalAdd
<1> QED  BY <1>2 DEF Prefix, A, S, x

\* The first element leaves and the others move up.
LEMMA PrefixShift ==
  ASSUME NEW f, NEW g, NEW n \in Nat, IntUpTo(f, n + 1), ShiftUpTo(f, g, n)
  PROVE  Prefix(f, n + 1) = f[1] + Prefix(g, n)
<1> DEFINE T == {m \in Nat : m <= n => Prefix(f, m + 1) = f[1] + Prefix(g, m)}
<1>0. f[1] \in Int
  BY DEF IntUpTo
<1>1. 0 \in T
  <2>1. IntUpTo(f, 0 + 1)
    BY <1>0 DEF IntUpTo
  <2>2. Prefix(f, 0 + 1) = Prefix(f, 0) + f[0 + 1]
    BY <2>1, PrefixStep
  <2> QED  BY <1>0, <2>2, PrefixZero
<1>2. ASSUME NEW m \in Nat, m \in T PROVE m + 1 \in T
  <2> SUFFICES ASSUME m + 1 <= n
               PROVE  Prefix(f, (m + 1) + 1) = f[1] + Prefix(g, m + 1)
    OBVIOUS
  <2>1. IntUpTo(f, (m + 1) + 1) /\ IntUpTo(g, m + 1) /\ IntUpTo(g, m)
    BY DEF IntUpTo, ShiftUpTo
  <2>2. Prefix(f, (m + 1) + 1) = Prefix(f, m + 1) + f[(m + 1) + 1]
    BY <2>1, PrefixStep
  <2>3. Prefix(g, m + 1) = Prefix(g, m) + g[m + 1]
    BY <2>1, PrefixStep
  <2>4. Prefix(g, m) \in Int
    BY <2>1, PrefixInt
  <2>5. g[m + 1] = f[(m + 1) + 1] /\ f[(m + 1) + 1] \in Int
    BY <2>1 DEF ShiftUpTo, IntUpTo
  <2>6. Prefix(f, m + 1) = f[1] + Prefix(g, m)
    BY <1>2
  <2> QED  BY <1>0, <2>2, <2>3, <2>4, <2>5, <2>6
<1> HIDE DEF T
<1>3. n \in T
  BY <1>1, <1>2, NatSetInduction
<1> QED  BY <1>3 DEF T

\* A longer prefix of natural numbers has the larger sum.
LEMMA PrefixMonotone ==
  ASSUME NEW f, NEW n \in Nat, NEW m \in 0..n, NatUpTo(f, n)
  PROVE  Prefix(f, m) <= Prefix(f, n)
<1> DEFINE T == {k \in Nat : m <= k /\ k <= n => Prefix(f, m) <= Prefix(f, k)}
<1>0. NatUpTo(f, m) /\ m \in Nat
  BY DEF NatUpTo
<1>1. Prefix(f, m) \in Nat
  BY <1>0, PrefixNat
<1>2. 0 \in T
  BY <1>1
<1>3. ASSUME NEW k \in Nat, k \in T PROVE k + 1 \in T
  <2> SUFFICES ASSUME m <= k + 1, k + 1 <= n PROVE Prefix(f, m) <= Prefix(f, k + 1)
    OBVIOUS
  <2>1. CASE m = k + 1
    BY <1>1, <2>1
  <2>2. CASE m <= k
    <3>1. IntUpTo(f, k + 1) /\ NatUpTo(f, k) /\ f[k + 1] \in Nat
      BY DEF IntUpTo, NatUpTo
    <3>2. Prefix(f, k + 1) = Prefix(f, k) + f[k + 1]
      BY <3>1, PrefixStep
    <3>3. Prefix(f, k) \in Nat
      BY <3>1, PrefixNat
    <3>4. Prefix(f, m) <= Prefix(f, k)
      BY <1>3, <2>2
    <3> QED  BY <1>1, <3>1, <3>2, <3>3, <3>4
  <2> QED  BY <1>0, <2>1, <2>2
<1> HIDE DEF T
<1>4. n \in T
  BY <1>2, <1>3, NatSetInduction
<1> QED  BY <1>0, <1>4 DEF T

---------------------------------------------------------------------------
(* Minima and maxima *)

SomeNats(S) == S \subseteq Nat /\ S # {}

LEMMA MinOfNat ==
  ASSUME NEW S, SomeNats(S)
  PROVE  Min(S) \in S /\ \A y \in S : Min(S) <= y
<1> USE DEF SomeNats
<1> DEFINE R == OpToRel(<, Nat)
<1>1. IsWellFoundedOn(R, Nat)
  BY NatLessThanWellFounded
<1>2. PICK m \in S : \A n \in S : ~(<<n, m>> \in R)
  <2> HIDE DEF R
  <2> QED  BY <1>1, WFMin
<1>3. ASSUME NEW n \in S, n < m PROVE FALSE
  <2>1. <<n, m>> \in R
    BY <1>3 DEF OpToRel
  <2> QED  BY <1>2, <2>1
<1>4. \A n \in S : m <= n
  BY <1>3
<1> QED  BY <1>4 DEF Min

LEMMA Min2 ==
  ASSUME NEW a \in Int, NEW b \in Int
  PROVE  Min({a, b}) = IF a <= b THEN a ELSE b
BY DEF Min

LEMMA Max2 ==
  ASSUME NEW a \in Int, NEW b \in Int
  PROVE  Max({a, b}) = IF a >= b THEN a ELSE b
BY DEF Max

LEMMA Min3 ==
  ASSUME NEW a \in Int, NEW b \in Int, NEW c \in Int
  PROVE  /\ Min({a, b, c}) \in {a, b, c}
         /\ Min({a, b, c}) <= a /\ Min({a, b, c}) <= b /\ Min({a, b, c}) <= c
<1>1. \E m \in {a, b, c} : m <= a /\ m <= b /\ m <= c
  OBVIOUS
<1> QED  BY <1>1 DEF Min

---------------------------------------------------------------------------
(* Sequences *)

LEMMA EmptyFacts ==
  ASSUME NEW T
  PROVE  <<>> \in Seq(T) /\ Len(<<>>) = 0
OBVIOUS

LEMMA AppendFacts ==
  ASSUME NEW T, NEW s \in Seq(T), NEW x \in T
  PROVE  /\ Append(s, x) \in Seq(T) /\ Len(Append(s, x)) = Len(s) + 1
         /\ Append(s, x)[Len(s) + 1] = x
         /\ \A i \in 1..Len(s) : Append(s, x)[i] = s[i]
OBVIOUS

LEMMA TailFacts ==
  ASSUME NEW T, NEW s \in Seq(T), s # <<>>
  PROVE  /\ Head(s) = s[1] /\ Head(s) \in T /\ Len(s) >= 1
         /\ Tail(s) \in Seq(T) /\ Len(Tail(s)) = Len(s) - 1
         /\ \A i \in 1..(Len(s) - 1) : Tail(s)[i] = s[i + 1]
OBVIOUS

LEMMA CatFacts ==
  ASSUME NEW T, NEW s \in Seq(T), NEW t \in Seq(T)
  PROVE  /\ s \o t \in Seq(T) /\ Len(s \o t) = Len(s) + Len(t)
         /\ \A i \in 1..Len(s) : (s \o t)[i] = s[i]
         /\ \A i \in 1..Len(t) : (s \o t)[Len(s) + i] = t[i]
OBVIOUS

LEMMA SubSeqFacts ==
  ASSUME NEW T, NEW s \in Seq(T), NEW m \in Nat, NEW n \in Int, m >= 1, n <= Len(s)
  PROVE  /\ SubSeq(s, m, n) \in Seq(T)
         /\ Len(SubSeq(s, m, n)) = IF m <= n THEN n - m + 1 ELSE 0
         /\ \A i \in 1..(n - m + 1) : SubSeq(s, m, n)[i] = s[m + i - 1]
OBVIOUS

---------------------------------------------------------------------------
(* Sequences: what they hold, what is left of them, prefixes *)

NoRepeat(s) == \A i, j \in 1..Len(s) : s[i] = s[j] => i = j
In(x, s) == \E i \in 1..Len(s) : s[i] = x
\* Every element of w is one of the first n of s, and is not in S.
From(w, s, n, S) == \A i \in 1..Len(w) : \E j \in 1..n : w[i] = s[j] /\ s[j] \notin S

KeepBody(s, S, f, i) ==
  IF i = 0 THEN <<>>
  ELSE IF s[i] \in S THEN f[i - 1] ELSE Append(f[i - 1], s[i])

Keep(s, S, f) == [i \in 0..Len(s) |-> KeepBody(s, S, f, i)]

LEMMA KeepExists ==
  ASSUME NEW T, NEW s \in Seq(T), NEW S
  PROVE  \E f : f = Keep(s, S, f)
<1> DEFINE L == Len(s)
           Good(n, g) == \A i \in 0..L : i <= n => g[i] = KeepBody(s, S, g, i)
           N == {n \in Nat : \E g : DOMAIN g = 0..L /\ Good(n, g)}
<1>1. L \in Nat
  OBVIOUS
<1>2. 0 \in N
  <2> DEFINE z == [i \in 0..L |-> <<>>]
  <2>1. DOMAIN z = 0..L /\ Good(0, z)
    BY <1>1 DEF KeepBody
  <2> HIDE DEF z, Good
  <2> QED  BY <2>1
<1>3. ASSUME NEW n \in Nat, n \in N PROVE n + 1 \in N
  <2>1. PICK g : DOMAIN g = 0..L /\ Good(n, g)
    BY <1>3
  <2> DEFINE h == [i \in 0..L |-> IF i <= n THEN g[i] ELSE KeepBody(s, S, g, i)]
  <2>2. Good(n + 1, h)
    <3> SUFFICES ASSUME NEW i \in 0..L, i <= n + 1 PROVE h[i] = KeepBody(s, S, h, i)
      OBVIOUS
    <3>1. h[i] = KeepBody(s, S, g, i)
      BY <2>1
    <3>2. CASE i = 0
      BY <3>1, <3>2 DEF KeepBody
    <3>3. CASE i # 0
      <4>1. i - 1 \in 0..L /\ i - 1 <= n
        BY <1>1, <3>3
      <4>2. h[i - 1] = g[i - 1]
        BY <4>1
      <4> QED  BY <3>1, <3>3, <4>2 DEF KeepBody
    <3> QED  BY <3>2, <3>3
  <2>3. DOMAIN h = 0..L
    OBVIOUS
  <2> HIDE DEF h, Good
  <2> QED  BY <2>2, <2>3
<1>4. L \in N
  <2> HIDE DEF N, L
  <2> QED  BY <1>1, <1>2, <1>3, NatSetInduction
<1>5. PICK g : DOMAIN g = 0..L /\ Good(L, g)
  BY <1>4
<1> DEFINE k == Keep(s, S, g)
<1>6. \A i \in 0..L : k[i] = g[i]
  BY <1>5 DEF Keep
<1>7. \A i \in 0..L : KeepBody(s, S, k, i) = KeepBody(s, S, g, i)
  <2> TAKE i \in 0..L
  <2>1. CASE i = 0
    BY <2>1 DEF KeepBody
  <2>2. CASE i # 0
    <3>1. i - 1 \in 0..L
      BY <1>1, <2>2
    <3>2. k[i - 1] = g[i - 1]
      BY <1>6, <3>1
    <3> HIDE DEF k
    <3> QED  BY <2>2, <3>2 DEF KeepBody
  <2> QED  BY <2>1, <2>2
<1>8. k = Keep(s, S, k)
  <2>1. k = [i \in 0..L |-> KeepBody(s, S, g, i)]
    BY DEF Keep
  <2> HIDE DEF k
  <2> QED  BY <1>7, <2>1 DEF Keep
<1> QED  BY <1>8

LEMMA InFacts ==
  ASSUME NEW T, NEW s \in Seq(T)
  PROVE  /\ \A x : In(x, s) => x \in T
         /\ \A i \in 1..Len(s) : In(s[i], s)
BY DEF In

LEMMA InEmpty ==
  ASSUME NEW x
  PROVE  ~In(x, <<>>) /\ NoRepeat(<<>>)
BY EmptyFacts DEF In, NoRepeat

LEMMA InAppend ==
  ASSUME NEW T, NEW s \in Seq(T), NEW y \in T
  PROVE  /\ \A x : In(x, Append(s, y)) <=> In(x, s) \/ x = y
         /\ NoRepeat(s) /\ ~In(y, s) => NoRepeat(Append(s, y))
<1> DEFINE t == Append(s, y)
<1>1. /\ t \in Seq(T) /\ Len(t) = Len(s) + 1 /\ t[Len(s) + 1] = y
      /\ \A i \in 1..Len(s) : t[i] = s[i]
  BY AppendFacts
<1>2. Len(s) \in Nat
  OBVIOUS
<1> HIDE DEF t
<1>3. \A x : In(x, t) <=> In(x, s) \/ x = y
  <2> TAKE x
  <2>1. In(x, t) => In(x, s) \/ x = y
    <3> SUFFICES ASSUME NEW i \in 1..Len(t), t[i] = x PROVE In(x, s) \/ x = y
      BY DEF In
    <3>1. i = Len(s) + 1 \/ i \in 1..Len(s)
      BY <1>1, <1>2
    <3> QED  BY <1>1, <3>1 DEF In
  <2>2. In(x, s) => In(x, t)
    BY <1>1, <1>2 DEF In
  <2>3. x = y => In(x, t)
    BY <1>1, <1>2 DEF In
  <2> QED  BY <2>1, <2>2, <2>3
<1>4. ASSUME NoRepeat(s), ~In(y, s) PROVE NoRepeat(t)
  <2> SUFFICES ASSUME NEW i \in 1..Len(t), NEW j \in 1..Len(t), t[i] = t[j] PROVE i = j
    BY DEF NoRepeat
  <2>1. /\ i = Len(s) + 1 \/ i \in 1..Len(s)
        /\ j = Len(s) + 1 \/ j \in 1..Len(s)
    BY <1>1, <1>2
  <2> QED  BY <1>1, <1>4, <2>1 DEF NoRepeat, In
<1> QED  BY <1>3, <1>4 DEF t

LEMMA InCat ==
  ASSUME NEW T, NEW s \in Seq(T), NEW t \in Seq(T)
  PROVE  /\ \A x : In(x, s \o t) <=> In(x, s) \/ In(x, t)
         /\ NoRepeat(s) /\ NoRepeat(t) /\ (\A x \in T : In(x, s) => ~In(x, t)) => NoRepeat(s \o t)
<1> DEFINE u == s \o t
<1>1. /\ Len(u) = Len(s) + Len(t) /\ Len(s) \in Nat /\ Len(t) \in Nat
      /\ \A i \in 1..Len(s) : u[i] = s[i]
      /\ \A i \in 1..Len(t) : u[Len(s) + i] = t[i]
  BY CatFacts
<1> HIDE DEF u
<1>2. \A i \in 1..Len(u) :
        \/ i \in 1..Len(s) /\ u[i] = s[i]
        \/ i - Len(s) \in 1..Len(t) /\ u[i] = t[i - Len(s)]
  <2> TAKE i \in 1..Len(u)
  <2>1. CASE i <= Len(s)
    BY <1>1, <2>1
  <2>2. CASE i > Len(s)
    <3>1. i - Len(s) \in 1..Len(t) /\ Len(s) + (i - Len(s)) = i
      BY <1>1, <2>2
    <3> QED  BY <1>1, <3>1
  <2> QED  BY <1>1, <2>1, <2>2
<1>3. \A x : In(x, u) <=> In(x, s) \/ In(x, t)
  <2> TAKE x
  <2>1. In(x, u) => In(x, s) \/ In(x, t)
    BY <1>2 DEF In
  <2>2. In(x, s) => In(x, u)
    BY <1>1 DEF In
  <2>3. ASSUME NEW i \in 1..Len(t), t[i] = x PROVE In(x, u)
    <3>1. Len(s) + i \in 1..Len(u)
      BY <1>1
    <3> QED  BY <1>1, <2>3, <3>1 DEF In
  <2> QED  BY <2>1, <2>2, <2>3 DEF In
<1>4. ASSUME NoRepeat(s), NoRepeat(t), (\A x \in T : In(x, s) => ~In(x, t)) PROVE NoRepeat(u)
  <2> SUFFICES ASSUME NEW i \in 1..Len(u), NEW j \in 1..Len(u), u[i] = u[j] PROVE i = j
    BY DEF NoRepeat
  <2>1. \A k \in 1..Len(s), l \in 1..Len(t) : s[k] # t[l]
    BY <1>4, InFacts
  <2>2. CASE i \in 1..Len(s) /\ u[i] = s[i] /\ j \in 1..Len(s) /\ u[j] = s[j]
    BY <1>4, <2>2 DEF NoRepeat
  <2>3. CASE /\ i - Len(s) \in 1..Len(t) /\ u[i] = t[i - Len(s)]
             /\ j - Len(s) \in 1..Len(t) /\ u[j] = t[j - Len(s)]
    <3>1. i - Len(s) = j - Len(s)
      BY <1>4, <2>3 DEF NoRepeat
    <3> QED  BY <1>1, <3>1
  <2> QED  BY <1>2, <2>1, <2>2, <2>3
<1> QED  BY <1>3, <1>4 DEF u

LEMMA InTail ==
  ASSUME NEW T, NEW s \in Seq(T), s # <<>>
  PROVE  /\ In(s[1], s)
         /\ \A x : In(x, Tail(s)) => In(x, s)
         /\ NoRepeat(s) => NoRepeat(Tail(s)) /\ ~In(s[1], Tail(s))
<1> DEFINE t == Tail(s)
<1>1. /\ Len(s) >= 1 /\ Len(s) \in Nat /\ Len(t) = Len(s) - 1
      /\ \A i \in 1..(Len(s) - 1) : t[i] = s[i + 1]
  BY TailFacts
<1> HIDE DEF t
<1>2. In(s[1], s)
  BY <1>1 DEF In
<1>3. \A i \in 1..Len(t) : i + 1 \in 1..Len(s) /\ t[i] = s[i + 1] /\ i + 1 # 1
  BY <1>1
<1>4. \A x : In(x, t) => In(x, s)
  BY <1>3 DEF In
<1>5. ASSUME NoRepeat(s) PROVE NoRepeat(t) /\ ~In(s[1], t)
  <2>1. NoRepeat(t)
    <3> SUFFICES ASSUME NEW i \in 1..Len(t), NEW j \in 1..Len(t), t[i] = t[j] PROVE i = j
      BY DEF NoRepeat
    <3>1. i + 1 = j + 1
      BY <1>3, <1>5 DEF NoRepeat
    <3> QED  BY <3>1
  <2>2. ~In(s[1], t)
    BY <1>1, <1>3, <1>5 DEF In, NoRepeat
  <2> QED  BY <2>1, <2>2
<1> QED  BY <1>2, <1>4, <1>5 DEF t

PrefixOf(s, t) == Len(s) <= Len(t) /\ \A i \in 1..Len(s) : s[i] = t[i]

(* A rank executes a batch *)

LEMMA SameSeq ==
  ASSUME NEW T, NEW s \in Seq(T), NEW t \in Seq(T), Len(s) = Len(t),
         \A i \in 1..Len(s) : s[i] = t[i]
  PROVE  s = t
OBVIOUS

\* A sequence is its beginning and the rest.
LEMMA CutAndPaste ==
  ASSUME NEW T, NEW s \in Seq(T), NEW h \in Seq(T), Len(h) <= Len(s),
         \A i \in 1..Len(h) : s[i] = h[i]
  PROVE  h \o SubSeq(s, Len(h) + 1, Len(s)) = s
<1> DEFINE t == SubSeq(s, Len(h) + 1, Len(s))  n == Len(h)  m == Len(s)
<1>1. n \in Nat /\ m \in Nat /\ n <= m /\ n + 1 \in Nat /\ n + 1 >= 1 /\ m \in Int /\ m <= Len(s)
  OBVIOUS
<1>2. /\ t \in Seq(T) /\ Len(t) = IF n + 1 <= m THEN m - (n + 1) + 1 ELSE 0
      /\ \A i \in 1..(m - (n + 1) + 1) : t[i] = s[(n + 1) + i - 1]
  <2> HIDE DEF n, m
  <2> QED  BY <1>1, SubSeqFacts DEF n, m
<1> HIDE DEF t
<1>3. Len(t) = m - n
  BY <1>1, <1>2
<1>4. /\ h \o t \in Seq(T) /\ Len(h \o t) = n + Len(t)
      /\ \A i \in 1..n : (h \o t)[i] = h[i]
      /\ \A i \in 1..Len(t) : (h \o t)[n + i] = t[i]
  <2>1. t \in Seq(T)
    BY <1>2
  <2> QED  BY <2>1, CatFacts DEF n
<1> DEFINE w == h \o t
<1> HIDE DEF w, n, m
<1>5. ASSUME NEW i \in 1..m PROVE w[i] = s[i]
  <2>1. CASE i \in 1..n
    BY <1>4, <2>1 DEF w, n
  <2>2. CASE i \notin 1..n
    <3> DEFINE j == i - n
    <3>1. j \in 1..(m - n) /\ n + j = i /\ (n + 1) + j - 1 = i /\ m - (n + 1) + 1 = m - n
      BY <1>1, <2>2
    <3> HIDE DEF j
    <3>2. w[n + j] = t[j] /\ t[j] = s[(n + 1) + j - 1]
      BY <1>2, <1>3, <1>4, <3>1 DEF w
    <3> QED  BY <3>1, <3>2
  <2> QED  BY <2>1, <2>2
<1>6. w \in Seq(T) /\ Len(w) = m
  BY <1>1, <1>3, <1>4 DEF w
<1>7. w = s
  BY <1>5, <1>6, SameSeq DEF m
<1> QED  BY <1>7 DEF w, t

(* What the ranks know when an output is taken *)

LEMMA PrefixGrows ==
  ASSUME NEW T, NEW h \in Seq(T), NEW s \in Seq(T), NEW o \in Seq(T), PrefixOf(h, s)
  PROVE  PrefixOf(h, s \o o)
<1>1. /\ Len(h) \in Nat /\ Len(s) \in Nat /\ Len(o) \in Nat /\ Len(s \o o) = Len(s) + Len(o)
      /\ \A i \in 1..Len(s) : (s \o o)[i] = s[i]
  OBVIOUS
<1>2. Len(h) <= Len(s) /\ \A i \in 1..Len(h) : h[i] = s[i]
  BY DEF PrefixOf
<1>3. \A i \in 1..Len(h) : i \in 1..Len(s)
  BY <1>1, <1>2
<1>4. Len(h) <= Len(s \o o)
  BY <1>1, <1>2
<1> QED  BY <1>1, <1>2, <1>3, <1>4 DEF PrefixOf

\* Two prefixes of one output, or of one history, agree where they both reach.
LEMMA SamePrefix ==
  ASSUME NEW T, NEW s \in Seq(T), NEW t \in Seq(T), PrefixOf(s, t) \/ PrefixOf(t, s),
         NEW m \in Nat, m <= Len(s), m <= Len(t)
  PROVE  SubSeq(s, 1, m) = SubSeq(t, 1, m)
<1>1. \A i \in 1..m : i \in 1..Len(s) /\ i \in 1..Len(t)
  OBVIOUS
<1>2. \A i \in 1..m : s[i] = t[i]
  BY <1>1 DEF PrefixOf
<1> DEFINE u == SubSeq(s, 1, m)  v == SubSeq(t, 1, m)
<1>3. u \in Seq(T) /\ Len(u) = m /\ \A i \in 1..m : u[i] = s[i]
  <2>1. /\ u \in Seq(T) /\ Len(u) = IF 1 <= m THEN m - 1 + 1 ELSE 0
        /\ \A i \in 1..(m - 1 + 1) : u[i] = s[1 + i - 1]
    BY SubSeqFacts
  <2> HIDE DEF u
  <2> QED  BY <2>1
<1>4. v \in Seq(T) /\ Len(v) = m /\ \A i \in 1..m : v[i] = t[i]
  <2>1. /\ v \in Seq(T) /\ Len(v) = IF 1 <= m THEN m - 1 + 1 ELSE 0
        /\ \A i \in 1..(m - 1 + 1) : v[i] = t[1 + i - 1]
    BY SubSeqFacts
  <2> HIDE DEF v
  <2> QED  BY <2>1
<1> HIDE DEF u, v
<1>5. \A i \in 1..Len(u) : u[i] = v[i]
  BY <1>2, <1>3, <1>4
<1>6. u = v
  BY <1>3, <1>4, <1>5, SameSeq
<1> QED  BY <1>6 DEF u, v

=============================================================================
