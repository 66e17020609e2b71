------------------------------ MODULE SetSums ------------------------------
(***************************************************************************)
(* Sums over finite sets, as MapThenSumSet computes them, for the counts   *)
(* and ledgers of the models.  The induction is on sets of numbers: a set  *)
(* of naturals has a least element.                                        *)
(***************************************************************************)
EXTENDS Integers, FiniteSets, FiniteSetsExt, FiniteSetTheorems, WellFoundedInduction, TLAPS

\* The sum of the values of a function.
Sum(f, S) == MapThenSumSet(LAMBDA x : f[x], S)

\* How the fold goes: element after element, as CHOOSE takes them.
First(s) == CHOOSE x \in s : TRUE
Adds(g, f, D) == g = [s \in D |-> IF s = {} THEN 0 ELSE f[First(s)] + g[s \ {First(s)}]]
AddsUp(g, f, S) == Adds(g, f, SUBSET S)
Adder(f, S) == CHOOSE g : AddsUp(g, f, S)

-----------------------------------------------------------------------------
(* Induction.                                                              *)

LEMMA NumberInduction ==
  ASSUME NEW P \in SUBSET Nat, 0 \in P, \A n \in P : n + 1 \in P
  PROVE  \A n \in Nat : n \in P
<1> SUFFICES ASSUME Nat \ P # {} PROVE FALSE
  OBVIOUS
<1>1. IsWellFoundedOn(OpToRel(<, Nat), Nat)
  BY NatLessThanWellFounded
<1>2. \E i \in Nat \ P : \A j \in Nat \ P : ~(<<j, i>> \in OpToRel(<, Nat))
  <2>1. Nat \ P \subseteq Nat
    OBVIOUS
  <2> QED
    BY <1>1, <2>1, WFMin
<1>3. PICK i \in Nat \ P : \A j \in Nat \ P : ~(<<j, i>> \in OpToRel(<, Nat))
  BY <1>2
<1>4. \A j \in Nat \ P : ~(j < i)
  BY <1>3 DEF OpToRel
<1>5. i # 0 /\ i - 1 \in Nat /\ i - 1 < i /\ (i - 1) + 1 = i
  OBVIOUS
<1>6. i - 1 \in P
  BY <1>4, <1>5
<1> QED
  BY <1>5, <1>6

\* A set of subsets of S that has {} and, with a set, every set of one more element.
LEMMA SetInduction ==
  ASSUME NEW S, IsFiniteSet(S), NEW P \in SUBSET (SUBSET S), {} \in P,
         \A T \in P : \A x \in S \ T : T \cup {x} \in P
  PROVE  \A T \in SUBSET S : T \in P
<1> DEFINE Q == {n \in Nat : \A T \in SUBSET S : Cardinality(T) = n => T \in P}
<1>1. \A T \in SUBSET S : IsFiniteSet(T) /\ Cardinality(T) \in Nat
  BY FS_Subset, FS_CardinalityType
<1>2. 0 \in Q
  BY <1>1, FS_EmptySet
<1>3. ASSUME NEW n \in Q PROVE n + 1 \in Q
  <2> SUFFICES ASSUME NEW T \in SUBSET S, Cardinality(T) = n + 1 PROVE T \in P
    OBVIOUS
  <2>1. n \in Nat /\ T # {} /\ IsFiniteSet(T)
    BY <1>1, FS_EmptySet
  <2>2. PICK x \in T : TRUE
    BY <2>1
  <2>3. Cardinality(T \ {x}) = n
    <3>1. Cardinality(T \ {x}) = Cardinality(T) - 1
      BY <2>1, <2>2, FS_RemoveElement
    <3> QED
      BY <2>1, <3>1
  <2>4. T \ {x} \in P
    BY <2>3
  <2>5. (T \ {x}) \cup {x} = T /\ x \in S \ (T \ {x})
    OBVIOUS
  <2> QED
    BY <2>4, <2>5
<1>4. \A n \in Nat : n \in Q
  <2>1. Q \in SUBSET Nat
    OBVIOUS
  <2> HIDE DEF Q
  <2> QED
    BY <1>2, <1>3, <2>1, NumberInduction
<1> QED
  BY <1>1, <1>4

-----------------------------------------------------------------------------
(* The fold.                                                               *)

LEMMA SumIsAdder == ASSUME NEW f, NEW S PROVE Sum(f, S) = Adder(f, S)[S]
BY DEF Sum, MapThenSumSet, MapThenFoldSet, Adder, AddsUp, Adds, First

LEMMA FirstIn == ASSUME NEW s, s # {} PROVE First(s) \in s
BY DEF First

LEMMA AdderExists ==
  ASSUME NEW f, NEW S, IsFiniteSet(S)
  PROVE  AddsUp(Adder(f, S), f, S)
<1> DEFINE D(n) == {s \in SUBSET S : Cardinality(s) <= n}
           P == {n \in Nat : \E g : Adds(g, f, D(n))}
<1>1. \A s \in SUBSET S : IsFiniteSet(s) /\ Cardinality(s) \in Nat
  BY FS_Subset, FS_CardinalityType
<1>2. \A s \in SUBSET S : Cardinality(s) = 0 <=> s = {}
  BY <1>1, FS_EmptySet
<1>3. 0 \in P
  <2> DEFINE g == [s \in D(0) |-> 0]
  <2>1. \A s \in D(0) : s = {}
    BY <1>1, <1>2
  <2>2. Adds(g, f, D(0))
    BY <2>1 DEF Adds
  <2> QED
    BY <2>2
<1>4. ASSUME NEW n \in P PROVE n + 1 \in P
  <2>1. PICK g : Adds(g, f, D(n))
    OBVIOUS
  <2>2. n \in Nat
    OBVIOUS
  <2> DEFINE h == [s \in D(n + 1) |-> IF s = {} THEN 0 ELSE f[First(s)] + g[s \ {First(s)}]]
  <2>3. \A s \in D(n + 1) : s # {} => s \ {First(s)} \in D(n)
    <3> SUFFICES ASSUME NEW s \in D(n + 1), s # {} PROVE s \ {First(s)} \in D(n)
      OBVIOUS
    <3>1. First(s) \in s /\ IsFiniteSet(s) /\ Cardinality(s) \in Nat /\ Cardinality(s) <= n + 1
      BY <1>1, FirstIn
    <3>2. Cardinality(s \ {First(s)}) = Cardinality(s) - 1
      BY <3>1, FS_RemoveElement
    <3> QED
      BY <2>2, <3>1, <3>2
  <2>4. \A s \in D(n) : s \in D(n + 1)
    BY <1>1, <2>2
  <2>5. \A s \in D(n) : g[s] = IF s = {} THEN 0 ELSE f[First(s)] + g[s \ {First(s)}]
    BY <2>1 DEF Adds
  <2>6. \A s \in D(n) : h[s] = g[s]
    BY <2>4, <2>5
  <2>7. Adds(h, f, D(n + 1))
    <3>1. \A s \in D(n + 1) : s # {} => h[s \ {First(s)}] = g[s \ {First(s)}]
      BY <2>3, <2>6
    <3> QED
      BY <3>1 DEF Adds
  <2>8. \E k : Adds(k, f, D(n + 1))
    <3> HIDE DEF h, D
    <3> QED
      BY <2>7
  <2>9. n + 1 \in Nat
    BY <2>2
  <2> HIDE DEF D
  <2> QED
    BY <2>8, <2>9
<1>5. \A n \in Nat : n \in P
  <2>1. P \in SUBSET Nat
    OBVIOUS
  <2> HIDE DEF P
  <2> QED
    BY <1>3, <1>4, <2>1, NumberInduction
<1>6. PICK N \in Nat : N = Cardinality(S)
  BY <1>1
<1>7. D(N) = SUBSET S
  BY <1>1, <1>6, FS_Subset
<1>8. \E g : Adds(g, f, SUBSET S)
  BY <1>5, <1>6, <1>7
<1> QED
  BY <1>8 DEF Adder, AddsUp

\* The sum does not depend on what is around the set.
LEMMA AdderLocal ==
  ASSUME NEW f, NEW e, NEW S, IsFiniteSet(S), \A x \in S : e[x] = f[x],
         NEW g, AddsUp(g, f, S), NEW U, U \subseteq S, NEW h, AddsUp(h, e, U)
  PROVE  h[U] = g[U]
<1> DEFINE P == {n \in Nat : \A s \in SUBSET U : Cardinality(s) = n => h[s] = g[s]}
<1>1. \A s \in SUBSET U : IsFiniteSet(s) /\ Cardinality(s) \in Nat
  BY FS_Subset, FS_CardinalityType
<1>2. \A s \in SUBSET U : g[s] = IF s = {} THEN 0 ELSE f[First(s)] + g[s \ {First(s)}]
  BY DEF AddsUp, Adds
<1>3. \A s \in SUBSET U : h[s] = IF s = {} THEN 0 ELSE e[First(s)] + h[s \ {First(s)}]
  BY DEF AddsUp, Adds
<1>4. 0 \in P
  BY <1>1, <1>2, <1>3, FS_EmptySet
<1>5. ASSUME NEW n \in P PROVE n + 1 \in P
  <2> SUFFICES ASSUME NEW s \in SUBSET U, Cardinality(s) = n + 1 PROVE h[s] = g[s]
    OBVIOUS
  <2>1. n \in Nat /\ s # {} /\ IsFiniteSet(s)
    BY <1>1, FS_EmptySet
  <2>2. First(s) \in s /\ First(s) \in S
    BY <2>1, FirstIn
  <2>3. Cardinality(s \ {First(s)}) = n
    <3>1. Cardinality(s \ {First(s)}) = Cardinality(s) - 1
      BY <2>1, <2>2, FS_RemoveElement
    <3> QED
      BY <2>1, <3>1
  <2>4. h[s \ {First(s)}] = g[s \ {First(s)}]
    BY <2>3
  <2> QED
    BY <1>2, <1>3, <2>1, <2>2, <2>4
<1>6. \A n \in Nat : n \in P
  <2>1. P \in SUBSET Nat
    OBVIOUS
  <2> HIDE DEF P
  <2> QED
    BY <1>4, <1>5, <2>1, NumberInduction
<1> QED
  BY <1>1, <1>6

-----------------------------------------------------------------------------
(* Sums.                                                                   *)

LEMMA SumSame ==
  ASSUME NEW S, IsFiniteSet(S), NEW e, NEW f, \A x \in S : e[x] = f[x]
  PROVE  Sum(e, S) = Sum(f, S)
<1>1. AddsUp(Adder(f, S), f, S) /\ AddsUp(Adder(e, S), e, S)
  BY AdderExists
<1>2. Adder(e, S)[S] = Adder(f, S)[S]
  <2>1. S \subseteq S
    OBVIOUS
  <2>2. PICK g : g = Adder(f, S)
    OBVIOUS
  <2>3. PICK h : h = Adder(e, S)
    OBVIOUS
  <2>4. AddsUp(g, f, S) /\ AddsUp(h, e, S)
    BY <1>1, <2>2, <2>3
  <2>5. h[S] = g[S]
    BY ONLY IsFiniteSet(S), \A x \in S : e[x] = f[x], <2>1, <2>4, AdderLocal
  <2> QED
    BY <2>2, <2>3, <2>5
<1> QED
  BY <1>2, SumIsAdder

LEMMA SumEmpty == ASSUME NEW f PROVE Sum(f, {}) = 0
<1>1. AddsUp(Adder(f, {}), f, {})
  BY AdderExists, FS_EmptySet
<1>2. Adder(f, {})[{}] = 0
  BY <1>1 DEF AddsUp, Adds
<1> QED
  BY <1>2, SumIsAdder

LEMMA SumFirst ==
  ASSUME NEW S, IsFiniteSet(S), S # {}, NEW f
  PROVE  Sum(f, S) = f[First(S)] + Sum(f, S \ {First(S)})
<1> DEFINE g == Adder(f, S)
           T == S \ {First(S)}
<1>1. AddsUp(g, f, S)
  BY AdderExists
<1>2. g[S] = f[First(S)] + g[T]
  <2>1. S \in SUBSET S
    OBVIOUS
  <2> HIDE DEF g
  <2> QED
    BY <1>1, <2>1 DEF AddsUp, Adds
<1>3. IsFiniteSet(T) /\ T \subseteq S
  BY FS_Subset
<1>4. AddsUp(Adder(f, T), f, T)
  BY <1>3, AdderExists
<1>5. Adder(f, T)[T] = g[T]
  <2>1. PICK h : h = Adder(f, T)
    OBVIOUS
  <2>2. PICK e : e = f
    OBVIOUS
  <2> HIDE DEF g, T
  <2>3. h[T] = g[T]
    <3>1. AddsUp(h, e, T) /\ \A x \in S : e[x] = f[x]
      BY <1>4, <2>1, <2>2
    <3> QED
      BY ONLY IsFiniteSet(S), <1>1, <1>3, <3>1, AdderLocal
  <2> QED
    BY <2>1, <2>3
<1> QED
  BY <1>2, <1>5, SumIsAdder

LEMMA SumType ==
  ASSUME NEW S, IsFiniteSet(S), NEW f, \A x \in S : f[x] \in Int
  PROVE  \A T \in SUBSET S : Sum(f, T) \in Int
<1> DEFINE Q == {n \in Nat : \A T \in SUBSET S : Cardinality(T) = n => Sum(f, T) \in Int}
<1>1. \A T \in SUBSET S : IsFiniteSet(T) /\ Cardinality(T) \in Nat
  BY FS_Subset, FS_CardinalityType
<1>2. 0 \in Q
  BY <1>1, FS_EmptySet, SumEmpty
<1>3. ASSUME NEW n \in Q PROVE n + 1 \in Q
  <2> SUFFICES ASSUME NEW T \in SUBSET S, Cardinality(T) = n + 1 PROVE Sum(f, T) \in Int
    OBVIOUS
  <2>1. n \in Nat /\ T # {} /\ IsFiniteSet(T)
    BY <1>1, FS_EmptySet
  <2>2. First(T) \in T
    BY <2>1, FirstIn
  <2>3. Cardinality(T \ {First(T)}) = n
    <3>1. Cardinality(T \ {First(T)}) = Cardinality(T) - 1
      BY <2>1, <2>2, FS_RemoveElement
    <3> QED
      BY <2>1, <3>1
  <2>4. Sum(f, T \ {First(T)}) \in Int
    BY <2>3
  <2>5. Sum(f, T) = f[First(T)] + Sum(f, T \ {First(T)})
    BY <2>1, SumFirst
  <2>6. f[First(T)] \in Int
    BY <2>2
  <2> QED
    BY <2>4, <2>5, <2>6
<1>4. \A n \in Nat : n \in Q
  <2>1. Q \in SUBSET Nat
    OBVIOUS
  <2> HIDE DEF Q
  <2> QED
    BY <1>2, <1>3, <2>1, NumberInduction
<1> QED
  BY <1>1, <1>4

\* Any element may be taken out first.
LEMMA SumRemove ==
  ASSUME NEW S, IsFiniteSet(S), NEW f, \A x \in S : f[x] \in Int
  PROVE  \A x \in S : Sum(f, S) = f[x] + Sum(f, S \ {x})
<1> DEFINE Q == {n \in Nat : \A T \in SUBSET S : Cardinality(T) = n =>
                               \A x \in T : Sum(f, T) = f[x] + Sum(f, T \ {x})}
<1>1. \A T \in SUBSET S : IsFiniteSet(T) /\ Cardinality(T) \in Nat
  BY FS_Subset, FS_CardinalityType
<1>2. 0 \in Q
  BY <1>1, FS_EmptySet
<1>3. ASSUME NEW n \in Q PROVE n + 1 \in Q
  <2> SUFFICES ASSUME NEW T \in SUBSET S, Cardinality(T) = n + 1, NEW x \in T
               PROVE  Sum(f, T) = f[x] + Sum(f, T \ {x})
    OBVIOUS
  <2>1. n \in Nat /\ T # {} /\ IsFiniteSet(T)
    BY <1>1
  <2>2. PICK y : y = First(T)
    OBVIOUS
  <2>3. y \in T /\ Sum(f, T) = f[y] + Sum(f, T \ {y})
    BY <2>1, <2>2, FirstIn, SumFirst
  <2>4. CASE x = y
    BY <2>3, <2>4
  <2>5. CASE x # y
    <3>1. Cardinality(T \ {y}) = n /\ Cardinality(T \ {x}) = n
      <4>1. Cardinality(T \ {y}) = Cardinality(T) - 1 /\ Cardinality(T \ {x}) = Cardinality(T) - 1
        BY <2>1, <2>3, FS_RemoveElement
      <4> QED
        BY <2>1, <4>1
    <3>2. Sum(f, T \ {y}) = f[x] + Sum(f, (T \ {y}) \ {x})
      BY <2>5, <3>1
    <3>3. Sum(f, T \ {x}) = f[y] + Sum(f, (T \ {x}) \ {y})
      BY <2>3, <2>5, <3>1
    <3>4. (T \ {y}) \ {x} = (T \ {x}) \ {y}
      OBVIOUS
    <3>5. f[x] \in Int /\ f[y] \in Int /\ Sum(f, (T \ {x}) \ {y}) \in Int
      <4>1. (T \ {x}) \ {y} \in SUBSET S
        OBVIOUS
      <4> QED
        BY <2>3, <4>1, SumType
    <3>6. PICK rest \in Int : rest = Sum(f, (T \ {x}) \ {y})
      BY <3>5
    <3>7. Sum(f, T \ {y}) = f[x] + rest /\ Sum(f, T \ {x}) = f[y] + rest
      BY <3>2, <3>3, <3>4, <3>6
    <3> HIDE DEF Q
    <3> QED
      BY <2>3, <3>5, <3>7
  <2> QED
    BY <2>4, <2>5
<1>4. \A n \in Nat : n \in Q
  <2>1. Q \in SUBSET Nat
    OBVIOUS
  <2> HIDE DEF Q
  <2> QED
    BY <1>2, <1>3, <2>1, NumberInduction
<1> QED
  BY <1>1, <1>4

LEMMA SumAdd ==
  ASSUME NEW S, IsFiniteSet(S), NEW x, x \notin S, NEW f, f[x] \in Int, \A y \in S : f[y] \in Int
  PROVE  Sum(f, S \cup {x}) = Sum(f, S) + f[x] /\ Sum(f, S) \in Int
<1>1. IsFiniteSet(S \cup {x}) /\ (S \cup {x}) \ {x} = S
  BY FS_AddElement
<1>2. Sum(f, S \cup {x}) = f[x] + Sum(f, (S \cup {x}) \ {x})
  BY <1>1, SumRemove
<1>3. Sum(f, S) \in Int
  <2>1. S \in SUBSET S
    OBVIOUS
  <2> QED
    BY <2>1, SumType
<1>4. Sum(f, S \cup {x}) = f[x] + Sum(f, S)
  BY <1>1, <1>2
<1> QED
  BY <1>3, <1>4

\* One value changes.
LEMMA SumUpdate ==
  ASSUME NEW S, IsFiniteSet(S), NEW x \in S, NEW e, NEW f,
         \A y \in S : e[y] \in Int /\ f[y] \in Int,
         \A y \in S \ {x} : e[y] = f[y]
  PROVE  /\ Sum(e, S) = Sum(f, S) + e[x] - f[x]
         /\ Sum(e, S) \in Int /\ Sum(f, S) \in Int
<1>1. Sum(e, S) = e[x] + Sum(e, S \ {x}) /\ Sum(f, S) = f[x] + Sum(f, S \ {x})
  BY SumRemove
<1>2. Sum(e, S \ {x}) = Sum(f, S \ {x})
  <2>1. IsFiniteSet(S \ {x})
    BY FS_Subset
  <2> QED
    BY <2>1, SumSame
<1>3. Sum(f, S \ {x}) \in Int /\ e[x] \in Int /\ f[x] \in Int
  <2>1. S \ {x} \in SUBSET S
    OBVIOUS
  <2> QED
    BY <2>1, SumType
<1> QED
  BY <1>1, <1>2, <1>3

\* The members of a set, counted place by place.
LEMMA SumOfCounts ==
  ASSUME NEW R, IsFiniteSet(R), NEW b, NEW S, IsFiniteSet(S), NEW f,
         \A s \in S : f[s] = Cardinality({r \in R : b[r] = s})
  PROVE  Sum(f, S) = Cardinality({r \in R : b[r] \in S})
<1> DEFINE In(T) == {r \in R : b[r] \in T}
           P == {T \in SUBSET S : Sum(f, T) = Cardinality(In(T))}
<1>1. \A T : IsFiniteSet(In(T)) /\ Cardinality(In(T)) \in Nat
  BY FS_Subset, FS_CardinalityType
<1>2. {} \in P
  <2>1. In({}) = {}
    OBVIOUS
  <2> QED
    BY <2>1, SumEmpty, FS_EmptySet
<1>3. ASSUME NEW T \in P, NEW s \in S \ T PROVE T \cup {s} \in P
  <2> DEFINE at == {r \in R : b[r] = s}
  <2>1. IsFiniteSet(T) /\ T \in SUBSET S /\ Sum(f, T) = Cardinality(In(T))
    BY FS_Subset
  <2>2. ASSUME NEW y \in S PROVE f[y] \in Int
    <3>1. PICK Y : Y = {r \in R : b[r] = y}
      OBVIOUS
    <3>2. Y \subseteq R /\ f[y] = Cardinality(Y)
      BY <3>1
    <3>3. Cardinality(Y) \in Nat
      BY <3>2, FS_Subset, FS_CardinalityType
    <3> QED
      BY <3>2, <3>3
  <2>3. Sum(f, T \cup {s}) = Sum(f, T) + f[s]
    BY <2>1, <2>2, SumAdd
  <2>4. In(T \cup {s}) = In(T) \cup at /\ In(T) \cap at = {}
    OBVIOUS
  <2>5. IsFiniteSet(In(T)) /\ IsFiniteSet(at) /\ Cardinality(at) \in Nat /\ Cardinality(In(T)) \in Nat
    BY <1>1, FS_Subset, FS_CardinalityType
  <2>6. f[s] = Cardinality(at)
    OBVIOUS
  <2>7. Cardinality(In(T) \cup at) = Cardinality(In(T)) + Cardinality(at)
    <3> HIDE DEF In, at
    <3>1. Cardinality(In(T) \cup at) = Cardinality(In(T)) + Cardinality(at) - Cardinality(In(T) \cap at)
      BY <2>5, FS_Union
    <3>2. Cardinality(In(T) \cap at) = 0
      BY <2>4, FS_EmptySet
    <3> QED
      BY <2>5, <3>1, <3>2
  <2>8. Sum(f, T \cup {s}) = Cardinality(In(T \cup {s}))
    <3> HIDE DEF In, at, P
    <3> QED
      BY <2>1, <2>3, <2>4, <2>6, <2>7
  <2>9. T \cup {s} \in SUBSET S
    BY <2>1
  <2> HIDE DEF In
  <2> QED
    BY <2>8, <2>9
<1>4. \A T \in SUBSET S : T \in P
  <2>1. P \in SUBSET (SUBSET S)
    OBVIOUS
  <2> HIDE DEF P
  <2> QED
    BY <1>2, <1>3, <2>1, SetInduction
<1> QED
  BY <1>4

\* Values that differ by at most c.
LEMMA SumWithin ==
  ASSUME NEW S, IsFiniteSet(S), NEW f, NEW g, NEW c \in Int,
         \A x \in S : f[x] \in Int /\ g[x] \in Int /\ f[x] <= g[x] + c
  PROVE  \A T \in SUBSET S : Sum(f, T) <= Sum(g, T) + c * Cardinality(T)
<1> DEFINE P == {T \in SUBSET S : Sum(f, T) <= Sum(g, T) + c * Cardinality(T)}
<1>1. {} \in P
  BY SumEmpty, FS_EmptySet
<1>2. ASSUME NEW T \in P, NEW x \in S \ T PROVE T \cup {x} \in P
  <2>1. IsFiniteSet(T) /\ Cardinality(T) \in Nat /\ T \in SUBSET S
    BY FS_Subset, FS_CardinalityType
  <2>2. Sum(f, T) <= Sum(g, T) + c * Cardinality(T)
    OBVIOUS
  <2>3. Sum(f, T \cup {x}) = Sum(f, T) + f[x] /\ Sum(f, T) \in Int
    BY <2>1, SumAdd
  <2>4. Sum(g, T \cup {x}) = Sum(g, T) + g[x] /\ Sum(g, T) \in Int
    BY <2>1, SumAdd
  <2>5. Cardinality(T \cup {x}) = Cardinality(T) + 1
    BY <2>1, FS_AddElement
  <2>6. PICK n \in Nat : n = Cardinality(T)
    BY <2>1
  <2>7. c * (n + 1) = c * n + c /\ c * n \in Int
    OBVIOUS
  <2>8. f[x] \in Int /\ g[x] \in Int /\ f[x] <= g[x] + c
    OBVIOUS
  <2> HIDE DEF P
  <2>9. Sum(f, T \cup {x}) <= Sum(g, T \cup {x}) + c * Cardinality(T \cup {x})
    BY <2>2, <2>3, <2>4, <2>5, <2>6, <2>7, <2>8
  <2> QED
    BY <2>1, <2>9 DEF P
<1>3. P \in SUBSET (SUBSET S)
  OBVIOUS
<1> HIDE DEF P
<1>4. \A T \in SUBSET S : T \in P
  BY <1>1, <1>2, <1>3, SetInduction
<1> QED
  BY <1>4 DEF P

\* A part of a sum of naturals.
LEMMA SumPart ==
  ASSUME NEW S, IsFiniteSet(S), NEW g, \A x \in S : g[x] \in Nat
  PROVE  \A T \in SUBSET S : Sum(g, T) <= Sum(g, S)
<1> DEFINE P == {T \in SUBSET S : Sum(g, S \ T) <= Sum(g, S)}
<1>1. Sum(g, S) \in Int
  <2>1. S \in SUBSET S
    OBVIOUS
  <2> QED
    BY <2>1, SumType
<1>2. {} \in P
  <2>1. S \ {} = S
    OBVIOUS
  <2> QED
    BY <1>1, <2>1
<1>3. ASSUME NEW T \in P, NEW x \in S \ T PROVE T \cup {x} \in P
  <2>1. T \in SUBSET S /\ Sum(g, S \ T) <= Sum(g, S)
    OBVIOUS
  <2>2. IsFiniteSet(S \ T) /\ S \ (T \cup {x}) = (S \ T) \ {x}
    BY FS_Subset
  <2>3. Sum(g, S \ T) = g[x] + Sum(g, (S \ T) \ {x})
    BY <2>2, SumRemove
  <2>4. Sum(g, (S \ T) \ {x}) \in Int /\ g[x] \in Nat
    <3>1. (S \ T) \ {x} \in SUBSET S
      OBVIOUS
    <3> QED
      BY <3>1, SumType
  <2> HIDE DEF P
  <2>5. Sum(g, S \ (T \cup {x})) <= Sum(g, S)
    <3>1. PICK rest \in Int : rest = Sum(g, (S \ T) \ {x})
      BY <2>4
    <3>2. Sum(g, S \ (T \cup {x})) = rest
      BY <2>2, <3>1
    <3>3. Sum(g, S \ T) = g[x] + rest
      BY <2>3, <3>1
    <3> QED
      BY <1>1, <2>1, <2>4, <3>2, <3>3
  <2> QED
    BY <2>1, <2>5 DEF P
<1>4. P \in SUBSET (SUBSET S)
  OBVIOUS
<1> HIDE DEF P
<1>5. \A T \in SUBSET S : T \in P
  BY <1>2, <1>3, <1>4, SetInduction
<1> SUFFICES ASSUME NEW T \in SUBSET S PROVE Sum(g, T) <= Sum(g, S)
  OBVIOUS
<1>6. S \ T \in P /\ S \ (S \ T) = T
  BY <1>5
<1> QED
  BY <1>6 DEF P

\* More elements of one value.
LEMMA SumConstant ==
  ASSUME NEW A, IsFiniteSet(A), NEW S, IsFiniteSet(S), A \cap S = {}, NEW f, NEW c \in Int,
         \A x \in A : f[x] \in Int, \A x \in S : f[x] = c
  PROVE  Sum(f, A \cup S) = Sum(f, A) + c * Cardinality(S) /\ Sum(f, A) \in Int
<1> DEFINE P == {T \in SUBSET S : Sum(f, A \cup T) = Sum(f, A) + c * Cardinality(T)}
<1>1. Sum(f, A) \in Int
  <2>1. A \in SUBSET A
    OBVIOUS
  <2> QED
    BY <2>1, SumType
<1>2. {} \in P
  <2>1. A \cup {} = A
    OBVIOUS
  <2> QED
    BY <1>1, <2>1, FS_EmptySet
<1>3. ASSUME NEW T \in P, NEW x \in S \ T PROVE T \cup {x} \in P
  <2>1. IsFiniteSet(T) /\ Cardinality(T) \in Nat /\ T \in SUBSET S
    BY FS_Subset, FS_CardinalityType
  <2>2. Sum(f, A \cup T) = Sum(f, A) + c * Cardinality(T)
    OBVIOUS
  <2>3. IsFiniteSet(A \cup T) /\ x \notin A \cup T /\ A \cup (T \cup {x}) = (A \cup T) \cup {x}
    BY <2>1, FS_Union
  <2>4. f[x] = c /\ \A y \in A \cup T : f[y] \in Int
    BY <2>1
  <2>5. Sum(f, (A \cup T) \cup {x}) = Sum(f, A \cup T) + f[x]
    BY <2>3, <2>4, SumAdd
  <2>6. Cardinality(T \cup {x}) = Cardinality(T) + 1
    BY <2>1, FS_AddElement
  <2>7. PICK n \in Nat : n = Cardinality(T)
    BY <2>1
  <2>8. c * (n + 1) = c * n + c /\ c * n \in Int
    OBVIOUS
  <2> HIDE DEF P
  <2>9. Sum(f, A \cup (T \cup {x})) = Sum(f, A) + c * Cardinality(T \cup {x})
    <3>1. Sum(f, A \cup (T \cup {x})) = Sum(f, A \cup T) + c
      BY <2>3, <2>4, <2>5
    <3>2. Sum(f, A \cup T) = Sum(f, A) + c * n
      BY <2>2, <2>7
    <3>3. c * Cardinality(T \cup {x}) = c * n + c
      BY <2>6, <2>7, <2>8
    <3> QED
      BY <1>1, <2>8, <3>1, <3>2, <3>3
  <2> QED
    BY <2>1, <2>9 DEF P
<1>4. P \in SUBSET (SUBSET S)
  OBVIOUS
<1> HIDE DEF P
<1>5. \A T \in SUBSET S : T \in P
  BY <1>2, <1>3, <1>4, SetInduction
<1>6. S \in P
  BY <1>5
<1> QED
  BY <1>1, <1>6 DEF P
============================================================================
