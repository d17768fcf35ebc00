----------------------------- MODULE SumLemmas ------------------------------
(* What the sums of the models are, for every function and every finite set:   *)
(* facts about SumFunctionOnSet of the community modules, from its definition. *)
EXTENDS Integers, Functions, FiniteSetTheorems, NaturalsInduction, WellFoundedInduction, TLAPS

\* Induction for a set of numbers.
LEMMA NatSetInduction ==
  ASSUME NEW N, 0 \in N, \A n \in Nat : n \in N => n + 1 \in N
  PROVE  Nat \subseteq N
<1> DEFINE Out == Nat \ N
<1>1. SUFFICES ASSUME Out # {} PROVE FALSE
  OBVIOUS
<1>2. \E n \in Out : \A m \in Out : ~(<<m, n>> \in OpToRel(<, Nat))
  <2>1. Out \subseteq Nat
    OBVIOUS
  <2> HIDE DEF Out
  <2> QED BY <1>1, <2>1, NatLessThanWellFounded, WFMin, Zenon
<1>3. PICK n \in Out : \A m \in Out : ~(<<m, n>> \in OpToRel(<, Nat))
  BY <1>2
<1>4. n \in Nat /\ n # 0 /\ n - 1 \in Nat /\ n - 1 < n
  OBVIOUS
<1>5. n - 1 \notin Out
  BY <1>3, <1>4 DEF OpToRel
<1> QED BY <1>4, <1>5

LEMMA OneLess ==
  ASSUME NEW S, IsFiniteSet(S), NEW x \in S, NEW n \in Nat, Cardinality(S) = n + 1
  PROVE  Cardinality(S \ {x}) = n
<1>1. Cardinality(S \ {x}) = Cardinality(S) - 1
  BY FS_RemoveElement
<1> QED BY <1>1

\* Induction for a family of subsets of a finite set.
LEMMA SubsetInduction ==
  ASSUME NEW S, IsFiniteSet(S), NEW F, {} \in F,
         \A T \in SUBSET S : T # {} /\ (\A x \in T : T \ {x} \in F) => T \in F
  PROVE  \A T \in SUBSET S : T \in F
<1> DEFINE N == {n \in Nat : \A T \in SUBSET S : Cardinality(T) = n => T \in F}
<1>1. \A T \in SUBSET S : IsFiniteSet(T) /\ Cardinality(T) \in Nat
  BY FS_Subset, FS_CardinalityType
<1>2. 0 \in N
  BY <1>1, FS_EmptySet
<1>3. ASSUME NEW n \in Nat, n \in N PROVE n + 1 \in N
  <2> SUFFICES ASSUME NEW T \in SUBSET S, Cardinality(T) = n + 1 PROVE T \in F
    OBVIOUS
  <2>1. T # {}
    <3>1. n + 1 # 0
      OBVIOUS
    <3> QED BY <3>1, FS_EmptySet
  <2>2. ASSUME NEW x \in T PROVE T \ {x} \in F
    <3>1. Cardinality(T \ {x}) = n
      BY <1>1, OneLess
    <3> QED BY <1>3, <3>1
  <2> QED BY <2>1, <2>2
<1>4. Nat \subseteq N
  <2> HIDE DEF N
  <2> QED BY <1>2, <1>3, NatSetInduction
<1> QED BY <1>1, <1>4

\* The same, for a step that holds whichever element is taken away.
LEMMA ElementInduction ==
  ASSUME NEW S, IsFiniteSet(S), NEW F, {} \in F,
         \A T \in SUBSET S : \A x \in T : T \ {x} \in F => T \in F
  PROVE  \A T \in SUBSET S : T \in F
<1>1. \A T \in SUBSET S : T # {} /\ (\A x \in T : T \ {x} \in F) => T \in F
  OBVIOUS
<1> QED BY <1>1, SubsetInduction

\* The image of a finite set is finite.
LEMMA ImageFinite ==
  ASSUME NEW S, IsFiniteSet(S), NEW f
  PROVE  IsFiniteSet({f[x] : x \in S})
<1> DEFINE T == {f[x] : x \in S}
           g == [x \in S |-> f[x]]
<1>1. g \in Surjection(S, T)
  BY DEF Surjection
<1> QED BY <1>1, FS_Surjection

\* Of finitely many numbers one is the greatest.
LEMMA GreatestExists ==
  ASSUME NEW S, IsFiniteSet(S), S # {}, NEW f, \A x \in S : f[x] \in Nat
  PROVE  \E x \in S : \A y \in S : f[y] <= f[x]
<1> DEFINE F == {T \in SUBSET S : T # {} => \E x \in T : \A y \in T : f[y] <= f[x]}
<1>1. {} \in F
  OBVIOUS
<1>2. ASSUME NEW T \in SUBSET S, NEW z \in T, T \ {z} \in F PROVE T \in F
  <2>1. CASE T \ {z} = {}
    BY <2>1
  <2>2. ASSUME NEW x \in T \ {z}, \A y \in T \ {z} : f[y] <= f[x] PROVE T \in F
    <3>1. CASE f[z] <= f[x]
      BY <2>2, <3>1
    <3>2. CASE f[x] <= f[z]
      <4>1. \A y \in T : f[y] <= f[z]
        BY <2>2, <3>2
      <4> QED BY <4>1
    <3> QED BY <3>1, <3>2
  <2> QED BY <1>2, <2>1, <2>2
<1>3. \A T \in SUBSET S : T \in F
  <2> HIDE DEF F
  <2> QED BY <1>1, <1>2, ElementInduction
<1> QED BY <1>3

-----------------------------------------------------------------------------
(* The recursive function behind a sum exists, and one for a set agrees with   *)
(* one for a larger set.                                                       *)

First(s) == CHOOSE x \in s : TRUE
Body(f, it, s) == IF s = {} THEN 0 ELSE f[First(s)] + it[s \ {First(s)}]
IsIter(f, S, it) == it = [s \in SUBSET S |-> Body(f, it, s)]

LEMMA SumIsIter ==
  ASSUME NEW f, NEW S
  PROVE  SumFunctionOnSet(f, S) = (CHOOSE it : IsIter(f, S, it))[S]
BY DEF SumFunctionOnSet, FoldFunctionOnSet, MapThenFoldSet, IsIter, Body, First

LEMMA FirstIn == ASSUME NEW s, s # {} PROVE First(s) \in s
BY DEF First

LEMMA IterExists ==
  ASSUME NEW f, NEW S, IsFiniteSet(S)
  PROVE  \E it : IsIter(f, S, it)
<1> DEFINE Upto(g, n) == \A s \in SUBSET S : Cardinality(s) <= n => g[s] = Body(f, g, s)
           N == {n \in Nat : \E g : Upto(g, n)}
<1>1. \A s \in SUBSET S : IsFiniteSet(s) /\ Cardinality(s) \in Nat
  BY FS_Subset, FS_CardinalityType
<1>2. 0 \in N
  <2>1. \A s \in SUBSET S : Cardinality(s) <= 0 => s = {}
    BY <1>1, FS_EmptySet
  <2>2. Upto([s \in SUBSET S |-> 0], 0)
    BY <2>1 DEF Body
  <2> QED BY <2>2
<1>3. ASSUME NEW n \in Nat, n \in N PROVE n + 1 \in N
  <2>1. PICK g : Upto(g, n)
    BY <1>3
  <2> DEFINE h == [s \in SUBSET S |-> Body(f, g, s)]
  <2>2. ASSUME NEW s \in SUBSET S, Cardinality(s) <= n + 1 PROVE h[s] = Body(f, h, s)
    <3>1. CASE s = {}
      BY <3>1 DEF Body
    <3>2. CASE s # {}
      <4> DEFINE r == s \ {First(s)}
      <4>1. r \in SUBSET S /\ Cardinality(r) <= n
        BY <1>1, <2>2, <3>2, FirstIn, FS_RemoveElement
      <4>2. g[r] = Body(f, g, r)
        BY <2>1, <4>1
      <4>3. h[r] = g[r]
        BY <4>1, <4>2
      <4> QED BY <3>2, <4>3 DEF Body
    <3> QED BY <3>1, <3>2
  <2>3. Upto(h, n + 1)
    BY <2>2
  <2>4. \E k : Upto(k, n + 1)
    BY <2>3
  <2> QED BY <2>4
<1>4. Nat \subseteq N
  <2> HIDE DEF N
  <2> QED BY <1>2, <1>3, NatSetInduction
<1>5. PICK g : Upto(g, Cardinality(S))
  BY <1>1, <1>4
<1>6. \A s \in SUBSET S : Cardinality(s) <= Cardinality(S)
  BY FS_Subset
<1> DEFINE it == [s \in SUBSET S |-> g[s]]
<1>7. ASSUME NEW s \in SUBSET S PROVE it[s] = Body(f, it, s)
  <2>1. it[s] = Body(f, g, s)
    BY <1>5, <1>6
  <2>2. s # {} => it[s \ {First(s)}] = g[s \ {First(s)}]
    OBVIOUS
  <2> QED BY <2>1, <2>2 DEF Body
<1>8. IsIter(f, S, it)
  BY <1>7 DEF IsIter
<1> QED BY <1>8

LEMMA IterUnique ==
  ASSUME NEW f, NEW g, NEW S, IsFiniteSet(S), NEW T \in SUBSET S, \A x \in T : f[x] = g[x],
         NEW it, IsIter(f, S, it), NEW jt, IsIter(g, T, jt)
  PROVE  \A s \in SUBSET T : it[s] = jt[s]
<1> DEFINE N == {n \in Nat : \A s \in SUBSET T : Cardinality(s) = n => it[s] = jt[s]}
<1>1. \A s \in SUBSET T : IsFiniteSet(s) /\ Cardinality(s) \in Nat
  BY FS_Subset, FS_CardinalityType
<1>2. \A s \in SUBSET T : it[s] = Body(f, it, s) /\ jt[s] = Body(g, jt, s)
  BY DEF IsIter
<1>3. 0 \in N
  BY <1>1, <1>2, FS_EmptySet DEF Body
<1>4. ASSUME NEW n \in Nat, n \in N PROVE n + 1 \in N
  <2> SUFFICES ASSUME NEW s \in SUBSET T, Cardinality(s) = n + 1 PROVE it[s] = jt[s]
    OBVIOUS
  <2>1. s # {} /\ First(s) \in s
    BY FS_EmptySet, FirstIn
  <2>2. s \ {First(s)} \in SUBSET T /\ Cardinality(s \ {First(s)}) = n
    BY <1>1, <2>1, OneLess
  <2>3. it[s \ {First(s)}] = jt[s \ {First(s)}]
    BY <1>4, <2>2
  <2>4. f[First(s)] = g[First(s)]
    BY <2>1
  <2> QED BY <1>2, <2>1, <2>3, <2>4 DEF Body
<1>5. Nat \subseteq N
  <2> HIDE DEF N
  <2> QED BY <1>3, <1>4, NatSetInduction
<1> QED BY <1>1, <1>5

\* The sum over a subset is the value of any larger set's function.
LEMMA SumOfIter ==
  ASSUME NEW f, NEW g, NEW S, IsFiniteSet(S), NEW T \in SUBSET S, \A x \in T : f[x] = g[x],
         NEW it, IsIter(f, S, it)
  PROVE  SumFunctionOnSet(g, T) = it[T]
<1>1. PICK k : IsIter(g, T, k)
  BY IterExists, FS_Subset
<1>2. IsIter(g, T, CHOOSE jt : IsIter(g, T, jt))
  BY <1>1
<1>3. \A s \in SUBSET T : it[s] = (CHOOSE jt : IsIter(g, T, jt))[s]
  BY <1>2, IterUnique
<1> QED BY <1>3, SumIsIter

-----------------------------------------------------------------------------
(* The facts that the proofs cite.                                             *)

LEMMA SumEmpty == ASSUME NEW f PROVE SumFunctionOnSet(f, {}) = 0
<1>1. PICK it : IsIter(f, {}, it)
  BY IterExists, FS_EmptySet
<1>2. it[{}] = 0
  BY <1>1 DEF IsIter, Body
<1> QED BY <1>1, <1>2, SumOfIter, FS_EmptySet

\* Only the values on the set matter.
LEMMA SumCongruence ==
  ASSUME NEW f, NEW g, NEW S, IsFiniteSet(S), \A x \in S : f[x] = g[x]
  PROVE  SumFunctionOnSet(f, S) = SumFunctionOnSet(g, S)
<1>1. PICK it : IsIter(f, S, it)
  BY IterExists
<1> QED BY <1>1, SumOfIter

LEMMA SumFirst ==
  ASSUME NEW f, NEW S, IsFiniteSet(S), S # {}
  PROVE  SumFunctionOnSet(f, S) = f[First(S)] + SumFunctionOnSet(f, S \ {First(S)})
<1>1. PICK it : IsIter(f, S, it)
  BY IterExists
<1>2. SumFunctionOnSet(f, S) = it[S]
  BY <1>1, SumOfIter
<1>3. SumFunctionOnSet(f, S \ {First(S)}) = it[S \ {First(S)}]
  BY <1>1, SumOfIter
<1>4. it[S] = Body(f, it, S)
  BY <1>1 DEF IsIter
<1> QED BY <1>2, <1>3, <1>4 DEF Body

\* A sum of integers is an integer, and any member may be taken first.
LEMMA SumTakeAnyInt ==
  ASSUME NEW f, NEW S, IsFiniteSet(S), \A x \in S : f[x] \in Int
  PROVE  /\ SumFunctionOnSet(f, S) \in Int
         /\ \A x \in S : SumFunctionOnSet(f, S) = f[x] + SumFunctionOnSet(f, S \ {x})
<1> DEFINE Sum(T) == SumFunctionOnSet(f, T)
           Good(T) == Sum(T) \in Int /\ \A x \in T : Sum(T) = f[x] + Sum(T \ {x})
           N == {n \in Nat : \A T \in SUBSET S : Cardinality(T) <= n => Good(T)}
<1>1. \A T \in SUBSET S : IsFiniteSet(T) /\ Cardinality(T) \in Nat
  BY FS_Subset, FS_CardinalityType
<1>2. 0 \in N
  <2>1. Good({})
    BY SumEmpty
  <2>2. \A T \in SUBSET S : Cardinality(T) <= 0 => T = {}
    BY <1>1, FS_EmptySet
  <2> QED BY <2>1, <2>2
<1>3. ASSUME NEW n \in Nat, n \in N PROVE n + 1 \in N
  <2> SUFFICES ASSUME NEW T \in SUBSET S, Cardinality(T) = n + 1 PROVE Good(T)
    BY <1>1, <1>3
  <2>1. \A x \in T : Cardinality(T \ {x}) = n
    BY <1>1, OneLess
  <2>2. \A x \in T : Good(T \ {x})
    BY <1>3, <2>1
  <2> DEFINE y == First(T)
  <2>3. y \in T
    BY FirstIn, FS_EmptySet
  <2>4. Sum(T) = f[y] + Sum(T \ {y})
    BY <1>1, <2>3, SumFirst
  <2> HIDE DEF y
  <2>5. ASSUME NEW x \in T PROVE Sum(T) = f[x] + Sum(T \ {x})
    <3>1. CASE x = y
      BY <2>4, <3>1
    <3>2. CASE x # y
      <4>1. (T \ {y}) \ {x} = (T \ {x}) \ {y}
        OBVIOUS
      <4>2. Sum(T \ {y}) = f[x] + Sum((T \ {y}) \ {x})
        BY <2>2, <2>3, <3>2
      <4>3. Sum(T \ {x}) = f[y] + Sum((T \ {y}) \ {x})
        BY <2>2, <2>3, <3>2, <4>1
      <4>4. Sum((T \ {y}) \ {x}) \in Int
        <5>1. Cardinality((T \ {y}) \ {x}) <= n
          BY <1>1, <2>1, <2>3, FS_Subset
        <5> QED BY <1>3, <5>1
      <4> QED BY <2>3, <2>4, <4>2, <4>3, <4>4
    <3> QED BY <3>1, <3>2
  <2>6. Sum(T) \in Int
    BY <2>2, <2>3, <2>4
  <2> QED BY <2>5, <2>6
<1>4. Nat \subseteq N
  <2> HIDE DEF N
  <2> QED BY <1>2, <1>3, NatSetInduction
<1>5. Good(S)
  BY <1>1, <1>4
<1> QED BY <1>5

LEMMA SumTakeAny ==
  ASSUME NEW f, NEW S, IsFiniteSet(S), \A x \in S : f[x] \in Nat
  PROVE  /\ SumFunctionOnSet(f, S) \in Nat
         /\ \A x \in S : SumFunctionOnSet(f, S) = f[x] + SumFunctionOnSet(f, S \ {x})
<1> DEFINE F == {T \in SUBSET S : SumFunctionOnSet(f, T) \in Nat}
<1>1. {} \in F
  BY SumEmpty
<1>2. ASSUME NEW T \in SUBSET S, NEW x \in T, T \ {x} \in F PROVE T \in F
  <2>1. IsFiniteSet(T) /\ \A y \in T : f[y] \in Int
    BY FS_Subset
  <2>2. SumFunctionOnSet(f, T) = f[x] + SumFunctionOnSet(f, T \ {x})
    BY <2>1, SumTakeAnyInt
  <2> QED BY <1>2, <2>2
<1>3. \A T \in SUBSET S : T \in F
  <2> HIDE DEF F
  <2> QED BY <1>1, <1>2, ElementInduction
<1>4. SumFunctionOnSet(f, S) \in Nat
  BY <1>3
<1> QED BY <1>4, SumTakeAnyInt

\* An element more.
LEMMA SumAdd ==
  ASSUME NEW f, NEW S, IsFiniteSet(S), NEW x, x \notin S, f[x] \in Int, \A y \in S : f[y] \in Int
  PROVE  SumFunctionOnSet(f, S \cup {x}) = f[x] + SumFunctionOnSet(f, S)
<1>1. IsFiniteSet(S \cup {x})
  BY FS_AddElement
<1>2. (S \cup {x}) \ {x} = S
  OBVIOUS
<1> QED BY <1>1, <1>2, SumTakeAnyInt

\* Values that are at most others add up to at most their sum.
LEMMA SumMonotone ==
  ASSUME NEW f, NEW g, NEW S, IsFiniteSet(S),
         \A x \in S : f[x] \in Int /\ g[x] \in Int /\ f[x] <= g[x]
  PROVE  SumFunctionOnSet(f, S) <= SumFunctionOnSet(g, S)
<1> DEFINE F == {T \in SUBSET S : SumFunctionOnSet(f, T) <= SumFunctionOnSet(g, T)}
<1>1. {} \in F
  BY SumEmpty
<1>2. ASSUME NEW T \in SUBSET S, NEW x \in T, T \ {x} \in F PROVE T \in F
  <2>1. IsFiniteSet(T) /\ IsFiniteSet(T \ {x}) /\ \A y \in T : f[y] \in Int /\ g[y] \in Int
    BY FS_Subset
  <2>2. /\ SumFunctionOnSet(f, T) = f[x] + SumFunctionOnSet(f, T \ {x})
        /\ SumFunctionOnSet(g, T) = g[x] + SumFunctionOnSet(g, T \ {x})
    BY <2>1, SumTakeAnyInt
  <2>3. SumFunctionOnSet(f, T \ {x}) \in Int /\ SumFunctionOnSet(g, T \ {x}) \in Int
    BY <2>1, SumTakeAnyInt
  <2>4. SumFunctionOnSet(f, T \ {x}) <= SumFunctionOnSet(g, T \ {x})
    BY <1>2
  <2>5. f[x] \in Int /\ g[x] \in Int /\ f[x] <= g[x]
    OBVIOUS
  <2> QED BY <2>2, <2>3, <2>4, <2>5
<1>3. \A T \in SUBSET S : T \in F
  <2> HIDE DEF F
  <2> QED BY <1>1, <1>2, ElementInduction
<1> QED BY <1>3

\* One value grows by w.
LEMMA SumUpdate ==
  ASSUME NEW f, NEW g, NEW S, IsFiniteSet(S), NEW z \in S, NEW w \in Int,
         \A x \in S : f[x] \in Int, g[z] = f[z] + w, \A x \in S \ {z} : g[x] = f[x]
  PROVE  SumFunctionOnSet(g, S) = SumFunctionOnSet(f, S) + w
<1>1. IsFiniteSet(S \ {z})
  BY FS_RemoveElement
<1>2. SumFunctionOnSet(g, S \ {z}) = SumFunctionOnSet(f, S \ {z})
  BY <1>1, SumCongruence
<1>3. \A x \in S : g[x] \in Int
  OBVIOUS
<1>4. /\ SumFunctionOnSet(f, S) = f[z] + SumFunctionOnSet(f, S \ {z})
      /\ SumFunctionOnSet(g, S) = g[z] + SumFunctionOnSet(g, S \ {z})
  BY <1>3, SumTakeAnyInt
<1>5. SumFunctionOnSet(f, S \ {z}) \in Int
  BY <1>1, SumTakeAnyInt
<1> QED BY <1>2, <1>4, <1>5

LEMMA SumOfZeros ==
  ASSUME NEW f, NEW S, IsFiniteSet(S), \A x \in S : f[x] = 0
  PROVE  SumFunctionOnSet(f, S) = 0
<1> DEFINE F == {T \in SUBSET S : SumFunctionOnSet(f, T) = 0}
<1>1. {} \in F
  BY SumEmpty
<1>2. ASSUME NEW T \in SUBSET S, NEW x \in T, T \ {x} \in F PROVE T \in F
  <2>1. IsFiniteSet(T)
    BY FS_Subset
  <2>2. SumFunctionOnSet(f, T) = f[x] + SumFunctionOnSet(f, T \ {x})
    BY <2>1, SumTakeAny
  <2> QED BY <1>2, <2>2
<1>3. \A T \in SUBSET S : T \in F
  <2> HIDE DEF F
  <2> QED BY <1>1, <1>2, ElementInduction
<1> QED BY <1>3

\* The sums of two disjoint sets.
LEMMA SumUnion ==
  ASSUME NEW f, NEW S, IsFiniteSet(S), NEW T, IsFiniteSet(T), S \cap T = {},
         \A x \in S \cup T : f[x] \in Nat
  PROVE  SumFunctionOnSet(f, S \cup T) = SumFunctionOnSet(f, S) + SumFunctionOnSet(f, T)
<1> DEFINE Sum(U) == SumFunctionOnSet(f, U)
           F == {U \in SUBSET T : Sum(S \cup U) = Sum(S) + Sum(U)}
<1>1. {} \in F
  <2>1. S \cup {} = S /\ Sum(S) \in Nat
    BY SumTakeAny
  <2> QED BY <2>1, SumEmpty
<1>2. ASSUME NEW U \in SUBSET T, NEW x \in U, U \ {x} \in F PROVE U \in F
  <2>1. IsFiniteSet(U) /\ IsFiniteSet(U \ {x}) /\ IsFiniteSet(S \cup U)
    BY FS_Subset, FS_Union
  <2>2. (S \cup U) \ {x} = S \cup (U \ {x}) /\ x \in S \cup U
    OBVIOUS
  <2>3. Sum(U) = f[x] + Sum(U \ {x}) /\ Sum(S \cup U) = f[x] + Sum(S \cup (U \ {x}))
    <3>1. \A y \in S \cup U : f[y] \in Nat
      OBVIOUS
    <3>2. Sum(U) = f[x] + Sum(U \ {x})
      BY <2>1, <3>1, SumTakeAny
    <3>3. Sum(S \cup U) = f[x] + Sum((S \cup U) \ {x})
      BY <2>1, <2>2, <3>1, SumTakeAny
    <3> QED BY <2>2, <3>2, <3>3
  <2>4. Sum(U \ {x}) \in Nat /\ Sum(S) \in Nat /\ f[x] \in Nat
    BY <2>1, SumTakeAny
  <2>5. Sum(S \cup (U \ {x})) = Sum(S) + Sum(U \ {x})
    BY <1>2
  <2>6. Sum(S \cup U) = Sum(S) + Sum(U)
    <3> HIDE DEF Sum
    <3> QED BY <2>3, <2>4, <2>5
  <2> QED BY <2>6
<1>3. \A U \in SUBSET T : U \in F
  <2> HIDE DEF F
  <2> QED BY <1>1, <1>2, ElementInduction
<1> QED BY <1>3

LEMMA SumOfSubset ==
  ASSUME NEW f, NEW S, IsFiniteSet(S), NEW T \in SUBSET S, \A x \in S : f[x] \in Nat
  PROVE  SumFunctionOnSet(f, T) <= SumFunctionOnSet(f, S)
<1>1. IsFiniteSet(T) /\ IsFiniteSet(S \ T) /\ T \cap (S \ T) = {} /\ T \cup (S \ T) = S
  BY FS_Subset
<1>2. SumFunctionOnSet(f, S) = SumFunctionOnSet(f, T) + SumFunctionOnSet(f, S \ T)
  <2>1. \A x \in T \cup (S \ T) : f[x] \in Nat
    OBVIOUS
  <2>2. SumFunctionOnSet(f, T \cup (S \ T)) = SumFunctionOnSet(f, T) + SumFunctionOnSet(f, S \ T)
    BY <1>1, <2>1, SumUnion
  <2> QED BY <1>1, <2>2
<1>3. SumFunctionOnSet(f, T) \in Nat /\ SumFunctionOnSet(f, S \ T) \in Nat
  BY <1>1, SumTakeAny
<1> QED BY <1>2, <1>3

\* The members of a set, put into groups: the sums of the groups add up to the
\* sum of the set.
LEMMA SumOfGroups ==
  ASSUME NEW f, NEW S, IsFiniteSet(S), \A x \in S : f[x] \in Int,
         NEW P, IsFiniteSet(P), NEW of, \A x \in S : of[x] \in P
  PROVE  SumFunctionOnSet([p \in P |-> SumFunctionOnSet(f, {x \in S : of[x] = p})], P)
           = SumFunctionOnSet(f, S)
<1> DEFINE Sum(T) == SumFunctionOnSet(f, T)
           Group(T, p) == {x \in T : of[x] = p}
           G(T) == [p \in P |-> Sum(Group(T, p))]
           F == {T \in SUBSET S : SumFunctionOnSet(G(T), P) = Sum(T)}
<1>1. {} \in F
  <2>1. \A p \in P : G({})[p] = 0
    <3>1. \A p \in P : Group({}, p) = {}
      OBVIOUS
    <3> QED BY <3>1, SumEmpty
  <2>2. SumFunctionOnSet(G({}), P) = 0
    <3> HIDE DEF G
    <3> QED BY <2>1, SumOfZeros
  <2> QED BY <2>2, SumEmpty
<1>2. ASSUME NEW T \in SUBSET S, NEW x \in T, T \ {x} \in F PROVE T \in F
  <2>1. IsFiniteSet(T) /\ f[x] \in Int /\ of[x] \in P
    BY FS_Subset
  <2>2. \A p \in P : IsFiniteSet(Group(T, p)) /\ IsFiniteSet(Group(T \ {x}, p))
    BY FS_Subset
  <2>3. \A p \in P : G(T \ {x})[p] \in Int
    <3> SUFFICES ASSUME NEW p \in P PROVE Sum(Group(T \ {x}, p)) \in Int
      OBVIOUS
    <3> QED BY <2>2, SumTakeAnyInt
  <2>4. G(T)[of[x]] = G(T \ {x})[of[x]] + f[x]
    <3>1. x \in Group(T, of[x]) /\ Group(T, of[x]) \ {x} = Group(T \ {x}, of[x])
      OBVIOUS
    <3>2. Sum(Group(T, of[x])) = f[x] + Sum(Group(T, of[x]) \ {x})
      BY <2>1, <2>2, <3>1, SumTakeAnyInt
    <3>3. Sum(Group(T \ {x}, of[x])) \in Int
      BY <2>1, <2>3
    <3>4. Sum(Group(T, of[x])) = Sum(Group(T \ {x}, of[x])) + f[x]
      <4>1. Sum(Group(T, of[x])) = f[x] + Sum(Group(T \ {x}, of[x]))
        BY <3>1, <3>2
      <4> DEFINE total == Sum(Group(T, of[x]))
                 others == Sum(Group(T \ {x}, of[x]))
      <4>2. total = f[x] + others /\ others \in Int
        BY <4>1, <3>3
      <4> HIDE DEF total, others
      <4>3. total = others + f[x]
        BY <2>1, <4>2
      <4> QED BY <4>3 DEF total, others
    <3> QED BY <2>1, <3>4
  <2>5. \A p \in P \ {of[x]} : G(T)[p] = G(T \ {x})[p]
    <3>1. \A p \in P \ {of[x]} : Group(T, p) = Group(T \ {x}, p)
      OBVIOUS
    <3> QED BY <3>1
  <2>6. SumFunctionOnSet(G(T), P) = SumFunctionOnSet(G(T \ {x}), P) + f[x]
    <3> DEFINE g == G(T \ {x})
               h == G(T)
    <3>1. /\ \A p \in P : g[p] \in Int
          /\ h[of[x]] = g[of[x]] + f[x]
          /\ \A p \in P \ {of[x]} : h[p] = g[p]
      BY <2>3, <2>4, <2>5
    <3> HIDE DEF g, h
    <3>2. SumFunctionOnSet(h, P) = SumFunctionOnSet(g, P) + f[x]
      BY <2>1, <3>1, SumUpdate
    <3> QED BY <3>2 DEF g, h
  <2>7. Sum(T) = f[x] + Sum(T \ {x}) /\ Sum(T \ {x}) \in Int
    BY <2>1, SumTakeAnyInt, FS_Subset
  <2>8. SumFunctionOnSet(G(T \ {x}), P) = Sum(T \ {x})
    BY <1>2
  <2>9. SumFunctionOnSet(G(T), P) = Sum(T)
    <3> HIDE DEF G, Sum
    <3> QED BY <2>1, <2>6, <2>7, <2>8
  <2> QED BY <2>9
<1>3. \A T \in SUBSET S : T \in F
  <2> HIDE DEF F
  <2> QED BY <1>1, <1>2, ElementInduction
<1>4. S \in F
  BY <1>3
<1> QED BY <1>4

\* Every value times k.
LEMMA SumOfMultiples ==
  ASSUME NEW f, NEW g, NEW S, IsFiniteSet(S), NEW k \in Nat,
         \A x \in S : f[x] \in Nat /\ g[x] = k * f[x]
  PROVE  SumFunctionOnSet(g, S) = k * SumFunctionOnSet(f, S)
<1> DEFINE F == {T \in SUBSET S : SumFunctionOnSet(g, T) = k * SumFunctionOnSet(f, T)}
<1>1. {} \in F
  BY SumEmpty
<1>2. ASSUME NEW T \in SUBSET S, NEW x \in T, T \ {x} \in F PROVE T \in F
  <2>1. IsFiniteSet(T) /\ IsFiniteSet(T \ {x}) /\ \A y \in T : f[y] \in Nat /\ g[y] \in Nat
    BY FS_Subset
  <2> DEFINE a == SumFunctionOnSet(f, T \ {x})
  <2>2. /\ SumFunctionOnSet(f, T) = f[x] + a
        /\ SumFunctionOnSet(g, T) = g[x] + SumFunctionOnSet(g, T \ {x})
    BY <2>1, SumTakeAny
  <2>3. a \in Nat /\ SumFunctionOnSet(g, T \ {x}) = k * a
    BY <1>2, <2>1, SumTakeAny
  <2> HIDE DEF a
  <2>4. k * f[x] + k * a = k * (f[x] + a)
    BY <2>1, <2>3
  <2> QED BY <2>2, <2>3, <2>4
<1>3. \A T \in SUBSET S : T \in F
  <2> HIDE DEF F
  <2> QED BY <1>1, <1>2, ElementInduction
<1> QED BY <1>3

\* Intervals that do not overlap, each of at most what a rising quantity grows
\* by over it: together at most the quantity at the end.
LEMMA SumOfIntervals ==
  ASSUME NEW X, IsFiniteSet(X), NEW f, NEW lo, NEW hi,
         \A x \in X : f[x] \in Nat /\ lo[x] \in Nat /\ hi[x] \in Nat /\ lo[x] < hi[x],
         \A x, y \in X : x # y => hi[x] <= lo[y] \/ hi[y] <= lo[x],
         NEW a \in [Nat -> Nat], \A i, j \in Nat : i <= j => a[i] <= a[j],
         \A x \in X : f[x] + a[lo[x]] <= a[hi[x]],
         NEW end \in Nat, \A x \in X : hi[x] <= end
  PROVE  SumFunctionOnSet(f, X) <= a[end]
<1> DEFINE F == {T \in SUBSET X : \A m \in Nat :
                   (\A x \in T : hi[x] <= m) => SumFunctionOnSet(f, T) <= a[m]}
<1>1. {} \in F
  BY SumEmpty
<1>2. ASSUME NEW T \in SUBSET X, T # {}, \A x \in T : T \ {x} \in F
      PROVE  T \in F
  <2> SUFFICES ASSUME NEW m \in Nat, \A x \in T : hi[x] <= m
               PROVE  SumFunctionOnSet(f, T) <= a[m]
    OBVIOUS
  <2>1. IsFiniteSet(T) /\ \A x \in T : f[x] \in Nat
    BY FS_Subset
  <2>2. PICK x \in T : \A y \in T : hi[y] <= hi[x]
    BY <1>2, <2>1, GreatestExists
  <2>3. \A y \in T \ {x} : hi[y] <= lo[x]
    BY <2>2
  <2>4. SumFunctionOnSet(f, T \ {x}) <= a[lo[x]]
    BY <1>2, <2>3
  <2>5. SumFunctionOnSet(f, T) = f[x] + SumFunctionOnSet(f, T \ {x})
    BY <2>1, SumTakeAny
  <2>6. SumFunctionOnSet(f, T \ {x}) \in Nat
    BY <2>1, SumTakeAny, FS_Subset
  <2>7. f[x] + a[lo[x]] <= a[hi[x]] /\ a[hi[x]] <= a[m]
    OBVIOUS
  <2>8. f[x] \in Nat /\ a[lo[x]] \in Nat /\ a[hi[x]] \in Nat /\ a[m] \in Nat
    OBVIOUS
  <2> QED BY <2>4, <2>5, <2>6, <2>7, <2>8
<1>3. \A T \in SUBSET X : T \in F
  <2> HIDE DEF F
  <2> QED BY <1>1, <1>2, SubsetInduction
<1> QED BY <1>3
=============================================================================
