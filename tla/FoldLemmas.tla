----------------------------- MODULE FoldLemmas -----------------------------
(***************************************************************************)
(* What the folds of the community modules compute, for every finite       *)
(* argument.  The library's induction theorems take the induction          *)
(* predicate as an operator, so these proofs go by a least counterexample. *)
(***************************************************************************)
EXTENDS Integers, FiniteSets, Sequences, Functions, FiniteSetTheorems,
        WellFoundedInduction, TLAPS

\* A set of natural numbers that is not empty has a least element.
LEMMA LeastNatural ==
    ASSUME NEW S \in SUBSET Nat, S # {}
    PROVE  \E m \in S : \A x \in S : m <= x
<1>1. IsWellFoundedOn(OpToRel(<, Nat), Nat)
  BY NatLessThanWellFounded
<1>2. PICK m \in S : \A x \in S : ~(<<x, m>> \in OpToRel(<, Nat))
  BY <1>1, WFMin
<1>3. \A x \in S : ~(x < m)
  BY <1>2 DEF OpToRel
<1> QED
  BY <1>3

\* A set that holds 0 and with every natural its successor holds them all.
LEMMA Induct ==
    ASSUME NEW G, 0 \in G, \A n \in Nat : n \in G => n + 1 \in G
    PROVE  \A n \in Nat : n \in G
<1> SUFFICES ASSUME Nat \ G # {} PROVE FALSE
  OBVIOUS
<1>1. PICK m \in Nat \ G : \A x \in Nat \ G : m <= x
  BY LeastNatural
<1>2. m - 1 \in Nat /\ m - 1 \in G
  BY <1>1
<1> QED
  BY <1>2

-----------------------------------------------------------------------------
(* Sums over finite sets.                                                  *)

\* The element the folds take first.
Pick(s) == CHOOSE x \in s : TRUE

\* iter is the table of partial sums of f over the subsets of S.
PartialSums(f, S, iter) ==
    iter = [s \in SUBSET S |-> IF s = {} THEN 0 ELSE f[Pick(s)] + iter[s \ {Pick(s)}]]

\* Picking from a set that is not empty makes it smaller.
LEMMA PickSmaller ==
    ASSUME NEW s, IsFiniteSet(s), s # {}
    PROVE  /\ Pick(s) \in s
           /\ IsFiniteSet(s \ {Pick(s)})
           /\ Cardinality(s) \in Nat
           /\ Cardinality(s \ {Pick(s)}) \in Nat
           /\ Cardinality(s \ {Pick(s)}) = Cardinality(s) - 1
<1>1. Pick(s) \in s
  BY DEF Pick
<1>2. /\ IsFiniteSet(s \ {Pick(s)})
      /\ Cardinality(s \ {Pick(s)}) = Cardinality(s) - 1
  BY <1>1, FS_RemoveElement
<1> QED
  BY <1>1, <1>2, FS_CardinalityType

\* A finite set has a table of partial sums.
LEMMA PartialSumsExist ==
    ASSUME NEW f, NEW S, IsFiniteSet(S)
    PROVE  \E iter : PartialSums(f, S, iter)
<1> DEFINE UpTo(n) == {s \in SUBSET S : Cardinality(s) <= n}
           Val(g, s) == IF s = {} THEN 0 ELSE f[Pick(s)] + g[s \ {Pick(s)}]
           Table(n) == \E g : g = [s \in UpTo(n) |-> Val(g, s)]
           Tabled == {n \in Nat : Table(n)}
<1>0. \A s \in SUBSET S : IsFiniteSet(s) /\ Cardinality(s) \in Nat
  BY FS_Subset, FS_CardinalityType
<1>1. Table(0)
  <2> DEFINE g == [s \in UpTo(0) |-> 0]
  <2>1. \A s \in UpTo(0) : s = {}
    BY <1>0, FS_EmptySet
  <2>2. g = [s \in UpTo(0) |-> Val(g, s)]
    BY <2>1
  <2> QED
    BY <2>2
<1>2. ASSUME NEW n \in Nat, Table(n)
      PROVE  Table(n + 1)
  <2>1. PICK g : g = [s \in UpTo(n) |-> Val(g, s)]
    BY <1>2
  <2> DEFINE h == [s \in UpTo(n + 1) |-> Val(g, s)]
  <2>2. ASSUME NEW s \in UpTo(n + 1), s # {}
        PROVE  h[s \ {Pick(s)}] = g[s \ {Pick(s)}]
    <3>1. s \ {Pick(s)} \in UpTo(n) /\ s \ {Pick(s)} \in UpTo(n + 1)
      BY <1>0, <2>2, PickSmaller
    <3> QED
      BY <2>1, <3>1
  <2>3. \A s \in UpTo(n + 1) : Val(g, s) = Val(h, s)
    BY <2>2
  <2>4. h = [s \in UpTo(n + 1) |-> Val(h, s)]
    BY <2>3
  <2> QED
    BY <2>4
<1>3. 0 \in Tabled /\ \A n \in Nat : n \in Tabled => n + 1 \in Tabled
  <2> HIDE DEF Table
  <2> QED
    BY <1>1, <1>2
<1>4. Cardinality(S) \in Tabled
  <2> HIDE DEF Tabled
  <2> QED
    BY <1>3, Induct, FS_CardinalityType
<1>5. UpTo(Cardinality(S)) = SUBSET S
  BY FS_Subset
<1> QED
  BY <1>4, <1>5 DEF PartialSums

\* Tables of two functions that agree on T, over supersets of T, agree on the
\* subsets of T.
LEMMA PartialSumsAgree ==
    ASSUME NEW f, NEW g, NEW T, IsFiniteSet(T), NEW R, NEW S,
           T \subseteq R, T \subseteq S, \A x \in T : f[x] = g[x],
           NEW a, NEW b, PartialSums(f, R, a), PartialSums(g, S, b)
    PROVE  \A s \in SUBSET T : a[s] = b[s]
<1> DEFINE Agree == {n \in Nat : \A s \in SUBSET T : Cardinality(s) = n => a[s] = b[s]}
<1>0. \A s \in SUBSET T : IsFiniteSet(s) /\ Cardinality(s) \in Nat
  BY FS_Subset, FS_CardinalityType
<1>1. 0 \in Agree
  <2>1. ASSUME NEW s \in SUBSET T, Cardinality(s) = 0 PROVE a[s] = b[s]
    <3>1. s = {}
      BY <1>0, <2>1, FS_EmptySet
    <3> QED
      BY <3>1 DEF PartialSums
  <2> QED
    BY <2>1
<1>2. ASSUME NEW n \in Nat, n \in Agree
      PROVE  n + 1 \in Agree
  <2>1. ASSUME NEW s \in SUBSET T, Cardinality(s) = n + 1
        PROVE  a[s] = b[s]
    <3>1. s # {}
      BY <2>1, FS_EmptySet
    <3> DEFINE t == s \ {Pick(s)}
    <3>2. Pick(s) \in T /\ t \in SUBSET T /\ Cardinality(t) = n
      BY <1>0, <2>1, <3>1, PickSmaller
    <3>3. a[t] = b[t]
      BY <1>2, <3>2
    <3>4. a[s] = f[Pick(s)] + a[t] /\ b[s] = g[Pick(s)] + b[t]
      BY <3>1 DEF PartialSums
    <3> QED
      BY <3>2, <3>3, <3>4
  <2> QED
    BY <2>1
<1>3. \A n \in Nat : n \in Agree
  <2> HIDE DEF Agree
  <2> QED
    BY <1>1, <1>2, Induct
<1> QED
  BY <1>0, <1>3

\* The sum of f over S, as the community modules define it, is the last entry of
\* a table of partial sums.
LEMMA SumIsTable ==
    ASSUME NEW f, NEW S, IsFiniteSet(S)
    PROVE  \E iter : PartialSums(f, S, iter) /\ SumFunctionOnSet(f, S) = iter[S]
<1> DEFINE iter == CHOOSE g : PartialSums(f, S, g)
<1>1. PartialSums(f, S, iter)
  BY PartialSumsExist
<1>2. SumFunctionOnSet(f, S) = iter[S]
  BY DEF SumFunctionOnSet, FoldFunctionOnSet, MapThenFoldSet, PartialSums, Pick
<1> QED
  BY <1>1, <1>2

\* A sum depends only on the values at the elements summed over.
LEMMA SumCongruent ==
    ASSUME NEW f, NEW g, NEW S, IsFiniteSet(S), \A x \in S : f[x] = g[x]
    PROVE  SumFunctionOnSet(f, S) = SumFunctionOnSet(g, S)
<1>1. PICK a : PartialSums(f, S, a) /\ SumFunctionOnSet(f, S) = a[S]
  BY SumIsTable
<1>2. PICK b : PartialSums(g, S, b) /\ SumFunctionOnSet(g, S) = b[S]
  BY SumIsTable
<1>3. \A s \in SUBSET S : a[s] = b[s]
  BY <1>1, <1>2, PartialSumsAgree
<1> QED
  BY <1>1, <1>2, <1>3

\* A sum over no elements is 0.
LEMMA SumEmpty ==
    ASSUME NEW f
    PROVE  SumFunctionOnSet(f, {}) = 0
<1>1. PICK a : PartialSums(f, {}, a) /\ SumFunctionOnSet(f, {}) = a[{}]
  BY SumIsTable, FS_EmptySet
<1> QED
  BY <1>1 DEF PartialSums

\* A sum is its first term and the sum of the rest.
LEMMA SumFirst ==
    ASSUME NEW f, NEW S, IsFiniteSet(S), S # {}
    PROVE  SumFunctionOnSet(f, S) = f[Pick(S)] + SumFunctionOnSet(f, S \ {Pick(S)})
<1> DEFINE T == S \ {Pick(S)}
<1>0. IsFiniteSet(T) /\ T \subseteq S
  BY PickSmaller
<1>1. PICK a : PartialSums(f, S, a) /\ SumFunctionOnSet(f, S) = a[S]
  BY SumIsTable
<1>2. PICK b : PartialSums(f, T, b) /\ SumFunctionOnSet(f, T) = b[T]
  BY <1>0, SumIsTable
<1>3. a[T] = b[T]
  <2> HIDE DEF T
  <2>1. PICK g, U : g = f /\ U = T
    OBVIOUS
  <2>2. \A s \in SUBSET T : a[s] = b[s]
    <3>1. PartialSums(f, S, a) /\ PartialSums(g, U, b) /\ \A x \in T : f[x] = g[x]
      BY <1>1, <1>2, <2>1
    <3>2. T \subseteq U /\ T \subseteq S /\ IsFiniteSet(T)
      BY <1>0, <2>1
    <3> QED
      BY <3>1, <3>2, PartialSumsAgree
  <2> QED
    BY <2>2
<1>4. a[S] = f[Pick(S)] + a[T]
  BY <1>1 DEF PartialSums
<1> QED
  BY <1>1, <1>2, <1>3, <1>4

\* A sum of natural numbers is a natural number.
LEMMA SumType ==
    ASSUME NEW f, NEW S, IsFiniteSet(S), \A x \in S : f[x] \in Nat
    PROVE  SumFunctionOnSet(f, S) \in Nat
<1> DEFINE Typed == {n \in Nat : \A s \in SUBSET S :
                        Cardinality(s) = n => SumFunctionOnSet(f, s) \in Nat}
<1>0. \A s \in SUBSET S : IsFiniteSet(s) /\ Cardinality(s) \in Nat
  BY FS_Subset, FS_CardinalityType
<1>1. 0 \in Typed
  BY <1>0, FS_EmptySet, SumEmpty
<1>2. ASSUME NEW n \in Nat, n \in Typed
      PROVE  n + 1 \in Typed
  <2>1. ASSUME NEW s \in SUBSET S, Cardinality(s) = n + 1
        PROVE  SumFunctionOnSet(f, s) \in Nat
    <3>1. s # {}
      BY <2>1, FS_EmptySet
    <3>2. /\ Pick(s) \in S
          /\ s \ {Pick(s)} \in SUBSET S
          /\ Cardinality(s \ {Pick(s)}) = n
      BY <1>0, <2>1, <3>1, PickSmaller
    <3>3. SumFunctionOnSet(f, s \ {Pick(s)}) \in Nat /\ f[Pick(s)] \in Nat
      BY <1>2, <3>2
    <3>4. SumFunctionOnSet(f, s) = f[Pick(s)] + SumFunctionOnSet(f, s \ {Pick(s)})
      BY <1>0, <3>1, SumFirst
    <3> QED
      BY <3>3, <3>4
  <2> QED
    BY <2>1
<1>3. \A n \in Nat : n \in Typed
  <2> HIDE DEF Typed
  <2> QED
    BY <1>1, <1>2, Induct
<1> QED
  BY <1>0, <1>3

\* A sum does not depend on the order: any element may be taken out.
LEMMA SumRemove ==
    ASSUME NEW f, NEW S, IsFiniteSet(S), \A x \in S : f[x] \in Nat, NEW e \in S
    PROVE  SumFunctionOnSet(f, S) = f[e] + SumFunctionOnSet(f, S \ {e})
<1> DEFINE Sum(s) == SumFunctionOnSet(f, s)
           Free == {n \in Nat : \A s \in SUBSET S : Cardinality(s) = n =>
                       \A x \in s : Sum(s) = f[x] + Sum(s \ {x})}
<1>0. \A s \in SUBSET S : IsFiniteSet(s) /\ Cardinality(s) \in Nat /\ Sum(s) \in Nat
  BY FS_Subset, FS_CardinalityType, SumType
<1>1. 0 \in Free
  BY <1>0, FS_EmptySet
<1>2. ASSUME NEW n \in Nat, n \in Free
      PROVE  n + 1 \in Free
  <2>1. ASSUME NEW s \in SUBSET S, Cardinality(s) = n + 1, NEW x \in s
        PROVE  Sum(s) = f[x] + Sum(s \ {x})
    <3> DEFINE p == Pick(s)
    <3>1. s # {} /\ IsFiniteSet(s) /\ p \in s
      BY <1>0, <2>1, PickSmaller
    <3>2. Sum(s) = f[p] + Sum(s \ {p})
      BY <3>1, SumFirst
    <3>3. CASE x = p
      BY <3>2, <3>3
    <3>4. CASE x # p
      <4> DEFINE r == (s \ {p}) \ {x}
      <4>1. Cardinality(s \ {p}) = n /\ Cardinality(s \ {x}) = n
        <5> HIDE DEF p
        <5>1. \A y \in s : Cardinality(s \ {y}) = Cardinality(s) - 1
          BY <3>1, FS_RemoveElement
        <5> QED
          BY <2>1, <3>1, <5>1
      <4>2. r = (s \ {x}) \ {p} /\ r \in SUBSET S /\ x \in s \ {p} /\ p \in s \ {x}
        BY <3>1, <3>4
      <4>3. Sum(s \ {p}) = f[x] + Sum(r) /\ Sum(s \ {x}) = f[p] + Sum(r)
        BY <1>2, <4>1, <4>2
      <4>4. f[x] \in Nat /\ f[p] \in Nat /\ Sum(r) \in Nat
        BY <1>0, <3>1, <4>2
      <4> HIDE DEF Sum, p, r
      <4> QED
        BY <3>2, <4>3, <4>4
    <3> QED
      BY <3>3, <3>4
  <2> QED
    BY <2>1
<1>3. \A n \in Nat : n \in Free
  <2> HIDE DEF Free
  <2> QED
    BY <1>1, <1>2, Induct
<1> QED
  BY <1>0, <1>3

\* A sum over S is the sum over a part of it and the sum over the rest.
LEMMA SumSplit ==
    ASSUME NEW f, NEW S, IsFiniteSet(S), \A x \in S : f[x] \in Nat, NEW T \in SUBSET S
    PROVE  SumFunctionOnSet(f, S) = SumFunctionOnSet(f, T) + SumFunctionOnSet(f, S \ T)
<1> DEFINE Sum(s) == SumFunctionOnSet(f, s)
           Splits == {n \in Nat : \A s \in SUBSET S : Cardinality(s) = n =>
                         Sum(S) = Sum(s) + Sum(S \ s)}
<1>0. \A s \in SUBSET S : IsFiniteSet(s) /\ Cardinality(s) \in Nat /\ Sum(s) \in Nat
  BY FS_Subset, FS_CardinalityType, SumType
<1>1. 0 \in Splits
  <2>1. ASSUME NEW s \in SUBSET S, Cardinality(s) = 0
        PROVE  Sum(S) = Sum(s) + Sum(S \ s)
    <3>1. s = {} /\ S \ s = S /\ Sum({}) = 0 /\ Sum(S) \in Nat
      BY <1>0, <2>1, FS_EmptySet, SumEmpty
    <3> QED
      BY <3>1
  <2> QED
    BY <2>1
<1>2. ASSUME NEW n \in Nat, n \in Splits
      PROVE  n + 1 \in Splits
  <2>1. ASSUME NEW s \in SUBSET S, Cardinality(s) = n + 1
        PROVE  Sum(S) = Sum(s) + Sum(S \ s)
    <3>1. s # {}
      BY <2>1, FS_EmptySet
    <3>2. PICK x : x \in s
      BY <3>1
    <3> DEFINE t == s \ {x}
    <3>3. t \in SUBSET S /\ Cardinality(t) = n
      BY <1>0, <2>1, <3>2, FS_RemoveElement
    <3>4. Sum(S) = Sum(t) + Sum(S \ t)
      BY <1>2, <3>3
    <3>5. Sum(s) = f[x] + Sum(t)
      BY <1>0, <3>2, SumRemove
    <3>6. (S \ t) \ {x} = S \ s /\ x \in S \ t /\ S \ t \in SUBSET S /\ S \ s \in SUBSET S
      BY <3>2
    <3>7. Sum(S \ t) = f[x] + Sum(S \ s)
      <4> HIDE DEF t
      <4> QED
        BY <1>0, <3>6, SumRemove
    <3>8. f[x] \in Nat /\ Sum(t) \in Nat /\ Sum(S \ s) \in Nat
      BY <1>0, <3>2, <3>3, <3>6
    <3> HIDE DEF Sum, t
    <3> QED
      BY <3>4, <3>5, <3>7, <3>8
  <2> QED
    BY <2>1
<1>3. \A n \in Nat : n \in Splits
  <2> HIDE DEF Splits
  <2> QED
    BY <1>1, <1>2, Induct
<1> QED
  BY <1>0, <1>3

\* Adding or replacing the value at one point changes the sum by the difference.
LEMMA SumUpdate ==
    ASSUME NEW f, IsFiniteSet(DOMAIN f), \A x \in DOMAIN f : f[x] \in Nat,
           NEW k, NEW g, DOMAIN g = DOMAIN f \union {k}, g[k] \in Nat,
           \A x \in DOMAIN f \ {k} : g[x] = f[x]
    PROVE  /\ SumFunction(f) \in Nat /\ SumFunction(g) \in Nat
           /\ k \in DOMAIN f => SumFunction(g) + f[k] = SumFunction(f) + g[k]
           /\ k \notin DOMAIN f => SumFunction(g) = SumFunction(f) + g[k]
<1> DEFINE D == DOMAIN f
           R == D \ {k}
           rest == SumFunctionOnSet(f, R)
<1>1. IsFiniteSet(D \union {k}) /\ IsFiniteSet(R) /\ R \subseteq D
  BY FS_AddElement, FS_RemoveElement
<1>2. \A x \in D \union {k} : g[x] \in Nat
  OBVIOUS
<1>3. SumFunction(f) \in Nat /\ rest \in Nat
  BY <1>1, SumType DEF SumFunction
<1>4. SumFunction(g) = SumFunctionOnSet(g, D \union {k}) /\ SumFunction(f) = SumFunctionOnSet(f, D)
  BY DEF SumFunction
<1>5. SumFunctionOnSet(g, D \union {k}) \in Nat
  BY <1>1, <1>2, SumType
<1>6. SumFunctionOnSet(g, D \union {k}) = g[k] + SumFunctionOnSet(g, (D \union {k}) \ {k})
  <2>1. PICK E : E = D \union {k}
    OBVIOUS
  <2>2. IsFiniteSet(E) /\ k \in E /\ \A x \in E : g[x] \in Nat
    BY <1>1, <1>2, <2>1
  <2>3. SumFunctionOnSet(g, E) = g[k] + SumFunctionOnSet(g, E \ {k})
    BY <2>2, SumRemove
  <2> QED
    BY <2>1, <2>3
<1>7. (D \union {k}) \ {k} = R
  OBVIOUS
<1>8. SumFunctionOnSet(g, R) = rest
  BY <1>1, SumCongruent
<1>9. k \in D => SumFunctionOnSet(f, D) = f[k] + rest
  BY SumRemove
<1>10. k \notin D => R = D
  OBVIOUS
<1> HIDE DEF rest
<1>11. SumFunction(g) = g[k] + rest
  BY <1>4, <1>6, <1>7, <1>8
<1>12. CASE k \in D
  BY <1>3, <1>4, <1>5, <1>9, <1>11, <1>12
<1>13. CASE k \notin D
  <2>1. rest = SumFunction(f)
    BY <1>4, <1>10, <1>13 DEF rest
  <2> QED
    BY <1>3, <1>4, <1>5, <1>11, <1>13, <2>1
<1> QED
  BY <1>12, <1>13

\* Cutting a table in two cuts its sum in two.
LEMMA SumParts ==
    ASSUME NEW f, IsFiniteSet(DOMAIN f), \A x \in DOMAIN f : f[x] \in Nat,
           NEW S, S \subseteq DOMAIN f,
           NEW g, DOMAIN g = S, \A x \in S : g[x] = f[x],
           NEW h, DOMAIN h = DOMAIN f \ S, \A x \in DOMAIN f \ S : h[x] = f[x]
    PROVE  /\ SumFunction(f) \in Nat /\ SumFunction(g) \in Nat /\ SumFunction(h) \in Nat
           /\ SumFunction(f) = SumFunction(g) + SumFunction(h)
<1> DEFINE T == DOMAIN f \ S
<1>1. IsFiniteSet(S) /\ IsFiniteSet(T)
  BY FS_Subset
<1>2. SumFunctionOnSet(f, DOMAIN f) = SumFunctionOnSet(f, S) + SumFunctionOnSet(f, T)
  BY SumSplit
<1>3. SumFunctionOnSet(g, S) = SumFunctionOnSet(f, S)
  BY <1>1, SumCongruent
<1>4. SumFunctionOnSet(h, T) = SumFunctionOnSet(f, T)
  BY <1>1, SumCongruent
<1>5. /\ SumFunctionOnSet(f, S) \in Nat
      /\ SumFunctionOnSet(f, T) \in Nat
      /\ SumFunctionOnSet(f, DOMAIN f) \in Nat
  BY <1>1, SumType
<1> QED
  BY <1>2, <1>3, <1>4, <1>5 DEF SumFunction
=============================================================================
