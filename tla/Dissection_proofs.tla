------------------------- MODULE Dissection_proofs -------------------------
(***************************************************************************)
(* What the writers show of a message, for every dissector, every tree it  *)
(* records and every order of calls on the handles it kept.                *)
(***************************************************************************)
EXTENDS Dissection, FoldLemmas, SequenceTheorems

(* FlattenSeq: the parts stand one after the other.                        *)

Join(a, b) == a \o b

\* flat is the table of the parts joined so far, up to part n.
Joined(seqs, n, flat) ==
    flat = [i \in 1 .. n |-> IF i = 1 THEN seqs[i] ELSE Join(flat[i - 1], seqs[i])]

\* Every sequence of sequences has its table.
LEMMA JoinedExist ==
    ASSUME NEW seqs, NEW n \in Nat
    PROVE  \E flat : Joined(seqs, n, flat)
<1> DEFINE Tabled == {m \in Nat : \E f : Joined(seqs, m, f)}
<1>1. 0 \in Tabled
  <2> DEFINE f == [i \in 1 .. 0 |-> 0]
  <2>1. Joined(seqs, 0, f)
    BY DEF Joined
  <2> QED
    BY <2>1
<1>2. ASSUME NEW m \in Nat, m \in Tabled PROVE m + 1 \in Tabled
  <2>1. PICK f : Joined(seqs, m, f)
    BY <1>2
  <2> DEFINE q == [i \in 1 .. m + 1 |-> IF i = 1 THEN seqs[i] ELSE Join(f[i - 1], seqs[i])]
  <2>2. \A i \in 1 .. m : q[i] = f[i]
    BY <2>1 DEF Joined
  <2>3. \A i \in 1 .. m + 1 : i # 1 => i - 1 \in 1 .. m
    OBVIOUS
  <2>4. q = [i \in 1 .. m + 1 |-> IF i = 1 THEN seqs[i] ELSE Join(f[i - 1], seqs[i])]
    OBVIOUS
  <2>5. Joined(seqs, m + 1, q)
    <3> HIDE DEF q
    <3> QED
      BY <2>2, <2>3, <2>4 DEF Joined
  <2> HIDE DEF q
  <2> QED
    BY <2>5
<1>3. \A m \in Nat : m \in Tabled
  <2> HIDE DEF Tabled
  <2> QED
    BY <1>1, <1>2, Induct
<1> QED
  BY <1>3

\* off[k] is how many elements of all stand before part k, up to part n.
Places(seqs, n, all, off) ==
    /\ off \in [1 .. n + 1 -> Nat]
    /\ off[1] = 0
    /\ off[n + 1] = Len(all)
    /\ \A k \in 1 .. n :
          /\ off[k + 1] = off[k] + Len(seqs[k])
          /\ off[k + 1] <= Len(all)
          /\ \A i \in 1 .. Len(seqs[k]) : all[off[k] + i] = seqs[k][i]

\* One part by itself.
LEMMA OnePart ==
    ASSUME NEW T, NEW seqs, seqs[1] \in Seq(T)
    PROVE  \E off : Places(seqs, 1, seqs[1], off)
<1> DEFINE off == [k \in 1 .. 2 |-> IF k = 1 THEN 0 ELSE Len(seqs[1])]
<1>1. Places(seqs, 1, seqs[1], off)
  BY DEF Places
<1> QED
  BY <1>1

\* One more part is joined to those before it.
LEMMA NextPart ==
    ASSUME NEW T, NEW seqs, NEW n \in Nat, NEW all \in Seq(T), NEW off,
           Places(seqs, n, all, off), seqs[n + 1] \in Seq(T)
    PROVE  /\ Join(all, seqs[n + 1]) \in Seq(T)
           /\ \E o : Places(seqs, n + 1, Join(all, seqs[n + 1]), o)
<1> DEFINE part == seqs[n + 1]
           more == Join(all, part)
           o == [k \in 1 .. n + 2 |-> IF k = n + 2 THEN Len(more) ELSE off[k]]
<1>1. /\ more \in Seq(T) /\ Len(more) = Len(all) + Len(part)
      /\ Len(all) \in Nat /\ Len(part) \in Nat /\ Len(more) \in Nat
      /\ \A i \in 1 .. Len(all) : more[i] = all[i]
      /\ \A i \in 1 .. Len(part) : more[Len(all) + i] = part[i]
  BY DEF Join
<1>2. /\ off \in [1 .. n + 1 -> Nat]
      /\ off[1] = 0 /\ off[n + 1] = Len(all)
      /\ \A k \in 1 .. n : off[k + 1] = off[k] + Len(seqs[k]) /\ off[k + 1] <= Len(all)
      /\ \A k \in 1 .. n : \A i \in 1 .. Len(seqs[k]) : all[off[k] + i] = seqs[k][i]
  BY DEF Places
<1> HIDE DEF more, part
<1>3. /\ o \in [1 .. n + 2 -> Nat]
      /\ o[n + 2] = Len(more) /\ \A k \in 1 .. n + 1 : o[k] = off[k]
  BY <1>1, <1>2
<1> HIDE DEF o
<1>4. ASSUME NEW k \in 1 .. n + 1
      PROVE  /\ o[k + 1] = o[k] + Len(seqs[k])
             /\ o[k + 1] <= Len(more)
             /\ \A i \in 1 .. Len(seqs[k]) : more[o[k] + i] = seqs[k][i]
  <2>1. CASE k \in 1 .. n
    <3>1. k + 1 \in 1 .. n + 1 /\ off[k] \in Nat /\ off[k + 1] \in Nat
      BY <1>2, <2>1
    <3>2. o[k] = off[k] /\ o[k + 1] = off[k + 1] /\ Len(seqs[k]) = off[k + 1] - off[k]
      BY <1>2, <1>3, <2>1, <3>1, SMTT(30)
    <3>3. off[k + 1] <= Len(all) /\ off[k + 1] <= Len(more)
      BY <1>1, <1>2, <2>1, <3>1
    <3>4. ASSUME NEW i \in 1 .. Len(seqs[k]) PROVE more[o[k] + i] = seqs[k][i]
      <4>1. i \in Int /\ 1 <= i /\ i <= off[k + 1] - off[k]
        BY <3>1, <3>2
      <4>0. \A a, b, c : /\ a \in Nat /\ b \in Nat /\ c \in Nat
                         /\ i <= b - a /\ b <= c
                         => a + i \in 1 .. c
        BY <4>1
      <4>2. off[k] + i \in 1 .. Len(all)
        BY <1>1, <3>1, <3>3, <4>0, <4>1
      <4>3. more[off[k] + i] = all[off[k] + i]
        BY <1>1, <4>2
      <4>4. all[off[k] + i] = seqs[k][i]
        BY <1>2, <2>1
      <4> QED
        BY <3>2, <4>3, <4>4
    <3>5. off[k + 1] = off[k] + Len(seqs[k])
      BY <1>2, <2>1
    <3> QED
      BY <3>2, <3>3, <3>4, <3>5
  <2>2. CASE k = n + 1
    <3>1. o[k] = Len(all) /\ o[k + 1] = Len(more) /\ seqs[k] = part
      BY <1>2, <1>3, <2>2 DEF part
    <3> QED
      BY <1>1, <3>1
  <2> QED
    BY <2>1, <2>2
<1>5. o[1] = 0
  BY <1>2, <1>3
<1>6. Places(seqs, n + 1, more, o)
  BY <1>3, <1>4, <1>5 DEF Places
<1> QED
  BY <1>1, <1>6 DEF more, part

\* What FlattenSeq makes is a sequence with every part in its place.
LEMMA FlattenPlaces ==
    ASSUME NEW T, NEW seqs \in Seq(Seq(T))
    PROVE  /\ FlattenSeq(seqs) \in Seq(T)
           /\ \E off : Places(seqs, Len(seqs), FlattenSeq(seqs), off)
<1> DEFINE n == Len(seqs)
<1>0. n \in Nat /\ \A k \in 1 .. n : seqs[k] \in Seq(T)
  OBVIOUS
<1>1. CASE n = 0
  <2>1. FlattenSeq(seqs) = << >> /\ seqs = << >>
    BY <1>1 DEF FlattenSeq
  <2> DEFINE off == [i \in 1 .. 1 |-> 0]
  <2>2. Places(<< >>, 0, << >>, off)
    BY DEF Places
  <2> QED
    BY <2>1, <2>2, <1>1
<1>2. CASE n # 0
  <2> DEFINE flat == CHOOSE f : Joined(seqs, n, f)
  <2>1. Joined(seqs, n, flat)
    BY <1>0, JoinedExist
  <2>2. FlattenSeq(seqs) = flat[n]
    BY <1>2 DEF FlattenSeq, Joined, Join
  <2> HIDE DEF flat, n
  <2>3. flat[1] = seqs[1] /\ \A i \in 1 .. n : i # 1 => flat[i] = Join(flat[i - 1], seqs[i])
    BY <2>1, <1>0, <1>2 DEF Joined
  <2> DEFINE Good(m) == flat[m] \in Seq(T) /\ \E off : Places(seqs, m, flat[m], off)
             Holding == {m \in Nat : m + 1 \in 1 .. n => Good(m + 1)}
  <2>4. 0 \in Holding
    <3>1. Good(1)
      BY <1>0, <1>2, <2>3, OnePart
    <3> HIDE DEF Good
    <3> QED
      BY <3>1
  <2>5. ASSUME NEW m \in Nat, m \in Holding PROVE m + 1 \in Holding
    <3> SUFFICES ASSUME m + 2 \in 1 .. n PROVE Good(m + 2)
      <4> HIDE DEF Good
      <4>1. m + 1 + 1 = m + 2
        OBVIOUS
      <4> QED
        BY <4>1
    <3>1. Good(m + 1) /\ m + 1 \in 1 .. n
      <4> HIDE DEF Good
      <4> QED
        BY <1>0, <2>5
    <3>2. m + 2 # 1 /\ m + 2 - 1 = m + 1 /\ m + 1 + 1 = m + 2
      OBVIOUS
    <3>3. flat[m + 2] = Join(flat[m + 1], seqs[m + 2]) /\ seqs[m + 2] \in Seq(T)
      BY <1>0, <2>3, <3>2
    <3>4. PICK off : Places(seqs, m + 1, flat[m + 1], off)
      BY <3>1
    <3>5. Join(flat[m + 1], seqs[m + 1 + 1]) \in Seq(T)
          /\ \E o : Places(seqs, m + 1 + 1, Join(flat[m + 1], seqs[m + 1 + 1]), o)
      <4>1. flat[m + 1] \in Seq(T) /\ seqs[m + 1 + 1] \in Seq(T) /\ m + 1 \in Nat
        BY <3>1, <3>2, <3>3
      <4> QED
        BY <3>4, <4>1, NextPart
    <3> QED
      BY <3>2, <3>3, <3>5
  <2>6. Good(n)
    <3>1. n - 1 \in Holding
      <4>1. n - 1 \in Nat
        BY <1>0, <1>2
      <4> HIDE DEF Holding
      <4> QED
        BY <4>1, <2>4, <2>5, Induct
    <3> HIDE DEF Good
    <3>2. n - 1 + 1 = n /\ n \in 1 .. n
      BY <1>0, <1>2
    <3> QED
      BY <3>1, <3>2
  <2> QED
    BY <2>2, <2>6 DEF n
<1> QED
  BY <1>1, <1>2

\* Parts come in order.
LEMMA PlacesOrdered ==
    ASSUME NEW seqs, NEW n \in Nat, NEW all, NEW off, Places(seqs, n, all, off),
           \A k \in 1 .. n : Len(seqs[k]) \in Nat,
           NEW k \in 1 .. n, NEW l \in 1 .. n, k < l
    PROVE  off[k + 1] <= off[l]
<1> DEFINE Late == {m \in Nat : k + 1 + m \in 1 .. n => off[k + 1] <= off[k + 1 + m]}
<1>0. /\ \A i \in 1 .. n : off[i] \in Nat /\ off[i + 1] \in Nat /\ off[i] <= off[i + 1]
  <2>1. \A i \in 1 .. n : i \in 1 .. n + 1 /\ i + 1 \in 1 .. n + 1
    OBVIOUS
  <2>2. \A i \in 1 .. n : off[i] \in Nat /\ off[i + 1] \in Nat
    BY <2>1 DEF Places
  <2> QED
    BY <2>2, SMTT(30) DEF Places
<1>1. 0 \in Late
  BY <1>0
<1>2. ASSUME NEW m \in Nat, m \in Late PROVE m + 1 \in Late
  <2> SUFFICES ASSUME k + 1 + (m + 1) \in 1 .. n PROVE off[k + 1] <= off[k + 1 + (m + 1)]
    OBVIOUS
  <2>1. k + 1 + m \in 1 .. n /\ k + 1 + (m + 1) = k + 1 + m + 1
    OBVIOUS
  <2>2. off[k + 1] <= off[k + 1 + m]
    BY <1>2, <2>1
  <2>3. off[k + 1 + m] <= off[k + 1 + m + 1] /\ off[k + 1 + m] \in Nat
        /\ off[k + 1 + m + 1] \in Nat /\ off[k + 1] \in Nat
    BY <1>0, <2>1
  <2> QED
    BY <2>1, <2>2, <2>3
<1>3. l - (k + 1) \in Late
  <2>1. l - (k + 1) \in Nat
    OBVIOUS
  <2> HIDE DEF Late
  <2> QED
    BY <1>1, <1>2, <2>1, Induct
<1>4. k + 1 + (l - (k + 1)) = l
  OBVIOUS
<1> QED
  BY <1>3, <1>4

\* Every position lies in a part.
LEMMA PlaceOf ==
    ASSUME NEW seqs, NEW n \in Nat, NEW all, NEW off, Places(seqs, n, all, off),
           \A k \in 1 .. n : Len(seqs[k]) \in Nat, Len(all) \in Nat,
           NEW p \in 1 .. Len(all)
    PROVE  \E k \in 1 .. n : \E i \in 1 .. Len(seqs[k]) : p = off[k] + i
<1> DEFINE Past == {m \in Nat : m \in 1 .. n + 1 /\ p <= off[m]}
<1>1. /\ off \in [1 .. n + 1 -> Nat] /\ off[1] = 0 /\ off[n + 1] = Len(all)
      /\ \A k \in 1 .. n : off[k + 1] = off[k] + Len(seqs[k])
  BY DEF Places
<1>2. n + 1 \in Past
  BY <1>1
<1>3. PICK m \in Past : \A x \in Past : m <= x
  BY <1>2, LeastNatural
<1>4. m # 1
  BY <1>1, <1>3
<1> DEFINE k == m - 1
<1>5. k \in 1 .. n /\ k + 1 = m /\ k \in 1 .. n + 1 /\ m \in 1 .. n + 1
  BY <1>3, <1>4
<1>6. off[k] \in Nat /\ off[m] \in Nat /\ off[m] = off[k] + Len(seqs[k]) /\ p <= off[m]
  BY <1>1, <1>3, <1>5
<1>7. ~(p <= off[k])
  <2>1. k \in Nat /\ ~(m <= k)
    BY <1>5
  <2> QED
    BY <1>3, <1>5, <2>1
<1> DEFINE i == p - off[k]
<1>8. i \in 1 .. Len(seqs[k]) /\ p = off[k] + i
  <2> HIDE DEF k
  <2> QED
    BY <1>5, <1>6, <1>7
<1> HIDE DEF k, i
<1> QED
  BY <1>5, <1>8

\* Position (k, i) of the parts comes before position (l, j).
Before(k, i, l, j) == k < l \/ (k = l /\ i < j)

\* all has every element of every part, in order, and no others.
Joins(seqs, all) ==
    /\ \A k \in 1 .. Len(seqs) : \A i \in 1 .. Len(seqs[k]) :
          \E p \in 1 .. Len(all) : all[p] = seqs[k][i]
    /\ \A p \in 1 .. Len(all) :
          \E k \in 1 .. Len(seqs) : \E i \in 1 .. Len(seqs[k]) : all[p] = seqs[k][i]
    /\ \A p, q \in 1 .. Len(all) : p < q =>
          \E k, l \in 1 .. Len(seqs) :
          \E i \in 1 .. Len(seqs[k]), j \in 1 .. Len(seqs[l]) :
             Before(k, i, l, j) /\ all[p] = seqs[k][i] /\ all[q] = seqs[l][j]

\* That is what FlattenSeq makes.
LEMMA Flattened ==
    ASSUME NEW T, NEW seqs \in Seq(Seq(T))
    PROVE  FlattenSeq(seqs) \in Seq(T) /\ Joins(seqs, FlattenSeq(seqs))
<1> DEFINE n == Len(seqs)
           all == FlattenSeq(seqs)
<1>0. n \in Nat /\ (\A k \in 1 .. n : Len(seqs[k]) \in Nat)
  OBVIOUS
<1>1. PICK off : Places(seqs, n, all, off)
  BY FlattenPlaces
<1>2. all \in Seq(T) /\ Len(all) \in Nat
  BY FlattenPlaces
<1> HIDE DEF n, all
<1>3. /\ off \in [1 .. n + 1 -> Nat]
      /\ \A k \in 1 .. n : /\ off[k + 1] = off[k] + Len(seqs[k]) /\ off[k + 1] <= Len(all)
                           /\ k \in 1 .. n + 1 /\ k + 1 \in 1 .. n + 1
      /\ \A k \in 1 .. n : \A i \in 1 .. Len(seqs[k]) : all[off[k] + i] = seqs[k][i]
  BY <1>0, <1>1 DEF Places
<1>4. ASSUME NEW k \in 1 .. n, NEW i \in 1 .. Len(seqs[k])
      PROVE  off[k] + i \in 1 .. Len(all)
  <2>1. off[k] \in Nat /\ off[k + 1] \in Nat /\ off[k + 1] = off[k] + Len(seqs[k])
        /\ off[k + 1] <= Len(all) /\ Len(seqs[k]) \in Nat
    BY <1>0, <1>3
  <2> QED
    BY <1>2, <2>1, SMTT(30)
<1>5. \A k \in 1 .. n : \A i \in 1 .. Len(seqs[k]) :
         \E p \in 1 .. Len(all) : all[p] = seqs[k][i]
  BY <1>3, <1>4
<1>6. \A p \in 1 .. Len(all) : \E k \in 1 .. n : \E i \in 1 .. Len(seqs[k]) : p = off[k] + i
  BY <1>0, <1>1, <1>2, PlaceOf
<1>7. \A p \in 1 .. Len(all) : \E k \in 1 .. n : \E i \in 1 .. Len(seqs[k]) : all[p] = seqs[k][i]
  BY <1>3, <1>6
<1>8. ASSUME NEW p \in 1 .. Len(all), NEW q \in 1 .. Len(all), p < q
      PROVE  \E k, l \in 1 .. n : \E i \in 1 .. Len(seqs[k]), j \in 1 .. Len(seqs[l]) :
                Before(k, i, l, j) /\ all[p] = seqs[k][i] /\ all[q] = seqs[l][j]
  <2>1. PICK k \in 1 .. n : \E i \in 1 .. Len(seqs[k]) : p = off[k] + i
    BY <1>6
  <2>2. PICK i \in 1 .. Len(seqs[k]) : p = off[k] + i
    BY <2>1
  <2>3. PICK l \in 1 .. n : \E j \in 1 .. Len(seqs[l]) : q = off[l] + j
    BY <1>6
  <2>4. PICK j \in 1 .. Len(seqs[l]) : q = off[l] + j
    BY <2>3
  <2>5. /\ off[k] \in Nat /\ off[l] \in Nat /\ off[k + 1] \in Nat /\ off[l + 1] \in Nat
        /\ off[k + 1] = off[k] + Len(seqs[k]) /\ off[l + 1] = off[l] + Len(seqs[l])
        /\ Len(seqs[k]) \in Nat /\ Len(seqs[l]) \in Nat
    BY <1>0, <1>3
  <2>6. ~(l < k)
    <3> SUFFICES ASSUME l < k PROVE FALSE
      OBVIOUS
    <3>1. off[l + 1] <= off[k]
      BY <1>0, <1>1, PlacesOrdered
    <3>2. j <= Len(seqs[l]) /\ 1 <= i /\ i \in Int /\ j \in Int
      BY <2>5
    <3>3. \A a, b, c, d \in Nat :
             b = a + c /\ b <= d /\ j <= c => ~(d + i < a + j)
      BY <3>2
    <3>4. off[k] + i < off[l] + j
      BY <1>8, <2>2, <2>4
    <3> QED
      BY <2>5, <3>1, <3>2, <3>3, <3>4
  <2>7. k \in Int /\ l \in Int
    BY <1>0
  <2>8. k = l => i < j
    BY <2>2, <2>4, <2>5, <1>8
  <2>9. Before(k, i, l, j)
    BY <2>6, <2>7, <2>8 DEF Before
  <2>10. all[p] = seqs[k][i] /\ all[q] = seqs[l][j]
    BY <1>3, <2>2, <2>4
  <2> QED
    BY <2>9, <2>10
<1> QED
  BY <1>2, <1>5, <1>7, <1>8 DEF n, all, Joins

\* c is a with b after it.
After(a, b, c) ==
    /\ Len(c) = Len(a) + Len(b)
    /\ \A i \in 1 .. Len(a) : c[i] = a[i]
    /\ \A i \in 1 .. Len(b) : c[Len(a) + i] = b[i]

\* One sequence after another.
LEMMA Concatenated ==
    ASSUME NEW T, NEW a \in Seq(T), NEW b \in Seq(T)
    PROVE  a \o b \in Seq(T) /\ After(a, b, a \o b)
BY DEF After

\* A function on 1 .. n is a sequence.
LEMMA FunctionIsSeq ==
    ASSUME NEW S, NEW n \in Nat, NEW s \in [1 .. n -> S]
    PROVE  s \in Seq(S) /\ Len(s) = n
OBVIOUS

-----------------------------------------------------------------------------
(* The log as a forest: an add belongs under the add that made its tree.   *)

\* An entry of the log.
Add == [into : Nat \ {0}, during : Nat, name : Names, kind : Kinds \union {"Tree"}, made : Nat]

\* Trees are made once, before anything is added to them, and each is numbered
\* higher than the tree it is in; a leaf makes none.
Forest ==
    /\ log \in Seq(Add)
    /\ \A i \in DOMAIN log :
          /\ log[i].kind = "Tree" <=> log[i].made # 0
          /\ log[i].made # 0 => log[i].made > log[i].into
    /\ \A i, j \in DOMAIN log :
          /\ log[j].made = log[i].into => j < i
          /\ log[i].made # 0 /\ log[i].made = log[j].made => i = j

\* With an add, C has all that is added to the tree it made.
Closed(C) == \A j \in C : \A i \in DOMAIN log : j < i /\ log[j].made = log[i].into => i \in C

\* The adds of B and all below them: the least closed set that holds B.
Reach(B) ==
    {i \in DOMAIN log : \A C \in SUBSET DOMAIN log : B \subseteq C /\ Closed(C) => i \in C}

\* The adds on one accumulator.
Into(c) == {i \in DOMAIN log : log[i].into = c}

\* An add is made on an accumulator, which has a number.
LEMMA AddTyped ==
    ASSUME Forest, NEW k \in DOMAIN log
    PROVE  /\ log[k] \in Add /\ k \in Nat
           /\ log[k].into \in Nat /\ log[k].into # 0 /\ log[k].made \in Nat
<1>1. log[k] \in Add /\ k \in Nat
  BY DEF Forest
<1> QED
  BY <1>1 DEF Add

\* Reach is closed, and least.
LEMMA ReachClosed ==
    ASSUME NEW B \in SUBSET DOMAIN log
    PROVE  /\ Reach(B) \in SUBSET DOMAIN log /\ B \subseteq Reach(B) /\ Closed(Reach(B))
           /\ \A C \in SUBSET DOMAIN log : B \subseteq C /\ Closed(C) => Reach(B) \subseteq C
<1>1. Reach(B) \in SUBSET DOMAIN log /\ B \subseteq Reach(B)
  BY DEF Reach
<1>2. \A C \in SUBSET DOMAIN log : B \subseteq C /\ Closed(C) => Reach(B) \subseteq C
  BY DEF Reach
<1>3. Closed(Reach(B))
  <2> SUFFICES ASSUME NEW j \in Reach(B), NEW i \in DOMAIN log, j < i, log[j].made = log[i].into,
                      NEW C \in SUBSET DOMAIN log, B \subseteq C, Closed(C)
               PROVE  i \in C
    BY DEF Reach, Closed
  <2>1. j \in C
    BY <1>2
  <2> QED
    BY <2>1 DEF Closed
<1> QED
  BY <1>1, <1>2, <1>3

\* What is reached is in B, or was added to a tree that a reached add made.
LEMMA ReachBack ==
    ASSUME NEW B \in SUBSET DOMAIN log, NEW i \in Reach(B), i \notin B
    PROVE  \E j \in Reach(B) : j < i /\ log[j].made = log[i].into
<1> DEFINE C == {k \in Reach(B) : k \in B \/ \E j \in Reach(B) : j < k /\ log[j].made = log[k].into}
<1>1. C \in SUBSET DOMAIN log /\ B \subseteq C
  BY ReachClosed
<1>2. Closed(C)
  <2> SUFFICES ASSUME NEW j \in C, NEW k \in DOMAIN log, j < k, log[j].made = log[k].into
               PROVE  k \in C
    BY DEF Closed
  <2>1. j \in Reach(B)
    OBVIOUS
  <2>2. k \in Reach(B)
    BY <2>1, ReachClosed DEF Closed
  <2> QED
    BY <2>1, <2>2
<1>3. i \in C
  BY <1>1, <1>2, ReachClosed
<1> QED
  BY <1>3

\* What is reached from B is reached from one of its adds.
LEMMA ReachEach ==
    ASSUME NEW B \in SUBSET DOMAIN log
    PROVE  Reach(B) = UNION {Reach({b}) : b \in B}
<1> DEFINE C == UNION {Reach({b}) : b \in B}
<1>1. \A b \in B : {b} \in SUBSET DOMAIN log
  OBVIOUS
<1>2. \A b \in B : Reach({b}) \in SUBSET DOMAIN log /\ b \in Reach({b}) /\ Closed(Reach({b}))
  BY <1>1, ReachClosed
<1>3. C \in SUBSET DOMAIN log /\ B \subseteq C
  BY <1>2
<1>4. Closed(C)
  <2> SUFFICES ASSUME NEW j \in C, NEW i \in DOMAIN log, j < i, log[j].made = log[i].into
               PROVE  i \in C
    BY DEF Closed
  <2>1. PICK b \in B : j \in Reach({b})
    OBVIOUS
  <2>2. i \in Reach({b})
    BY <1>2, <2>1 DEF Closed
  <2> QED
    BY <2>2
<1>5. Reach(B) \subseteq C
  BY <1>3, <1>4, ReachClosed
<1>6. ASSUME NEW b \in B PROVE Reach({b}) \subseteq Reach(B)
  <2>1. {b} \subseteq Reach(B) /\ Closed(Reach(B)) /\ Reach(B) \in SUBSET DOMAIN log
    BY ReachClosed
  <2> QED
    BY <1>1, <2>1, ReachClosed
<1> QED
  BY <1>5, <1>6

\* A leaf reaches itself only.
LEMMA ReachLeaf ==
    ASSUME Forest, NEW b \in DOMAIN log, log[b].kind # "Tree"
    PROVE  Reach({b}) = {b}
<1>1. log[b].made = 0 /\ \A i \in DOMAIN log : log[i].into # 0
  BY AddTyped DEF Forest
<1>2. Closed({b})
  BY <1>1 DEF Closed
<1> QED
  BY <1>2, ReachClosed

\* An add that makes a tree reaches itself and what is reached from that tree.
LEMMA ReachTree ==
    ASSUME Forest, NEW b \in DOMAIN log
    PROVE  Reach({b}) = {b} \union Reach(Into(log[b].made))
<1> DEFINE c == log[b].made
           C == {b} \union Reach(Into(c))
<1>0. Into(c) \in SUBSET DOMAIN log
  BY DEF Into
<1>1. C \in SUBSET DOMAIN log
  BY <1>0, ReachClosed
<1>2. Closed(C)
  <2> SUFFICES ASSUME NEW j \in C, NEW i \in DOMAIN log, j < i, log[j].made = log[i].into
               PROVE  i \in C
    BY DEF Closed
  <2>1. CASE j = b
    <3>1. i \in Into(c)
      BY <2>1 DEF Into
    <3> QED
      BY <1>0, <3>1, ReachClosed
  <2>2. CASE j \in Reach(Into(c))
    BY <1>0, <2>2, ReachClosed DEF Closed
  <2> QED
    BY <2>1, <2>2
<1>3. Reach({b}) \subseteq C
  BY <1>1, <1>2, ReachClosed
<1>4. b \in Reach({b}) /\ Closed(Reach({b})) /\ Reach({b}) \in SUBSET DOMAIN log
  BY ReachClosed
<1>5. Into(c) \subseteq Reach({b})
  BY <1>4 DEF Into, Closed, Forest
<1>6. Reach(Into(c)) \subseteq Reach({b})
  BY <1>0, <1>4, <1>5, ReachClosed
<1> QED
  BY <1>3, <1>4, <1>6

\* Below an add, trees are numbered higher.
LEMMA ReachDeeper ==
    ASSUME Forest, NEW b \in DOMAIN log, NEW i \in Reach({b}), i # b
    PROVE  log[i].into > log[b].into
<1> DEFINE C == {k \in DOMAIN log : k = b \/ log[k].into > log[b].into}
<1>0. \A k \in DOMAIN log : log[k].into \in Nat \ {0} /\ log[k].made \in Nat
  BY AddTyped
<1>1. Closed(C)
  <2> SUFFICES ASSUME NEW j \in C, NEW k \in DOMAIN log, j < k, log[j].made = log[k].into
               PROVE  log[k].into > log[b].into
    BY DEF Closed
  <2>1. log[j].into >= log[b].into /\ j \in DOMAIN log
    BY <1>0
  <2>2. log[j].made > log[j].into
    BY <1>0, <2>1 DEF Forest
  <2> QED
    BY <1>0, <2>1, <2>2
<1>2. {b} \subseteq C /\ C \in SUBSET DOMAIN log
  OBVIOUS
<1>3. Reach({b}) \subseteq C
  BY <1>1, <1>2, ReachClosed
<1> QED
  BY <1>3

\* Two adds on one accumulator reach nothing in common.
LEMMA ReachApart ==
    ASSUME Forest, NEW a \in DOMAIN log, NEW b \in DOMAIN log, a # b, log[a].into = log[b].into
    PROVE  Reach({a}) \intersect Reach({b}) = {}
<1> DEFINE C == Reach({a}) \ Reach({b})
<1>0. \A k \in DOMAIN log : log[k].into \in Nat \ {0} /\ log[k].made \in Nat
  BY AddTyped
<1>1. /\ Reach({a}) \in SUBSET DOMAIN log /\ a \in Reach({a}) /\ Closed(Reach({a}))
      /\ Reach({b}) \in SUBSET DOMAIN log
  BY ReachClosed
<1>2. a \notin Reach({b}) /\ b \notin Reach({a})
  <2>1. ~(log[a].into > log[b].into) /\ ~(log[b].into > log[a].into)
    BY <1>0
  <2> QED
    BY <2>1, ReachDeeper
<1>3. Closed(C)
  <2> SUFFICES ASSUME NEW j \in C, NEW i \in DOMAIN log, j < i, log[j].made = log[i].into,
                      i \in Reach({b})
               PROVE  FALSE
    <3>1. \A j \in C : \A i \in DOMAIN log : j < i /\ log[j].made = log[i].into => i \in Reach({a})
      BY <1>1 DEF Closed
    <3> QED
      BY <3>1 DEF Closed
  <2>1. i # b
    BY <1>1, <1>2 DEF Closed
  <2>2. PICK k \in Reach({b}) : log[k].made = log[i].into
    BY <2>1, ReachBack
  <2>3. j = k
    BY <1>0, <1>1, <2>2 DEF Forest
  <2> QED
    BY <2>2, <2>3
<1>4. Reach({a}) \subseteq C
  BY <1>1, <1>2, <1>3, ReachClosed
<1> QED
  BY <1>4

\* Of two adds on one accumulator, what they reach on one accumulator is themselves.
LEMMA ReachSiblings ==
    ASSUME Forest, NEW a \in DOMAIN log, NEW b \in DOMAIN log, a # b, log[a].into = log[b].into,
           NEW i \in Reach({a}), NEW j \in Reach({b}), log[i].into = log[j].into
    PROVE  i = a /\ j = b
<1>0. /\ \A k \in DOMAIN log : log[k].into \in Nat \ {0} /\ log[k].made \in Nat
      /\ Reach({a}) \in SUBSET DOMAIN log /\ Reach({b}) \in SUBSET DOMAIN log
  BY AddTyped, ReachClosed
<1>1. i = a <=> j = b
  <2>1. i # a => log[i].into > log[a].into
    BY ReachDeeper
  <2>2. j # b => log[j].into > log[b].into
    BY ReachDeeper
  <2> QED
    BY <1>0, <2>1, <2>2
<1>2. ASSUME i # a, j # b PROVE FALSE
  <2>1. PICK k \in Reach({a}) : log[k].made = log[i].into
    BY <1>2, ReachBack
  <2>2. PICK l \in Reach({b}) : log[l].made = log[j].into
    BY <1>2, ReachBack
  <2>3. k = l
    BY <1>0, <2>1, <2>2, ZenonT(30) DEF Forest
  <2> QED
    BY <2>3, ReachApart
<1> QED
  BY <1>1, <1>2

\* The adds made on the tree of a message while its dissector ran.
BaseOf(m) == {i \in DOMAIN log : log[i].into = m.root /\ log[i].during = m.root}

\* in is the table AddsOf defines.
Belongs(m, in) ==
    in = [i \in DOMAIN log |->
            \/ log[i].into = m.root /\ log[i].during = m.root
            \/ \E j \in 1 .. i - 1 : log[j].made = log[i].into /\ in[j]]

\* The adds of a message are those reached from the ones on its tree.
LEMMA AddsAreReached ==
    ASSUME Forest, NEW m
    PROVE  AddsOf(m) = Reach(BaseOf(m))
<1> DEFINE R == Reach(BaseOf(m))
<1>0. /\ BaseOf(m) \in SUBSET DOMAIN log
      /\ DOMAIN log = 1 .. Len(log) /\ Len(log) \in Nat
  BY DEF BaseOf, Forest
<1>1. /\ R \in SUBSET DOMAIN log /\ BaseOf(m) \subseteq R /\ Closed(R)
      /\ \A C \in SUBSET DOMAIN log : BaseOf(m) \subseteq C /\ Closed(C) => R \subseteq C
  BY <1>0, ReachClosed
<1>2. \A i \in DOMAIN log :
         i \in R <=> \/ i \in BaseOf(m)
                     \/ \E j \in 1 .. i - 1 : log[j].made = log[i].into /\ j \in R
  <2> SUFFICES ASSUME NEW i \in DOMAIN log
               PROVE  i \in R <=> \/ i \in BaseOf(m)
                                  \/ \E j \in 1 .. i - 1 : log[j].made = log[i].into /\ j \in R
    OBVIOUS
  <2>1. ASSUME i \in R, i \notin BaseOf(m)
        PROVE  \E j \in 1 .. i - 1 : log[j].made = log[i].into /\ j \in R
    <3>1. PICK j \in R : j < i /\ log[j].made = log[i].into
      BY <1>0, <2>1, ReachBack
    <3>2. j \in 1 .. i - 1
      BY <1>0, <1>1, <3>1
    <3> QED
      BY <3>1, <3>2
  <2>2. ASSUME NEW j \in 1 .. i - 1, log[j].made = log[i].into, j \in R
        PROVE  i \in R
    <3>1. j < i
      BY <1>0
    <3> QED
      BY <1>1, <2>2, <3>1 DEF Closed
  <2> QED
    BY <1>1, <2>1, <2>2
<1>3. \E in : Belongs(m, in)
  <2> DEFINE in == [i \in DOMAIN log |-> i \in R]
  <2>1. \A i \in DOMAIN log : \A j \in 1 .. i - 1 : in[j] = (j \in R)
    BY <1>0
  <2>2. \A i \in DOMAIN log :
           (i \in R) = (\/ log[i].into = m.root /\ log[i].during = m.root
                        \/ \E j \in 1 .. i - 1 : log[j].made = log[i].into /\ in[j])
    <3> HIDE DEF in, R
    <3> DEFINE Under(i) == i \in R
               Found(i) == \/ log[i].into = m.root /\ log[i].during = m.root
                           \/ \E j \in 1 .. i - 1 : log[j].made = log[i].into /\ in[j]
    <3> SUFFICES ASSUME NEW i \in DOMAIN log
                 PROVE  Under(i) <=> Found(i)
      <4>1. \A i : Under(i) \in BOOLEAN /\ Found(i) \in BOOLEAN
        OBVIOUS
      <4> SUFFICES ASSUME NEW i \in DOMAIN log PROVE Under(i) = Found(i)
        OBVIOUS
      <4>2. Under(i) <=> Found(i)
        OBVIOUS
      <4> HIDE DEF Under, Found
      <4> QED
        BY <4>1, <4>2
    <3>1. i \in BaseOf(m) <=> log[i].into = m.root /\ log[i].during = m.root
      BY DEF BaseOf
    <3>2. \A j \in 1 .. i - 1 : in[j] <=> j \in R
      BY <2>1
    <3> QED
      BY <1>2, <3>1, <3>2
  <2>3. Belongs(m, in)
    BY <2>2 DEF Belongs
  <2> HIDE DEF in
  <2> QED
    BY <2>3
<1> DEFINE in == CHOOSE t : Belongs(m, t)
           S == {i \in DOMAIN log : in[i]}
<1>4. Belongs(m, in)
  BY <1>3
<1>5. AddsOf(m) = S
  BY DEF AddsOf, Belongs
<1> HIDE DEF in, R
<1>6. \A i \in DOMAIN log :
         in[i] <=> \/ i \in BaseOf(m)
                   \/ \E j \in 1 .. i - 1 : log[j].made = log[i].into /\ in[j]
  BY <1>4 DEF Belongs, BaseOf
<1>7. R \subseteq S
  <2>1. Closed(S)
    <3> SUFFICES ASSUME NEW j \in S, NEW i \in DOMAIN log, j < i, log[j].made = log[i].into
                 PROVE  in[i]
      BY DEF Closed
    <3>1. j \in 1 .. i - 1 /\ in[j]
      BY <1>0
    <3> QED
      BY <1>6, <3>1
  <2> QED
    BY <1>1, <1>6, <2>1
<1>8. S \subseteq R
  <2> SUFFICES ASSUME S \ R # {} PROVE FALSE
    OBVIOUS
  <2>1. S \ R \in SUBSET Nat
    BY <1>0
  <2>2. PICK i \in S \ R : \A x \in S \ R : i <= x
    BY <2>1, LeastNatural
  <2>3. i \notin BaseOf(m) /\ i \in DOMAIN log
    BY <1>1
  <2>4. PICK j \in 1 .. i - 1 : log[j].made = log[i].into /\ in[j]
    BY <1>6, <2>3
  <2>5. j \in DOMAIN log /\ j < i
    BY <1>0
  <2>6. j \in S /\ j \notin R
    BY <1>2, <2>3, <2>4, <2>5
  <2>7. i <= j
    BY <2>2, <2>6
  <2> QED
    BY <1>0, <2>5, <2>7
<1> QED
  BY <1>5, <1>7, <1>8 DEF R

-----------------------------------------------------------------------------
(* The heap beside the log, and what values_for collects from it.          *)

Entry == [name : Names, kind : Kinds \union {"Tree"}, child : Nat, at : Nat]
Cell == [call : Nat, entries : Seq(Entry)]

\* The adds whose entries an accumulator, or a copy of one, holds.
Ats(x) == {heap[x].entries[k].at : k \in DOMAIN heap[x].entries}

\* Entry k of x is what add number at recorded.
Recorded(x, k) ==
    LET e == heap[x].entries[k]
    IN  /\ e.at \in DOMAIN log
        /\ e.name = log[e.at].name /\ e.kind = log[e.at].kind /\ e.child = log[e.at].made

\* Entries are in the order of their adds, which were made on one accumulator.
InOrder(x) ==
    \A k, l \in DOMAIN heap[x].entries :
        k < l => /\ heap[x].entries[k].at < heap[x].entries[l].at
                 /\ log[heap[x].entries[k].at].into = log[heap[x].entries[l].at].into

\* Every accumulator holds the adds made on it, and a copy some of those of the
\* accumulator it was copied from; what an add made is an accumulator.
HeapFollowsLog ==
    /\ heap \in Seq(Cell)
    /\ \A x \in DOMAIN heap :
          /\ \A k \in DOMAIN heap[x].entries : Recorded(x, k)
          /\ InOrder(x)
          /\ heap[x].call # 0 => Ats(x) = Into(x)
    /\ \A i \in DOMAIN log :
          log[i].made # 0 => log[i].made \in DOMAIN heap /\ heap[log[i].made].call # 0

Sound == Forest /\ HeapFollowsLog

\* Subtrees come before what they are in: accumulators from the last made to the
\* first, and then the copies.
Rank(x) == IF heap[x].call # 0 THEN Len(heap) - x ELSE Len(heap)

\* What an entry is.
LEMMA EntryIs ==
    ASSUME Sound, NEW x \in DOMAIN heap, NEW k \in DOMAIN heap[x].entries
    PROVE  LET e == heap[x].entries[k]
           IN  /\ e \in Entry /\ e.at \in DOMAIN log /\ e.at \in Nat /\ e.at \in Ats(x)
               /\ e.name = log[e.at].name /\ e.kind = log[e.at].kind /\ e.child = log[e.at].made
               /\ heap[x].call # 0 => log[e.at].into = x
<1>1. heap[x] \in Cell
  BY DEF Sound, HeapFollowsLog
<1>2. heap[x].entries \in Seq(Entry)
  BY <1>1 DEF Cell
<1>3. heap[x].entries[k] \in Entry
  BY <1>2
<1>4. Recorded(x, k) /\ (heap[x].call # 0 => Ats(x) = Into(x))
  BY DEF Sound, HeapFollowsLog
<1>5. heap[x].entries[k].at \in Nat
  BY <1>3 DEF Entry
<1>6. heap[x].entries[k].at \in Ats(x)
  BY DEF Ats
<1> QED
  BY <1>3, <1>4, <1>5, <1>6 DEF Recorded, Into

\* A subtree is an accumulator, and ranks below what it is in.
LEMMA ChildBelow ==
    ASSUME Sound, NEW x \in DOMAIN heap, NEW k \in DOMAIN heap[x].entries,
           heap[x].entries[k].kind = "Tree"
    PROVE  /\ heap[x].entries[k].child \in DOMAIN heap
           /\ Ats(heap[x].entries[k].child) = Into(heap[x].entries[k].child)
           /\ Rank(heap[x].entries[k].child) < Rank(x)
<1> DEFINE e == heap[x].entries[k]
           c == e.child
<1>1. /\ e.at \in DOMAIN log /\ e.kind = log[e.at].kind /\ c = log[e.at].made
      /\ heap[x].call # 0 => log[e.at].into = x
  BY EntryIs
<1>2. log[e.at].made # 0 /\ log[e.at].made > log[e.at].into
  BY <1>1 DEF Sound, Forest
<1>3. c \in DOMAIN heap /\ heap[c].call # 0 /\ Ats(c) = Into(c)
  BY <1>1, <1>2 DEF Sound, HeapFollowsLog
<1>4. DOMAIN heap = 1 .. Len(heap) /\ Len(heap) \in Nat
  BY DEF Sound, HeapFollowsLog
<1> HIDE DEF c, e
<1>5. Rank(c) < Rank(x)
  BY <1>1, <1>2, <1>3, <1>4 DEF Rank
<1> QED
  BY <1>3, <1>5 DEF c, e

\* What entry k of x contributes to the values of a field, g being those of subtrees.
PartOf(f, g, x, k) ==
    LET e == heap[x].entries[k]
    IN  IF e.kind = "Tree" THEN g[e.child]
        ELSE IF e.name = f THEN <<e.at>> ELSE << >>
Parts(f, g, x) == [k \in DOMAIN heap[x].entries |-> PartOf(f, g, x, k)]

\* g is the table values_for defines.
Collects(f, g) == g = [x \in DOMAIN heap |-> FlattenSeq(Parts(f, g, x))]

\* Ranks are numbers.
LEMMA RankIs ==
    ASSUME Sound, NEW x \in DOMAIN heap
    PROVE  Rank(x) \in Nat /\ Rank(x) <= Len(heap) /\ Len(heap) \in Nat
<1>1. DOMAIN heap = 1 .. Len(heap) /\ Len(heap) \in Nat
  BY DEF Sound, HeapFollowsLog
<1> QED
  BY <1>1 DEF Rank

\* The table exists: subtrees do not run in circles.
LEMMA CollectsExist ==
    ASSUME Sound, NEW f
    PROVE  \E g : Collects(f, g)
<1> DEFINE Table(n, g) == /\ g = [x \in DOMAIN heap |-> g[x]]
                          /\ \A x \in DOMAIN heap : Rank(x) < n => g[x] = FlattenSeq(Parts(f, g, x))
           Tabled == {n \in Nat : \E g : Table(n, g)}
<1>1. 0 \in Tabled
  <2> DEFINE g == [x \in DOMAIN heap |-> 0]
  <2>1. Table(0, g)
    BY RankIs
  <2> QED
    BY <2>1
<1>2. ASSUME NEW n \in Nat, n \in Tabled PROVE n + 1 \in Tabled
  <2>1. PICK g : Table(n, g)
    BY <1>2
  <2> DEFINE h == [x \in DOMAIN heap |-> FlattenSeq(Parts(f, g, x))]
  <2>2. \A x \in DOMAIN heap : Rank(x) < n => h[x] = g[x]
    BY <2>1
  <2>3. \A x \in DOMAIN heap : h[x] = FlattenSeq(Parts(f, g, x))
    OBVIOUS
  <2>4. h = [x \in DOMAIN heap |-> h[x]]
    OBVIOUS
  <2> HIDE DEF h
  <2>5. ASSUME NEW x \in DOMAIN heap, Rank(x) < n + 1 PROVE Parts(f, h, x) = Parts(f, g, x)
    <3>1. ASSUME NEW k \in DOMAIN heap[x].entries PROVE PartOf(f, h, x, k) = PartOf(f, g, x, k)
      <4>1. CASE heap[x].entries[k].kind = "Tree"
        <5>1. /\ heap[x].entries[k].child \in DOMAIN heap
              /\ Rank(heap[x].entries[k].child) < Rank(x)
          BY <4>1, ChildBelow
        <5>2. Rank(heap[x].entries[k].child) < n
          BY <2>5, <5>1, RankIs
        <5>3. h[heap[x].entries[k].child] = g[heap[x].entries[k].child]
          BY <2>2, <5>1, <5>2
        <5> QED
          BY <4>1, <5>3 DEF PartOf
      <4>2. CASE heap[x].entries[k].kind # "Tree"
        BY <4>2 DEF PartOf
      <4> QED
        BY <4>1, <4>2
    <3> QED
      BY <3>1 DEF Parts
  <2>6. Table(n + 1, h)
    BY <2>3, <2>4, <2>5
  <2> QED
    BY <2>6
<1>3. Len(heap) + 1 \in Tabled
  <2>1. Len(heap) + 1 \in Nat
    BY DEF Sound, HeapFollowsLog
  <2> HIDE DEF Tabled
  <2> QED
    BY <1>1, <1>2, <2>1, Induct
<1>4. PICK g : Table(Len(heap) + 1, g)
  BY <1>3
<1>5. \A x \in DOMAIN heap : g[x] = FlattenSeq(Parts(f, g, x))
  BY <1>4, RankIs
<1>6. Collects(f, g)
  BY <1>4, <1>5 DEF Collects
<1> QED
  BY <1>6

\* values_for reads the table.
LEMMA ValuesAreCollected ==
    ASSUME Sound, NEW f
    PROVE  \E g : Collects(f, g) /\ \A x : values_for(x, f) = g[x]
<1> DEFINE g == CHOOSE t : Collects(f, t)
<1>1. Collects(f, g)
  BY CollectsExist
<1>2. \A x : values_for(x, f) = g[x]
  BY DEF values_for, Collects, Parts, PartOf
<1> HIDE DEF g
<1> QED
  BY <1>1, <1>2

\* The leaves of a field that are reached from B.
LeafOf(f, B) == {i \in Reach(B) : log[i].kind # "Tree" /\ log[i].name = f}

\* s lists S: each once, and those on one accumulator in the order recorded.
Lists(s, S) ==
    /\ s \in Seq(Nat)
    /\ \A i : i \in S <=> \E p \in 1 .. Len(s) : s[p] = i
    /\ \A p, q \in 1 .. Len(s) : p < q =>
          s[p] # s[q] /\ (log[s[p]].into = log[s[q]].into => s[p] < s[q])

\* An entry contributes what its add reaches.
LEMMA PartLists ==
    ASSUME Sound, NEW f, NEW g, NEW x \in DOMAIN heap, NEW k \in DOMAIN heap[x].entries,
           heap[x].entries[k].kind = "Tree" =>
               Lists(g[heap[x].entries[k].child], LeafOf(f, Ats(heap[x].entries[k].child)))
    PROVE  Lists(PartOf(f, g, x, k), LeafOf(f, {heap[x].entries[k].at}))
<1> DEFINE e == heap[x].entries[k]
<1>1. /\ e.at \in DOMAIN log /\ e.at \in Nat /\ e.name = log[e.at].name
      /\ e.kind = log[e.at].kind /\ e.child = log[e.at].made
  BY EntryIs
<1>2. Forest
  BY DEF Sound
<1>3. CASE e.kind = "Tree"
  <2>1. Ats(e.child) = Into(e.child)
    BY <1>3, ChildBelow
  <2>2. Reach({e.at}) = {e.at} \union Reach(Into(e.child))
    BY <1>1, <1>2, ReachTree
  <2>3. LeafOf(f, {e.at}) = LeafOf(f, Ats(e.child))
    BY <1>1, <1>3, <2>1, <2>2 DEF LeafOf
  <2>4. PartOf(f, g, x, k) = g[e.child]
    BY <1>3 DEF PartOf
  <2> QED
    BY <1>3, <2>3, <2>4
<1>4. CASE e.kind # "Tree" /\ e.name = f
  <2>1. LeafOf(f, {e.at}) = {e.at}
    <3>1. Reach({e.at}) = {e.at}
      BY <1>1, <1>2, <1>4, ReachLeaf
    <3> QED
      BY <1>1, <1>4, <3>1 DEF LeafOf
  <2>2. PartOf(f, g, x, k) = <<e.at>>
    BY <1>4 DEF PartOf
  <2> HIDE DEF e
  <2>3. Lists(<<e.at>>, {e.at})
    <3>1. PICK a : a = e.at
      OBVIOUS
    <3>2. a \in Nat /\ <<a>> \in Seq(Nat) /\ Len(<<a>>) = 1 /\ <<a>>[1] = a
      BY <1>1, <3>1
    <3>3. \A p : p \in 1 .. Len(<<a>>) <=> p = 1
      BY <3>2
    <3>4. Lists(<<a>>, {a})
      <4>1. PICK s : s = <<a>>
        OBVIOUS
      <4>2. s \in Seq(Nat) /\ s[1] = a /\ \A p : p \in 1 .. Len(s) <=> p = 1
        BY <3>2, <3>3, <4>1
      <4>3. ~(1 < 1)
        OBVIOUS
      <4>4. Lists(s, {a})
        BY <4>2, <4>3 DEF Lists
      <4> QED
        BY <4>1, <4>4
    <3> QED
      BY <3>1, <3>4
  <2> QED
    BY <2>1, <2>2, <2>3 DEF e
<1>5. CASE e.kind # "Tree" /\ e.name # f
  <2>1. LeafOf(f, {e.at}) = {}
    <3>1. Reach({e.at}) = {e.at}
      BY <1>1, <1>2, <1>5, ReachLeaf
    <3> QED
      BY <1>1, <1>5, <3>1 DEF LeafOf
  <2>2. PartOf(f, g, x, k) = << >>
    BY <1>5 DEF PartOf
  <2>3. Lists(<< >>, {})
    <3>1. << >> \in Seq(Nat) /\ 1 .. Len(<< >>) = {}
      OBVIOUS
    <3> QED
      BY <3>1 DEF Lists
  <2> QED
    BY <2>1, <2>2, <2>3
<1> QED
  BY <1>3, <1>4, <1>5

\* The contributions of all entries together are what all their adds reach.
LEMMA WholeLists ==
    ASSUME Sound, NEW f, NEW g, NEW x \in DOMAIN heap,
           \A k \in DOMAIN heap[x].entries :
               Lists(PartOf(f, g, x, k), LeafOf(f, {heap[x].entries[k].at}))
    PROVE  Lists(FlattenSeq(Parts(f, g, x)), LeafOf(f, Ats(x)))
<1> DEFINE es == heap[x].entries
           parts == Parts(f, g, x)
           all == FlattenSeq(parts)
           A(k) == es[k].at
<1>0. /\ es \in Seq(Entry) /\ DOMAIN es = 1 .. Len(es) /\ Len(es) \in Nat
      /\ InOrder(x) /\ Forest
  <2>1. heap[x] \in Cell
    BY DEF Sound, HeapFollowsLog
  <2>2. es \in Seq(Entry)
    BY <2>1 DEF Cell
  <2> QED
    BY <2>2 DEF Sound, HeapFollowsLog
<1>1. \A k \in 1 .. Len(es) : parts[k] = PartOf(f, g, x, k) /\ parts[k] \in Seq(Nat)
  BY <1>0 DEF Parts, Lists
<1>2. parts \in Seq(Seq(Nat)) /\ Len(parts) = Len(es)
  <2>1. parts = [k \in 1 .. Len(es) |-> PartOf(f, g, x, k)]
    BY <1>0 DEF Parts
  <2>2. \A k \in 1 .. Len(es) : PartOf(f, g, x, k) \in Seq(Nat)
    BY <1>1
  <2> HIDE DEF parts, es
  <2>3. parts \in [1 .. Len(es) -> Seq(Nat)]
    BY <2>1, <2>2
  <2> QED
    BY <1>0, <2>3, FunctionIsSeq
<1>3. \A k \in 1 .. Len(es) : Lists(parts[k], LeafOf(f, {A(k)})) /\ A(k) \in DOMAIN log
  BY <1>0, <1>1, EntryIs
<1>4. Ats(x) = {A(k) : k \in 1 .. Len(es)} /\ Ats(x) \in SUBSET DOMAIN log
  BY <1>0, <1>3 DEF Ats
<1>5. \A k, l \in 1 .. Len(es) : k < l => A(k) < A(l) /\ log[A(k)].into = log[A(l)].into
  BY <1>0 DEF InOrder
<1>6. \A i : i \in LeafOf(f, Ats(x)) <=> \E k \in 1 .. Len(es) : i \in LeafOf(f, {A(k)})
  <2>1. Reach(Ats(x)) = UNION {Reach({b}) : b \in Ats(x)}
    BY <1>4, ReachEach
  <2>2. \A i : i \in Reach(Ats(x)) <=> \E k \in 1 .. Len(es) : i \in Reach({A(k)})
    <3> HIDE DEF A, es
    <3> QED
      BY <1>4, <2>1
  <2> QED
    BY <2>2 DEF LeafOf
<1>7. all \in Seq(Nat) /\ Joins(parts, all)
  <2> HIDE DEF parts
  <2> QED
    BY <1>2, Flattened
<1> HIDE DEF es, parts, all, A
<1>8. \A i : i \in LeafOf(f, Ats(x)) <=> \E p \in 1 .. Len(all) : all[p] = i
  <2>1. ASSUME NEW i, i \in LeafOf(f, Ats(x)) PROVE \E p \in 1 .. Len(all) : all[p] = i
    <3>1. PICK k \in 1 .. Len(es) : i \in LeafOf(f, {A(k)})
      BY <1>6, <2>1
    <3>2. PICK j \in 1 .. Len(parts[k]) : parts[k][j] = i
      BY <1>3, <3>1 DEF Lists
    <3> QED
      BY <1>2, <1>7, <3>2 DEF Joins
  <2>2. ASSUME NEW p \in 1 .. Len(all) PROVE all[p] \in LeafOf(f, Ats(x))
    <3>0. PICK k \in 1 .. Len(parts) : \E i \in 1 .. Len(parts[k]) : all[p] = parts[k][i]
      BY <1>7 DEF Joins
    <3>1. k \in 1 .. Len(es) /\ \E i \in 1 .. Len(parts[k]) : all[p] = parts[k][i]
      BY <1>2, <3>0
    <3>2. all[p] \in LeafOf(f, {A(k)})
      BY <1>3, <3>1 DEF Lists
    <3> QED
      BY <1>6, <3>1, <3>2
  <2> QED
    BY <2>1, <2>2
<1>9. ASSUME NEW p \in 1 .. Len(all), NEW q \in 1 .. Len(all), p < q
      PROVE  /\ all[p] # all[q]
             /\ log[all[p]].into = log[all[q]].into => all[p] < all[q]
  <2>0. 1 .. Len(parts) = 1 .. Len(es)
    BY <1>2
  <2>1. PICK k, l \in 1 .. Len(parts) :
           \E i \in 1 .. Len(parts[k]), j \in 1 .. Len(parts[l]) :
               Before(k, i, l, j) /\ all[p] = parts[k][i] /\ all[q] = parts[l][j]
    BY <1>7, <1>9 DEF Joins
  <2>2. PICK i \in 1 .. Len(parts[k]), j \in 1 .. Len(parts[l]) :
               Before(k, i, l, j) /\ all[p] = parts[k][i] /\ all[q] = parts[l][j]
    BY <2>1
  <2>3. CASE k = l
    <3>1. i < j /\ j \in 1 .. Len(parts[k]) /\ all[q] = parts[k][j]
      BY <2>2, <2>3 DEF Before
    <3>2. Lists(parts[k], LeafOf(f, {A(k)}))
      BY <1>3, <2>0
    <3> QED
      BY <2>2, <3>1, <3>2, SMTT(30) DEF Lists
  <2>4. CASE k < l
    <3>1. all[p] \in LeafOf(f, {A(k)}) /\ all[q] \in LeafOf(f, {A(l)})
      BY <1>3, <2>0, <2>2 DEF Lists
    <3>2. all[p] \in Reach({A(k)}) /\ all[q] \in Reach({A(l)})
      BY <3>1 DEF LeafOf
    <3>3. A(k) < A(l) /\ log[A(k)].into = log[A(l)].into /\ A(k) # A(l)
          /\ A(k) \in DOMAIN log /\ A(l) \in DOMAIN log
      <4>1. A(k) \in DOMAIN log /\ A(l) \in DOMAIN log /\ A(k) < A(l)
            /\ log[A(k)].into = log[A(l)].into
        BY <1>3, <1>5, <2>0, <2>4
      <4>2. A(k) \in Nat /\ A(l) \in Nat
        BY <1>0, <4>1, AddTyped
      <4> QED
        BY <4>1, <4>2
    <3>4. all[p] # all[q]
      BY <1>0, <3>2, <3>3, ReachApart
    <3>5. ASSUME log[all[p]].into = log[all[q]].into PROVE all[p] = A(k) /\ all[q] = A(l)
      <4>1. PICK a, b, u, v : a = A(k) /\ b = A(l) /\ u = all[p] /\ v = all[q]
        OBVIOUS
      <4>2. /\ a \in DOMAIN log /\ b \in DOMAIN log /\ a # b /\ log[a].into = log[b].into
            /\ u \in Reach({a}) /\ v \in Reach({b}) /\ log[u].into = log[v].into
        BY <3>2, <3>3, <3>5, <4>1
      <4>3. u = a /\ v = b
        BY <1>0, <4>2, ReachSiblings
      <4> QED
        BY <4>1, <4>3
    <3> QED
      BY <3>3, <3>4, <3>5
  <2> QED
    BY <2>2, <2>3, <2>4 DEF Before
<1> QED
  BY <1>7, <1>8, <1>9 DEF Lists, all, parts

\* values_for lists the leaves of the field under an accumulator or a copy of one.
LEMMA ValuesListed ==
    ASSUME Sound, NEW f, NEW x \in DOMAIN heap
    PROVE  Lists(values_for(x, f), LeafOf(f, Ats(x)))
<1>1. PICK g : Collects(f, g) /\ \A y : values_for(y, f) = g[y]
  BY ValuesAreCollected
<1>2. \A y \in DOMAIN heap : g[y] = FlattenSeq(Parts(f, g, y))
  BY <1>1 DEF Collects
<1> DEFINE Done == {n \in Nat : \A y \in DOMAIN heap : Rank(y) < n => Lists(g[y], LeafOf(f, Ats(y)))}
<1>3. 0 \in Done
  BY RankIs
<1>4. ASSUME NEW n \in Nat, n \in Done PROVE n + 1 \in Done
  <2> SUFFICES ASSUME NEW y \in DOMAIN heap, Rank(y) < n + 1
               PROVE  Lists(g[y], LeafOf(f, Ats(y)))
    OBVIOUS
  <2>1. ASSUME NEW k \in DOMAIN heap[y].entries, heap[y].entries[k].kind = "Tree"
        PROVE  Lists(g[heap[y].entries[k].child], LeafOf(f, Ats(heap[y].entries[k].child)))
    <3> DEFINE c == heap[y].entries[k].child
    <3>1. c \in DOMAIN heap /\ Rank(c) < Rank(y)
      BY <2>1, ChildBelow
    <3> HIDE DEF c
    <3>2. Rank(c) < n
      BY <3>1, RankIs
    <3> QED
      BY <1>4, <3>1, <3>2 DEF c
  <2>2. \A k \in DOMAIN heap[y].entries :
           Lists(PartOf(f, g, y, k), LeafOf(f, {heap[y].entries[k].at}))
    BY <2>1, PartLists
  <2>3. Lists(FlattenSeq(Parts(f, g, y)), LeafOf(f, Ats(y)))
    BY <2>2, WholeLists
  <2> QED
    BY <1>2, <2>3
<1>5. Len(heap) + 1 \in Done
  <2>1. Len(heap) + 1 \in Nat
    BY RankIs
  <2> HIDE DEF Done
  <2> QED
    BY <1>3, <1>4, <2>1, Induct
<1>6. Rank(x) < Len(heap) + 1
  BY RankIs
<1> QED
  BY <1>1, <1>5, <1>6

-----------------------------------------------------------------------------
(* The inductive invariant.                                                *)

\* Adds are made on accumulators that exist.
IntoHeap == \A i \in DOMAIN log : log[i].into \in DOMAIN heap

\* The adds on the running dissector's tree were all made by it.
RootOwn ==
    /\ root \in Nat
    /\ root # 0 => /\ root \in DOMAIN heap /\ heap[root].call # 0
                   /\ Into(root) = {i \in DOMAIN log : log[i].into = root /\ log[i].during = root}

\* A message has a copy of what was on its tree when its dissector returned, and
\* that dissector does not run any more.
MessagesCopied ==
    /\ messages \in Seq([fields : Nat, root : Nat])
    /\ \A i \in DOMAIN messages :
          /\ messages[i].fields \in DOMAIN heap
          /\ heap[messages[i].fields].call = 0
          /\ messages[i].root # 0 => messages[i].root \in DOMAIN heap /\ messages[i].root # root
          /\ Ats(messages[i].fields) = BaseOf(messages[i])

IInv == Sound /\ IntoHeap /\ RootOwn /\ MessagesCopied

\* The frame starts with nothing.
LEMMA Initially == Init => IInv
<1> SUFFICES ASSUME Init PROVE IInv
  OBVIOUS
<1>1. heap = << >> /\ root = 0 /\ messages = << >> /\ log = << >>
  BY DEF Init
<1>2. Forest
  BY <1>1 DEF Forest
<1>3. HeapFollowsLog
  BY <1>1 DEF HeapFollowsLog
<1>4. IntoHeap /\ RootOwn /\ MessagesCopied
  BY <1>1 DEF IntoHeap, RootOwn, MessagesCopied
<1> QED
  BY <1>2, <1>3, <1>4 DEF IInv, Sound

\* A call of tree:add on h: a is logged, its entry is the last of h, and the tree
\* it makes, if any, is new and empty.
Adds(h, a) ==
    /\ h \in DOMAIN heap /\ heap[h].call # 0
    /\ root # 0
    /\ a \in Add /\ a.into = h /\ a.during = root
    /\ log' = Append(log, a)
    /\ UNCHANGED <<root, messages>>
    /\ LET e == [name |-> a.name, kind |-> a.kind, child |-> a.made, at |-> Len(log) + 1]
           changed == [heap EXCEPT ![h].entries = Append(@, e)]
       IN  \/ a.kind # "Tree" /\ a.made = 0 /\ heap' = changed
           \/ /\ a.kind = "Tree" /\ a.made = Len(heap) + 1
              /\ heap' = Append(changed, [call |-> heap[h].call, entries |-> << >>])

\* What an argument makes is no tree.
LEMMA ValueIsLeaf ==
    ASSUME NEW field \in ProtoFields, NEW args
    PROVE  ValueOf(field, args) \in Kinds /\ ValueOf(field, args) # "Tree"
<1>1. field.kind \in Kinds
  BY FieldsAssumption
<1>2. \A arg : \A k \in Kinds : Explicit(arg, k) \in Kinds
  <2> SUFFICES ASSUME NEW arg, NEW k \in Kinds PROVE Explicit(arg, k) \in Kinds
    OBVIOUS
  <2>1. value_from_lua(arg) \subseteq Kinds
    BY DEF value_from_lua, Kinds
  <2> HIDE DEF value_from_lua
  <2> QED
    BY <2>1 DEF Explicit
<1>3. ValueOf(field, args) \in Kinds
  BY <1>1, <1>2 DEF ValueOf, Kinds
<1> QED
  BY <1>3 DEF Kinds

\* dispatch_add is such a call.
LEMMA DispatchAdds ==
    ASSUME IInv, dispatch_add
    PROVE  \E h, a : Adds(h, a)
<1>1. PICK h \in {i \in DOMAIN heap : Usable(i)} :
         \/ \E field \in ProtoFields, args \in Arguments : AddField(h, field, args)
         \/ \E proto \in Protos : AddSubtree(h, proto)
  BY DEF dispatch_add
<1>2. root # 0 /\ UNCHANGED <<root, messages>>
  BY DEF dispatch_add
<1>3. h \in DOMAIN heap /\ heap[h].call # 0
  BY <1>2 DEF Usable
<1>4. h \in Nat \ {0} /\ root \in Nat /\ Len(heap) \in Nat
  BY <1>3 DEF IInv, RootOwn, Sound, HeapFollowsLog
<1>5. CASE \E field \in ProtoFields, args \in Arguments : AddField(h, field, args)
  <2>1. PICK field \in ProtoFields, args \in Arguments : AddField(h, field, args)
    BY <1>5
  <2> DEFINE kind == ValueOf(field, args)
             a == [into |-> h, during |-> root, name |-> field.name, kind |-> kind, made |-> 0]
  <2>2. kind \in Kinds /\ kind # "Tree" /\ field.name \in Names
    BY ValueIsLeaf DEF Names
  <2>3. a \in Add
    BY <1>4, <2>2 DEF Add
  <2>4. /\ heap' = [heap EXCEPT ![h].entries =
                       Append(@, [name |-> field.name, kind |-> kind, child |-> 0,
                                  at |-> Len(log) + 1])]
        /\ log' = Append(log, a)
    BY <2>1 DEF AddField, Record, Logged
  <2> HIDE DEF kind
  <2>5. Adds(h, a)
    BY <1>2, <1>3, <2>2, <2>3, <2>4 DEF Adds
  <2> QED
    BY <2>5
<1>6. CASE \E proto \in Protos : AddSubtree(h, proto)
  <2>1. PICK proto \in Protos : AddSubtree(h, proto)
    BY <1>6
  <2> DEFINE a == [into |-> h, during |-> root, name |-> proto, kind |-> "Tree",
                   made |-> Len(heap) + 1]
  <2>2. a \in Add
    BY <1>4 DEF Add, Names
  <2>3. /\ heap' = Append([heap EXCEPT ![h].entries =
                              Append(@, [name |-> proto, kind |-> "Tree", child |-> Len(heap) + 1,
                                         at |-> Len(log) + 1])],
                          [call |-> heap[h].call, entries |-> << >>])
        /\ log' = Append(log, a)
    BY <2>1 DEF AddSubtree, Record, Logged
  <2>4. Adds(h, a)
    BY <1>2, <1>3, <2>2, <2>3 DEF Adds
  <2> QED
    BY <2>4
<1> QED
  BY <1>1, <1>5, <1>6

\* The log after the call.
LEMMA AddsLog ==
    ASSUME IInv, NEW h, NEW a, Adds(h, a)
    PROVE  /\ log' \in Seq(Add) /\ Len(log) \in Nat
           /\ DOMAIN log = 1 .. Len(log) /\ DOMAIN log' = 1 .. Len(log) + 1
           /\ log'[Len(log) + 1] = a
           /\ \A i \in DOMAIN log : log'[i] = log[i]
<1>1. log \in Seq(Add) /\ a \in Add /\ log' = Append(log, a)
  BY DEF IInv, Sound, Forest, Adds
<1> QED
  BY <1>1

\* The entry the call records.
NewEntry(a) == [name |-> a.name, kind |-> a.kind, child |-> a.made, at |-> Len(log) + 1]

\* The heap after the call.
LEMMA AddsHeap ==
    ASSUME IInv, NEW h, NEW a, Adds(h, a)
    PROVE  /\ heap' \in Seq(Cell) /\ Len(heap) \in Nat /\ DOMAIN heap = 1 .. Len(heap)
           /\ h \in DOMAIN heap /\ heap[h].call # 0
           /\ \A x \in DOMAIN heap :
                 /\ x \in DOMAIN heap' /\ heap'[x].call = heap[x].call
                 /\ x # h => heap'[x] = heap[x]
           /\ heap[h].entries \in Seq(Entry) /\ NewEntry(a) \in Entry
           /\ heap'[h].entries = Append(heap[h].entries, NewEntry(a))
           /\ \A x \in DOMAIN heap' : x \notin DOMAIN heap =>
                 x = Len(heap) + 1 /\ heap'[x].entries = << >>
           /\ a.kind = "Tree" <=> a.made # 0
           /\ a.made # 0 => /\ a.made = Len(heap) + 1 /\ a.made \in DOMAIN heap'
                            /\ heap'[a.made].call # 0
<1> DEFINE e == NewEntry(a)
           es == Append(heap[h].entries, e)
           changed == [heap EXCEPT ![h].entries = es]
           tree == [call |-> heap[h].call, entries |-> << >>]
<1>1. /\ h \in DOMAIN heap /\ heap[h].call # 0 /\ a \in Add
      /\ \/ a.kind # "Tree" /\ a.made = 0 /\ heap' = changed
         \/ a.kind = "Tree" /\ a.made = Len(heap) + 1 /\ heap' = Append(changed, tree)
  BY DEF Adds, NewEntry
<1>2. heap \in Seq(Cell) /\ Len(heap) \in Nat /\ DOMAIN heap = 1 .. Len(heap)
  BY DEF IInv, Sound, HeapFollowsLog
<1>3. heap[h] \in Cell
  BY <1>1, <1>2
<1>4. heap[h].call \in Nat /\ heap[h].entries \in Seq(Entry)
  BY <1>3 DEF Cell
<1>5. e \in Entry
  <2>1. Len(log) \in Nat
    BY DEF IInv, Sound, Forest
  <2> QED
    BY <1>1, <2>1 DEF NewEntry, Entry, Add
<1> HIDE DEF e
<1>6. es \in Seq(Entry)
  BY <1>4, <1>5
<1> HIDE DEF es
<1>7. [heap[h] EXCEPT !.entries = es] \in Cell
  BY <1>3, <1>6 DEF Cell
<1>8. /\ changed \in Seq(Cell) /\ Len(changed) = Len(heap) /\ DOMAIN changed = DOMAIN heap
      /\ \A x \in DOMAIN heap : /\ changed[x].call = heap[x].call
                                /\ x # h => changed[x] = heap[x]
      /\ changed[h].entries = es
  <2>1. changed = [heap EXCEPT ![h] = [heap[h] EXCEPT !.entries = es]]
    OBVIOUS
  <2> DEFINE c == [heap[h] EXCEPT !.entries = es]
  <2>2. c.entries = es /\ c.call = heap[h].call
    BY <1>3 DEF Cell
  <2> HIDE DEF c, changed
  <2>3. changed = [heap EXCEPT ![h] = c] /\ c \in Cell
    BY <1>7, <2>1 DEF c
  <2> QED
    BY <1>1, <1>2, <2>2, <2>3
<1>9. tree \in Cell /\ tree.entries = << >> /\ tree.call # 0
  BY <1>1, <1>4 DEF Cell
<1> HIDE DEF changed, tree
<1>10. CASE a.kind # "Tree" /\ a.made = 0 /\ heap' = changed
  BY <1>1, <1>2, <1>4, <1>5, <1>8, <1>10 DEF e, es
<1>11. CASE a.kind = "Tree" /\ a.made = Len(heap) + 1 /\ heap' = Append(changed, tree)
  <2>1. /\ heap' \in Seq(Cell) /\ DOMAIN heap' = 1 .. Len(heap) + 1
        /\ \A x \in DOMAIN heap : x \in DOMAIN heap' /\ heap'[x] = changed[x]
        /\ heap'[Len(heap) + 1] = tree
    BY <1>2, <1>8, <1>9, <1>11
  <2>2. \A x \in DOMAIN heap' : x \notin DOMAIN heap => x = Len(heap) + 1
    BY <1>2, <2>1
  <2>3. a.made # 0 /\ Len(heap) + 1 \in DOMAIN heap'
    BY <1>2, <1>11, <2>1
  <2> QED
    BY <1>1, <1>2, <1>4, <1>5, <1>8, <1>9, <1>11, <2>1, <2>2, <2>3 DEF e, es
<1> QED
  BY <1>1, <1>10, <1>11

\* A call keeps the log a forest.
LEMMA AddsForest ==
    ASSUME IInv, NEW h, NEW a, Adds(h, a)
    PROVE  Forest' /\ IntoHeap'
<1> DEFINE n == Len(log) + 1
<1>1. /\ log' \in Seq(Add) /\ n \in Nat
      /\ DOMAIN log = 1 .. n - 1 /\ DOMAIN log' = 1 .. n
      /\ log'[n] = a /\ \A i \in DOMAIN log : log'[i] = log[i]
  BY AddsLog
<1>2. /\ Len(heap) \in Nat /\ DOMAIN heap = 1 .. Len(heap) /\ h \in DOMAIN heap
      /\ \A x \in DOMAIN heap : x \in DOMAIN heap'
      /\ a.kind = "Tree" <=> a.made # 0
      /\ a.made # 0 => a.made = Len(heap) + 1
  BY AddsHeap
<1>3. a.into = h
  BY DEF Adds
<1>4. /\ \A i \in DOMAIN log : log[i].into \in DOMAIN heap /\ log[i].into # 0
      /\ \A i \in DOMAIN log : log[i].made # 0 => log[i].made \in DOMAIN heap
      /\ Forest
  BY AddTyped DEF IInv, Sound, IntoHeap, HeapFollowsLog
<1> HIDE DEF n
<1>5. \A i \in DOMAIN log' : i \in DOMAIN log \/ i = n
  BY <1>1
<1>6. \A i \in DOMAIN log' : /\ log'[i].kind = "Tree" <=> log'[i].made # 0
                             /\ log'[i].made # 0 => log'[i].made > log'[i].into
  BY <1>1, <1>2, <1>3, <1>4, <1>5 DEF Forest
<1>7. \A i, j \in DOMAIN log' : log'[j].made = log'[i].into => j < i
  <2> SUFFICES ASSUME NEW i \in DOMAIN log', NEW j \in DOMAIN log', log'[j].made = log'[i].into
               PROVE  j < i
    OBVIOUS
  <2>1. CASE i \in DOMAIN log /\ j \in DOMAIN log
    BY <1>1, <1>4, <2>1 DEF Forest
  <2>2. CASE i = n /\ j \in DOMAIN log
    BY <1>1, <2>2
  <2>3. CASE j = n
    <3>1. log'[i].into \in DOMAIN heap /\ log'[i].into # 0
      BY <1>1, <1>2, <1>3, <1>4, <1>5
    <3> QED
      BY <1>1, <1>2, <2>3, <3>1
  <2> QED
    BY <1>5, <2>1, <2>2, <2>3
<1>8. \A i, j \in DOMAIN log' : log'[i].made # 0 /\ log'[i].made = log'[j].made => i = j
  <2> SUFFICES ASSUME NEW i \in DOMAIN log', NEW j \in DOMAIN log',
                      log'[i].made # 0, log'[i].made = log'[j].made
               PROVE  i = j
    OBVIOUS
  <2>1. CASE i \in DOMAIN log /\ j \in DOMAIN log
    BY <1>1, <1>4, <2>1 DEF Forest
  <2>2. CASE i = n /\ j \in DOMAIN log
    BY <1>1, <1>2, <1>4, <2>2
  <2>3. CASE j = n /\ i \in DOMAIN log
    BY <1>1, <1>2, <1>4, <2>3
  <2> QED
    BY <1>5, <2>1, <2>2, <2>3
<1>9. Forest'
  BY <1>1, <1>6, <1>7, <1>8 DEF Forest
<1>10. IntoHeap'
  BY <1>1, <1>2, <1>3, <1>4, <1>5 DEF IntoHeap
<1> QED
  BY <1>9, <1>10

\* A call keeps the heap in step with the log.
LEMMA AddsFollow ==
    ASSUME IInv, NEW h, NEW a, Adds(h, a)
    PROVE  /\ HeapFollowsLog'
           /\ \A x \in DOMAIN heap : x # h => Ats(x)' = Ats(x)
<1> DEFINE n == Len(log) + 1
           es == heap[h].entries
           m == Len(es) + 1
<1>1. /\ log' \in Seq(Add) /\ n \in Nat
      /\ DOMAIN log = 1 .. n - 1 /\ DOMAIN log' = 1 .. n /\ n \in DOMAIN log'
      /\ n \notin DOMAIN log
      /\ log'[n] = a /\ \A i \in DOMAIN log : log'[i] = log[i]
  BY AddsLog
<1>l. \A i \in DOMAIN log : i \in DOMAIN log' /\ log'[i] = log[i]
  BY <1>1
<1>2. /\ heap' \in Seq(Cell) /\ Len(heap) \in Nat /\ DOMAIN heap = 1 .. Len(heap)
      /\ h \in DOMAIN heap /\ heap[h].call # 0
      /\ \A x \in DOMAIN heap : /\ x \in DOMAIN heap' /\ heap'[x].call = heap[x].call
                                /\ x # h => heap'[x] = heap[x]
      /\ es \in Seq(Entry) /\ NewEntry(a) \in Entry
      /\ heap'[h].entries = Append(es, NewEntry(a))
      /\ \A x \in DOMAIN heap' : x \notin DOMAIN heap =>
            x = Len(heap) + 1 /\ heap'[x].entries = << >>
      /\ a.made # 0 => a.made \in DOMAIN heap' /\ heap'[a.made].call # 0
  BY AddsHeap
<1>3. /\ a.into = h
      /\ NewEntry(a).at = n /\ NewEntry(a).name = a.name
      /\ NewEntry(a).kind = a.kind /\ NewEntry(a).child = a.made
  BY DEF Adds, NewEntry
<1>4. /\ DOMAIN es = 1 .. m - 1 /\ m \in Nat /\ DOMAIN heap'[h].entries = 1 .. m
      /\ heap'[h].entries[m] = NewEntry(a)
      /\ \A k \in DOMAIN es : heap'[h].entries[k] = es[k]
  BY <1>2
<1>5. /\ \A x \in DOMAIN heap : \A k \in DOMAIN heap[x].entries : Recorded(x, k)
      /\ \A x \in DOMAIN heap : InOrder(x) /\ (heap[x].call # 0 => Ats(x) = Into(x))
      /\ \A i \in DOMAIN log : log[i].into \in DOMAIN heap
      /\ \A i \in DOMAIN log :
            log[i].made # 0 => log[i].made \in DOMAIN heap /\ heap[log[i].made].call # 0
  BY DEF IInv, Sound, IntoHeap, HeapFollowsLog
<1> HIDE DEF n, m
<1>6. \A i \in DOMAIN log' : i \in DOMAIN log \/ i = n
  BY <1>1
<1>7. \A k \in DOMAIN heap'[h].entries : k \in DOMAIN es \/ k = m
  BY <1>4
<1>8. \A x \in DOMAIN heap : x # h => Ats(x)' = Ats(x)
  BY <1>2 DEF Ats
<1>9. ASSUME NEW x \in DOMAIN heap' PROVE \A k \in DOMAIN heap'[x].entries : Recorded(x, k)'
  <2>1. CASE x \in DOMAIN heap /\ x # h
    <3>1. heap'[x] = heap[x]
      BY <1>2, <2>1
    <3> QED
      BY <1>1, <1>5, <2>1, <3>1 DEF Recorded
  <2>2. CASE x = h
    <3> SUFFICES ASSUME NEW k \in DOMAIN heap'[h].entries PROVE Recorded(h, k)'
      BY <2>2
    <3>1. CASE k \in DOMAIN es
      <4>1. heap'[h].entries[k] = heap[h].entries[k] /\ Recorded(h, k)
        BY <1>2, <1>4, <1>5, <3>1
      <4> QED
        BY <1>l, <4>1 DEF Recorded
    <3>2. CASE k = m
      <4>1. heap'[h].entries[k] = NewEntry(a) /\ n \in DOMAIN log'
        BY <1>1, <1>4, <3>2
      <4>2. log'[n] = a
        BY <1>1
      <4> QED
        BY <1>3, <4>1, <4>2 DEF Recorded
    <3> QED
      BY <1>7, <3>1, <3>2
  <2>3. CASE x \notin DOMAIN heap
    BY <1>2, <2>3
  <2> QED
    BY <2>1, <2>2, <2>3
<1>10. ASSUME NEW x \in DOMAIN heap' PROVE InOrder(x)'
  <2>1. CASE x \in DOMAIN heap /\ x # h
    <3>1. heap'[x] = heap[x] /\ InOrder(x) /\ \A k \in DOMAIN heap[x].entries : Recorded(x, k)
      BY <1>2, <1>5, <2>1
    <3> QED
      BY <1>l, <3>1 DEF InOrder, Recorded
  <2>2. CASE x = h
    <3>1. /\ InOrder(h) /\ Ats(h) = Into(h)
          /\ \A k \in DOMAIN es : Recorded(h, k) /\ es[k].at \in Ats(h)
      BY <1>2, <1>5 DEF Ats
    <3>2. \A k \in DOMAIN es : es[k].at \in DOMAIN log /\ log[es[k].at].into = h
      BY <3>1 DEF Into
    <3> SUFFICES ASSUME NEW k \in DOMAIN heap'[h].entries, NEW l \in DOMAIN heap'[h].entries, k < l
                 PROVE  /\ heap'[h].entries[k].at < heap'[h].entries[l].at
                        /\ log'[heap'[h].entries[k].at].into = log'[heap'[h].entries[l].at].into
      BY <2>2 DEF InOrder
    <3>3. k \in DOMAIN es
      BY <1>4
    <3>4. CASE l \in DOMAIN es
      <4>1. heap'[h].entries[k] = es[k] /\ heap'[h].entries[l] = es[l]
        BY <1>4, <3>3, <3>4
      <4>2. es[k].at < es[l].at
        BY <3>1, <3>3, <3>4 DEF InOrder
      <4> QED
        BY <1>1, <3>2, <3>3, <3>4, <4>1, <4>2
    <3>5. CASE l = m
      <4>1. heap'[h].entries[l].at = n /\ heap'[h].entries[k].at = es[k].at
        BY <1>3, <1>4, <3>3, <3>5
      <4> QED
        BY <1>1, <1>3, <3>2, <3>3, <4>1
    <3> QED
      BY <1>7, <3>4, <3>5
  <2>3. CASE x \notin DOMAIN heap
    BY <1>2, <2>3 DEF InOrder
  <2> QED
    BY <2>1, <2>2, <2>3
<1>11. ASSUME NEW x \in DOMAIN heap', heap'[x].call # 0 PROVE Ats(x)' = Into(x)'
  <2>1. CASE x \in DOMAIN heap /\ x # h
    <3>1. Ats(x)' = Ats(x) /\ Ats(x) = Into(x)
      BY <1>2, <1>5, <1>8, <1>11, <2>1
    <3>2. Into(x)' = Into(x)
      BY <1>1, <1>3, <1>6, <2>1 DEF Into
    <3> QED
      BY <3>1, <3>2
  <2>2. CASE x = h
    <3>1. Ats(h) = Into(h)
      BY <1>2, <1>5
    <3>2. Into(h)' = Into(h) \union {n}
      <4>1. \A i : i \in DOMAIN log' <=> i \in DOMAIN log \/ i = n
        BY <1>1
      <4>2. log'[n].into = h /\ \A i \in DOMAIN log : log'[i].into = log[i].into
        BY <1>1, <1>3
      <4> QED
        BY <4>1, <4>2 DEF Into
    <3>3. Ats(h)' = Ats(h) \union {n}
      <4>1. Ats(h)' = {heap'[h].entries[k].at : k \in 1 .. m}
        BY <1>4 DEF Ats
      <4>2. Ats(h) = {es[k].at : k \in 1 .. m - 1}
        BY <1>4 DEF Ats
      <4>3. \A k \in 1 .. m - 1 : heap'[h].entries[k].at = es[k].at
        BY <1>4
      <4>4. heap'[h].entries[m].at = n
        BY <1>3, <1>4
      <4>5. \A k \in 1 .. m : k \in 1 .. m - 1 \/ k = m
        BY <1>4
      <4>6. m \in 1 .. m /\ \A k \in 1 .. m - 1 : k \in 1 .. m
        BY <1>2, <1>4 DEF m
      <4> HIDE DEF es
      <4> QED
        BY <4>1, <4>2, <4>3, <4>4, <4>5, <4>6
    <3> QED
      BY <2>2, <3>1, <3>2, <3>3
  <2>3. CASE x \notin DOMAIN heap
    <3>1. Ats(x)' = {}
      BY <1>2, <2>3 DEF Ats
    <3>2. \A i \in DOMAIN log' : log'[i].into \in DOMAIN heap
      BY <1>1, <1>2, <1>3, <1>5, <1>6
    <3>3. Into(x)' = {}
      BY <2>3, <3>2 DEF Into
    <3> QED
      BY <3>1, <3>3
  <2> QED
    BY <2>1, <2>2, <2>3
<1>12. \A i \in DOMAIN log' :
          log'[i].made # 0 => log'[i].made \in DOMAIN heap' /\ heap'[log'[i].made].call # 0
  <2>1. ASSUME NEW i \in DOMAIN log, log[i].made # 0
        PROVE  log[i].made \in DOMAIN heap' /\ heap'[log[i].made].call # 0
    <3>1. log[i].made \in DOMAIN heap /\ heap[log[i].made].call # 0
      BY <1>5, <2>1
    <3> QED
      BY <1>2, <3>1
  <2>2. \A i \in DOMAIN log : log'[i].made = log[i].made
    BY <1>1
  <2>3. log'[n] = a
    BY <1>1
  <2> QED
    BY <1>2, <1>6, <2>1, <2>2, <2>3
<1>13. HeapFollowsLog'
  BY <1>2, <1>9, <1>10, <1>11, <1>12 DEF HeapFollowsLog
<1> QED
  BY <1>8, <1>13

\* A call keeps the running dissector's tree its own, and the messages what they are.
LEMMA AddsOwn ==
    ASSUME IInv, NEW h, NEW a, Adds(h, a)
    PROVE  RootOwn' /\ MessagesCopied'
<1> DEFINE n == Len(log) + 1
<1>1. /\ DOMAIN log' = DOMAIN log \union {n} /\ n \notin DOMAIN log
      /\ log'[n] = a /\ \A i \in DOMAIN log : log'[i] = log[i]
  <2>1. /\ Len(log) \in Nat /\ DOMAIN log = 1 .. Len(log) /\ DOMAIN log' = 1 .. Len(log) + 1
        /\ log'[Len(log) + 1] = a /\ \A i \in DOMAIN log : log'[i] = log[i]
    BY AddsLog
  <2> QED
    BY <2>1
<1>2. /\ h \in DOMAIN heap /\ heap[h].call # 0
      /\ \A x \in DOMAIN heap : x \in DOMAIN heap' /\ heap'[x].call = heap[x].call
      /\ \A x \in DOMAIN heap : x # h => Ats(x)' = Ats(x)
  BY AddsHeap, AddsFollow
<1>3. a.into = h /\ a.during = root /\ root # 0 /\ UNCHANGED <<root, messages>>
  BY DEF Adds
<1> HIDE DEF n
<1>4. RootOwn /\ MessagesCopied
  BY DEF IInv
<1>5. RootOwn'
  BY <1>1, <1>2, <1>3, <1>4 DEF RootOwn, Into
<1>6. ASSUME NEW i \in DOMAIN messages'
      PROVE  /\ messages'[i].fields \in DOMAIN heap'
             /\ heap'[messages'[i].fields].call = 0
             /\ messages'[i].root # 0 =>
                    messages'[i].root \in DOMAIN heap' /\ messages'[i].root # root'
             /\ Ats(messages[i].fields)' = BaseOf(messages[i])'
  <2>1. /\ messages'[i] = messages[i] /\ i \in DOMAIN messages
        /\ messages[i].fields \in DOMAIN heap /\ heap[messages[i].fields].call = 0
        /\ messages[i].root # 0 => messages[i].root \in DOMAIN heap /\ messages[i].root # root
        /\ Ats(messages[i].fields) = BaseOf(messages[i])
    BY <1>3, <1>4 DEF MessagesCopied
  <2>2. messages[i].root # root
    BY <1>3, <2>1
  <2>3. BaseOf(messages[i])' = BaseOf(messages[i])
    BY <1>1, <1>3, <2>1, <2>2 DEF BaseOf
  <2>4. Ats(messages[i].fields)' = Ats(messages[i].fields)
    <3>1. PICK c : c = messages[i].fields
      OBVIOUS
    <3>2. c # h /\ c \in DOMAIN heap
      BY <1>2, <2>1, <3>1
    <3>3. Ats(c)' = Ats(c)
      BY <1>2, <3>2
    <3>4. messages'[i].fields = c
      BY <2>1, <3>1
    <3> QED
      BY <3>1, <3>3, <3>4 DEF Ats
  <2> QED
    BY <1>2, <1>3, <2>1, <2>3, <2>4
<1>7. MessagesCopied'
  BY <1>3, <1>4, <1>6 DEF MessagesCopied
<1> QED
  BY <1>5, <1>7

\* A cell is added to the heap and no add is made: an accumulator without entries,
\* or a copy with those of an accumulator.
Extends(c) ==
    /\ heap' = Append(heap, c)
    /\ c \in Cell
    /\ \/ c.entries = << >>
       \/ c.call = 0 /\ \E x \in DOMAIN heap : c.entries = heap[x].entries
    /\ UNCHANGED log

\* The heap after it.
LEMMA ExtendsHeap ==
    ASSUME IInv, NEW c, Extends(c)
    PROVE  /\ heap' \in Seq(Cell) /\ Len(heap) \in Nat
           /\ DOMAIN heap = 1 .. Len(heap) /\ DOMAIN heap' = 1 .. Len(heap) + 1
           /\ heap'[Len(heap) + 1] = c /\ Len(heap) + 1 \notin DOMAIN heap
           /\ \A x \in DOMAIN heap : x \in DOMAIN heap' /\ heap'[x] = heap[x] /\ Ats(x)' = Ats(x)
           /\ \A x \in DOMAIN heap' : x \in DOMAIN heap \/ x = Len(heap) + 1
<1>1. heap \in Seq(Cell) /\ c \in Cell /\ heap' = Append(heap, c)
  BY DEF IInv, Sound, HeapFollowsLog, Extends
<1>2. /\ heap' \in Seq(Cell) /\ Len(heap) \in Nat
      /\ DOMAIN heap = 1 .. Len(heap) /\ DOMAIN heap' = 1 .. Len(heap) + 1
      /\ heap'[Len(heap) + 1] = c
      /\ \A x \in DOMAIN heap : heap'[x] = heap[x]
  BY <1>1
<1>3. /\ Len(heap) + 1 \notin DOMAIN heap
      /\ \A x \in DOMAIN heap : x \in DOMAIN heap'
      /\ \A x \in DOMAIN heap' : x \in DOMAIN heap \/ x = Len(heap) + 1
  BY <1>2
<1>4. \A x \in DOMAIN heap : Ats(x)' = Ats(x)
  BY <1>2 DEF Ats
<1> QED
  BY <1>2, <1>3, <1>4

\* It keeps the heap in step with the log.
LEMMA ExtendsFollow ==
    ASSUME IInv, NEW c, Extends(c)
    PROVE  Sound' /\ IntoHeap'
<1>1. /\ heap' \in Seq(Cell)
      /\ heap'[Len(heap) + 1] = c /\ Len(heap) + 1 \notin DOMAIN heap
      /\ \A x \in DOMAIN heap : x \in DOMAIN heap' /\ heap'[x] = heap[x] /\ Ats(x)' = Ats(x)
      /\ \A x \in DOMAIN heap' : x \in DOMAIN heap \/ x = Len(heap) + 1
  BY ExtendsHeap
<1>2. /\ log' = log
      /\ c.entries = << >> \/ (c.call = 0 /\ \E x \in DOMAIN heap : c.entries = heap[x].entries)
  BY DEF Extends
<1>3. /\ \A x \in DOMAIN heap : \A k \in DOMAIN heap[x].entries : Recorded(x, k)
      /\ \A x \in DOMAIN heap : InOrder(x) /\ (heap[x].call # 0 => Ats(x) = Into(x))
      /\ \A i \in DOMAIN log : log[i].into \in DOMAIN heap
      /\ \A i \in DOMAIN log :
            log[i].made # 0 => log[i].made \in DOMAIN heap /\ heap[log[i].made].call # 0
  BY DEF IInv, Sound, IntoHeap, HeapFollowsLog
<1> DEFINE n == Len(heap) + 1
<1> HIDE DEF n
<1>4. heap'[n] = c /\ n \notin DOMAIN heap /\ \A x \in DOMAIN heap' : x \in DOMAIN heap \/ x = n
  BY <1>1 DEF n
<1>5. ASSUME NEW x \in DOMAIN heap'
      PROVE  /\ \A k \in DOMAIN heap'[x].entries : Recorded(x, k)'
             /\ InOrder(x)'
  <2>1. CASE heap'[x].entries = << >>
    BY <2>1 DEF Recorded, InOrder
  <2>2. ASSUME NEW y \in DOMAIN heap, heap'[x].entries = heap[y].entries
        PROVE  (\A k \in DOMAIN heap'[x].entries : Recorded(x, k)') /\ InOrder(x)'
    <3>1. InOrder(y) /\ \A k \in DOMAIN heap[y].entries : Recorded(y, k)
      BY <1>3
    <3> QED
      BY <1>2, <2>2, <3>1 DEF Recorded, InOrder
  <2> QED
    BY <1>1, <1>2, <1>4, <2>1, <2>2
<1>6. ASSUME NEW x \in DOMAIN heap', heap'[x].call # 0 PROVE Ats(x)' = Into(x)'
  <2>1. Into(x)' = Into(x)
    BY <1>2 DEF Into
  <2>2. CASE x \in DOMAIN heap
    BY <1>1, <1>3, <1>6, <2>1, <2>2
  <2>3. CASE x = n
    <3>1. Ats(x)' = {}
      BY <1>2, <1>4, <1>6, <2>3 DEF Ats
    <3>2. Into(x) = {}
      BY <1>3, <1>4, <2>3 DEF Into
    <3> QED
      BY <2>1, <3>1, <3>2
  <2> QED
    BY <1>4, <2>2, <2>3
<1>7. \A i \in DOMAIN log' :
         log'[i].made # 0 => log'[i].made \in DOMAIN heap' /\ heap'[log'[i].made].call # 0
  BY <1>1, <1>2, <1>3
<1>8. HeapFollowsLog'
  BY <1>1, <1>5, <1>6, <1>7 DEF HeapFollowsLog
<1>9. Forest' /\ IntoHeap'
  BY <1>1, <1>2, <1>3 DEF IInv, Sound, Forest, IntoHeap
<1> QED
  BY <1>8, <1>9 DEF Sound

\* Cell c is appended and handed out in a message of dissector call r.
EmitsAs(c, r) ==
    /\ Extends(c) /\ c.call = 0 /\ r \in Nat /\ root' = 0
    /\ messages' = Append(messages, [fields |-> Len(heap) + 1, root |-> r])
    /\ r # 0 => r \in DOMAIN heap
    /\ {c.entries[k].at : k \in DOMAIN c.entries} =
           {i \in DOMAIN log : log[i].into = r /\ log[i].during = r}

\* A message is complete: the heap and the messages each get one more.
LEMMA EmitsCopied ==
    ASSUME IInv, NEW c, NEW r, EmitsAs(c, r)
    PROVE  RootOwn' /\ MessagesCopied'
<1>a. /\ Extends(c) /\ c.call = 0 /\ r \in Nat /\ root' = 0
      /\ messages' = Append(messages, [fields |-> Len(heap) + 1, root |-> r])
      /\ r # 0 => r \in DOMAIN heap
      /\ {c.entries[k].at : k \in DOMAIN c.entries} =
             {i \in DOMAIN log : log[i].into = r /\ log[i].during = r}
  BY DEF EmitsAs
<1> DEFINE n == Len(heap) + 1
           m == [fields |-> n, root |-> r]
<1>1. /\ n \in Nat \ {0} /\ n \in DOMAIN heap' /\ heap'[n] = c
      /\ \A x \in DOMAIN heap : /\ x \in DOMAIN heap' /\ heap'[x] = heap[x]
                                /\ Ats(x)' = Ats(x) /\ x # 0
  BY <1>a, ExtendsHeap
<1>2. log' = log
  BY <1>a DEF Extends
<1>3. /\ messages \in Seq([fields : Nat, root : Nat])
      /\ \A i \in DOMAIN messages :
            /\ messages[i].fields \in DOMAIN heap /\ heap[messages[i].fields].call = 0
            /\ messages[i].root # 0 => messages[i].root \in DOMAIN heap /\ messages[i].root # root
            /\ Ats(messages[i].fields) = BaseOf(messages[i])
  BY DEF IInv, MessagesCopied
<1> HIDE DEF n
<1>4. m \in [fields : Nat, root : Nat] /\ messages' = Append(messages, m)
  BY <1>a, <1>1 DEF n
<1>5. /\ messages' \in Seq([fields : Nat, root : Nat])
      /\ \A i \in DOMAIN messages' : \/ i \in DOMAIN messages /\ messages'[i] = messages[i]
                                     \/ messages'[i] = m
  <2> HIDE DEF m
  <2> QED
    BY <1>3, <1>4
<1>6. ASSUME NEW i \in DOMAIN messages'
      PROVE  /\ messages'[i].fields \in DOMAIN heap'
             /\ heap'[messages'[i].fields].call = 0
             /\ messages'[i].root # 0 =>
                    messages'[i].root \in DOMAIN heap' /\ messages'[i].root # root'
             /\ Ats(messages[i].fields)' = BaseOf(messages[i])'
  <2>1. CASE i \in DOMAIN messages /\ messages'[i] = messages[i]
    <3>1. PICK x, s : x = messages[i].fields /\ s = messages[i]
      OBVIOUS
    <3>2. Ats(x)' = Ats(x) /\ BaseOf(s)' = BaseOf(s)
      BY <1>1, <1>2, <1>3, <2>1, <3>1 DEF BaseOf
    <3>3. Ats(messages[i].fields)' = Ats(x)' /\ BaseOf(messages[i])' = BaseOf(s)'
      BY <2>1, <3>1 DEF Ats, BaseOf
    <3>4. Ats(x) = BaseOf(s)
      BY <1>3, <2>1, <3>1
    <3> QED
      BY <1>a, <1>1, <1>3, <2>1, <3>2, <3>3, <3>4, SMTT(30)
  <2>2. CASE messages'[i] = m
    <3>1. messages'[i].fields = n /\ messages'[i].root = r
      BY <2>2
    <3>2. Ats(messages[i].fields)' = {c.entries[k].at : k \in DOMAIN c.entries}
      BY <1>1, <3>1 DEF Ats
    <3>3. BaseOf(messages[i])' = {j \in DOMAIN log : log[j].into = r /\ log[j].during = r}
      BY <1>2, <3>1 DEF BaseOf
    <3> QED
      BY <1>a, <1>1, <3>1, <3>2, <3>3
  <2> QED
    BY <1>5, <2>1, <2>2
<1>7. MessagesCopied'
  BY <1>5, <1>6 DEF MessagesCopied
<1>8. RootOwn'
  BY <1>a DEF RootOwn
<1> QED
  BY <1>7, <1>8

\* Every step keeps the invariant.
LEMMA Stepwise ==
    ASSUME IInv, [Next]_vars
    PROVE  IInv'
<1>0. /\ Forest /\ HeapFollowsLog /\ IntoHeap /\ RootOwn /\ MessagesCopied
      /\ Len(heap) \in Nat /\ DOMAIN heap = 1 .. Len(heap)
  BY DEF IInv, Sound, HeapFollowsLog
<1>e. {Empty.entries[k].at : k \in DOMAIN Empty.entries} =
          {i \in DOMAIN log : log[i].into = 0 /\ log[i].during = 0}
  <2>1. \A i \in DOMAIN log : log[i].into # 0
    BY <1>0, AddTyped
  <2> QED
    BY <2>1 DEF Empty
<1>1. CASE dispatch_add
  <2>1. PICK h, a : Adds(h, a)
    BY <1>1, DispatchAdds
  <2> QED
    BY <2>1, AddsForest, AddsFollow, AddsOwn DEF IInv, Sound
<1>2. CASE CallDissector
  <2> DEFINE n == Len(heap) + 1
             c == [call |-> n, entries |-> << >>]
  <2>1. /\ heap' = Append(heap, c) /\ c \in Cell /\ c.entries = << >> /\ c.call = n /\ n # 0
        /\ root' = n /\ UNCHANGED <<messages, log>> /\ root = 0
    BY <1>0, <1>2 DEF CallDissector, Cell
  <2>2. Extends(c)
    BY <2>1 DEF Extends
  <2>3. Sound' /\ IntoHeap'
    BY <2>2, ExtendsFollow
  <2>4. /\ n \in Nat \ {0} /\ n \in DOMAIN heap' /\ heap'[n] = c /\ n \notin DOMAIN heap
        /\ \A x \in DOMAIN heap : x \in DOMAIN heap' /\ heap'[x] = heap[x] /\ Ats(x)' = Ats(x)
    BY <2>2, ExtendsHeap
  <2> HIDE DEF n, c
  <2>5. RootOwn'
    <3>1. \A i \in DOMAIN log' : log'[i].into # n
      BY <1>0, <2>1, <2>4 DEF IntoHeap
    <3> QED
      BY <2>1, <2>4, <3>1 DEF RootOwn, Into
  <2>6. ASSUME NEW i \in DOMAIN messages'
        PROVE  /\ messages'[i].fields \in DOMAIN heap'
               /\ heap'[messages'[i].fields].call = 0
               /\ messages'[i].root # 0 =>
                      messages'[i].root \in DOMAIN heap' /\ messages'[i].root # root'
               /\ Ats(messages[i].fields)' = BaseOf(messages[i])'
    <3>1. /\ i \in DOMAIN messages /\ messages[i].fields \in DOMAIN heap
          /\ heap[messages[i].fields].call = 0
          /\ messages[i].root # 0 => messages[i].root \in DOMAIN heap
          /\ Ats(messages[i].fields) = BaseOf(messages[i])
      BY <1>0, <2>1 DEF MessagesCopied
    <3>2. PICK x, s : x = messages[i].fields /\ s = messages[i]
      OBVIOUS
    <3>3. Ats(x)' = Ats(x) /\ BaseOf(s)' = BaseOf(s)
      BY <2>1, <2>4, <3>1, <3>2 DEF BaseOf
    <3>4. Ats(messages[i].fields)' = Ats(x)' /\ BaseOf(messages[i])' = BaseOf(s)'
      BY <2>1, <3>2 DEF Ats, BaseOf
    <3> QED
      BY <2>1, <2>4, <3>1, <3>2, <3>3, <3>4
  <2>7. MessagesCopied'
    BY <1>0, <2>1, <2>6 DEF MessagesCopied
  <2> QED
    BY <2>3, <2>5, <2>7 DEF IInv
<1>3. CASE NoDissector \/ DissectorFails
  <2>1. /\ heap' = Append(heap, Empty) /\ root' = 0 /\ UNCHANGED log
        /\ messages' = Append(messages, [fields |-> Len(heap) + 1, root |-> 0])
    BY <1>3 DEF NoDissector, DissectorFails, Emit
  <2>2. Empty \in Cell /\ Empty.entries = << >> /\ Empty.call = 0
    BY DEF Empty, Cell
  <2>3. Extends(Empty)
    BY <2>1, <2>2 DEF Extends
  <2>4. RootOwn' /\ MessagesCopied'
    <3>1. EmitsAs(Empty, 0)
      BY <1>e, <2>1, <2>2, <2>3 DEF EmitsAs
    <3> QED
      BY <3>1, EmitsCopied
  <2> QED
    BY <2>3, <2>4, ExtendsFollow DEF IInv
<1>4. CASE DissectorReturns
  <2> DEFINE c == [call |-> 0, entries |-> heap[root].entries]
  <2>1. /\ root # 0 /\ root' = 0 /\ UNCHANGED log /\ heap' = Append(heap, c)
        /\ messages' = Append(messages, [fields |-> Len(heap) + 1, root |-> root])
    BY <1>4 DEF DissectorReturns, CloneOut, Emit
  <2>2. /\ root \in DOMAIN heap /\ root \in Nat /\ Ats(root) = Into(root)
        /\ Into(root) = {i \in DOMAIN log : log[i].into = root /\ log[i].during = root}
    BY <1>0, <2>1 DEF RootOwn, HeapFollowsLog
  <2>3. c \in Cell /\ c.call = 0 /\ c.entries = heap[root].entries
    <3>1. heap[root] \in Cell
      BY <1>0, <2>2 DEF HeapFollowsLog
    <3> QED
      BY <3>1 DEF Cell
  <2> HIDE DEF c
  <2>4. Extends(c)
    BY <2>1, <2>2, <2>3 DEF Extends
  <2>5. {c.entries[k].at : k \in DOMAIN c.entries} =
           {i \in DOMAIN log : log[i].into = root /\ log[i].during = root}
    BY <2>2, <2>3 DEF Ats
  <2>6. RootOwn' /\ MessagesCopied'
    <3>1. EmitsAs(c, root)
      BY <2>1, <2>2, <2>3, <2>4, <2>5 DEF EmitsAs
    <3> QED
      BY <3>1, EmitsCopied
  <2> QED
    BY <2>4, <2>6, ExtendsFollow DEF IInv
<1>5. CASE WriteFrame
  <2>1. heap' = << >> /\ root' = 0 /\ messages' = << >> /\ log' = << >>
    BY <1>5 DEF WriteFrame
  <2>2. Forest' /\ HeapFollowsLog'
    BY <2>1 DEF Forest, HeapFollowsLog
  <2>3. IntoHeap' /\ RootOwn' /\ MessagesCopied'
    BY <2>1 DEF IntoHeap, RootOwn, MessagesCopied
  <2> QED
    BY <2>2, <2>3 DEF IInv, Sound
<1>6. CASE UNCHANGED vars
  <2>1. heap' = heap /\ log' = log /\ root' = root /\ messages' = messages
    BY <1>6 DEF vars
  <2>2. Forest'
    BY <1>0, <2>1 DEF Forest
  <2>3. HeapFollowsLog'
    BY <1>0, <2>1, SMTT(30) DEF HeapFollowsLog, Recorded, InOrder, Ats, Into
  <2>4. IntoHeap' /\ RootOwn'
    BY <1>0, <2>1 DEF IntoHeap, RootOwn, Into
  <2>5. MessagesCopied'
    BY <1>0, <2>1 DEF MessagesCopied, Ats, BaseOf
  <2> QED
    BY <2>2, <2>3, <2>4, <2>5 DEF IInv, Sound
<1> QED
  BY <1>1, <1>2, <1>3, <1>4, <1>5, <1>6 DEF Next

-----------------------------------------------------------------------------
(* The line EkWriter writes.                                               *)

EkToken == [t : {"key", "value"}, key : Seq(STRING), at : Nat]

\* The values of selected field number k, and what is written for it.
EkValues(o, x, k) ==
    IF o.fields[k] \in EnvelopeFields THEN <<0>> ELSE values_for(x, o.fields[k])
EkPart(o, x, k) ==
    IF EkValues(o, x, k) = << >> THEN << >>
    ELSE Key(o.fields[k])
         \o [v \in DOMAIN EkValues(o, x, k) |-> Token("value", << >>, EkValues(o, x, k)[v])]

\* A part is a key and its values, or nothing.
LEMMA EkPartIs ==
    ASSUME NEW o, NEW x, NEW k, o.fields[k] \in Seq(STRING), EkValues(o, x, k) \in Seq(Nat)
    PROVE  /\ EkPart(o, x, k) \in Seq(EkToken)
           /\ EkValues(o, x, k) = << >> => Len(EkPart(o, x, k)) = 0
           /\ EkValues(o, x, k) # << >> =>
                 /\ Len(EkPart(o, x, k)) = Len(EkValues(o, x, k)) + 1
                 /\ EkPart(o, x, k)[1] = Token("key", o.fields[k], 0)
           /\ \A i \in 1 .. Len(EkPart(o, x, k)) : i # 1 =>
                 /\ i - 1 \in 1 .. Len(EkValues(o, x, k))
                 /\ EkPart(o, x, k)[i] = Token("value", << >>, EkValues(o, x, k)[i - 1])
<1> DEFINE vs == EkValues(o, x, k)
           tail == [v \in 1 .. Len(vs) |-> Token("value", << >>, vs[v])]
           head == <<Token("key", o.fields[k], 0)>>
<1>0. Len(vs) \in Nat /\ DOMAIN vs = 1 .. Len(vs) /\ \A v \in 1 .. Len(vs) : vs[v] \in Nat
  OBVIOUS
<1>1. EkPart(o, x, k) = IF vs = << >> THEN << >> ELSE head \o tail
  BY <1>0 DEF EkPart, Key
<1>2. Token("key", o.fields[k], 0) \in EkToken
  BY DEF Token, EkToken
<1>3. \A v \in 1 .. Len(vs) : Token("value", << >>, vs[v]) \in EkToken
  BY <1>0 DEF Token, EkToken
<1>4. tail \in Seq(EkToken) /\ Len(tail) = Len(vs)
  <2>1. tail \in [1 .. Len(vs) -> EkToken]
    BY <1>3
  <2> HIDE DEF tail
  <2> QED
    BY <1>0, <2>1, FunctionIsSeq
<1>5. head \in Seq(EkToken) /\ Len(head) = 1 /\ head[1] = Token("key", o.fields[k], 0)
  BY <1>2
<1>6. \A v \in 1 .. Len(vs) : tail[v] = Token("value", << >>, vs[v])
  OBVIOUS
<1> HIDE DEF vs, tail, head
<1>7. CASE vs = << >>
  BY <1>1, <1>7 DEF vs
<1>8. CASE vs # << >>
  <2>1. EkPart(o, x, k) = head \o tail
    BY <1>1, <1>8
  <2>2. /\ head \o tail \in Seq(EkToken) /\ Len(head \o tail) = Len(vs) + 1
        /\ (head \o tail)[1] = head[1]
        /\ \A i \in 1 .. Len(vs) + 1 : i # 1 => (head \o tail)[i] = tail[i - 1]
    <3> DEFINE all == head \o tail
    <3>0. all \in Seq(EkToken) /\ After(head, tail, all)
      BY <1>4, <1>5, Concatenated
    <3> HIDE DEF all
    <3>1. /\ all \in Seq(EkToken) /\ Len(all) = 1 + Len(vs)
          /\ \A i \in 1 .. 1 : all[i] = head[i]
          /\ \A i \in 1 .. Len(vs) : all[1 + i] = tail[i]
      BY <1>4, <1>5, <3>0 DEF After
    <3>2. all[1] = head[1]
      BY <3>1
    <3>3. ASSUME NEW i \in 1 .. Len(vs) + 1, i # 1 PROVE all[i] = tail[i - 1]
      <4>1. i - 1 \in 1 .. Len(vs) /\ 1 + (i - 1) = i
        BY <1>0, <3>3
      <4> QED
        BY <3>1, <4>1
    <3>4. Len(all) = Len(vs) + 1
      BY <1>0, <3>1
    <3> QED
      BY <3>1, <3>2, <3>3, <3>4 DEF all
  <2>3. \A i \in 1 .. Len(vs) + 1 : i # 1 => i - 1 \in 1 .. Len(vs)
    BY <1>0
  <2> QED
    BY <1>5, <1>6, <1>8, <2>1, <2>2, <2>3 DEF vs
<1> QED
  BY <1>7, <1>8

\* The line as a whole: off places the parts in it.
EkLaid(o, x, line, off) ==
    /\ line \in Seq(EkToken)
    /\ \A k \in DOMAIN o.fields : \A i \in 1 .. Len(EkPart(o, x, k)) :
          off[k] \in Nat /\ off[k] + i \in DOMAIN line /\ line[off[k] + i] = EkPart(o, x, k)[i]
    /\ \A p \in DOMAIN line : \E k \in DOMAIN o.fields : \E i \in 1 .. Len(EkPart(o, x, k)) :
          p = off[k] + i

\* write_message lays out its parts.
LEMMA EkLine ==
    ASSUME NEW o, o.fields \in Seq(Seq(STRING)), NEW x,
           \A k \in DOMAIN o.fields : EkValues(o, x, k) \in Seq(Nat)
    PROVE  \E off : EkLaid(o, x, write_message(o, x), off)
<1> DEFINE n == Len(o.fields)
           parts == [k \in DOMAIN o.fields |-> EkPart(o, x, k)]
           line == write_message(o, x)
<1>0. n \in Nat /\ DOMAIN o.fields = 1 .. n /\ \A k \in 1 .. n : o.fields[k] \in Seq(STRING)
  OBVIOUS
<1>1. line = FlattenSeq(parts)
  BY DEF write_message, EkPart, EkValues
<1>2. \A k \in 1 .. n : EkPart(o, x, k) \in Seq(EkToken)
  BY <1>0, EkPartIs
<1>3. parts \in [1 .. n -> Seq(EkToken)] /\ \A k \in 1 .. n : parts[k] = EkPart(o, x, k)
  BY <1>0, <1>2
<1> HIDE DEF n, parts, line
<1>4. parts \in Seq(Seq(EkToken)) /\ Len(parts) = n
  BY <1>0, <1>3, FunctionIsSeq
<1>5. line \in Seq(EkToken) /\ \E off : Places(parts, n, line, off)
  BY <1>1, <1>4, FlattenPlaces
<1>6. PICK off : Places(parts, n, line, off)
  BY <1>5
<1>7. Len(line) \in Nat /\ DOMAIN line = 1 .. Len(line)
  BY <1>5
<1>8. \A k \in 1 .. n : Len(parts[k]) \in Nat
  BY <1>3
<1>9. ASSUME NEW k \in 1 .. n, NEW i \in 1 .. Len(EkPart(o, x, k))
      PROVE  off[k] \in Nat /\ off[k] + i \in DOMAIN line /\ line[off[k] + i] = EkPart(o, x, k)[i]
  <2>1. /\ off \in [1 .. n + 1 -> Nat] /\ off[k + 1] = off[k] + Len(parts[k])
        /\ off[k + 1] <= Len(line) /\ line[off[k] + i] = parts[k][i]
    BY <1>3, <1>6 DEF Places
  <2>2. k \in 1 .. n + 1 /\ parts[k] = EkPart(o, x, k) /\ Len(parts[k]) \in Nat
    BY <1>0, <1>3, <1>8
  <2>3. off[k] \in Nat
    BY <2>1, <2>2
  <2>4. \A a, b, c : /\ a \in Nat /\ b \in Nat /\ c \in Nat /\ i \in 1 .. b /\ a + b <= c
                     => a + i \in 1 .. c
    OBVIOUS
  <2>5. off[k] + i \in 1 .. Len(line)
    BY <1>7, <2>1, <2>2, <2>3, <2>4
  <2> QED
    BY <1>7, <2>1, <2>2, <2>3, <2>5
<1>10. \A p \in 1 .. Len(line) : \E k \in 1 .. n : \E i \in 1 .. Len(parts[k]) : p = off[k] + i
  <2>1. n \in Nat /\ Len(line) \in Nat
    BY <1>0, <1>7
  <2> QED
    BY <1>6, <1>8, <2>1, PlaceOf
<1>11. \A p \in DOMAIN line : \E k \in DOMAIN o.fields :
          \E i \in 1 .. Len(EkPart(o, x, k)) : p = off[k] + i
  <2> SUFFICES ASSUME NEW p \in 1 .. Len(line)
               PROVE  \E k \in 1 .. n : \E i \in 1 .. Len(EkPart(o, x, k)) : p = off[k] + i
    BY <1>0, <1>7
  <2>1. PICK k \in 1 .. n : \E i \in 1 .. Len(parts[k]) : p = off[k] + i
    BY <1>10
  <2>2. parts[k] = EkPart(o, x, k)
    BY <1>3
  <2> QED
    BY <2>1, <2>2
<1>12. \A k \in DOMAIN o.fields : \A i \in 1 .. Len(EkPart(o, x, k)) :
          off[k] \in Nat /\ off[k] + i \in DOMAIN line /\ line[off[k] + i] = EkPart(o, x, k)[i]
  BY <1>0, <1>9
<1>13. EkLaid(o, x, line, off)
  BY <1>5, <1>11, <1>12 DEF EkLaid
<1> QED
  BY <1>13 DEF line

\* What write_message shows of a message is what its leaves say.
LEMMA EkShows ==
    ASSUME Sound, NEW o, o.fields \in Seq(Seq(STRING)), NEW m, m.fields \in DOMAIN heap,
           Ats(m.fields) = BaseOf(m)
    PROVE  LET line == write_message(o, m.fields)
               shown == {k \in DOMAIN line : line[k].t = "value" /\ line[k].at # 0}
               selected == ToSet(o.fields) \ EnvelopeFields
               fired == {j \in LeavesOf(m) : log[j].name \in selected}
           IN  /\ {line[k].at : k \in shown} = fired
               /\ IsInjective(o.fields) => \A j, k \in shown : line[j].at = line[k].at => j = k
               /\ \A k \in shown : \E h \in 1 .. k - 1 :
                     /\ line[h] = Token("key", log[line[k].at].name, 0)
                     /\ \A l \in h + 1 .. k : line[l].t = "value"
               /\ {line[k].key : k \in {k \in DOMAIN line : line[k].t = "key"}}
                     = {log[j].name : j \in fired} \union (EnvelopeFields \intersect ToSet(o.fields))
<1> DEFINE x == m.fields
           line == write_message(o, x)
           shown == {k \in DOMAIN line : line[k].t = "value" /\ line[k].at # 0}
           selected == ToSet(o.fields) \ EnvelopeFields
           fired == {j \in LeavesOf(m) : log[j].name \in selected}
           D == DOMAIN o.fields
           F(k) == o.fields[k]
           V(k) == EkValues(o, x, k)
           P(k) == EkPart(o, x, k)
<1>0. /\ x \in DOMAIN heap /\ (\A k \in D : F(k) \in Seq(STRING))
      /\ ToSet(o.fields) = {F(k) : k \in D}
  BY DEF ToSet
\* The values of a field are its leaves.
<1>1. \A j : j \in LeavesOf(m) <=> j \in Reach(Ats(x)) /\ log[j].kind # "Tree"
  BY AddsAreReached DEF LeavesOf, Sound
<1>2. \A k \in D : F(k) \notin EnvelopeFields =>
         /\ V(k) \in Seq(Nat)
         /\ \A j : (\E p \in 1 .. Len(V(k)) : V(k)[p] = j) <=> j \in LeavesOf(m) /\ log[j].name = F(k)
         /\ \A p, q \in 1 .. Len(V(k)) : p < q => V(k)[p] # V(k)[q]
  <2> SUFFICES ASSUME NEW k \in D, F(k) \notin EnvelopeFields
               PROVE  /\ V(k) \in Seq(Nat)
                      /\ \A j : (\E p \in 1 .. Len(V(k)) : V(k)[p] = j)
                                   <=> j \in LeavesOf(m) /\ log[j].name = F(k)
                      /\ \A p, q \in 1 .. Len(V(k)) : p < q => V(k)[p] # V(k)[q]
    OBVIOUS
  <2>1. V(k) = values_for(x, F(k))
    BY DEF EkValues
  <2>2. Lists(V(k), LeafOf(F(k), Ats(x)))
    BY <1>0, <2>1, ValuesListed
  <2>3. \A j : j \in LeafOf(F(k), Ats(x)) <=> j \in LeavesOf(m) /\ log[j].name = F(k)
    BY <1>1 DEF LeafOf
  <2> HIDE DEF V, F, x
  <2> QED
    BY <2>2, <2>3 DEF Lists
<1>3. \A k \in D : F(k) \in EnvelopeFields => V(k) = <<0>>
  BY DEF EkValues
<1>4. \A k \in D : V(k) \in Seq(Nat)
  <2> SUFFICES ASSUME NEW k \in D PROVE V(k) \in Seq(Nat)
    OBVIOUS
  <2> HIDE DEF V, F
  <2>1. <<0>> \in Seq(Nat)
    OBVIOUS
  <2> QED
    BY <1>2, <1>3, <2>1
<1>5. \A j \in LeavesOf(m) : j \in DOMAIN log /\ j # 0
  <2>1. Ats(x) \in SUBSET DOMAIN log
    BY DEF BaseOf
  <2>2. Reach(Ats(x)) \in SUBSET DOMAIN log
    BY <2>1, ReachClosed
  <2>3. \A j \in DOMAIN log : j # 0
    BY DEF Sound, Forest
  <2> QED
    BY <1>1, <2>2, <2>3
\* The line.
<1>6. \A k \in D :
         /\ P(k) \in Seq(EkToken) /\ Len(P(k)) \in Nat
         /\ V(k) = << >> => Len(P(k)) = 0
         /\ V(k) # << >> => Len(P(k)) = Len(V(k)) + 1 /\ P(k)[1] = Token("key", F(k), 0)
         /\ \A i \in 1 .. Len(P(k)) : i # 1 =>
               i - 1 \in 1 .. Len(V(k)) /\ P(k)[i] = Token("value", << >>, V(k)[i - 1])
  <2> SUFFICES ASSUME NEW k \in D
               PROVE  /\ P(k) \in Seq(EkToken) /\ Len(P(k)) \in Nat
                      /\ V(k) = << >> => Len(P(k)) = 0
                      /\ V(k) # << >> => Len(P(k)) = Len(V(k)) + 1 /\ P(k)[1] = Token("key", F(k), 0)
                      /\ \A i \in 1 .. Len(P(k)) : i # 1 =>
                            i - 1 \in 1 .. Len(V(k)) /\ P(k)[i] = Token("value", << >>, V(k)[i - 1])
    OBVIOUS
  <2>1. F(k) \in Seq(STRING) /\ V(k) \in Seq(Nat)
    BY <1>0, <1>4
  <2> QED
    BY <2>1, EkPartIs
<1>7. PICK off : EkLaid(o, x, line, off)
  BY <1>4, EkLine
<1>8. /\ \A k \in D : \A i \in 1 .. Len(P(k)) :
            off[k] \in Nat /\ off[k] + i \in DOMAIN line /\ line[off[k] + i] = P(k)[i]
      /\ \A p \in DOMAIN line : \E k \in D : \E i \in 1 .. Len(P(k)) : p = off[k] + i
      /\ \A p \in DOMAIN line : p \in Nat
  <2>1. line \in Seq(EkToken)
    BY <1>7 DEF EkLaid
  <2>2. \A p \in DOMAIN line : p \in Nat
    BY <2>1
  <2> QED
    BY <1>7, <2>2 DEF EkLaid
<1>9. \A a, b, c : /\ Token(a, b, c).t = a /\ Token(a, b, c).key = b /\ Token(a, b, c).at = c
  BY DEF Token
<1> HIDE DEF x, line, D, F, V, P
\* Where a value stands.
<1>10. ASSUME NEW p \in shown
       PROVE  \E k \in D, i \in Nat :
                 /\ i \in 2 .. Len(P(k)) /\ p = off[k] + i /\ off[k] \in Nat
                 /\ i - 1 \in 1 .. Len(V(k)) /\ V(k) # << >>
                 /\ line[p].at = V(k)[i - 1] /\ F(k) \notin EnvelopeFields
                 /\ line[p].at \in fired /\ log[line[p].at].name = F(k)
  <2>1. p \in DOMAIN line /\ line[p].t = "value" /\ line[p].at # 0
    OBVIOUS
  <2>2. PICK k \in D : \E i \in 1 .. Len(P(k)) : p = off[k] + i
    BY <1>8, <2>1
  <2>3. PICK i \in 1 .. Len(P(k)) : p = off[k] + i
    BY <2>2
  <2>4. line[p] = P(k)[i] /\ off[k] \in Nat /\ Len(P(k)) \in Nat
    BY <1>6, <1>8, <2>3
  <2>5. V(k) # << >>
    BY <1>6, <2>4
  <2>6. i # 1
    BY <1>6, <1>9, <2>1, <2>4, <2>5
  <2>7. i - 1 \in 1 .. Len(V(k)) /\ line[p].at = V(k)[i - 1]
    BY <1>6, <1>9, <2>4, <2>6
  <2>8. F(k) \notin EnvelopeFields
    <3> SUFFICES ASSUME F(k) \in EnvelopeFields PROVE FALSE
      OBVIOUS
    <3>1. V(k) = <<0>>
      BY <1>3
    <3>2. i - 1 = 1
      BY <2>7, <3>1
    <3> QED
      BY <2>1, <2>7, <3>1, <3>2
  <2>9. line[p].at \in LeavesOf(m) /\ log[line[p].at].name = F(k)
    BY <1>2, <2>7, <2>8
  <2>10. line[p].at \in fired
    BY <1>0, <2>8, <2>9
  <2>11. i \in 2 .. Len(P(k)) /\ i \in Nat
    BY <2>4, <2>6
  <2> QED
    BY <2>3, <2>4, <2>5, <2>7, <2>8, <2>9, <2>10, <2>11
\* Every leaf that was selected is shown.
<1>11. ASSUME NEW j \in fired
       PROVE  /\ \E p \in shown : line[p].at = j
              /\ \E k \in D : F(k) = log[j].name /\ V(k) # << >>
  <2>1. PICK k \in D : log[j].name = F(k) /\ F(k) \notin EnvelopeFields
    BY <1>0
  <2>2. PICK v \in 1 .. Len(V(k)) : V(k)[v] = j
    BY <1>2, <2>1
  <2>3. V(k) # << >> /\ Len(V(k)) \in Nat
    BY <1>4, <2>2
  <2>4. v + 1 \in 1 .. Len(P(k)) /\ v + 1 # 1 /\ v + 1 - 1 = v
    BY <1>6, <2>3
  <2>5. P(k)[v + 1] = Token("value", << >>, j)
    BY <1>6, <2>2, <2>4
  <2>6. off[k] + (v + 1) \in DOMAIN line /\ line[off[k] + (v + 1)] = Token("value", << >>, j)
    BY <1>8, <2>4, <2>5
  <2>7. off[k] + (v + 1) \in shown /\ line[off[k] + (v + 1)].at = j
    BY <1>5, <1>9, <2>6
  <2> QED
    BY <2>1, <2>3, <2>7
<1>12. {line[k].at : k \in shown} = fired
  <2> HIDE DEF shown, fired
  <2> QED
    BY <1>10, <1>11
<1>13. ASSUME IsInjective(o.fields), NEW p \in shown, NEW q \in shown, line[p].at = line[q].at
       PROVE  p = q
  <2> HIDE DEF shown, fired
  <2>1. PICK k \in D, i \in Nat : /\ i \in 2 .. Len(P(k)) /\ p = off[k] + i
                                 /\ i - 1 \in 1 .. Len(V(k)) /\ line[p].at = V(k)[i - 1]
                                 /\ F(k) \notin EnvelopeFields /\ log[line[p].at].name = F(k)
    BY <1>10
  <2>2. PICK l \in D, j \in Nat : /\ j \in 2 .. Len(P(l)) /\ q = off[l] + j
                                 /\ j - 1 \in 1 .. Len(V(l)) /\ line[q].at = V(l)[j - 1]
                                 /\ log[line[q].at].name = F(l)
    BY <1>10
  <2>3. F(k) = F(l)
    BY <1>13, <2>1, <2>2
  <2>4. k = l
    BY <1>13, <2>3 DEF IsInjective, F, D
  <2>5. V(k)[i - 1] = V(k)[j - 1] /\ i - 1 \in 1 .. Len(V(k)) /\ j - 1 \in 1 .. Len(V(k))
    BY <1>13, <2>1, <2>2, <2>4
  <2>6. ~(i - 1 < j - 1) /\ ~(j - 1 < i - 1)
    <3>1. PICK u, v, t : u = i - 1 /\ v = j - 1 /\ t = V(k)
      OBVIOUS
    <3>2. u \in 1 .. Len(t) /\ v \in 1 .. Len(t) /\ t[u] = t[v]
      BY <2>5, <3>1
    <3>3. \A y, z \in 1 .. Len(t) : y < z => t[y] # t[z]
      <4>1. \A y, z \in 1 .. Len(V(k)) : y < z => V(k)[y] # V(k)[z]
        BY <1>2, <2>1
      <4> QED
        BY <3>1, <4>1
    <3>4. ~(u < v) /\ ~(v < u)
      BY <3>2, <3>3, Zenon
    <3> QED
      BY <3>1, <3>4
  <2>7. i = j
    BY <2>6
  <2> QED
    BY <2>1, <2>2, <2>4, <2>7
<1>14. ASSUME NEW p \in shown
       PROVE  \E h \in 1 .. p - 1 : /\ line[h] = Token("key", log[line[p].at].name, 0)
                                    /\ \A l \in h + 1 .. p : line[l].t = "value"
  <2> HIDE DEF shown, fired
  <2>1. PICK k \in D, i \in Nat : /\ i \in 2 .. Len(P(k)) /\ p = off[k] + i /\ off[k] \in Nat
                                 /\ V(k) # << >> /\ log[line[p].at].name = F(k)
    BY <1>10
  <2>2. Len(P(k)) \in Nat /\ 1 \in 1 .. Len(P(k)) /\ off[k] + 1 \in 1 .. p - 1
    BY <1>6, <2>1
  <2>3. line[off[k] + 1] = Token("key", F(k), 0)
    BY <1>6, <1>8, <2>1, <2>2
  <2>4. ASSUME NEW l \in off[k] + 1 + 1 .. p PROVE line[l].t = "value"
    <3> DEFINE d == l - off[k]
    <3>1. d \in 1 .. Len(P(k)) /\ d # 1 /\ off[k] + d = l
      BY <2>1, <2>2, SMTT(30)
    <3> HIDE DEF d
    <3>2. line[off[k] + d] = P(k)[d] /\ P(k)[d] = Token("value", << >>, V(k)[d - 1])
      BY <1>6, <1>8, <3>1
    <3> QED
      BY <1>9, <3>1, <3>2
  <2> QED
    BY <2>1, <2>2, <2>3, <2>4
<1>15. {line[k].key : k \in {k \in DOMAIN line : line[k].t = "key"}}
          = {log[j].name : j \in fired} \union (EnvelopeFields \intersect ToSet(o.fields))
  <2>1. ASSUME NEW k \in D, V(k) # << >>
        PROVE  \E p \in DOMAIN line : line[p].t = "key" /\ line[p].key = F(k)
    <3>1. 1 \in 1 .. Len(P(k)) /\ P(k)[1] = Token("key", F(k), 0)
      <4>1. Len(V(k)) \in Nat
        BY <1>4
      <4> QED
        BY <1>6, <2>1, <4>1
    <3>2. off[k] + 1 \in DOMAIN line /\ line[off[k] + 1] = Token("key", F(k), 0)
      BY <1>8, <3>1
    <3> QED
      BY <1>9, <3>2
  <2>2. ASSUME NEW p \in DOMAIN line, line[p].t = "key"
        PROVE  \E k \in D : line[p].key = F(k) /\ V(k) # << >>
    <3>1. PICK k \in D : \E i \in 1 .. Len(P(k)) : p = off[k] + i
      BY <1>8
    <3>2. PICK i \in 1 .. Len(P(k)) : p = off[k] + i
      BY <3>1
    <3>3. line[p] = P(k)[i]
      BY <1>8, <3>2
    <3>4. i = 1
      BY <1>6, <1>9, <2>2, <3>3
    <3>5. V(k) # << >>
      BY <1>6, <3>2
    <3> QED
      BY <1>6, <1>9, <3>3, <3>4, <3>5
  <2>3. ASSUME NEW k \in D, F(k) \in EnvelopeFields PROVE V(k) # << >>
    <3>1. <<0>> # << >>
      OBVIOUS
    <3> QED
      BY <1>3, <2>3, <3>1
  <2>4. ASSUME NEW k \in D, F(k) \notin EnvelopeFields, V(k) # << >>
        PROVE  \E j \in fired : log[j].name = F(k)
    <3>1. V(k) \in Seq(Nat) /\ Len(V(k)) \in Nat /\ 1 \in 1 .. Len(V(k))
      BY <1>4, <2>4
    <3>2. V(k)[1] \in LeavesOf(m) /\ log[V(k)[1]].name = F(k)
      BY <1>2, <2>4, <3>1
    <3> QED
      BY <1>0, <2>4, <3>2
  <2> HIDE DEF fired
  <2>5. ASSUME NEW p \in DOMAIN line, line[p].t = "key"
        PROVE  line[p].key \in {log[j].name : j \in fired} \union
                                   (EnvelopeFields \intersect ToSet(o.fields))
    <3>1. PICK k \in D : line[p].key = F(k) /\ V(k) # << >>
      BY <2>2, <2>5
    <3> QED
      BY <1>0, <2>4, <3>1
  <2>6. ASSUME NEW f \in {log[j].name : j \in fired} \union
                             (EnvelopeFields \intersect ToSet(o.fields))
        PROVE  \E p \in DOMAIN line : line[p].t = "key" /\ line[p].key = f
    <3>1. \E k \in D : F(k) = f /\ V(k) # << >>
      BY <1>0, <1>11, <2>3
    <3> QED
      BY <2>1, <3>1
  <2> HIDE DEF fired
  <2> QED
    BY <2>5, <2>6
<1> HIDE DEF shown, fired
<1>16. /\ {line[k].at : k \in shown} = fired
       /\ IsInjective(o.fields) => \A j, k \in shown : line[j].at = line[k].at => j = k
       /\ \A k \in shown : \E h \in 1 .. k - 1 :
             /\ line[h] = Token("key", log[line[k].at].name, 0)
             /\ \A l \in h + 1 .. k : line[l].t = "value"
  BY <1>12, <1>13, <1>14
<1> QED
  BY <1>15, <1>16 DEF shown, fired, line, x

\* For every dissector, every tree and every choice of fields, -e shows what was
\* recorded for the message, each value once and under its own key, at whatever
\* depth and through whichever handle it was added.
THEOREM EkComplete == Spec => []EkSelectsEveryLeaf
<1>1. IInv /\ [Next]_vars => IInv'
  BY Stepwise
<1>2. IInv => EkSelectsEveryLeaf
  <2> SUFFICES ASSUME IInv, NEW o \in Options, NEW i \in DOMAIN messages
               PROVE  LET line == write_message(o, messages[i].fields)
                          shown == {k \in DOMAIN line : line[k].t = "value" /\ line[k].at # 0}
                          selected == ToSet(o.fields) \ EnvelopeFields
                          fired == {j \in LeavesOf(messages[i]) : log[j].name \in selected}
                      IN  /\ {line[k].at : k \in shown} = fired
                          /\ IsInjective(o.fields) =>
                                \A j, k \in shown : line[j].at = line[k].at => j = k
                          /\ \A k \in shown : \E h \in 1 .. k - 1 :
                                /\ line[h] = Token("key", log[line[k].at].name, 0)
                                /\ \A l \in h + 1 .. k : line[l].t = "value"
                          /\ {line[k].key : k \in {k \in DOMAIN line : line[k].t = "key"}}
                                = {log[j].name : j \in fired}
                                      \union (EnvelopeFields \intersect ToSet(o.fields))
    BY DEF EkSelectsEveryLeaf
  <2>1. o.fields \in Seq(Seq(STRING))
    BY OptionsAssumption
  <2>2. Sound /\ messages[i].fields \in DOMAIN heap
        /\ Ats(messages[i].fields) = BaseOf(messages[i])
    BY DEF IInv, MessagesCopied
  <2> QED
    BY <2>1, <2>2, EkShows
<1> QED
  BY <1>1, <1>2, Initially, PTL DEF Spec

-----------------------------------------------------------------------------
(* What NdjsonWriter shows.                                                *)

\* Values of one field, recorded on one accumulator.
Siblings(i, j) == log[i].into = log[j].into /\ log[i].name = log[j].name

\* The values of a line, a sequence of tokens of T, are S: each once, and siblings
\* in the order recorded.
Shows(T, line, S) ==
    /\ line \in Seq(T)
    /\ \A i : i \in S <=> \E p \in 1 .. Len(line) : line[p].t = "value" /\ line[p].at = i
    /\ \A p, q \in 1 .. Len(line) :
          p < q /\ line[p].t = "value" /\ line[q].t = "value" =>
             /\ line[p].at # line[q].at
             /\ Siblings(line[p].at, line[q].at) => line[p].at < line[q].at

\* What A has may be shown before what B has.
Separate(A, B) == \A i \in A, j \in B : i # j /\ (Siblings(i, j) => i < j)

\* A place of a sequence of one.
LEMMA OnePlace ==
    ASSUME NEW T, NEW x \in T
    PROVE  <<x>> \in Seq(T) /\ Len(<<x>>) = 1 /\ \A p : p \in 1 .. Len(<<x>>) <=> p = 1
<1>1. <<x>> \in Seq(T) /\ Len(<<x>>) = 1
  OBVIOUS
<1> QED
  BY <1>1

\* A token that is no value shows nothing.
LEMMA ShowsNothing ==
    ASSUME NEW T, NEW x \in T, x.t # "value"
    PROVE  Shows(T, <<x>>, {})
<1>1. PICK s : s = <<x>>
  OBVIOUS
<1>2. s \in Seq(T) /\ s[1] = x /\ \A p : p \in 1 .. Len(s) <=> p = 1
  BY <1>1, OnePlace
<1>3. Shows(T, s, {})
  BY <1>2 DEF Shows
<1> QED
  BY <1>1, <1>3

\* A value shows itself.
LEMMA ShowsOne ==
    ASSUME NEW T, NEW x \in T, x.t = "value"
    PROVE  Shows(T, <<x>>, {x.at})
<1>1. PICK s : s = <<x>>
  OBVIOUS
<1>2. s \in Seq(T) /\ s[1] = x /\ \A p : p \in 1 .. Len(s) <=> p = 1
  BY <1>1, OnePlace
<1>3. ~(1 < 1)
  OBVIOUS
<1>4. Shows(T, s, {x.at})
  BY <1>2, <1>3 DEF Shows
<1> QED
  BY <1>1, <1>4

\* Nothing shows nothing.
LEMMA ShowsEmpty ==
    ASSUME NEW T
    PROVE  Shows(T, << >>, {})
<1>1. << >> \in Seq(T) /\ 1 .. Len(<< >>) = {}
  OBVIOUS
<1> QED
  BY <1>1 DEF Shows

\* Each part shows its set, and they may stand in this order.
Parted(T, parts, n, sets) ==
    /\ n \in Nat
    /\ parts = [k \in 1 .. n |-> parts[k]]
    /\ \A k \in 1 .. n : Shows(T, parts[k], sets[k])
    /\ \A k, l \in 1 .. n : k < l => Separate(sets[k], sets[l])

\* Written one after another they show what each shows.
LEMMA ShowsAll ==
    ASSUME NEW T, NEW parts, NEW n, NEW sets, Parted(T, parts, n, sets)
    PROVE  Shows(T, FlattenSeq(parts), UNION {sets[k] : k \in 1 .. n})
<1> DEFINE all == FlattenSeq(parts)
           S == UNION {sets[k] : k \in 1 .. n}
<1>0. /\ n \in Nat
      /\ parts = [k \in 1 .. n |-> parts[k]]
      /\ \A k \in 1 .. n : Shows(T, parts[k], sets[k])
      /\ \A k, l \in 1 .. n : k < l => Separate(sets[k], sets[l])
  BY DEF Parted
<1>1. \A k \in 1 .. n : parts[k] \in Seq(T)
  BY <1>0 DEF Shows
<1>2. parts \in [1 .. n -> Seq(T)]
  BY <1>0, <1>1
<1>3. parts \in Seq(Seq(T)) /\ Len(parts) = n
  BY <1>0, <1>2, FunctionIsSeq
<1>4. all \in Seq(T) /\ Joins(parts, all)
  BY <1>3, Flattened
<1> HIDE DEF all
<1>5. ASSUME NEW k \in 1 .. n, NEW i \in 1 .. Len(parts[k]), parts[k][i].t = "value"
      PROVE  parts[k][i].at \in sets[k]
  BY <1>0, <1>5 DEF Shows
<1>6. ASSUME NEW i \in S PROVE \E p \in 1 .. Len(all) : all[p].t = "value" /\ all[p].at = i
  <2>1. PICK k \in 1 .. n : i \in sets[k]
    BY <1>6
  <2>2. PICK j \in 1 .. Len(parts[k]) : parts[k][j].t = "value" /\ parts[k][j].at = i
    BY <1>0, <2>1 DEF Shows
  <2>3. PICK p \in 1 .. Len(all) : all[p] = parts[k][j]
    BY <1>3, <1>4 DEF Joins
  <2> QED
    BY <2>2, <2>3
<1>7. ASSUME NEW p \in 1 .. Len(all), all[p].t = "value" PROVE all[p].at \in S
  <2>1. PICK k \in 1 .. Len(parts) : \E i \in 1 .. Len(parts[k]) : all[p] = parts[k][i]
    BY <1>4 DEF Joins
  <2>2. k \in 1 .. n
    BY <1>3, <2>1
  <2>3. all[p].at \in sets[k]
    BY <1>5, <1>7, <2>1, <2>2
  <2> QED
    BY <2>2, <2>3
<1>8. ASSUME NEW p \in 1 .. Len(all), NEW q \in 1 .. Len(all), p < q,
             all[p].t = "value", all[q].t = "value"
      PROVE  /\ all[p].at # all[q].at
             /\ Siblings(all[p].at, all[q].at) => all[p].at < all[q].at
  <2>1. PICK k, l \in 1 .. Len(parts) :
           \E i \in 1 .. Len(parts[k]), j \in 1 .. Len(parts[l]) :
               Before(k, i, l, j) /\ all[p] = parts[k][i] /\ all[q] = parts[l][j]
    BY <1>4, <1>8 DEF Joins
  <2>2. PICK i \in 1 .. Len(parts[k]), j \in 1 .. Len(parts[l]) :
               Before(k, i, l, j) /\ all[p] = parts[k][i] /\ all[q] = parts[l][j]
    BY <2>1
  <2>3. k \in 1 .. n /\ l \in 1 .. n
    BY <1>3
  <2>4. CASE k = l
    <3>1. i < j /\ j \in 1 .. Len(parts[k]) /\ all[q] = parts[k][j]
      BY <2>2, <2>4 DEF Before
    <3>2. Shows(T, parts[k], sets[k])
      BY <1>0, <2>3
    <3>3. PICK s : s = parts[k]
      OBVIOUS
    <3>4. /\ i \in 1 .. Len(s) /\ j \in 1 .. Len(s) /\ i < j
          /\ s[i].t = "value" /\ s[j].t = "value" /\ s[i] = all[p] /\ s[j] = all[q]
      BY <1>8, <2>2, <3>1, <3>3
    <3>5. /\ s[i].at # s[j].at
          /\ Siblings(s[i].at, s[j].at) => s[i].at < s[j].at
      BY <3>2, <3>3, <3>4 DEF Shows
    <3> QED
      BY <3>4, <3>5
  <2>5. CASE k < l
    <3>1. all[p].at \in sets[k] /\ all[q].at \in sets[l]
      BY <1>5, <1>8, <2>2, <2>3
    <3>2. Separate(sets[k], sets[l])
      BY <1>0, <2>3, <2>5
    <3> QED
      BY <3>1, <3>2 DEF Separate
  <2> QED
    BY <2>2, <2>4, <2>5 DEF Before
<1>9. Shows(T, all, S)
  <2> HIDE DEF S
  <2> QED
    BY <1>4, <1>6, <1>7, <1>8 DEF Shows
<1> QED
  BY <1>9 DEF all

\* Of two lines, what both show.
LEMMA ShowsAfter ==
    ASSUME NEW T, NEW a, NEW b, NEW A, NEW B,
           Shows(T, a, A), Shows(T, b, B), Separate(A, B)
    PROVE  Shows(T, a \o b, A \union B)
<1>1. a \in Seq(T) /\ b \in Seq(T)
  BY DEF Shows
<1> DEFINE c == a \o b
<1>2. c \in Seq(T) /\ After(a, b, c)
  BY <1>1, Concatenated
<1>3. /\ Len(a) \in Nat /\ Len(b) \in Nat /\ Len(c) = Len(a) + Len(b)
      /\ \A p \in 1 .. Len(a) : p \in 1 .. Len(c) /\ c[p] = a[p]
      /\ \A p \in 1 .. Len(b) : Len(a) + p \in 1 .. Len(c) /\ c[Len(a) + p] = b[p]
  BY <1>1, <1>2 DEF After
<1>4. \A p \in 1 .. Len(c) : p \in 1 .. Len(a) \/ (p - Len(a) \in 1 .. Len(b) /\ c[p] = b[p - Len(a)])
  <2> SUFFICES ASSUME NEW p \in 1 .. Len(c), p \notin 1 .. Len(a)
               PROVE  p - Len(a) \in 1 .. Len(b) /\ c[p] = b[p - Len(a)]
    OBVIOUS
  <2>1. PICK q : q = p - Len(a)
    OBVIOUS
  <2>2. q \in 1 .. Len(b) /\ Len(a) + q = p
    BY <1>3, <2>1
  <2> QED
    BY <1>3, <2>1, <2>2
<1> HIDE DEF c
<1>5. ASSUME NEW p \in 1 .. Len(c), c[p].t = "value"
      PROVE  \/ p \in 1 .. Len(a) /\ c[p] = a[p] /\ c[p].at \in A
             \/ p - Len(a) \in 1 .. Len(b) /\ c[p] = b[p - Len(a)] /\ c[p].at \in B
  <2>1. CASE p \in 1 .. Len(a)
    BY <1>3, <1>5, <2>1 DEF Shows
  <2>2. CASE p - Len(a) \in 1 .. Len(b) /\ c[p] = b[p - Len(a)]
    BY <1>5, <2>2 DEF Shows
  <2> QED
    BY <1>4, <2>1, <2>2
<1>6. ASSUME NEW i \in A \union B PROVE \E p \in 1 .. Len(c) : c[p].t = "value" /\ c[p].at = i
  <2>1. CASE i \in A
    <3>1. PICK p \in 1 .. Len(a) : a[p].t = "value" /\ a[p].at = i
      BY <2>1 DEF Shows
    <3> QED
      BY <1>3, <3>1
  <2>2. CASE i \in B
    <3>1. PICK p \in 1 .. Len(b) : b[p].t = "value" /\ b[p].at = i
      BY <2>2 DEF Shows
    <3> QED
      BY <1>3, <3>1
  <2> QED
    BY <2>1, <2>2
<1>7. ASSUME NEW p \in 1 .. Len(c), NEW q \in 1 .. Len(c), p < q, c[p].t = "value", c[q].t = "value"
      PROVE  /\ c[p].at # c[q].at
             /\ Siblings(c[p].at, c[q].at) => c[p].at < c[q].at
  <2>0. p \in Nat /\ q \in Nat /\ Len(a) \in Nat
    BY <1>3
  <2>1. CASE q \in 1 .. Len(a) /\ c[q] = a[q]
    <3>1. p \in 1 .. Len(a) /\ c[p] = a[p]
      BY <1>3, <1>7, <2>0, <2>1
    <3> QED
      BY <1>7, <2>1, <3>1 DEF Shows
  <2>2. CASE p - Len(a) \in 1 .. Len(b) /\ c[p] = b[p - Len(a)]
    <3>0. PICK u, v : u = p - Len(a) /\ v = q - Len(a)
      OBVIOUS
    <3>1. v \in 1 .. Len(b) /\ c[q] = b[v]
      <4>1. q \notin 1 .. Len(a)
        BY <1>7, <2>0, <2>2
      <4> QED
        BY <1>5, <1>7, <3>0, <4>1
    <3>2. u < v /\ u \in 1 .. Len(b) /\ c[p] = b[u]
      BY <1>7, <2>0, <2>2, <3>0
    <3> QED
      BY <1>7, <3>1, <3>2 DEF Shows
  <2>3. CASE c[p].at \in A /\ c[q].at \in B
    BY <2>3 DEF Separate
  <2> QED
    BY <1>5, <1>7, <2>1, <2>2, <2>3
<1>8. Shows(T, c, A \union B)
  BY <1>2, <1>5, <1>6, <1>7 DEF Shows
<1> QED
  BY <1>8 DEF c

\* What stands between two tokens that are no values.
LEMMA ShowsBetween ==
    ASSUME NEW T, NEW a, NEW b, NEW c, NEW S,
           Shows(T, a, {}), Shows(T, b, S), Shows(T, c, {})
    PROVE  Shows(T, a \o b \o c, S)
<1>1. Separate({}, S) /\ Separate(S, {}) /\ {} \union S = S /\ S \union {} = S
  BY DEF Separate
<1>2. PICK d : d = a \o b
  OBVIOUS
<1>3. Shows(T, d, S)
  BY <1>1, <1>2, ShowsAfter
<1>4. Shows(T, d \o c, S)
  BY <1>1, <1>3, ShowsAfter
<1> QED
  BY <1>2, <1>4

\* What stands after a token that is no value.
LEMMA ShowsBehind ==
    ASSUME NEW T, NEW a, NEW b, NEW S, Shows(T, a, {}), Shows(T, b, S)
    PROVE  Shows(T, a \o b, S)
<1>1. Separate({}, S) /\ {} \union S = S
  BY DEF Separate
<1> QED
  BY <1>1, ShowsAfter

-----------------------------------------------------------------------------
(* Entries by name.                                                        *)

\* at tells, in order, from which places in K of s the elements of t are.
Picks(s, K, t, at) ==
    /\ at \in [1 .. Len(t) -> K]
    /\ \A p \in 1 .. Len(t) : t[p] = s[at[p]]
    /\ \A p, q \in 1 .. Len(t) : p < q => at[p] < at[q]
    /\ \A k \in K : \E p \in 1 .. Len(t) : at[p] = k

\* KeepAt picks the places it is given.
LEMMA KeptPlaces ==
    ASSUME NEW T, NEW s \in Seq(T), NEW K \in SUBSET DOMAIN s
    PROVE  KeepAt(s, K) \in Seq(T) /\ \E at : Picks(s, K, KeepAt(s, K), at)
<1> DEFINE parts == [i \in DOMAIN s |-> IF i \in K THEN <<s[i]>> ELSE << >>]
           n == Len(s)
           t == FlattenSeq(parts)
<1>1. n \in Nat /\ DOMAIN s = 1 .. n
  OBVIOUS
<1>2. /\ \A i \in 1 .. n : parts[i] = IF i \in K THEN <<s[i]>> ELSE << >>
      /\ parts = [i \in 1 .. n |-> parts[i]]
  BY <1>1
<1> HIDE DEF parts
<1>3. \A i \in 1 .. n : parts[i] \in Seq(T) /\ (i \in K => Len(parts[i]) = 1 /\ parts[i][1] = s[i])
                        /\ (i \notin K => Len(parts[i]) = 0)
  <2> SUFFICES ASSUME NEW i \in 1 .. n
               PROVE  /\ parts[i] \in Seq(T)
                      /\ i \in K => Len(parts[i]) = 1 /\ parts[i][1] = s[i]
                      /\ i \notin K => Len(parts[i]) = 0
    OBVIOUS
  <2>1. s[i] \in T
    BY <1>1
  <2>2. CASE i \in K
    <3>1. parts[i] = <<s[i]>>
      BY <1>2, <2>2
    <3> QED
      BY <2>1, <2>2, <3>1
  <2>3. CASE i \notin K
    <3>1. parts[i] = << >>
      BY <1>2, <2>3
    <3> QED
      BY <2>3, <3>1
  <2> QED
    BY <2>2, <2>3
<1>4. parts \in Seq(Seq(T)) /\ Len(parts) = n
  BY <1>1, <1>2, <1>3, FunctionIsSeq
<1>5. PICK off : Places(parts, n, t, off)
  BY <1>4, FlattenPlaces
<1>6. t \in Seq(T)
  BY <1>4, Flattened
<1>7. \A k \in 1 .. n : Len(parts[k]) \in Nat /\ k \in 1 .. n + 1 /\ k + 1 \in 1 .. n + 1
  BY <1>1, <1>3
<1> HIDE DEF t, n
<1>8. ASSUME NEW k \in K
      PROVE  k \in 1 .. n /\ off[k] \in Nat /\ off[k + 1] = off[k] + 1 /\ off[k] + 1 \in 1 .. Len(t)
             /\ t[off[k] + 1] = s[k]
  <2>1. k \in 1 .. n /\ Len(parts[k]) = 1 /\ parts[k][1] = s[k] /\ 1 \in 1 .. Len(parts[k])
    BY <1>1, <1>3
  <2>2. off[k] \in Nat /\ off[k + 1] = off[k] + Len(parts[k]) /\ off[k + 1] <= Len(t)
        /\ t[off[k] + 1] = parts[k][1]
    BY <1>5, <1>7, <2>1 DEF Places
  <2>3. Len(t) \in Nat
    BY <1>6
  <2> QED
    BY <2>1, <2>2, <2>3
<1>9. ASSUME NEW p \in 1 .. Len(t) PROVE \E k \in K : p = off[k] + 1
  <2>1. PICK k \in 1 .. n : \E i \in 1 .. Len(parts[k]) : p = off[k] + i
    BY <1>1, <1>5, <1>6, <1>7, PlaceOf
  <2>2. PICK i \in 1 .. Len(parts[k]) : p = off[k] + i
    BY <2>1
  <2>3. k \in K /\ i = 1
    <3>1. PICK m : m = Len(parts[k])
      OBVIOUS
    <3>2. i \in 1 .. m /\ (k \in K => m = 1) /\ (k \notin K => m = 0)
      BY <1>3, <2>2, <3>1
    <3> QED
      BY <3>2
  <2> QED
    BY <2>2, <2>3
<1>10. ASSUME NEW k \in K, NEW l \in K, k < l PROVE off[k] + 1 < off[l] + 1
  <2>1. off[k + 1] <= off[l]
    BY <1>1, <1>5, <1>7, <1>8, <1>10, PlacesOrdered
  <2> QED
    BY <1>8, <2>1
<1>11. \A k \in K : k \in Nat
  BY <1>1, <1>8
<1> DEFINE at == [p \in 1 .. Len(t) |-> CHOOSE k \in K : p = off[k] + 1]
<1>12. \A p \in 1 .. Len(t) : at[p] \in K /\ p = off[at[p]] + 1
  BY <1>9
<1>13. at \in [1 .. Len(t) -> K]
  BY <1>12
<1> HIDE DEF at
<1>14. \A p \in 1 .. Len(t) : t[p] = s[at[p]]
  BY <1>8, <1>12
<1>15. ASSUME NEW p \in 1 .. Len(t), NEW q \in 1 .. Len(t), p < q PROVE at[p] < at[q]
  <2>1. PICK a, b : a = at[p] /\ b = at[q]
    OBVIOUS
  <2>2. a \in K /\ b \in K /\ p = off[a] + 1 /\ q = off[b] + 1 /\ a \in Nat /\ b \in Nat
    BY <1>11, <1>12, <2>1
  <2>3. p \in Nat /\ q \in Nat /\ ~(q < p) /\ p # q
    BY <1>6, <1>15
  <2>4. ~(b < a)
    BY <1>10, <2>2, <2>3
  <2>5. a # b
    BY <2>2, <2>3
  <2> QED
    BY <2>1, <2>2, <2>4, <2>5
<1>16. ASSUME NEW k \in K PROVE \E p \in 1 .. Len(t) : at[p] = k
  <2>1. PICK p : p = off[k] + 1
    OBVIOUS
  <2>2. p \in 1 .. Len(t)
    BY <1>8, <2>1
  <2>3. PICK l : l = at[p]
    OBVIOUS
  <2>4. l \in K /\ p = off[l] + 1
    BY <1>12, <2>2, <2>3
  <2>5. ~(k < l) /\ ~(l < k)
    BY <1>8, <1>10, <2>1, <2>4
  <2>6. k = l
    BY <1>11, <2>4, <2>5
  <2> QED
    BY <2>2, <2>3, <2>6
<1>17. Picks(s, K, t, at)
  BY <1>13, <1>14, <1>15, <1>16 DEF Picks
<1>18. KeepAt(s, K) = t
  BY DEF KeepAt, t, parts
<1> QED
  BY <1>6, <1>17, <1>18

-----------------------------------------------------------------------------
(* What --ndjson-map leaves of the leaves below an add.                    *)

\* From what is reached nothing else is reached.
LEMMA ReachFurther ==
    ASSUME NEW a \in DOMAIN log, NEW k \in Reach({a})
    PROVE  k \in DOMAIN log /\ Reach({k}) \subseteq Reach({a})
<1>1. Reach({a}) \in SUBSET DOMAIN log /\ Closed(Reach({a}))
  BY ReachClosed
<1>2. k \in DOMAIN log /\ {k} \subseteq Reach({a})
  BY <1>1
<1> QED
  BY <1>1, <1>2, ReachClosed

\* A parent reaches its child.
LEMMA ParentReaches ==
    ASSUME Forest, NEW a \in DOMAIN log, NEW k \in Reach({a}), NEW j \in DOMAIN log, k \in Parent(j)
    PROVE  j \in Reach({a})
<1>1. k \in DOMAIN log /\ log[k].made = log[j].into /\ Closed(Reach({a}))
  BY ReachClosed DEF Parent
<1>2. k < j
  BY <1>1 DEF Forest
<1> QED
  BY <1>1, <1>2 DEF Closed

\* There is one parent.
LEMMA OneParent ==
    ASSUME Forest, NEW j \in DOMAIN log, NEW p \in Parent(j), NEW q \in Parent(j)
    PROVE  p = q
<1>1. /\ p \in DOMAIN log /\ q \in DOMAIN log
      /\ log[p].made = log[j].into /\ log[q].made = log[j].into /\ log[j].into # 0
  BY AddTyped DEF Parent
<1> QED
  BY <1>1 DEF Forest

\* What is reached and not started from is reached through its parent.
LEMMA ReachParent ==
    ASSUME NEW a \in DOMAIN log, NEW j \in Reach({a}), j # a
    PROVE  j \in DOMAIN log /\ \E l \in Reach({a}) : l \in Parent(j)
<1>1. Reach({a}) \in SUBSET DOMAIN log
  BY ReachClosed
<1>2. PICK l \in Reach({a}) : log[l].made = log[j].into
  BY ReachBack
<1> QED
  BY <1>1, <1>2 DEF Parent

\* Adds do not reach each other in a circle.
LEMMA ReachOneWay ==
    ASSUME Forest, NEW a \in DOMAIN log, NEW k \in Reach({a}), a \in Reach({k})
    PROVE  k = a
<1>1. k \in DOMAIN log
  BY ReachFurther
<1>2. k # a => log[k].into > log[a].into /\ log[a].into > log[k].into
  BY <1>1, ReachDeeper
<1>3. log[k].into \in Nat /\ log[a].into \in Nat
  BY <1>1, AddTyped
<1> QED
  BY <1>2, <1>3

\* up is the table Above defines.
Climbs(up) == up = [j \in DOMAIN log |-> {j} \union UNION {up[k] : k \in Parent(j)}]

\* The adds that reach j.
Reaching(j) == {k \in DOMAIN log : j \in Reach({k})}

\* They are j and what reaches its parent.
LEMMA ReachingIs ==
    ASSUME Forest, NEW j \in DOMAIN log
    PROVE  \A k : k \in Reaching(j) <=> k = j \/ \E l \in Parent(j) : k \in Reaching(l)
<1>1. j \in Reaching(j)
  BY ReachClosed DEF Reaching
<1>2. ASSUME NEW k \in Reaching(j), k # j PROVE \E l \in Parent(j) : k \in Reaching(l)
  <2>1. k \in DOMAIN log /\ j \in Reach({k})
    BY DEF Reaching
  <2>2. PICK l \in Reach({k}) : l \in Parent(j)
    BY <1>2, <2>1, ReachParent
  <2> QED
    BY <2>1, <2>2 DEF Reaching
<1>3. ASSUME NEW l \in Parent(j), NEW k \in Reaching(l) PROVE k \in Reaching(j)
  <2>1. k \in DOMAIN log /\ l \in Reach({k})
    BY DEF Reaching
  <2>2. j \in Reach({k})
    BY <2>1, ParentReaches
  <2> QED
    BY <2>1, <2>2 DEF Reaching
<1> QED
  BY <1>1, <1>2, <1>3

\* Above gives them.
LEMMA AboveIs ==
    ASSUME Forest, NEW i \in DOMAIN log
    PROVE  Above(i) = Reaching(i)
<1>0. DOMAIN log \in SUBSET Nat /\ \A j \in DOMAIN log : \A k \in Parent(j) : k \in DOMAIN log /\ k < j
  BY AddTyped DEF Parent, Forest
<1>1. \E up : Climbs(up)
  <2> DEFINE up == [j \in DOMAIN log |-> Reaching(j)]
  <2>1. \A j \in DOMAIN log : Reaching(j) = {j} \union UNION {up[k] : k \in Parent(j)}
    <3> SUFFICES ASSUME NEW j \in DOMAIN log
                 PROVE  Reaching(j) = {j} \union UNION {up[k] : k \in Parent(j)}
      OBVIOUS
    <3>1. \A k \in Parent(j) : up[k] = Reaching(k)
      BY <1>0
    <3> HIDE DEF up
    <3>2. \A k : k \in Reaching(j) <=> k = j \/ \E l \in Parent(j) : k \in up[l]
      BY <3>1, ReachingIs
    <3> QED
      BY <3>2
  <2>2. Climbs(up)
    BY <2>1 DEF Climbs
  <2> QED
    BY <2>2
<1> DEFINE up == CHOOSE t : Climbs(t)
<1>2. Climbs(up)
  BY <1>1
<1>3. Above(i) = up[i]
  BY DEF Above, Climbs
<1> HIDE DEF up
<1>4. \A j \in DOMAIN log : \A k : k \in up[j] <=> k = j \/ \E l \in Parent(j) : k \in up[l]
  <2>1. \A j \in DOMAIN log : up[j] = {j} \union UNION {up[k] : k \in Parent(j)}
    BY <1>2, Zenon DEF Climbs
  <2> SUFFICES ASSUME NEW j \in DOMAIN log, NEW k
               PROVE  k \in up[j] <=> k = j \/ \E l \in Parent(j) : k \in up[l]
    OBVIOUS
  <2>2. up[j] = {j} \union UNION {up[l] : l \in Parent(j)}
    BY <2>1
  <2> QED
    BY <2>2
<1> DEFINE Wrong == {j \in DOMAIN log : up[j] # Reaching(j)}
<1>5. Wrong = {}
  <2> SUFFICES ASSUME Wrong # {} PROVE FALSE
    OBVIOUS
  <2>1. PICK j \in Wrong : \A x \in Wrong : j <= x
    BY <1>0, LeastNatural
  <2>2. \A l \in Parent(j) : up[l] = Reaching(l)
    <3> SUFFICES ASSUME NEW l \in Parent(j), l \in Wrong PROVE FALSE
      BY <1>0
    <3>1. j \in Nat /\ l \in Nat /\ l < j /\ j <= l
      BY <1>0, <2>1
    <3> QED
      BY <3>1
  <2>3. \A k : k \in up[j] <=> k \in Reaching(j)
    BY <1>4, <2>2, ReachingIs
  <2>4. up[j] \subseteq Reaching(j) /\ Reaching(j) \subseteq up[j]
    BY <2>3
  <2> QED
    BY <2>4
<1> QED
  BY <1>3, <1>5

\* The collapsed adds from a down to j.
Around(o, a, j) == {k \in Reach({a}) : j \in Reach({k}) /\ Collapsed(o, k)}

\* j is the name or the value of an occurrence p that has both.
Paired(j, p) ==
    /\ IsLast(j, p, "name") \/ IsLast(j, p, "value")
    /\ \E i, k \in DOMAIN log : IsLast(i, p, "name") /\ IsLast(k, p, "value")

\* j is kept of what a reaches, whatever is above a.
KeptIn(o, a, j) ==
    Around(o, a, j) = {} \/ \E p \in Parent(j) : Around(o, a, j) \ {j} = {p} /\ Paired(j, p)

\* The leaves kept of what a reaches.
KeptOf(o, a) == {j \in Reach({a}) : log[j].kind # "Tree" /\ KeptIn(o, a, j)}

\* Of a leaf that is not collapsed, itself.
LEMMA KeptOfLeaf ==
    ASSUME Forest, NEW o, NEW a \in DOMAIN log, log[a].kind # "Tree", ~Collapsed(o, a)
    PROVE  KeptOf(o, a) = {a}
<1>1. Reach({a}) = {a}
  BY ReachLeaf
<1>2. Around(o, a, a) = {}
  BY <1>1 DEF Around
<1> QED
  BY <1>1, <1>2 DEF KeptOf, KeptIn

\* Of a subtree that is not collapsed, what is kept of its adds.
LEMMA KeptOfTree ==
    ASSUME Forest, NEW o, NEW a \in DOMAIN log, log[a].kind = "Tree", ~Collapsed(o, a)
    PROVE  \A j : j \in KeptOf(o, a) <=> \E c \in Into(log[a].made) : j \in KeptOf(o, c)
<1>0. /\ Into(log[a].made) \in SUBSET DOMAIN log
      /\ \A c \in Into(log[a].made) : log[c].into = log[a].made
  BY DEF Into
<1>1. \A j : j \in Reach({a}) <=> j = a \/ \E c \in Into(log[a].made) : j \in Reach({c})
  <2>1. Reach({a}) = {a} \union Reach(Into(log[a].made))
    BY ReachTree
  <2>2. Reach(Into(log[a].made)) = UNION {Reach({c}) : c \in Into(log[a].made)}
    BY <1>0, ReachEach
  <2> QED
    BY <2>1, <2>2
<1>2. ASSUME NEW c \in Into(log[a].made), NEW j \in Reach({c})
      PROVE  Around(o, a, j) = Around(o, c, j)
  <2>1. ASSUME NEW k \in Reach({a}), j \in Reach({k}), Collapsed(o, k) PROVE k \in Reach({c})
    <3>1. PICK d \in Into(log[a].made) : k \in Reach({d})
      BY <1>1, <2>1
    <3>2. j \in Reach({d})
      BY <1>0, <2>1, <3>1, ReachFurther
    <3>3. d = c
      BY <1>0, <3>2, ReachApart
    <3> QED
      BY <3>1, <3>3
  <2>2. Reach({c}) \subseteq Reach({a})
    BY <1>1
  <2> QED
    BY <2>1, <2>2 DEF Around
<1>3. ASSUME NEW c \in Into(log[a].made), NEW j \in Reach({c})
      PROVE  KeptIn(o, a, j) <=> KeptIn(o, c, j)
  BY <1>2 DEF KeptIn
<1> QED
  BY <1>1, <1>3 DEF KeptOf

\* Of a collapsed add, the name and the value recorded on it.
LEMMA KeptOfCollapsed ==
    ASSUME Forest, NEW o, NEW a \in DOMAIN log, Collapsed(o, a)
    PROVE  \A j : j \in KeptOf(o, a) <=> j \in Into(log[a].made) /\ Paired(j, a)
<1>0. a \in Reach({a}) /\ Reach({a}) \in SUBSET DOMAIN log
  BY ReachClosed
<1>1. ASSUME NEW j \in KeptOf(o, a) PROVE j \in Into(log[a].made) /\ Paired(j, a)
  <2>1. j \in Reach({a}) /\ j \in DOMAIN log /\ log[j].kind # "Tree" /\ KeptIn(o, a, j)
    BY <1>0 DEF KeptOf
  <2>2. a \in Around(o, a, j)
    BY <1>0, <2>1 DEF Around
  <2>3. PICK p \in Parent(j) : Around(o, a, j) \ {j} = {p} /\ Paired(j, p)
    BY <2>1, <2>2 DEF KeptIn
  <2>4. a # j
    <3> SUFFICES ASSUME a = j PROVE FALSE
      OBVIOUS
    <3>1. Reach({a}) = {a}
      BY <2>1, ReachLeaf
    <3>2. Around(o, a, j) \ {j} = {}
      BY <3>1 DEF Around
    <3> QED
      BY <2>3, <3>2
  <2>5. a = p
    BY <2>2, <2>3, <2>4
  <2> QED
    BY <2>1, <2>3, <2>5 DEF Parent, Into
<1>2. ASSUME NEW j \in Into(log[a].made), Paired(j, a) PROVE j \in KeptOf(o, a)
  <2>1. j \in DOMAIN log /\ a \in Parent(j)
    BY DEF Into, Parent
  <2>2. log[j].kind # "Tree"
    BY <1>2 DEF Paired, IsLast
  <2>3. j \in Reach({a})
    BY <1>0, <2>1, ParentReaches
  <2>4. a # j
    BY <1>0, <2>1 DEF Parent, Forest
  <2>5. ASSUME NEW k \in Around(o, a, j), k # j PROVE k = a
    <3>1. k \in Reach({a}) /\ j \in Reach({k}) /\ k \in DOMAIN log
      BY <1>0 DEF Around
    <3>2. PICK l \in Reach({k}) : l \in Parent(j)
      BY <2>5, <3>1, ReachParent
    <3>3. l = a
      BY <2>1, <3>2, OneParent
    <3> QED
      BY <3>1, <3>2, <3>3, ReachOneWay
  <2>6. a \in Around(o, a, j)
    BY <1>0, <2>3 DEF Around
  <2>7. Around(o, a, j) \ {j} = {a}
    BY <2>4, <2>5, <2>6
  <2> QED
    BY <1>2, <2>1, <2>2, <2>3, <2>7 DEF KeptOf, KeptIn
<1> QED
  BY <1>1, <1>2

\* What reaches a leaf below a top add is below that add.
LEMMA AllBelowTop ==
    ASSUME Forest, NEW a \in DOMAIN log, Parent(a) = {}, NEW j \in Reach({a}), NEW k \in Reaching(j)
    PROVE  k \in Reach({a})
<1> DEFINE C == {i \in Reach({a}) : Reaching(i) \subseteq Reach({a})}
<1>0. a \in Reach({a}) /\ Reach({a}) \in SUBSET DOMAIN log /\ Closed(Reach({a}))
  BY ReachClosed
<1>1. a \in C
  BY <1>0, ReachingIs
<1>2. Closed(C)
  <2> SUFFICES ASSUME NEW l \in C, NEW i \in DOMAIN log, l < i, log[l].made = log[i].into
               PROVE  i \in C
    BY DEF Closed
  <2>1. i \in Reach({a}) /\ l \in Parent(i)
    BY <1>0 DEF Closed, Parent
  <2>2. ASSUME NEW x \in Reaching(i) PROVE x \in Reach({a})
    <3>1. x = i \/ \E y \in Parent(i) : x \in Reaching(y)
      BY ReachingIs
    <3>2. ASSUME NEW y \in Parent(i), x \in Reaching(y) PROVE x \in Reach({a})
      BY <2>1, <3>2, OneParent
    <3> QED
      BY <2>1, <3>1, <3>2
  <2> QED
    BY <2>1, <2>2
<1>3. Reach({a}) \subseteq C
  BY <1>0, <1>1, <1>2, ReachClosed
<1> QED
  BY <1>3

\* Kept, seen from the top add.
LEMMA KeptFromTop ==
    ASSUME Forest, NEW o, NEW a \in DOMAIN log, Parent(a) = {}, NEW j \in Reach({a})
    PROVE  Kept(o, j) <=> KeptIn(o, a, j)
<1>1. j \in DOMAIN log
  BY ReachFurther
<1>2. {k \in Above(j) : Collapsed(o, k)} = Around(o, a, j)
  <2>1. \A k : k \in Above(j) <=> k \in DOMAIN log /\ j \in Reach({k})
    BY <1>1, AboveIs DEF Reaching
  <2>2. \A k \in Reach({a}) : k \in DOMAIN log
    BY ReachFurther
  <2>3. \A k \in Above(j) : k \in Reach({a})
    BY <1>1, AboveIs, AllBelowTop
  <2> QED
    BY <2>1, <2>2, <2>3 DEF Around
<1> QED
  BY <1>2 DEF Kept, KeptIn, Paired

-----------------------------------------------------------------------------
(* Groups of entries, and the table of objects.                            *)

Group == [name : Names, values : Seq(Entry)]

\* The places of the entries of one name.
Named(es, name) == {i \in DOMAIN es : es[i].name = name}

\* grouped has each name of es once, with its entries in order.
Grouped(es, grouped) ==
    /\ grouped \in Seq(Group)
    /\ \A g \in DOMAIN grouped :
          /\ Named(es, grouped[g].name) # {}
          /\ \E at : Picks(es, Named(es, grouped[g].name), grouped[g].values, at)
    /\ \A g, h \in DOMAIN grouped : grouped[g].name = grouped[h].name => g = h
    /\ \A i \in DOMAIN es : \E g \in DOMAIN grouped : grouped[g].name = es[i].name

\* That is what grouped_entries makes.
LEMMA GroupsAre ==
    ASSUME NEW es \in Seq(Entry)
    PROVE  Grouped(es, grouped_entries(es))
<1> DEFINE V(name) == KeepAt(es, Named(es, name))
           s == [i \in DOMAIN es |-> [name |-> es[i].name, values |-> V(es[i].name)]]
           K == {i \in DOMAIN es : \A j \in 1 .. i - 1 : es[j].name # es[i].name}
           grouped == KeepAt(s, K)
<1>0. grouped_entries(es) = grouped
  BY DEF grouped_entries, Named
<1>1. DOMAIN es = 1 .. Len(es) /\ Len(es) \in Nat /\ \A i \in DOMAIN es : es[i].name \in Names
  <2>1. \A i \in DOMAIN es : es[i] \in Entry
    OBVIOUS
  <2> QED
    BY <2>1 DEF Entry
<1>2. \A name : V(name) \in Seq(Entry) /\ \E at : Picks(es, Named(es, name), V(name), at)
  <2> SUFFICES ASSUME NEW name
               PROVE  V(name) \in Seq(Entry) /\ \E at : Picks(es, Named(es, name), V(name), at)
    OBVIOUS
  <2>1. Named(es, name) \in SUBSET DOMAIN es
    BY DEF Named
  <2> QED
    BY <2>1, KeptPlaces
<1> HIDE DEF V
<1>3. s \in Seq(Group) /\ DOMAIN s = DOMAIN es
  <2>1. s \in [1 .. Len(es) -> Group]
    BY <1>1, <1>2 DEF Group
  <2>2. s \in Seq(Group)
    BY <1>1, <2>1, FunctionIsSeq
  <2> QED
    BY <2>2
<1>4. \A i \in DOMAIN es : s[i].name = es[i].name /\ s[i].values = V(es[i].name)
  OBVIOUS
<1> HIDE DEF s
<1>5. K \in SUBSET DOMAIN s
  BY <1>3
<1>6. /\ \A i \in K : i \in DOMAIN es
      /\ \A i, j \in K : es[i].name = es[j].name => i = j
      /\ \A i \in DOMAIN es : \E j \in K : es[j].name = es[i].name
  <2>1. \A i, j \in K : ~(i < j /\ es[i].name = es[j].name)
    BY <1>1
  <2>2. \A i, j \in K : es[i].name = es[j].name => i = j
    BY <1>1, <2>1
  <2>3. ASSUME NEW i \in DOMAIN es PROVE \E j \in K : es[j].name = es[i].name
    <3>1. PICK j \in Named(es, es[i].name) : \A x \in Named(es, es[i].name) : j <= x
      <4>1. Named(es, es[i].name) \in SUBSET Nat /\ Named(es, es[i].name) # {}
        BY <1>1 DEF Named
      <4> QED
        BY <4>1, LeastNatural
    <3>2. j \in DOMAIN es /\ es[j].name = es[i].name
      BY DEF Named
    <3>3. ASSUME NEW x \in 1 .. j - 1, es[x].name = es[j].name PROVE FALSE
      <4>1. x \in DOMAIN es /\ x < j
        BY <1>1, <3>2
      <4>2. x \in Named(es, es[i].name)
        BY <3>2, <3>3, <4>1 DEF Named
      <4> QED
        BY <1>1, <3>1, <3>2, <4>1, <4>2
    <3> QED
      BY <3>2, <3>3
  <2> QED
    BY <2>2, <2>3
<1> HIDE DEF K
<1>7. grouped \in Seq(Group) /\ \E at : Picks(s, K, grouped, at)
  BY <1>3, <1>5, KeptPlaces
<1> HIDE DEF grouped
<1>8. PICK at : Picks(s, K, grouped, at)
  BY <1>7
<1>9. DOMAIN grouped = 1 .. Len(grouped) /\ Len(grouped) \in Nat
  BY <1>7
<1>10. \A g \in DOMAIN grouped :
          /\ at[g] \in K /\ at[g] \in DOMAIN es
          /\ grouped[g].name = es[at[g]].name /\ grouped[g].values = V(grouped[g].name)
  BY <1>4, <1>6, <1>8, <1>9 DEF Picks
<1>11. \A g \in DOMAIN grouped :
          /\ Named(es, grouped[g].name) # {}
          /\ \E b : Picks(es, Named(es, grouped[g].name), grouped[g].values, b)
  BY <1>2, <1>10 DEF Named
<1>12. ASSUME NEW g \in DOMAIN grouped, NEW h \in DOMAIN grouped, grouped[g].name = grouped[h].name
       PROVE  g = h
  <2>1. at[g] = at[h] /\ at[g] \in Nat
    BY <1>1, <1>6, <1>10, <1>12
  <2>2. ~(g < h) /\ ~(h < g)
    BY <1>8, <1>9, <2>1 DEF Picks
  <2> QED
    BY <1>9, <2>2
<1>13. ASSUME NEW i \in DOMAIN es PROVE \E g \in DOMAIN grouped : grouped[g].name = es[i].name
  <2>1. PICK j \in K : es[j].name = es[i].name
    BY <1>6
  <2>2. PICK g \in 1 .. Len(grouped) : at[g] = j
    BY <1>8 DEF Picks
  <2> QED
    BY <1>9, <1>10, <2>1, <2>2
<1> QED
  BY <1>0, <1>7, <1>11, <1>12, <1>13 DEF Grouped

\* find gives the place of the group of a name, or 0 when there is none.
LEMMA GroupFound ==
    ASSUME NEW grouped \in Seq(Group), NEW name
    PROVE  \/ FindGroup(grouped, name) = 0 /\ \A g \in DOMAIN grouped : grouped[g].name # name
           \/ /\ FindGroup(grouped, name) \in DOMAIN grouped /\ FindGroup(grouped, name) # 0
              /\ grouped[FindGroup(grouped, name)].name = name
<1> DEFINE I == {i \in 1 .. Len(grouped) : grouped[i].name = name}
<1>1. FindGroup(grouped, name) = IF I # {} THEN Min(I) ELSE 0
  BY DEF FindGroup, SelectInSeq
<1>2. DOMAIN grouped = 1 .. Len(grouped) /\ I \in SUBSET Nat /\ 0 \notin I
  OBVIOUS
<1>3. CASE I = {}
  BY <1>1, <1>2, <1>3
<1>4. CASE I # {}
  <2>1. \E x \in I : \A y \in I : x <= y
    <3> HIDE DEF I
    <3> QED
      BY <1>2, <1>4, LeastNatural
  <2>2. Min(I) \in I
    <3> HIDE DEF I
    <3> QED
      BY <2>1 DEF Min
  <2> QED
    BY <1>1, <1>2, <1>4, <2>2
<1> QED
  BY <1>3, <1>4

\* A value is written alike from tables that agree on the subtree.
LEMMA FieldSame ==
    ASSUME NEW g, NEW h, NEW e, NEW p, e.kind = "Tree" => g[e.child] = h[e.child]
    PROVE  write_field_value(g, e, p) = write_field_value(h, e, p)
BY DEF write_field_value

\* So is a group.
LEMMA NamedSame ==
    ASSUME NEW o, NEW g, NEW h, NEW values \in Seq(Entry), NEW short, NEW p,
           \A i \in DOMAIN values : values[i].kind = "Tree" => g[values[i].child] = h[values[i].child]
    PROVE  write_named_value(o, g, short, values, p) = write_named_value(o, h, short, values, p)
<1>1. \A i \in DOMAIN values : write_field_value(g, values[i], p) = write_field_value(h, values[i], p)
  BY FieldSame
<1>2. [i \in DOMAIN values |-> write_field_value(g, values[i], p)]
         = [i \in DOMAIN values |-> write_field_value(h, values[i], p)]
  BY <1>1
<1>3. Len(values) = 1 => 1 \in DOMAIN values
  OBVIOUS
<1>4. write_value_or_array(g, values, p) = write_value_or_array(h, values, p)
  BY <1>1, <1>2, <1>3 DEF write_value_or_array
<1> QED
  BY <1>4 DEF write_named_value

\* An accumulator's entries.
LEMMA EntriesTyped ==
    ASSUME Sound, NEW x \in DOMAIN heap
    PROVE  /\ heap[x].entries \in Seq(Entry)
           /\ DOMAIN heap[x].entries = 1 .. Len(heap[x].entries) /\ Len(heap[x].entries) \in Nat
<1>1. heap[x] \in Cell
  BY DEF Sound, HeapFollowsLog
<1>2. heap[x].entries \in Seq(Entry)
  BY <1>1 DEF Cell
<1> QED
  BY <1>2

\* And an object.
LEMMA ObjectSame ==
    ASSUME Sound, NEW o, NEW g, NEW h, NEW x \in DOMAIN heap, NEW p,
           \A k \in DOMAIN heap[x].entries : heap[x].entries[k].kind = "Tree" =>
               g[heap[x].entries[k].child] = h[heap[x].entries[k].child]
    PROVE  Object(o, g, x, p) = Object(o, h, x, p)
<1> DEFINE es == heap[x].entries
           grouped == grouped_entries(es)
           Part(t, i) == Key(Short(p, grouped[i].name))
                            \o write_named_value(o, t, Short(p, grouped[i].name), grouped[i].values,
                                                 grouped[i].name)
<1>1. es \in Seq(Entry) /\ Grouped(es, grouped)
  BY EntriesTyped, GroupsAre
<1> HIDE DEF es, grouped
<1>2. ASSUME NEW i \in DOMAIN grouped PROVE Part(g, i) = Part(h, i)
  <2> DEFINE values == grouped[i].values
  <2>1. grouped[i] \in Group
    BY <1>1 DEF Grouped
  <2>2. values \in Seq(Entry)
    BY <2>1 DEF Group
  <2>3. PICK at : Picks(es, Named(es, grouped[i].name), values, at)
    BY <1>1 DEF Grouped
  <2> HIDE DEF values
  <2>4. ASSUME NEW j \in DOMAIN values, values[j].kind = "Tree"
        PROVE  g[values[j].child] = h[values[j].child]
    <3>1. j \in 1 .. Len(values)
      BY <2>2
    <3>2. at[j] \in DOMAIN es /\ values[j] = es[at[j]]
      BY <2>3, <3>1 DEF Picks, Named
    <3> QED
      BY <2>4, <3>2 DEF es
  <2>5. write_named_value(o, g, Short(p, grouped[i].name), values, grouped[i].name)
           = write_named_value(o, h, Short(p, grouped[i].name), values, grouped[i].name)
    BY <2>2, <2>4, NamedSame
  <2> QED
    BY <2>5 DEF values
<1>3. [i \in DOMAIN grouped |-> Part(g, i)] = [i \in DOMAIN grouped |-> Part(h, i)]
  BY <1>2
<1>4. \A t : Object(o, t, x, p) =
         Punct("{") \o FlattenSeq([i \in DOMAIN grouped |-> Part(t, i)]) \o Punct("}")
  BY DEF Object, grouped, es
<1> HIDE DEF Part
<1> QED
  BY <1>3, <1>4

\* obj is the table write_frame_fields_object defines.
Writes(o, obj) ==
    obj = [x \in DOMAIN heap |-> [prefix \in Names |-> Object(o, obj, x, prefix)]]

\* It exists.
LEMMA WritesExist ==
    ASSUME Sound, NEW o
    PROVE  \E obj : Writes(o, obj)
<1> DEFINE Row(g, x) == [prefix \in Names |-> Object(o, g, x, prefix)]
           Table(n, g) == /\ g = [x \in DOMAIN heap |-> g[x]]
                          /\ \A x \in DOMAIN heap : Rank(x) < n => g[x] = Row(g, x)
           Tabled == {n \in Nat : \E g : Table(n, g)}
<1>1. 0 \in Tabled
  <2> DEFINE g == [x \in DOMAIN heap |-> 0]
  <2>1. Table(0, g)
    <3> HIDE DEF Row
    <3> QED
      BY RankIs
  <2> QED
    BY <2>1
<1>2. ASSUME NEW n \in Nat, n \in Tabled PROVE n + 1 \in Tabled
  <2>1. PICK g : Table(n, g)
    BY <1>2
  <2> DEFINE h == [x \in DOMAIN heap |-> Row(g, x)]
  <2>2. \A x \in DOMAIN heap : Rank(x) < n => h[x] = g[x]
    BY <2>1
  <2>3. \A x \in DOMAIN heap : h[x] = Row(g, x)
    OBVIOUS
  <2>4. h = [x \in DOMAIN heap |-> h[x]]
    OBVIOUS
  <2> HIDE DEF h
  <2>5. ASSUME NEW x \in DOMAIN heap, Rank(x) < n + 1 PROVE Row(h, x) = Row(g, x)
    <3>1. ASSUME NEW k \in DOMAIN heap[x].entries, heap[x].entries[k].kind = "Tree"
          PROVE  h[heap[x].entries[k].child] = g[heap[x].entries[k].child]
      <4>1. /\ heap[x].entries[k].child \in DOMAIN heap
            /\ Rank(heap[x].entries[k].child) < Rank(x)
        BY <3>1, ChildBelow
      <4>2. Rank(heap[x].entries[k].child) < n
        BY <2>5, <4>1, RankIs
      <4> QED
        BY <2>2, <4>1, <4>2
    <3>2. \A prefix \in Names : Object(o, h, x, prefix) = Object(o, g, x, prefix)
      BY <3>1, ObjectSame
    <3> QED
      BY <3>2
  <2>6. Table(n + 1, h)
    <3> HIDE DEF Row
    <3> QED
      BY <2>3, <2>4, <2>5
  <2> QED
    BY <2>6
<1>3. Len(heap) + 1 \in Tabled
  <2>1. Len(heap) + 1 \in Nat
    BY DEF Sound, HeapFollowsLog
  <2> HIDE DEF Tabled
  <2> QED
    BY <1>1, <1>2, <2>1, Induct
<1>4. PICK g : Table(Len(heap) + 1, g)
  BY <1>3
<1>5. \A x \in DOMAIN heap : g[x] = Row(g, x)
  <2> HIDE DEF Row
  <2> QED
    BY <1>4, RankIs
<1>6. Writes(o, g)
  BY <1>4, <1>5 DEF Writes
<1> QED
  BY <1>6

\* An object is one level over those below it.
LEMMA ObjectsAre ==
    ASSUME Sound, NEW o
    PROVE  \E obj : /\ write_frame_fields_object(o) = obj
                    /\ \A x \in DOMAIN heap : \A p \in Names : obj[x][p] = Object(o, obj, x, p)
<1> DEFINE obj == CHOOSE t : Writes(o, t)
<1>1. Writes(o, obj)
  BY WritesExist
<1>2. write_frame_fields_object(o) = obj
  BY DEF write_frame_fields_object, Writes
<1> HIDE DEF obj
<1>3. \A x \in DOMAIN heap : obj[x] = [p \in Names |-> Object(o, obj, x, p)]
  BY <1>1 DEF Writes
<1>4. ASSUME NEW x \in DOMAIN heap, NEW p \in Names PROVE obj[x][p] = Object(o, obj, x, p)
  <2>1. PICK row : row = obj[x]
    OBVIOUS
  <2>2. row = [q \in Names |-> Object(o, obj, x, q)]
    BY <1>3, <2>1
  <2>3. row[p] = Object(o, obj, x, p)
    BY <2>2, Zenon
  <2> QED
    BY <2>1, <2>3
<1> QED
  BY <1>2, <1>4

-----------------------------------------------------------------------------
(* The tokens of a line.                                                   *)

ShortNames == UNION {{Short(p, n) : n \in Names} : p \in Names}
GroupNames(o) == {<<o.fields[i][1]>> : i \in DOMAIN o.fields}
EnvelopeNames == {<<g>> : g \in Envelope}
KeysOf(o) == {<< >>} \union ShortNames \union GroupNames(o) \union EnvelopeNames

Tokens(o) == [t : {"{", "}", "[", "]", "key", "value"}, key : KeysOf(o), at : Nat]

\* The key of a token that is no key, and the keys of groups and fields.
LEMMA KeysAre ==
    ASSUME NEW o
    PROVE  /\ << >> \in KeysOf(o)
           /\ \A p, n \in Names : Short(p, n) \in KeysOf(o)
           /\ \A i \in DOMAIN o.fields : <<o.fields[i][1]>> \in KeysOf(o)
           /\ \A g \in Envelope : <<g>> \in KeysOf(o)
<1>1. << >> \in KeysOf(o)
  BY DEF KeysOf
<1>2. \A p, n \in Names : Short(p, n) \in KeysOf(o)
  <2>1. \A p, n \in Names : Short(p, n) \in ShortNames
    BY DEF ShortNames
  <2> QED
    BY <2>1 DEF KeysOf
<1>3. \A i \in DOMAIN o.fields : <<o.fields[i][1]>> \in KeysOf(o)
  <2>1. \A i \in DOMAIN o.fields : <<o.fields[i][1]>> \in GroupNames(o)
    BY Zenon DEF GroupNames
  <2> QED
    BY <2>1, Zenon DEF KeysOf
<1>4. \A g \in Envelope : <<g>> \in KeysOf(o)
  <2>1. \A g \in Envelope : <<g>> \in EnvelopeNames
    BY Zenon DEF EnvelopeNames
  <2> QED
    BY <2>1, Zenon DEF KeysOf
<1> QED
  BY <1>1, <1>2, <1>3, <1>4

\* Brackets and keys are no values.
LEMMA PunctShows ==
    ASSUME NEW o, NEW t \in {"{", "}", "[", "]"}
    PROVE  Shows(Tokens(o), Punct(t), {})
<1>1. PICK x : x = Token(t, << >>, 0)
  OBVIOUS
<1>2. << >> \in KeysOf(o)
  BY KeysAre
<1>3. x \in Tokens(o) /\ x.t # "value"
  BY <1>1, <1>2 DEF Tokens, Token
<1>4. Shows(Tokens(o), <<x>>, {})
  BY <1>3, ShowsNothing
<1> QED
  BY <1>1, <1>4 DEF Punct

LEMMA KeyShows ==
    ASSUME NEW o, NEW name \in KeysOf(o)
    PROVE  Shows(Tokens(o), Key(name), {})
<1>1. PICK x : x = Token("key", name, 0)
  OBVIOUS
<1>2. x \in Tokens(o) /\ x.t # "value"
  BY <1>1 DEF Tokens, Token
<1>3. Shows(Tokens(o), <<x>>, {})
  BY <1>2, ShowsNothing
<1> QED
  BY <1>1, <1>3 DEF Key

\* The token of a value.
LEMMA ValueToken ==
    ASSUME NEW o, NEW i \in Nat
    PROVE  /\ Token("value", << >>, i) \in Tokens(o)
           /\ Token("value", << >>, i).t = "value" /\ Token("value", << >>, i).at = i
<1>1. << >> \in KeysOf(o)
  BY KeysAre
<1> QED
  BY <1>1 DEF Tokens, Token

\* Two values.
LEMMA ShowsTwo ==
    ASSUME NEW o, NEW i \in Nat, NEW j \in Nat, Separate({i}, {j})
    PROVE  Shows(Tokens(o), <<Token("value", << >>, i), Token("value", << >>, j)>>, {i, j})
<1>1. PICK x, y : x = Token("value", << >>, i) /\ y = Token("value", << >>, j)
  OBVIOUS
<1>2. x \in Tokens(o) /\ x.t = "value" /\ x.at = i /\ y \in Tokens(o) /\ y.t = "value" /\ y.at = j
  BY <1>1, ValueToken
<1>3. PICK s : s = <<x, y>>
  OBVIOUS
<1>4. s \in Seq(Tokens(o)) /\ Len(s) = 2 /\ s[1] = x /\ s[2] = y
  BY <1>2, <1>3
<1>5. /\ \A p : p \in 1 .. Len(s) <=> p = 1 \/ p = 2
      /\ \A p, q \in 1 .. Len(s) : p < q => p = 1 /\ q = 2
  BY <1>4
<1>6. i # j /\ (Siblings(i, j) => i < j)
  BY DEF Separate
<1>7. \A k : k \in {i, j} <=> \E p \in 1 .. Len(s) : s[p].t = "value" /\ s[p].at = k
  BY <1>2, <1>4, <1>5
<1>8. \A p, q \in 1 .. Len(s) : p < q => s[p].at = i /\ s[q].at = j
  BY <1>2, <1>4, <1>5
<1>9. Shows(Tokens(o), s, {i, j})
  <2>1. \A p, q \in 1 .. Len(s) : p < q /\ s[p].t = "value" /\ s[q].t = "value" =>
           s[p].at # s[q].at /\ (Siblings(s[p].at, s[q].at) => s[p].at < s[q].at)
    BY <1>6, <1>8
  <2> QED
    BY <1>4, <1>7, <2>1, Zenon DEF Shows
<1> QED
  BY <1>1, <1>3, <1>9

-----------------------------------------------------------------------------
(* Adds on one accumulator.                                                *)

\* The short name of an add below another.
LEMMA ShortBelow ==
    ASSUME Forest, NEW j \in DOMAIN log, NEW p \in Parent(j)
    PROVE  /\ ShortOf(j) = Short(log[p].name, log[j].name)
           /\ \A o : Collapsed(o, j) <=> Short(log[p].name, log[j].name) \in o.map_fields
<1>1. Parent(j) # {}
  OBVIOUS
<1>2. (CHOOSE k \in Parent(j) : TRUE) = p
  BY <1>1, OneParent
<1>3. ShortOf(j) = Short(log[p].name, log[j].name)
  BY <1>1, <1>2 DEF ShortOf
<1> QED
  BY <1>1, <1>3 DEF Collapsed

\* What is kept below two of them is apart.
LEMMA KeptApart ==
    ASSUME Forest, NEW o, NEW a \in DOMAIN log, NEW b \in DOMAIN log, a # b,
           log[a].into = log[b].into, log[a].name = log[b].name => a < b
    PROVE  Separate(KeptOf(o, a), KeptOf(o, b))
<1> SUFFICES ASSUME NEW i \in KeptOf(o, a), NEW j \in KeptOf(o, b)
             PROVE  i # j /\ (Siblings(i, j) => i < j)
  BY DEF Separate
<1>1. i \in Reach({a}) /\ j \in Reach({b})
  BY DEF KeptOf
<1>2. i # j
  BY <1>1, ReachApart
<1>3. Siblings(i, j) => i = a /\ j = b /\ log[a].name = log[b].name
  BY <1>1, ReachSiblings DEF Siblings
<1> QED
  BY <1>2, <1>3

LEMMA EntriesApart ==
    ASSUME Sound, NEW o, NEW x \in DOMAIN heap,
           NEW k \in DOMAIN heap[x].entries, NEW l \in DOMAIN heap[x].entries, k # l,
           heap[x].entries[k].name = heap[x].entries[l].name => k < l
    PROVE  Separate(KeptOf(o, heap[x].entries[k].at), KeptOf(o, heap[x].entries[l].at))
<1> DEFINE es == heap[x].entries
<1>1. PICK a, b : a = es[k].at /\ b = es[l].at
  OBVIOUS
<1>2. /\ a \in DOMAIN log /\ a \in Nat /\ es[k].name = log[a].name
      /\ b \in DOMAIN log /\ b \in Nat /\ es[l].name = log[b].name
  BY <1>1, EntryIs
<1>3. InOrder(x) /\ Forest
  BY DEF Sound, HeapFollowsLog
<1>4. k \in Nat /\ l \in Nat
  BY EntriesTyped
<1>5. (k < l => a < b /\ log[a].into = log[b].into) /\ (l < k => b < a /\ log[b].into = log[a].into)
  BY <1>1, <1>3 DEF InOrder
<1>6. a # b /\ log[a].into = log[b].into /\ (log[a].name = log[b].name => a < b)
  BY <1>2, <1>4, <1>5
<1>7. Separate(KeptOf(o, a), KeptOf(o, b))
  BY <1>2, <1>3, <1>6, KeptApart
<1> QED
  BY <1>1, <1>7

-----------------------------------------------------------------------------
(* The name and the value of a collapsed occurrence.                       *)

\* A set of places that is not empty has a last one.
LEMMA LastPlace ==
    ASSUME NEW n \in Nat, NEW I \in SUBSET (1 .. n), I # {}
    PROVE  Max(I) \in I /\ \A i \in I : i <= Max(I)
<1> DEFINE J == {n - i : i \in I}
<1>0. \A i \in I : n - i \in Nat /\ i \in Nat
  <2>1. \A i \in 1 .. n : n - i \in Nat /\ i \in Nat
    OBVIOUS
  <2> QED
    BY <2>1
<1>1. J \in SUBSET Nat /\ J # {}
  BY <1>0
<1>2. PICK j \in J : \A k \in J : j <= k
  <2> HIDE DEF J
  <2> QED
    BY <1>1, LeastNatural
<1>3. PICK m \in I : j = n - m
  BY <1>2
<1>4. ASSUME NEW i \in I PROVE m >= i
  <2>1. n - i \in J
    OBVIOUS
  <2>2. n - m <= n - i /\ n \in Nat /\ m \in Nat /\ i \in Nat
    BY <1>0, <1>2, <1>3, <2>1
  <2> QED
    BY <2>2
<1>5. \E y \in I : \A i \in I : y >= i
  BY <1>4
<1>6. Max(I) \in I /\ \A i \in I : Max(I) >= i
  BY <1>5 DEF Max
<1> QED
  BY <1>6

\* What LastStr finds on the tree an add made is the last string add there.
LEMMA LastIs ==
    ASSUME Sound, NEW a \in DOMAIN log, log[a].kind = "Tree", NEW leaf
    PROVE  \/ /\ LastStr(log[a].made, log[a].name, leaf) = 0
              /\ \A j : ~IsLast(j, a, leaf)
           \/ /\ LastStr(log[a].made, log[a].name, leaf) # 0
              /\ IsLast(heap[log[a].made].entries[LastStr(log[a].made, log[a].name, leaf)].at, a, leaf)
<1> DEFINE es == heap[log[a].made].entries
           I == {i \in 1 .. Len(es) : es[i].kind = "Str" /\ Short(log[a].name, es[i].name) = <<leaf>>}
           L == LastStr(log[a].made, log[a].name, leaf)
           same == {j \in DOMAIN log : /\ log[j].into = log[a].made
                                       /\ log[j].kind = "Str"
                                       /\ ShortOf(j) = <<leaf>>}
<1>1. log[a].made # 0 /\ log[a].made \in DOMAIN heap /\ heap[log[a].made].call # 0 /\ Forest
  BY DEF Sound, Forest, HeapFollowsLog
<1>2. PICK x : x = log[a].made
  OBVIOUS
<1>3. /\ x \in DOMAIN heap /\ es = heap[x].entries
      /\ DOMAIN es = 1 .. Len(es) /\ Len(es) \in Nat
      /\ Ats(x) = Into(x) /\ InOrder(x)
  BY <1>1, <1>2, EntriesTyped DEF Sound, HeapFollowsLog
<1>4. L = IF I # {} THEN Max(I) ELSE 0
  BY DEF LastStr, SelectLastInSeq
<1>5. \A i \in DOMAIN es : /\ es[i].at \in DOMAIN log /\ es[i].at \in Nat
                           /\ es[i].name = log[es[i].at].name /\ es[i].kind = log[es[i].at].kind
                           /\ log[es[i].at].into = x
  BY <1>1, <1>2, <1>3, EntryIs
<1>6. \A j \in DOMAIN log : log[j].into = x => ShortOf(j) = Short(log[a].name, log[j].name)
  <2> SUFFICES ASSUME NEW j \in DOMAIN log, log[j].into = x
               PROVE  ShortOf(j) = Short(log[a].name, log[j].name)
    OBVIOUS
  <2>1. a \in Parent(j)
    BY <1>2 DEF Parent
  <2> QED
    BY <1>1, <2>1, ShortBelow
<1>7. \A i \in I : es[i].at \in same
  BY <1>2, <1>3, <1>5, <1>6
<1>8. \A j \in same : \E i \in I : es[i].at = j
  <2> SUFFICES ASSUME NEW j \in same PROVE \E i \in I : es[i].at = j
    OBVIOUS
  <2>1. j \in Into(x)
    BY <1>2 DEF Into
  <2>2. PICK i \in DOMAIN es : es[i].at = j
    BY <1>3, <2>1 DEF Ats
  <2>3. i \in I
    BY <1>2, <1>3, <1>5, <1>6, <2>2
  <2> QED
    BY <2>2, <2>3
<1>9. \A j : IsLast(j, a, leaf) <=> j \in same /\ \A k \in same : k <= j
  BY DEF IsLast
<1>10. I \in SUBSET (1 .. Len(es)) /\ 0 \notin I
  OBVIOUS
<1>11. \A i, k \in 1 .. Len(es) : i < k => es[i].at < es[k].at
  BY <1>3 DEF InOrder
<1> HIDE DEF es, I, L, same
<1>12. CASE I = {}
  BY <1>4, <1>8, <1>9, <1>12 DEF L
<1>13. CASE I # {}
  <2>1. L \in I /\ \A i \in I : i <= L
    BY <1>3, <1>4, <1>10, <1>13, LastPlace
  <2>2. L # 0 /\ es[L].at \in same
    BY <1>7, <1>10, <2>1
  <2>3. ASSUME NEW k \in same PROVE k <= es[L].at
    <3>1. PICK i \in I : es[i].at = k
      BY <1>8
    <3>2. i \in 1 .. Len(es) /\ L \in 1 .. Len(es) /\ i <= L
      BY <1>10, <2>1
    <3>3. i = L \/ i < L
      BY <1>3, <3>2
    <3>4. es[i].at \in Nat /\ es[L].at \in Nat
      BY <1>3, <1>5, <3>2
    <3> QED
      BY <1>11, <3>1, <3>2, <3>3, <3>4
  <2>4. IsLast(es[L].at, a, leaf)
    BY <1>9, <2>2, <2>3
  <2> QED
    BY <2>2, <2>4 DEF L, es
<1> QED
  BY <1>12, <1>13

\* There is one last add.
LEMMA OneLast ==
    ASSUME Forest, NEW a, NEW leaf, NEW i, NEW j, IsLast(i, a, leaf), IsLast(j, a, leaf)
    PROVE  i = j
<1>1. i \in DOMAIN log /\ j \in DOMAIN log /\ i <= j /\ j <= i
  BY DEF IsLast
<1>2. i \in Nat /\ j \in Nat
  BY <1>1, AddTyped
<1> QED
  BY <1>1, <1>2

\* What write_map writes for the occurrence with accumulator x.
PairAt(x, prefix) ==
    LET name == LastStr(x, prefix, "name")
        value == LastStr(x, prefix, "value")
    IN  IF name = 0 \/ value = 0 THEN << >>
        ELSE <<Token("value", << >>, heap[x].entries[name].at),
               Token("value", << >>, heap[x].entries[value].at)>>

\* It shows what is kept of a collapsed occurrence.
LEMMA PairShows ==
    ASSUME Sound, NEW o, NEW a \in DOMAIN log, log[a].kind = "Tree", Collapsed(o, a)
    PROVE  Shows(Tokens(o), PairAt(log[a].made, log[a].name), KeptOf(o, a))
<1>0. Forest
  BY DEF Sound
<1>1. \A j : j \in KeptOf(o, a) <=> j \in Into(log[a].made) /\ Paired(j, a)
  BY <1>0, KeptOfCollapsed
<1>2. PICK l, r : /\ l = LastStr(log[a].made, log[a].name, "name")
                  /\ r = LastStr(log[a].made, log[a].name, "value")
  OBVIOUS
<1>3. PICK i, j : i = heap[log[a].made].entries[l].at /\ j = heap[log[a].made].entries[r].at
  OBVIOUS
<1>4. \/ l = 0 /\ \A k : ~IsLast(k, a, "name")
      \/ l # 0 /\ IsLast(i, a, "name")
  BY <1>2, <1>3, LastIs
<1>5. \/ r = 0 /\ \A k : ~IsLast(k, a, "value")
      \/ r # 0 /\ IsLast(j, a, "value")
  BY <1>2, <1>3, LastIs
<1>6. PairAt(log[a].made, log[a].name) =
         IF l = 0 \/ r = 0 THEN << >> ELSE <<Token("value", << >>, i), Token("value", << >>, j)>>
  BY <1>2, <1>3 DEF PairAt
<1>7. CASE l = 0 \/ r = 0
  <2>1. \A k : ~Paired(k, a)
    BY <1>4, <1>5, <1>7 DEF Paired
  <2>2. KeptOf(o, a) = {}
    BY <1>1, <2>1
  <2> QED
    BY <1>6, <1>7, <2>2, ShowsEmpty
<1>8. CASE l # 0 /\ r # 0
  <2>1. IsLast(i, a, "name") /\ IsLast(j, a, "value")
    BY <1>4, <1>5, <1>8
  <2>2. /\ i \in DOMAIN log /\ log[i].into = log[a].made /\ ShortOf(i) = <<"name">>
        /\ j \in DOMAIN log /\ log[j].into = log[a].made /\ ShortOf(j) = <<"value">>
    BY <2>1 DEF IsLast
  <2>3. a \in Parent(i) /\ a \in Parent(j)
    BY <2>2 DEF Parent
  <2>4. ShortOf(i) = Short(log[a].name, log[i].name) /\ ShortOf(j) = Short(log[a].name, log[j].name)
    BY <1>0, <2>2, <2>3, ShortBelow
  <2>5. <<"name">> # <<"value">>
    OBVIOUS
  <2>6. i # j /\ log[i].name # log[j].name
    BY <2>2, <2>4, <2>5
  <2>7. Separate({i}, {j})
    BY <2>6 DEF Separate, Siblings
  <2>8. i \in Nat /\ j \in Nat
    BY <1>0, <2>2, AddTyped
  <2>9. \A k : k \in KeptOf(o, a) <=> k = i \/ k = j
    <3>1. Paired(i, a) /\ Paired(j, a) /\ i \in Into(log[a].made) /\ j \in Into(log[a].made)
      BY <2>1, <2>2 DEF Paired, Into
    <3>2. ASSUME NEW k, Paired(k, a) PROVE k = i \/ k = j
      BY <1>0, <2>1, <3>2, OneLast DEF Paired
    <3> QED
      BY <1>1, <3>1, <3>2
  <2>10. KeptOf(o, a) = {i, j}
    BY <2>9
  <2> QED
    BY <1>6, <1>8, <2>7, <2>8, <2>10, ShowsTwo
<1> QED
  BY <1>7, <1>8

\* A collapsed leaf is not shown.
LEMMA KeptOfNothing ==
    ASSUME Forest, NEW o, NEW a \in DOMAIN log, log[a].kind # "Tree", Collapsed(o, a)
    PROVE  KeptOf(o, a) = {}
<1>1. log[a].made = 0
  BY DEF Forest
<1>2. Into(log[a].made) = {}
  BY <1>1, AddTyped DEF Into
<1>3. \A j : j \in KeptOf(o, a) <=> j \in Into(log[a].made) /\ Paired(j, a)
  BY KeptOfCollapsed
<1> QED
  BY <1>2, <1>3

-----------------------------------------------------------------------------
(* From the entries of an accumulator to its object.                       *)

\* The objects of the subtrees on x show what is kept of them.
Done(o, obj, x) ==
    \A k \in DOMAIN heap[x].entries :
        LET e == heap[x].entries[k]
        IN  e.kind = "Tree" /\ ~Collapsed(o, e.at) =>
               Shows(Tokens(o), obj[e.child][e.name], KeptOf(o, e.at))

\* What write_field_value shows of an entry.
LEMMA FieldShows ==
    ASSUME Sound, NEW o, NEW obj, NEW x \in DOMAIN heap, Done(o, obj, x),
           NEW k \in DOMAIN heap[x].entries, NEW e, e = heap[x].entries[k], ~Collapsed(o, e.at)
    PROVE  Shows(Tokens(o), write_field_value(obj, e, e.name), KeptOf(o, e.at))
<1>1. e.at \in DOMAIN log /\ e.at \in Nat /\ e.kind = log[e.at].kind
  BY EntryIs
<1>2. CASE e.kind = "Tree"
  <2>1. Shows(Tokens(o), obj[e.child][e.name], KeptOf(o, e.at))
    BY <1>2 DEF Done
  <2> QED
    BY <1>2, <2>1 DEF write_field_value
<1>3. CASE e.kind # "Tree"
  <2>1. PICK v : v = Token("value", << >>, e.at)
    OBVIOUS
  <2>2. v \in Tokens(o) /\ v.t = "value" /\ v.at = e.at
    BY <1>1, <2>1, ValueToken
  <2>3. KeptOf(o, e.at) = {v.at}
    BY <1>1, <1>3, <2>2, KeptOfLeaf DEF Sound
  <2>4. Shows(Tokens(o), <<v>>, KeptOf(o, e.at))
    BY <2>2, <2>3, ShowsOne
  <2> QED
    BY <1>3, <2>1, <2>4 DEF write_field_value
<1> QED
  BY <1>2, <1>3

\* The leaves kept of the entries at the places in K.
KeptAt(o, es, K) == UNION {KeptOf(o, es[k].at) : k \in K}

\* values are the entries of x with one name.
Values(x, name, values) ==
    /\ x \in DOMAIN heap
    /\ values \in Seq(Entry)
    /\ \E at : Picks(heap[x].entries, Named(heap[x].entries, name), values, at)

\* A value is an entry.
LEMMA ValueIs ==
    ASSUME NEW x, NEW name, NEW values, Values(x, name, values), NEW j \in DOMAIN values
    PROVE  \E k \in DOMAIN heap[x].entries :
               values[j] = heap[x].entries[k] /\ values[j].name = name
<1> DEFINE es == heap[x].entries
<1>1. PICK at : Picks(es, Named(es, name), values, at)
  BY DEF Values
<1>2. j \in 1 .. Len(values)
  BY DEF Values
<1>3. at[j] \in Named(es, name) /\ values[j] = es[at[j]]
  BY <1>1, <1>2 DEF Picks
<1> QED
  BY <1>3 DEF Named

\* Values written one after another show what each shows.
LEMMA ValuesShow ==
    ASSUME Sound, NEW o, NEW x, NEW name, NEW values, Values(x, name, values),
           NEW parts, parts = [j \in DOMAIN values |-> parts[j]],
           \A j \in DOMAIN values : Shows(Tokens(o), parts[j], KeptOf(o, values[j].at))
    PROVE  Shows(Tokens(o), FlattenSeq(parts),
                 KeptAt(o, heap[x].entries, Named(heap[x].entries, name)))
<1> DEFINE es == heap[x].entries
           K == Named(es, name)
           sets == [j \in DOMAIN values |-> KeptOf(o, values[j].at)]
           n == Len(values)
<1>1. PICK at : Picks(es, K, values, at)
  BY DEF Values
<1>2. n \in Nat /\ DOMAIN values = 1 .. n /\ x \in DOMAIN heap
  BY DEF Values
<1>3. \A j \in 1 .. n : sets[j] = KeptOf(o, values[j].at)
  BY <1>2
<1> HIDE DEF sets
<1>4. /\ \A k \in K : k \in DOMAIN es /\ k \in Nat /\ es[k].name = name
      /\ \A j \in 1 .. n : at[j] \in K /\ values[j] = es[at[j]]
      /\ \A i, j \in 1 .. n : i < j => at[i] < at[j]
      /\ \A k \in K : \E j \in 1 .. n : at[j] = k
  <2>1. \A k \in K : k \in DOMAIN es /\ k \in Nat /\ es[k].name = name
    BY <1>2, EntriesTyped DEF Named
  <2> HIDE DEF K, es
  <2> QED
    BY <1>1, <2>1 DEF Picks
<1>5. ASSUME NEW i \in 1 .. n, NEW j \in 1 .. n, i < j PROVE Separate(sets[i], sets[j])
  <2>1. PICK k, l : k = at[i] /\ l = at[j]
    OBVIOUS
  <2>2. /\ k \in DOMAIN es /\ l \in DOMAIN es /\ k \in Nat /\ l \in Nat /\ k < l
        /\ values[i] = es[k] /\ values[j] = es[l]
    BY <1>4, <1>5, <2>1
  <2>3. k # l
    BY <2>2
  <2>4. Separate(KeptOf(o, es[k].at), KeptOf(o, es[l].at))
    BY <1>2, <2>2, <2>3, EntriesApart
  <2> QED
    BY <1>3, <2>2, <2>4
<1>6. \A j \in 1 .. n : Shows(Tokens(o), parts[j], sets[j])
  BY <1>2, <1>3
<1>7. parts = [j \in 1 .. n |-> parts[j]]
  BY <1>2
<1> HIDE DEF n
<1>8. Shows(Tokens(o), FlattenSeq(parts), UNION {sets[j] : j \in 1 .. n})
  <2>1. \A i, j \in 1 .. n : i < j => Separate(sets[i], sets[j])
    BY <1>5
  <2>2. n \in Nat
    BY <1>2
  <2>3. Parted(Tokens(o), parts, n, sets)
    BY <1>6, <1>7, <2>1, <2>2 DEF Parted
  <2> QED
    BY <2>3, ShowsAll
<1>9. UNION {sets[j] : j \in 1 .. n} = KeptAt(o, es, K)
  <2>1. ASSUME NEW i PROVE (\E j \in 1 .. n : i \in sets[j]) <=> \E k \in K : i \in KeptOf(o, es[k].at)
    <3> HIDE DEF K, es
    <3>1. \A j \in 1 .. n : sets[j] = KeptOf(o, es[at[j]].at)
      BY <1>3, <1>4
    <3> QED
      BY <1>4, <3>1
  <2> HIDE DEF K, es
  <2> QED
    BY <2>1 DEF KeptAt
<1> QED
  BY <1>8, <1>9

\* What write_value_or_array shows of entries that are not collapsed.
LEMMA ArrayShows ==
    ASSUME Sound, NEW o, NEW obj, NEW x, NEW name, NEW values, Values(x, name, values),
           Done(o, obj, x), \A j \in DOMAIN values : ~Collapsed(o, values[j].at)
    PROVE  Shows(Tokens(o), write_value_or_array(obj, values, name),
                 KeptAt(o, heap[x].entries, Named(heap[x].entries, name)))
<1> DEFINE es == heap[x].entries
           K == Named(es, name)
           parts == [j \in DOMAIN values |-> write_field_value(obj, values[j], name)]
<1>1. x \in DOMAIN heap /\ values \in Seq(Entry)
  BY DEF Values
<1>2. ASSUME NEW j \in DOMAIN values
      PROVE  Shows(Tokens(o), write_field_value(obj, values[j], name), KeptOf(o, values[j].at))
  <2>1. PICK k \in DOMAIN es : values[j] = es[k] /\ values[j].name = name
    BY ValueIs
  <2>2. PICK e : e = values[j]
    OBVIOUS
  <2>3. Shows(Tokens(o), write_field_value(obj, e, e.name), KeptOf(o, e.at))
    BY <1>1, <2>1, <2>2, FieldShows
  <2> QED
    BY <2>1, <2>2, <2>3
<1>3. \A j \in DOMAIN values : Shows(Tokens(o), parts[j], KeptOf(o, values[j].at))
  BY <1>2
<1>4. parts = [j \in DOMAIN values |-> parts[j]]
  OBVIOUS
<1>5. CASE Len(values) = 1 /\ values[1].kind # "Tree"
  <2>1. 1 \in DOMAIN values /\ \A j \in DOMAIN values : j = 1
    BY <1>1, <1>5
  <2>2. PICK at : Picks(es, K, values, at)
    BY DEF Values
  <2>3. DOMAIN values = 1 .. Len(values)
    BY <1>1
  <2> HIDE DEF K, es
  <2>4. at[1] \in K /\ values[1] = es[at[1]] /\ \A k \in K : k = at[1]
    BY <2>1, <2>2, <2>3 DEF Picks
  <2>5. KeptAt(o, es, K) = KeptOf(o, values[1].at)
    BY <2>4 DEF KeptAt
  <2>6. write_value_or_array(obj, values, name) = write_field_value(obj, values[1], name)
    BY <1>5 DEF write_value_or_array
  <2>7. Shows(Tokens(o), write_value_or_array(obj, values, name), KeptAt(o, es, K))
    BY <1>2, <2>1, <2>5, <2>6
  <2> QED
    BY <2>7 DEF K, es
<1>6. CASE ~(Len(values) = 1 /\ values[1].kind # "Tree")
  <2>1. write_value_or_array(obj, values, name) = Punct("[") \o FlattenSeq(parts) \o Punct("]")
    BY <1>6 DEF write_value_or_array
  <2> HIDE DEF parts
  <2>2. Shows(Tokens(o), FlattenSeq(parts), KeptAt(o, heap[x].entries, Named(heap[x].entries, name)))
    BY <1>3, <1>4, ValuesShow
  <2>3. Shows(Tokens(o), Punct("["), {}) /\ Shows(Tokens(o), Punct("]"), {})
    BY PunctShows
  <2> QED
    BY <2>1, <2>2, <2>3, ShowsBetween
<1> QED
  BY <1>5, <1>6

\* What write_map shows of entries that are collapsed.
LEMMA MapShows ==
    ASSUME Sound, NEW o, NEW x, NEW name, NEW values, Values(x, name, values),
           \A j \in DOMAIN values : Collapsed(o, values[j].at)
    PROVE  Shows(Tokens(o), write_map(values, name),
                 KeptAt(o, heap[x].entries, Named(heap[x].entries, name)))
<1> DEFINE es == heap[x].entries
           Part(j) == IF values[j].kind = "Tree" THEN PairAt(values[j].child, name) ELSE << >>
           parts == [j \in DOMAIN values |-> Part(j)]
<1>0. Forest /\ x \in DOMAIN heap
  BY DEF Sound, Values
<1>1. write_map(values, name) = Punct("{") \o FlattenSeq(parts) \o Punct("}")
  BY DEF write_map, PairAt
<1>2. ASSUME NEW j \in DOMAIN values PROVE Shows(Tokens(o), Part(j), KeptOf(o, values[j].at))
  <2>1. PICK k \in DOMAIN es : values[j] = es[k] /\ values[j].name = name
    BY ValueIs
  <2>2. PICK e, a : e = values[j] /\ a = e.at
    OBVIOUS
  <2>3. /\ a \in DOMAIN log /\ name = log[a].name /\ e.kind = log[a].kind /\ e.child = log[a].made
        /\ Collapsed(o, a)
    BY <1>0, <2>1, <2>2, EntryIs
  <2>4. CASE log[a].kind = "Tree"
    <3>1. Part(j) = PairAt(log[a].made, log[a].name)
      BY <2>2, <2>3, <2>4
    <3>2. Shows(Tokens(o), PairAt(log[a].made, log[a].name), KeptOf(o, a))
      BY <2>3, <2>4, PairShows
    <3> QED
      BY <2>2, <3>1, <3>2
  <2>5. CASE log[a].kind # "Tree"
    <3>1. Part(j) = << >>
      BY <2>2, <2>3, <2>5
    <3>2. KeptOf(o, a) = {}
      BY <1>0, <2>3, <2>5, KeptOfNothing
    <3>3. Shows(Tokens(o), << >>, {})
      BY ShowsEmpty
    <3> QED
      BY <2>2, <3>1, <3>2, <3>3
  <2> QED
    BY <2>4, <2>5
<1> HIDE DEF Part
<1>3. \A j \in DOMAIN values : Shows(Tokens(o), parts[j], KeptOf(o, values[j].at))
  BY <1>2
<1>4. parts = [j \in DOMAIN values |-> parts[j]]
  OBVIOUS
<1> HIDE DEF parts
<1>5. Shows(Tokens(o), FlattenSeq(parts), KeptAt(o, heap[x].entries, Named(heap[x].entries, name)))
  BY <1>3, <1>4, ValuesShow
<1>6. Shows(Tokens(o), Punct("{"), {}) /\ Shows(Tokens(o), Punct("}"), {})
  BY PunctShows
<1> QED
  BY <1>1, <1>5, <1>6, ShowsBetween

\* What write_named_value shows of the entries with one name.
LEMMA NamedShows ==
    ASSUME Sound, NEW o, NEW obj, NEW x, NEW name, NEW values, Values(x, name, values),
           Done(o, obj, x), NEW short,
           \A j \in DOMAIN values : Collapsed(o, values[j].at) <=> short \in o.map_fields
    PROVE  Shows(Tokens(o), write_named_value(o, obj, short, values, name),
                 KeptAt(o, heap[x].entries, Named(heap[x].entries, name)))
<1>1. CASE short \in o.map_fields
  <2>1. \A j \in DOMAIN values : Collapsed(o, values[j].at)
    BY <1>1
  <2>2. write_named_value(o, obj, short, values, name) = write_map(values, name)
    BY <1>1 DEF write_named_value
  <2> QED
    BY <2>1, <2>2, MapShows
<1>2. CASE short \notin o.map_fields
  <2>1. \A j \in DOMAIN values : ~Collapsed(o, values[j].at)
    BY <1>2
  <2>2. write_named_value(o, obj, short, values, name) = write_value_or_array(obj, values, name)
    BY <1>2 DEF write_named_value
  <2> QED
    BY <2>1, <2>2, ArrayShows
<1> QED
  BY <1>1, <1>2

\* The groups of an accumulator.
LEMMA GroupsOf ==
    ASSUME Sound, NEW x \in DOMAIN heap
    PROVE  LET es == heap[x].entries
               grouped == grouped_entries(es)
           IN  /\ Grouped(es, grouped) /\ grouped \in Seq(Group)
               /\ DOMAIN grouped = 1 .. Len(grouped) /\ Len(grouped) \in Nat
               /\ \A g \in DOMAIN grouped : /\ grouped[g].name \in Names
                                            /\ Values(x, grouped[g].name, grouped[g].values)
<1> DEFINE es == heap[x].entries
           grouped == grouped_entries(es)
<1>1. es \in Seq(Entry)
  BY EntriesTyped
<1>2. Grouped(es, grouped)
  BY <1>1, GroupsAre
<1> HIDE DEF grouped
<1>3. grouped \in Seq(Group)
  BY <1>2 DEF Grouped
<1>4. DOMAIN grouped = 1 .. Len(grouped) /\ Len(grouped) \in Nat
  BY <1>3
<1>5. ASSUME NEW g \in DOMAIN grouped
      PROVE  grouped[g].name \in Names /\ Values(x, grouped[g].name, grouped[g].values)
  <2>1. grouped[g] \in Group
    BY <1>3
  <2>2. grouped[g].name \in Names /\ grouped[g].values \in Seq(Entry)
    BY <2>1 DEF Group
  <2>3. \E at : Picks(es, Named(es, grouped[g].name), grouped[g].values, at)
    BY <1>2 DEF Grouped
  <2> QED
    BY <2>2, <2>3 DEF Values
<1>6. /\ Grouped(es, grouped) /\ grouped \in Seq(Group)
      /\ DOMAIN grouped = 1 .. Len(grouped) /\ Len(grouped) \in Nat
      /\ \A g \in DOMAIN grouped : /\ grouped[g].name \in Names
                                   /\ Values(x, grouped[g].name, grouped[g].values)
  BY <1>2, <1>3, <1>4, <1>5
<1> QED
  BY <1>6 DEF grouped

\* What is kept of two names is apart.
LEMMA NamesApart ==
    ASSUME Sound, NEW o, NEW x \in DOMAIN heap, NEW n, NEW m, n # m
    PROVE  Separate(KeptAt(o, heap[x].entries, Named(heap[x].entries, n)),
                    KeptAt(o, heap[x].entries, Named(heap[x].entries, m)))
<1> DEFINE es == heap[x].entries
<1> SUFFICES ASSUME NEW i \in KeptAt(o, es, Named(es, n)), NEW j \in KeptAt(o, es, Named(es, m))
             PROVE  i # j /\ (Siblings(i, j) => i < j)
  BY DEF Separate
<1>1. PICK k \in Named(es, n) : i \in KeptOf(o, es[k].at)
  BY DEF KeptAt
<1>2. PICK l \in Named(es, m) : j \in KeptOf(o, es[l].at)
  BY DEF KeptAt
<1>3. k \in DOMAIN es /\ l \in DOMAIN es /\ es[k].name = n /\ es[l].name = m
  BY DEF Named
<1>4. Separate(KeptOf(o, es[k].at), KeptOf(o, es[l].at))
  BY <1>3, EntriesApart
<1> QED
  BY <1>1, <1>2, <1>4 DEF Separate

\* The object of a subtree shows what is kept of it.
LEMMA ObjectShows ==
    ASSUME Sound, NEW o, NEW obj, NEW a \in DOMAIN log, log[a].kind = "Tree", ~Collapsed(o, a),
           Done(o, obj, log[a].made)
    PROVE  Shows(Tokens(o), Object(o, obj, log[a].made, log[a].name), KeptOf(o, a))
<1> DEFINE es == heap[log[a].made].entries
           grouped == grouped_entries(es)
           short(g) == Short(log[a].name, grouped[g].name)
           Part(g) == Key(short(g))
                         \o write_named_value(o, obj, short(g), grouped[g].values, grouped[g].name)
           parts == [g \in DOMAIN grouped |-> Part(g)]
           sets == [g \in DOMAIN grouped |-> KeptAt(o, es, Named(es, grouped[g].name))]
           n == Len(grouped)
<1>0. Forest
  BY DEF Sound
<1>1. PICK x : x = log[a].made
  OBVIOUS
<1>2. x \in DOMAIN heap /\ heap[x].call # 0 /\ es = heap[x].entries /\ Done(o, obj, x)
  BY <1>1 DEF Sound, Forest, HeapFollowsLog
<1>3. Object(o, obj, log[a].made, log[a].name) = Punct("{") \o FlattenSeq(parts) \o Punct("}")
  BY DEF Object
<1>4. /\ Grouped(es, grouped) /\ DOMAIN grouped = 1 .. n /\ n \in Nat
      /\ \A g \in DOMAIN grouped : /\ grouped[g].name \in Names
                                   /\ Values(x, grouped[g].name, grouped[g].values)
  BY <1>2, GroupsOf
<1> HIDE DEF grouped
<1>5. ASSUME NEW g \in 1 .. n
      PROVE  Shows(Tokens(o), Part(g), KeptAt(o, es, Named(es, grouped[g].name)))
  <2>1. PICK name, values, s : name = grouped[g].name /\ values = grouped[g].values /\ s = short(g)
    OBVIOUS
  <2>2. name \in Names /\ Values(x, name, values) /\ s = Short(log[a].name, name)
    BY <1>4, <2>1
  <2>3. ASSUME NEW j \in DOMAIN values PROVE Collapsed(o, values[j].at) <=> s \in o.map_fields
    <3>1. PICK k \in DOMAIN es : values[j] = es[k] /\ values[j].name = name
      BY <1>2, <2>2, ValueIs
    <3>2. PICK b : b = es[k].at
      OBVIOUS
    <3>3. b \in DOMAIN log /\ log[b].name = name /\ log[b].into = x
      BY <1>2, <3>1, <3>2, EntryIs
    <3>4. a \in Parent(b)
      BY <1>1, <3>3 DEF Parent
    <3>5. Collapsed(o, b) <=> Short(log[a].name, log[b].name) \in o.map_fields
      BY <1>0, <3>3, <3>4, ShortBelow
    <3> QED
      BY <2>2, <3>1, <3>2, <3>3, <3>5
  <2>4. Shows(Tokens(o), write_named_value(o, obj, s, values, name),
              KeptAt(o, heap[x].entries, Named(heap[x].entries, name)))
    BY <1>2, <2>2, <2>3, NamedShows
  <2>5. log[a].name \in Names
    BY <1>0, AddTyped DEF Add
  <2>6. Shows(Tokens(o), Key(s), {})
    BY <2>2, <2>5, KeysAre, KeyShows
  <2>7. Shows(Tokens(o), Key(s) \o write_named_value(o, obj, s, values, name),
              KeptAt(o, heap[x].entries, Named(heap[x].entries, name)))
    BY <2>4, <2>6, ShowsBehind
  <2> QED
    BY <1>2, <2>1, <2>7
<1>6. parts = [g \in 1 .. n |-> parts[g]] /\ \A g \in 1 .. n : parts[g] = Part(g)
  BY <1>4
<1>7. \A g \in 1 .. n : sets[g] = KeptAt(o, es, Named(es, grouped[g].name))
  BY <1>4
<1> HIDE DEF Part, parts, sets, n, es
<1>8. ASSUME NEW g \in 1 .. n, NEW h \in 1 .. n, g < h PROVE Separate(sets[g], sets[h])
  <2>1. grouped[g].name # grouped[h].name
    BY <1>4, <1>8 DEF Grouped
  <2>2. Separate(KeptAt(o, es, Named(es, grouped[g].name)), KeptAt(o, es, Named(es, grouped[h].name)))
    BY <1>2, <2>1, NamesApart
  <2> QED
    BY <1>7, <2>2
<1>9. Parted(Tokens(o), parts, n, sets)
  BY <1>4, <1>5, <1>6, <1>7, <1>8 DEF Parted
<1>10. Shows(Tokens(o), FlattenSeq(parts), UNION {sets[g] : g \in 1 .. n})
  BY <1>9, ShowsAll
<1>11. UNION {sets[g] : g \in 1 .. n} = KeptOf(o, a)
  <2>1. ASSUME NEW i
        PROVE  (\E g \in 1 .. n : i \in sets[g]) <=> \E k \in DOMAIN es : i \in KeptOf(o, es[k].at)
    <3>1. ASSUME NEW g \in 1 .. n, i \in sets[g] PROVE \E k \in DOMAIN es : i \in KeptOf(o, es[k].at)
      <4>1. i \in KeptAt(o, es, Named(es, grouped[g].name))
        BY <1>7, <3>1
      <4> QED
        BY <4>1 DEF KeptAt, Named
    <3>2. ASSUME NEW k \in DOMAIN es, i \in KeptOf(o, es[k].at) PROVE \E g \in 1 .. n : i \in sets[g]
      <4>1. PICK g \in DOMAIN grouped : grouped[g].name = es[k].name
        BY <1>4 DEF Grouped
      <4>2. k \in Named(es, grouped[g].name)
        BY <4>1 DEF Named
      <4>3. i \in KeptAt(o, es, Named(es, grouped[g].name))
        BY <3>2, <4>2 DEF KeptAt
      <4> QED
        BY <1>4, <1>7, <4>3
    <3> QED
      BY <3>1, <3>2
  <2>2. \A i : i \in KeptOf(o, a) <=> \E c \in Into(x) : i \in KeptOf(o, c)
    BY <1>0, <1>1, KeptOfTree
  <2>3. Ats(x) = Into(x)
    BY <1>2 DEF Sound, HeapFollowsLog
  <2>4. \A c : c \in Into(x) <=> \E k \in DOMAIN es : c = es[k].at
    BY <1>2, <2>3 DEF Ats
  <2>5. \A i : (\E g \in 1 .. n : i \in sets[g]) <=> i \in KeptOf(o, a)
    BY <2>1, <2>2, <2>4
  <2> QED
    BY <2>5
<1>12. Shows(Tokens(o), Punct("{"), {}) /\ Shows(Tokens(o), Punct("}"), {})
  BY PunctShows
<1>13. Shows(Tokens(o), FlattenSeq(parts), KeptOf(o, a))
  BY <1>10, <1>11
<1>14. Shows(Tokens(o), Punct("{") \o FlattenSeq(parts) \o Punct("}"), KeptOf(o, a))
  BY <1>12, <1>13, ShowsBetween
<1> QED
  BY <1>3, <1>14

\* Every object does.
LEMMA AllDone ==
    ASSUME Sound, NEW o, NEW obj, obj = write_frame_fields_object(o)
    PROVE  \A x \in DOMAIN heap : Done(o, obj, x)
<1> DEFINE Upto(n) == \A x \in DOMAIN heap : Rank(x) < n => Done(o, obj, x)
           Reached == {n \in Nat : Upto(n)}
<1>1. \A x \in DOMAIN heap : \A p \in Names : obj[x][p] = Object(o, obj, x, p)
  BY ObjectsAre
<1>2. 0 \in Reached
  BY RankIs
<1>3. ASSUME NEW n \in Nat, n \in Reached PROVE n + 1 \in Reached
  <2> SUFFICES ASSUME NEW x \in DOMAIN heap, Rank(x) < n + 1 PROVE Done(o, obj, x)
    OBVIOUS
  <2>0. Upto(n)
    BY <1>3
  <2> SUFFICES ASSUME NEW k \in DOMAIN heap[x].entries, NEW e, e = heap[x].entries[k],
                      e.kind = "Tree", ~Collapsed(o, e.at)
               PROVE  Shows(Tokens(o), obj[e.child][e.name], KeptOf(o, e.at))
    BY DEF Done
  <2>1. e.child \in DOMAIN heap /\ Rank(e.child) < Rank(x)
    BY ChildBelow
  <2>2. Rank(e.child) < n
    BY <2>1, RankIs
  <2>3. Done(o, obj, e.child)
    BY <2>0, <2>1, <2>2
  <2>4. PICK a : a = e.at
    OBVIOUS
  <2>5. a \in DOMAIN log /\ e.name = log[a].name /\ log[a].kind = "Tree" /\ e.child = log[a].made
        /\ e.name \in Names
    BY <2>4, EntryIs DEF Entry
  <2>6. Shows(Tokens(o), Object(o, obj, log[a].made, log[a].name), KeptOf(o, a))
    BY <2>3, <2>4, <2>5, ObjectShows
  <2>7. obj[e.child][e.name] = Object(o, obj, log[a].made, log[a].name)
    <3>1. PICK y, p : y = e.child /\ p = e.name
      OBVIOUS
    <3>2. obj[y][p] = Object(o, obj, y, p)
      BY <1>1, <2>1, <2>5, <3>1
    <3> QED
      BY <2>5, <3>1, <3>2
  <2> QED
    BY <2>4, <2>6, <2>7
<1>4. \A n \in Nat : n \in Reached
  <2> HIDE DEF Reached
  <2> QED
    BY <1>2, <1>3, Induct
<1>5. ASSUME NEW x \in DOMAIN heap PROVE Done(o, obj, x)
  <2>1. Rank(x) \in Nat /\ Rank(x) + 1 \in Nat /\ Rank(x) < Rank(x) + 1
    BY RankIs
  <2>2. Upto(Rank(x) + 1)
    BY <1>4, <2>1
  <2> QED
    BY <2>1, <2>2
<1> QED
  BY <1>5

-----------------------------------------------------------------------------
(* A line.                                                                 *)

\* The groups written, in order: those selected that a dissector makes, each once.
LEMMA GroupOrder ==
    ASSUME NEW o, o.fields \in Seq(Seq(STRING))
    PROVE  LET order == generic_group_order(o)
           IN  /\ order \in Seq(KeysOf(o)) /\ DOMAIN order = 1 .. Len(order) /\ Len(order) \in Nat
               /\ \A i, j \in DOMAIN order : order[i] = order[j] => i = j
               /\ \A i \in DOMAIN order : \E g \in groups(o) \ Envelope : order[i] = <<g>>
               /\ \A g \in groups(o) \ Envelope : \E i \in DOMAIN order : order[i] = <<g>>
<1> DEFINE F(i) == o.fields[i][1]
           s == [i \in DOMAIN o.fields |-> <<F(i)>>]
           K == {i \in DOMAIN o.fields : F(i) \notin Envelope /\ \A j \in 1 .. i - 1 : F(j) # F(i)}
           order == generic_group_order(o)
<1>1. order = KeepAt(s, K)
  BY DEF generic_group_order
<1>2. DOMAIN o.fields = 1 .. Len(o.fields) /\ Len(o.fields) \in Nat
  OBVIOUS
<1>3. groups(o) = {F(i) : i \in DOMAIN o.fields}
  BY DEF groups
<1>4. \A i \in DOMAIN o.fields : <<F(i)>> \in KeysOf(o)
  BY KeysAre
<1> HIDE DEF F
<1>5. s \in Seq(KeysOf(o)) /\ DOMAIN s = DOMAIN o.fields
  <2>1. s \in [1 .. Len(o.fields) -> KeysOf(o)]
    BY <1>2, <1>4
  <2>2. s \in Seq(KeysOf(o))
    BY <1>2, <2>1, FunctionIsSeq
  <2> QED
    BY <2>2
<1>6. \A i \in DOMAIN o.fields : s[i] = <<F(i)>>
  OBVIOUS
<1> HIDE DEF s
<1>7. K \in SUBSET DOMAIN s
  BY <1>5
<1>8. order \in Seq(KeysOf(o)) /\ \E at : Picks(s, K, order, at)
  <2> HIDE DEF K, order
  <2>1. KeepAt(s, K) \in Seq(KeysOf(o)) /\ \E at : Picks(s, K, KeepAt(s, K), at)
    BY <1>5, <1>7, KeptPlaces
  <2> QED
    BY <1>1, <2>1
<1> HIDE DEF order
<1>9. PICK at : Picks(s, K, order, at)
  BY <1>8
<1>10. DOMAIN order = 1 .. Len(order) /\ Len(order) \in Nat
  BY <1>8
<1>11. /\ \A i \in K : i \in DOMAIN o.fields /\ F(i) \notin Envelope
       /\ \A i, j \in K : F(i) = F(j) => i = j
       /\ \A g \in groups(o) \ Envelope : \E i \in K : F(i) = g
  <2>1. \A i, j \in K : ~(i < j /\ F(i) = F(j))
    BY <1>2
  <2>2. \A i, j \in K : F(i) = F(j) => i = j
    BY <1>2, <2>1
  <2>3. ASSUME NEW g \in groups(o) \ Envelope PROVE \E i \in K : F(i) = g
    <3> DEFINE I == {i \in DOMAIN o.fields : F(i) = g}
    <3>1. I \in SUBSET Nat /\ I # {}
      BY <1>2, <1>3
    <3>2. PICK i \in I : \A x \in I : i <= x
      <4> HIDE DEF I
      <4> QED
        BY <3>1, LeastNatural
    <3>3. ASSUME NEW j \in 1 .. i - 1, F(j) = F(i) PROVE FALSE
      <4>1. j \in DOMAIN o.fields /\ j < i
        BY <1>2, <3>2
      <4>2. j \in I
        BY <3>2, <3>3, <4>1
      <4> QED
        BY <1>2, <3>2, <4>1, <4>2
    <3> QED
      BY <3>2, <3>3
  <2> QED
    BY <2>2, <2>3
<1> HIDE DEF K
<1>12. \A i \in DOMAIN order : at[i] \in K /\ order[i] = <<F(at[i])>>
  BY <1>6, <1>9, <1>10, <1>11 DEF Picks
<1>13. \A a, b : <<a>> = <<b>> => a = b
  OBVIOUS
<1>14. ASSUME NEW i \in DOMAIN order, NEW j \in DOMAIN order, order[i] = order[j] PROVE i = j
  <2>1. at[i] = at[j] /\ at[i] \in Nat
    BY <1>2, <1>11, <1>12, <1>13, <1>14
  <2>2. ~(i < j) /\ ~(j < i)
    BY <1>9, <1>10, <2>1 DEF Picks
  <2> QED
    BY <1>10, <2>2
<1>15. ASSUME NEW i \in DOMAIN order PROVE \E g \in groups(o) \ Envelope : order[i] = <<g>>
  <2>1. at[i] \in DOMAIN o.fields /\ F(at[i]) \notin Envelope /\ order[i] = <<F(at[i])>>
    BY <1>11, <1>12
  <2>2. F(at[i]) \in groups(o)
    BY <1>3, <2>1
  <2> QED
    BY <2>1, <2>2
<1>16. ASSUME NEW g \in groups(o) \ Envelope PROVE \E i \in DOMAIN order : order[i] = <<g>>
  <2>1. PICK k \in K : F(k) = g
    BY <1>11
  <2>2. PICK i \in DOMAIN order : at[i] = k
    BY <1>9, <1>10 DEF Picks
  <2> QED
    BY <1>12, <2>1, <2>2
<1>17. /\ order \in Seq(KeysOf(o)) /\ DOMAIN order = 1 .. Len(order) /\ Len(order) \in Nat
       /\ \A i, j \in DOMAIN order : order[i] = order[j] => i = j
       /\ \A i \in DOMAIN order : \E g \in groups(o) \ Envelope : order[i] = <<g>>
       /\ \A g \in groups(o) \ Envelope : \E i \in DOMAIN order : order[i] = <<g>>
  BY <1>8, <1>10, <1>14, <1>15, <1>16
<1> QED
  BY <1>17 DEF order

\* The adds of x's entries are at the top, and a line leaves out the entries in hide:
\* none when nothing is exploded, or all of the exploded group but the line's own.
Fits(o, x, exploded, hide) ==
    LET es == heap[x].entries
    IN  /\ x \in DOMAIN heap
        /\ \A k \in DOMAIN es : Parent(es[k].at) = {}
        /\ \/ exploded = << >> /\ hide = {} /\ Named(es, o.explode) = {}
           \/ \E k \in Named(es, o.explode) :
                 exploded = <<es[k]>> /\ hide = Named(es, o.explode) \ {k}

\* What is written for a group.
LEMMA GroupShows ==
    ASSUME Sound, NEW o, NEW x, NEW exploded, NEW hide, Fits(o, x, exploded, hide),
           NEW group \in KeysOf(o)
    PROVE  Shows(Tokens(o), write_group(o, grouped_entries(heap[x].entries), exploded, group),
                 KeptAt(o, heap[x].entries, Named(heap[x].entries, group) \ hide))
<1> DEFINE es == heap[x].entries
           grouped == grouped_entries(es)
           found == FindGroup(grouped, group)
<1>1. PICK obj : obj = write_frame_fields_object(o)
  OBVIOUS
<1>2. x \in DOMAIN heap /\ \A k \in DOMAIN es : Parent(es[k].at) = {}
  BY DEF Fits
<1>3. Done(o, obj, x)
  BY <1>1, <1>2, AllDone
<1>4. Shows(Tokens(o), Key(group), {})
  BY KeyShows
<1>5. write_group(o, grouped, exploded, group) =
         IF exploded # << >> /\ group = o.explode
         THEN Key(group) \o write_field_value(obj, exploded[1], group)
         ELSE IF found = 0 THEN << >>
         ELSE Key(group) \o write_named_value(o, obj, group, grouped[found].values, group)
  BY <1>1 DEF write_group
<1>6. CASE exploded # << >> /\ group = o.explode
  <2>1. PICK k \in Named(es, o.explode) : exploded = <<es[k]>> /\ hide = Named(es, o.explode) \ {k}
    BY <1>6 DEF Fits
  <2>2. PICK e, a : e = es[k] /\ a = e.at
    OBVIOUS
  <2>3. k \in DOMAIN es /\ e.name = group /\ exploded[1] = e
    BY <1>6, <2>1, <2>2 DEF Named
  <2>4. a \in DOMAIN log /\ log[a].name = group /\ Parent(a) = {}
    BY <1>2, <2>2, <2>3, EntryIs
  <2>5. ~Collapsed(o, a)
    BY <1>6, <2>4 DEF Collapsed
  <2>6. Shows(Tokens(o), write_field_value(obj, e, e.name), KeptOf(o, e.at))
    BY <1>2, <1>3, <2>2, <2>3, <2>5, FieldShows
  <2>7. Shows(Tokens(o), Key(group) \o write_field_value(obj, e, e.name), KeptOf(o, e.at))
    BY <1>4, <2>6, ShowsBehind
  <2>8. KeptAt(o, es, Named(es, group) \ hide) = KeptOf(o, e.at)
    <3>1. Named(es, group) \ hide = {k}
      BY <1>6, <2>1
    <3> HIDE DEF es
    <3> QED
      BY <2>2, <3>1 DEF KeptAt
  <2>9. write_group(o, grouped, exploded, group) = Key(group) \o write_field_value(obj, e, e.name)
    BY <1>5, <1>6, <2>3
  <2> QED
    BY <2>7, <2>8, <2>9
<1>7. /\ Grouped(es, grouped) /\ grouped \in Seq(Group)
      /\ \A g \in DOMAIN grouped : /\ grouped[g].name \in Names
                                   /\ Values(x, grouped[g].name, grouped[g].values)
  BY <1>2, GroupsOf
<1> HIDE DEF grouped
<1>8. \/ found = 0 /\ \A g \in DOMAIN grouped : grouped[g].name # group
      \/ found \in DOMAIN grouped /\ found # 0 /\ grouped[found].name = group
  BY <1>7, GroupFound
<1> HIDE DEF found
<1>9. CASE ~(exploded # << >> /\ group = o.explode) /\ found = 0
  <2>1. Named(es, group) = {}
    <3> SUFFICES ASSUME NEW k \in DOMAIN es, es[k].name = group PROVE FALSE
      BY DEF Named
    <3>1. PICK g \in DOMAIN grouped : grouped[g].name = es[k].name
      BY <1>7 DEF Grouped
    <3>2. ~(found \in DOMAIN grouped /\ found # 0 /\ grouped[found].name = group)
      BY <1>9
    <3> QED
      BY <1>8, <3>1, <3>2
  <2>2. KeptAt(o, es, Named(es, group) \ hide) = {}
    <3> HIDE DEF es
    <3> QED
      BY <2>1 DEF KeptAt
  <2>3. write_group(o, grouped, exploded, group) = << >>
    BY <1>5, <1>9
  <2>4. Shows(Tokens(o), << >>, {})
    BY ShowsEmpty
  <2>5. Shows(Tokens(o), write_group(o, grouped, exploded, group),
              KeptAt(o, es, Named(es, group) \ hide))
    BY <2>2, <2>3, <2>4
  <2> QED
    BY <2>5 DEF grouped
<1>10. CASE ~(exploded # << >> /\ group = o.explode) /\ found # 0
  <2>1. PICK values : values = grouped[found].values
    OBVIOUS
  <2>2. found \in DOMAIN grouped /\ grouped[found].name = group
    BY <1>8, <1>10
  <2>3. Values(x, group, values) /\ Named(es, group) # {}
    BY <1>7, <2>1, <2>2 DEF Grouped
  <2>4. group # o.explode /\ Named(es, group) \ hide = Named(es, group)
    <3>1. CASE exploded = << >> /\ hide = {} /\ Named(es, o.explode) = {}
      BY <2>3, <3>1
    <3>2. ASSUME NEW k \in Named(es, o.explode), exploded = <<es[k]>>,
                 hide = Named(es, o.explode) \ {k}
          PROVE  group # o.explode /\ Named(es, group) \ hide = Named(es, group)
      <4>1. exploded # << >>
        BY <3>2
      <4>2. group # o.explode
        BY <1>10, <4>1
      <4> QED
        BY <3>2, <4>2 DEF Named
    <3> QED
      BY <3>1, <3>2 DEF Fits
  <2>5. ASSUME NEW j \in DOMAIN values PROVE Collapsed(o, values[j].at) <=> group \in o.map_fields
    <3>1. PICK k \in DOMAIN es : values[j] = es[k] /\ values[j].name = group
      BY <2>3, ValueIs
    <3>2. PICK a : a = es[k].at
      OBVIOUS
    <3>3. a \in DOMAIN log /\ log[a].name = group /\ Parent(a) = {}
      BY <1>2, <3>1, <3>2, EntryIs
    <3>4. ShortOf(a) = group
      BY <3>3 DEF ShortOf
    <3>5. Collapsed(o, a) <=> group \in o.map_fields
      BY <2>4, <3>3, <3>4 DEF Collapsed
    <3> QED
      BY <3>1, <3>2, <3>5
  <2>6. Shows(Tokens(o), write_named_value(o, obj, group, values, group),
              KeptAt(o, heap[x].entries, Named(heap[x].entries, group)))
    BY <1>3, <2>3, <2>5, NamedShows
  <2>7. Shows(Tokens(o), Key(group) \o write_named_value(o, obj, group, values, group),
              KeptAt(o, heap[x].entries, Named(heap[x].entries, group)))
    BY <1>4, <2>6, ShowsBehind
  <2>8. write_group(o, grouped, exploded, group)
           = Key(group) \o write_named_value(o, obj, group, values, group)
    BY <1>5, <1>10, <2>1
  <2> QED
    BY <2>4, <2>7, <2>8 DEF grouped
<1> QED
  BY <1>6, <1>9, <1>10

\* A line has a token.
Has(line, token) == \E k \in DOMAIN line : line[k] = token

\* What is in one of two sequences is in both.
LEMMA HasEither ==
    ASSUME NEW T, NEW a \in Seq(T), NEW b \in Seq(T), NEW v, Has(a, v) \/ Has(b, v)
    PROVE  a \o b \in Seq(T) /\ Has(a \o b, v)
<1> DEFINE c == a \o b
<1>1. c \in Seq(T) /\ After(a, b, c)
  BY Concatenated
<1>2. /\ DOMAIN a = 1 .. Len(a) /\ DOMAIN b = 1 .. Len(b) /\ DOMAIN c = 1 .. Len(c)
      /\ Len(a) \in Nat /\ Len(b) \in Nat
  BY <1>1
<1> HIDE DEF c
<1>3. CASE Has(a, v)
  <2>1. PICK k \in 1 .. Len(a) : a[k] = v
    BY <1>2, <1>3 DEF Has
  <2>2. k \in 1 .. Len(c) /\ c[k] = v
    BY <1>1, <1>2, <2>1 DEF After
  <2> QED
    BY <1>1, <1>2, <2>2 DEF Has, c
<1>4. CASE Has(b, v)
  <2>1. PICK k \in 1 .. Len(b) : b[k] = v
    BY <1>2, <1>4 DEF Has
  <2>2. Len(a) + k \in 1 .. Len(c) /\ c[Len(a) + k] = v
    BY <1>1, <1>2, <2>1 DEF After
  <2> QED
    BY <1>1, <1>2, <2>2 DEF Has, c
<1> QED
  BY <1>3, <1>4

\* The envelope keys of a line.
EnvelopePart(o, i) ==
    LET g == <<"ip", "tcp", "tls">>[i] IN IF g \in groups(o) THEN Key(<<g>>) ELSE << >>
EnvelopeKeys(o) == FlattenSeq([i \in 1 .. 3 |-> EnvelopePart(o, i)])

LEMMA EnvelopeShows ==
    ASSUME NEW o
    PROVE  /\ Shows(Tokens(o), EnvelopeKeys(o), {})
           /\ \A g \in Envelope \intersect groups(o) : Has(EnvelopeKeys(o), Token("key", <<g>>, 0))
<1> DEFINE names == <<"ip", "tcp", "tls">>
           parts == [i \in 1 .. 3 |-> EnvelopePart(o, i)]
           sets == [i \in 1 .. 3 |-> {}]
           T == Tokens(o)
<1>1. names[1] = "ip" /\ names[2] = "tcp" /\ names[3] = "tls"
  OBVIOUS
<1>2. /\ \A i \in 1 .. 3 : names[i] \in Envelope
      /\ \A g \in Envelope : \E i \in 1 .. 3 : names[i] = g
  <2>1. 1 \in 1 .. 3 /\ 2 \in 1 .. 3 /\ 3 \in 1 .. 3 /\ \A i \in 1 .. 3 : i = 1 \/ i = 2 \/ i = 3
    OBVIOUS
  <2> QED
    BY <1>1, <2>1 DEF Envelope
<1>3. \A i \in 1 .. 3 : EnvelopePart(o, i) = IF names[i] \in groups(o) THEN Key(<<names[i]>>) ELSE << >>
  BY DEF EnvelopePart
<1> HIDE DEF names
<1>4. ASSUME NEW i \in 1 .. 3 PROVE Shows(T, EnvelopePart(o, i), {})
  <2>1. CASE names[i] \in groups(o)
    <3>1. <<names[i]>> \in KeysOf(o)
      BY <1>2, KeysAre
    <3>2. Shows(T, Key(<<names[i]>>), {})
      BY <3>1, KeyShows
    <3> QED
      BY <1>3, <2>1, <3>2
  <2>2. CASE names[i] \notin groups(o)
    BY <1>3, <2>2, ShowsEmpty
  <2> QED
    BY <2>1, <2>2
<1>5. parts = [i \in 1 .. 3 |-> parts[i]] /\ \A i \in 1 .. 3 : parts[i] = EnvelopePart(o, i)
  OBVIOUS
<1>6. \A i \in 1 .. 3 : sets[i] = {}
  OBVIOUS
<1> HIDE DEF parts, sets, T
<1>7. Parted(T, parts, 3, sets)
  BY <1>4, <1>5, <1>6 DEF Parted, Separate
<1>8. Shows(T, FlattenSeq(parts), UNION {sets[i] : i \in 1 .. 3})
  BY <1>7, ShowsAll
<1>9. UNION {sets[i] : i \in 1 .. 3} = {}
  BY <1>6
<1>10. Shows(T, FlattenSeq(parts), {})
  BY <1>8, <1>9
<1>11. EnvelopeKeys(o) = FlattenSeq(parts)
  BY DEF EnvelopeKeys, parts
<1>12. parts \in [1 .. 3 -> Seq(T)]
  <2>1. \A i \in 1 .. 3 : parts[i] \in Seq(T)
    BY <1>4, <1>5 DEF Shows
  <2> QED
    BY <1>5, <2>1
<1>13. parts \in Seq(Seq(T)) /\ Len(parts) = 3
  BY <1>12, FunctionIsSeq
<1>14. FlattenSeq(parts) \in Seq(T) /\ Joins(parts, FlattenSeq(parts))
  BY <1>13, Flattened
<1>15. ASSUME NEW g \in Envelope, g \in groups(o) PROVE Has(FlattenSeq(parts), Token("key", <<g>>, 0))
  <2>1. PICK i \in 1 .. 3 : names[i] = g
    BY <1>2
  <2>2. parts[i] = <<Token("key", <<g>>, 0)>>
    BY <1>3, <1>5, <1>15, <2>1 DEF Key
  <2>3. 1 \in 1 .. Len(parts[i]) /\ parts[i][1] = Token("key", <<g>>, 0)
    BY <2>2
  <2>4. PICK p \in 1 .. Len(FlattenSeq(parts)) : FlattenSeq(parts)[p] = parts[i][1]
    BY <1>13, <1>14, <2>3 DEF Joins
  <2>5. p \in DOMAIN FlattenSeq(parts)
    BY <1>14
  <2> QED
    BY <2>3, <2>4, <2>5 DEF Has
<1> QED
  BY <1>10, <1>11, <1>15 DEF T

\* The entries of the groups selected.
Chosen(o, es) == {k \in DOMAIN es : \E g \in groups(o) \ Envelope : es[k].name = <<g>>}

\* What a line shows, and the keys it has.
LEMMA LineShows ==
    ASSUME Sound, NEW o, o.fields \in Seq(Seq(STRING)), NEW x, NEW exploded, NEW hide,
           Fits(o, x, exploded, hide), NEW line,
           line = write_one_tls_record(o, grouped_entries(heap[x].entries), exploded)
    PROVE  /\ Shows(Tokens(o), line, KeptAt(o, heap[x].entries, Chosen(o, heap[x].entries) \ hide))
           /\ \A g \in Envelope \intersect groups(o) : Has(line, Token("key", <<g>>, 0))
<1> DEFINE es == heap[x].entries
           grouped == grouped_entries(es)
           order == generic_group_order(o)
           parts == [i \in DOMAIN order |-> write_group(o, grouped, exploded, order[i])]
           sets == [i \in DOMAIN order |-> KeptAt(o, es, Named(es, order[i]) \ hide)]
           n == Len(order)
           T == Tokens(o)
<1>0. x \in DOMAIN heap
  BY DEF Fits
<1>1. line = Punct("{") \o EnvelopeKeys(o) \o FlattenSeq(parts) \o Punct("}")
  BY DEF write_one_tls_record, EnvelopeKeys, EnvelopePart
<1>2. /\ order \in Seq(KeysOf(o)) /\ DOMAIN order = 1 .. n /\ n \in Nat
      /\ \A i, j \in DOMAIN order : order[i] = order[j] => i = j
      /\ \A i \in DOMAIN order : \E g \in groups(o) \ Envelope : order[i] = <<g>>
      /\ \A g \in groups(o) \ Envelope : \E i \in DOMAIN order : order[i] = <<g>>
  BY GroupOrder
<1>3. ASSUME NEW i \in 1 .. n
      PROVE  Shows(T, write_group(o, grouped, exploded, order[i]),
                   KeptAt(o, es, Named(es, order[i]) \ hide))
  <2>1. PICK group \in KeysOf(o) : group = order[i]
    BY <1>2
  <2>2. Shows(T, write_group(o, grouped, exploded, group), KeptAt(o, es, Named(es, group) \ hide))
    BY GroupShows
  <2> QED
    BY <2>1, <2>2
<1> HIDE DEF order
<1>4. parts = [i \in 1 .. n |-> parts[i]]
      /\ \A i \in 1 .. n : parts[i] = write_group(o, grouped, exploded, order[i])
  BY <1>2
<1>5. \A i \in 1 .. n : sets[i] = KeptAt(o, es, Named(es, order[i]) \ hide)
  BY <1>2
<1> HIDE DEF parts, sets, n, grouped, T
<1>6. ASSUME NEW i \in 1 .. n, NEW j \in 1 .. n, i < j PROVE Separate(sets[i], sets[j])
  <2>0. i # j /\ i \in DOMAIN order /\ j \in DOMAIN order
    BY <1>2, <1>6
  <2>1. order[i] # order[j]
    BY <1>2, <2>0, Zenon
  <2>2. Separate(KeptAt(o, es, Named(es, order[i])), KeptAt(o, es, Named(es, order[j])))
    BY <1>0, <2>1, NamesApart
  <2>3. \A K : KeptAt(o, es, K \ hide) \subseteq KeptAt(o, es, K)
    <3> HIDE DEF es
    <3> QED
      BY DEF KeptAt
  <2>4. /\ sets[i] \subseteq KeptAt(o, es, Named(es, order[i]))
        /\ sets[j] \subseteq KeptAt(o, es, Named(es, order[j]))
    <3>1. PICK K, L : K = Named(es, order[i]) /\ L = Named(es, order[j])
      OBVIOUS
    <3>2. sets[i] = KeptAt(o, es, K \ hide) /\ sets[j] = KeptAt(o, es, L \ hide)
      BY <1>5, <3>1
    <3>3. /\ KeptAt(o, es, K \ hide) \subseteq KeptAt(o, es, K)
          /\ KeptAt(o, es, L \ hide) \subseteq KeptAt(o, es, L)
      BY <2>3
    <3> QED
      BY <3>1, <3>2, <3>3
  <2> QED
    BY <2>2, <2>4 DEF Separate
<1>7. Parted(T, parts, n, sets)
  BY <1>2, <1>3, <1>4, <1>5, <1>6 DEF Parted
<1>8. Shows(T, FlattenSeq(parts), UNION {sets[i] : i \in 1 .. n})
  BY <1>7, ShowsAll
<1> HIDE DEF es
<1>9. UNION {sets[i] : i \in 1 .. n} = KeptAt(o, es, Chosen(o, es) \ hide)
  <2>1. ASSUME NEW i \in 1 .. n, NEW v \in sets[i] PROVE v \in KeptAt(o, es, Chosen(o, es) \ hide)
    <3>1. v \in KeptAt(o, es, Named(es, order[i]) \ hide)
      BY <1>5
    <3>2. PICK k \in Named(es, order[i]) \ hide : v \in KeptOf(o, es[k].at)
      BY <3>1 DEF KeptAt
    <3>3. k \in Chosen(o, es) \ hide
      BY <1>2, <3>2 DEF Named, Chosen
    <3> QED
      BY <3>2, <3>3 DEF KeptAt
  <2>2. ASSUME NEW v \in KeptAt(o, es, Chosen(o, es) \ hide) PROVE \E i \in 1 .. n : v \in sets[i]
    <3>1. PICK k \in Chosen(o, es) \ hide : v \in KeptOf(o, es[k].at)
      BY DEF KeptAt
    <3>2. PICK i \in 1 .. n : order[i] = es[k].name
      BY <1>2 DEF Chosen
    <3>3. k \in Named(es, order[i]) \ hide
      BY <3>1, <3>2 DEF Named, Chosen
    <3>4. v \in KeptAt(o, es, Named(es, order[i]) \ hide)
      BY <3>1, <3>3 DEF KeptAt
    <3> QED
      BY <1>5, <3>4
  <2> QED
    BY <2>1, <2>2
<1>10. PICK S, middle : S = KeptAt(o, es, Chosen(o, es) \ hide) /\ middle = FlattenSeq(parts)
  OBVIOUS
<1>11. Shows(T, middle, S)
  BY <1>8, <1>9, <1>10
<1>12. /\ Shows(T, Punct("{"), {}) /\ Shows(T, Punct("}"), {}) /\ Shows(T, EnvelopeKeys(o), {})
       /\ \A g \in Envelope \intersect groups(o) : Has(EnvelopeKeys(o), Token("key", <<g>>, 0))
  BY PunctShows, EnvelopeShows DEF T
<1>13. PICK front : front = Punct("{") \o EnvelopeKeys(o)
  OBVIOUS
<1>14. Shows(T, front, {})
  BY <1>12, <1>13, ShowsBehind
<1>15. Shows(T, front \o middle \o Punct("}"), S)
  BY <1>11, <1>12, <1>14, ShowsBetween
<1>16. ASSUME NEW g \in Envelope \intersect groups(o)
       PROVE  Has(front \o middle \o Punct("}"), Token("key", <<g>>, 0))
  <2>1. PICK v : v = Token("key", <<g>>, 0)
    OBVIOUS
  <2>2. /\ Punct("{") \in Seq(T) /\ EnvelopeKeys(o) \in Seq(T) /\ middle \in Seq(T)
        /\ Punct("}") \in Seq(T) /\ Has(EnvelopeKeys(o), v)
    BY <1>11, <1>12, <2>1 DEF Shows
  <2>3. front \in Seq(T) /\ Has(front, v)
    BY <1>13, <2>2, HasEither
  <2>4. PICK most : most = front \o middle
    OBVIOUS
  <2>5. most \in Seq(T) /\ Has(most, v)
    BY <2>2, <2>3, <2>4, HasEither
  <2>6. Has(most \o Punct("}"), v)
    BY <2>2, <2>5, HasEither
  <2> QED
    BY <2>1, <2>4, <2>6
<1>17. line = front \o middle \o Punct("}")
  BY <1>1, <1>10, <1>13
<1> QED
  BY <1>10, <1>15, <1>16, <1>17 DEF T, es

\* The line for an exploded entry, and the lines of a record: one, or one for each
\* entry of the exploded group.
LineFor(o, x, exploded) == write_one_tls_record(o, grouped_entries(heap[x].entries), exploded)
RecordLines(o, x, lines) ==
    \/ Named(heap[x].entries, o.explode) = {} /\ lines = <<LineFor(o, x, << >>)>>
    \/ /\ Named(heap[x].entries, o.explode) # {}
       /\ \E values : /\ Values(x, o.explode, values)
                      /\ lines = [i \in DOMAIN values |-> LineFor(o, x, <<values[i]>>)]

LEMMA RecordIs ==
    ASSUME Sound, NEW o, NEW x \in DOMAIN heap
    PROVE  RecordLines(o, x, write_tls_record(o, x))
<1> DEFINE es == heap[x].entries
           grouped == grouped_entries(es)
           found == FindGroup(grouped, o.explode)
           Line(exploded) == LineFor(o, x, exploded)
<1>1. write_tls_record(o, x) =
         IF o.explode # None /\ found # 0
         THEN [i \in DOMAIN grouped[found].values |-> Line(<<grouped[found].values[i]>>)]
         ELSE <<Line(<< >>)>>
  BY DEF write_tls_record, LineFor
<1>2. /\ Grouped(es, grouped) /\ grouped \in Seq(Group)
      /\ \A g \in DOMAIN grouped : /\ grouped[g].name \in Names
                                   /\ Values(x, grouped[g].name, grouped[g].values)
  BY GroupsOf
<1> HIDE DEF grouped
<1>3. \/ found = 0 /\ \A g \in DOMAIN grouped : grouped[g].name # o.explode
      \/ found \in DOMAIN grouped /\ found # 0 /\ grouped[found].name = o.explode
  BY <1>2, GroupFound
<1> HIDE DEF found
<1>4. CASE found \in DOMAIN grouped /\ found # 0 /\ grouped[found].name = o.explode
  <2>1. o.explode \in Names /\ Values(x, o.explode, grouped[found].values)
    BY <1>2, <1>4
  <2>2. o.explode # None
    BY <2>1, NamesAssumption
  <2>3. Named(es, o.explode) # {}
    BY <1>2, <1>4 DEF Grouped
  <2>4. write_tls_record(o, x) =
           [i \in DOMAIN grouped[found].values |-> Line(<<grouped[found].values[i]>>)]
    BY <1>1, <1>4, <2>2
  <2> HIDE DEF Line
  <2>5. \E values : /\ Values(x, o.explode, values)
                    /\ write_tls_record(o, x) = [i \in DOMAIN values |-> Line(<<values[i]>>)]
    BY <2>1, <2>4
  <2> QED
    BY <2>3, <2>5 DEF Line, RecordLines
<1>5. CASE found = 0 /\ \A g \in DOMAIN grouped : grouped[g].name # o.explode
  <2>1. Named(es, o.explode) = {}
    BY <1>2, <1>5 DEF Grouped, Named
  <2>2. write_tls_record(o, x) = <<Line(<< >>)>>
    BY <1>1, <1>5
  <2> QED
    BY <2>1, <2>2 DEF RecordLines
<1> QED
  BY <1>3, <1>4, <1>5

-----------------------------------------------------------------------------
(* The trees dissectors are called with are in no other tree.              *)

NotMade(r) == \A j \in DOMAIN log : log[j].made # r

RootsAtTop ==
    /\ root # 0 => NotMade(root)
    /\ \A i \in DOMAIN messages : messages[i].root # 0 => NotMade(messages[i].root)

\* A step that logs nothing and adds a message, whose tree was the running one.
LEMMA EmitsRoot ==
    ASSUME IInv, RootsAtTop, NEW f, NEW r, UNCHANGED log, root' = 0, r = 0 \/ r = root,
           messages' = Append(messages, [fields |-> f, root |-> r])
    PROVE  RootsAtTop'
<1> DEFINE m == [fields |-> f, root |-> r]
<1>1. messages \in Seq([fields : Nat, root : Nat])
  BY DEF IInv, MessagesCopied
<1>2. m.root = r
  OBVIOUS
<1> HIDE DEF m
<1>3. \A i \in DOMAIN messages' : \/ i \in DOMAIN messages /\ messages'[i] = messages[i]
                                  \/ messages'[i] = m
  BY <1>1 DEF m
<1>4. \A q : NotMade(q) => NotMade(q)'
  BY DEF NotMade
<1>5. ASSUME NEW i \in DOMAIN messages', messages'[i].root # 0 PROVE NotMade(messages[i].root)'
  <2>1. PICK q : q = messages'[i].root
    OBVIOUS
  <2>2. NotMade(q)
    BY <1>2, <1>3, <1>5, <2>1 DEF RootsAtTop
  <2>3. NotMade(q)'
    BY <1>4, <2>2
  <2> QED
    BY <2>1, <2>3 DEF NotMade
<1> QED
  BY <1>5 DEF RootsAtTop, NotMade

LEMMA RootsStay ==
    ASSUME IInv, RootsAtTop, [Next]_vars
    PROVE  RootsAtTop'
<1>0. /\ RootOwn /\ MessagesCopied /\ Len(heap) \in Nat /\ DOMAIN heap = 1 .. Len(heap)
      /\ \A i \in DOMAIN log : log[i].made # 0 => log[i].made \in DOMAIN heap
  BY DEF IInv, Sound, HeapFollowsLog
<1>1. CASE dispatch_add
  <2>1. PICK h, a : Adds(h, a)
    BY <1>1, DispatchAdds
  <2>2. /\ DOMAIN log = 1 .. Len(log) /\ DOMAIN log' = 1 .. Len(log) + 1 /\ Len(log) \in Nat
        /\ log'[Len(log) + 1] = a /\ \A i \in DOMAIN log : log'[i] = log[i]
    BY <2>1, AddsLog
  <2>3. a.made # 0 => a.made = Len(heap) + 1
    BY <2>1, AddsHeap
  <2>4. UNCHANGED <<root, messages>>
    BY <2>1 DEF Adds
  <2>5. ASSUME NEW r \in DOMAIN heap, NotMade(r) PROVE \A j \in DOMAIN log' : log'[j].made # r
    <3> SUFFICES ASSUME NEW j \in DOMAIN log' PROVE log'[j].made # r
      OBVIOUS
    <3>1. CASE j \in DOMAIN log
      BY <2>2, <2>5, <3>1 DEF NotMade
    <3>2. CASE j = Len(log) + 1
      BY <1>0, <2>2, <2>3, <3>2
    <3> QED
      BY <2>2, <3>1, <3>2
  <2>6. root # 0 => root \in DOMAIN heap
    BY <1>0 DEF RootOwn
  <2>7. \A i \in DOMAIN messages : messages[i].root # 0 => messages[i].root \in DOMAIN heap
    BY <1>0 DEF MessagesCopied
  <2>8. root' # 0 => NotMade(root)'
    BY <2>4, <2>5, <2>6 DEF RootsAtTop, NotMade
  <2>9. ASSUME NEW i \in DOMAIN messages', messages'[i].root # 0 PROVE NotMade(messages[i].root)'
    BY <2>4, <2>5, <2>7, <2>9 DEF RootsAtTop, NotMade
  <2> QED
    BY <2>8, <2>9 DEF RootsAtTop
<1>2. CASE CallDissector
  <2>1. UNCHANGED <<messages, log>> /\ root' = Len(heap) + 1
    BY <1>2 DEF CallDissector
  <2>2. \A j \in DOMAIN log : log[j].made # Len(heap) + 1
    BY <1>0
  <2> QED
    BY <2>1, <2>2 DEF RootsAtTop, NotMade
<1>3. CASE NoDissector \/ DissectorFails
  <2>1. PICK f, r : f = Len(heap) + 1 /\ r = 0
    OBVIOUS
  <2>2. UNCHANGED log /\ root' = 0 /\ messages' = Append(messages, [fields |-> f, root |-> r])
    BY <1>3, <2>1 DEF NoDissector, DissectorFails, Emit
  <2> QED
    BY <2>1, <2>2, EmitsRoot
<1>4. CASE DissectorReturns
  <2>1. PICK f, r : f = Len(heap) + 1 /\ r = root
    OBVIOUS
  <2>2. UNCHANGED log /\ root' = 0 /\ messages' = Append(messages, [fields |-> f, root |-> r])
    BY <1>4, <2>1 DEF DissectorReturns, CloneOut, Emit
  <2> QED
    BY <2>1, <2>2, EmitsRoot
<1>5. CASE WriteFrame
  BY <1>5 DEF WriteFrame, RootsAtTop, NotMade
<1>6. CASE UNCHANGED vars
  BY <1>6 DEF vars, RootsAtTop, NotMade
<1> QED
  BY <1>1, <1>2, <1>3, <1>4, <1>5, <1>6 DEF Next

-----------------------------------------------------------------------------
(* What the lines of a message show.                                       *)

\* A message as its writers find it.
Ready(m) ==
    /\ Sound
    /\ m.fields \in DOMAIN heap
    /\ Ats(m.fields) = BaseOf(m)
    /\ m.root # 0 => NotMade(m.root)

\* The adds at the top are those on its tree.
LEMMA TopsAre ==
    ASSUME NEW m, Ready(m)
    PROVE  /\ \A j \in BaseOf(m) : j \in DOMAIN log /\ Parent(j) = {}
           /\ {j \in AddsOf(m) : Parent(j) = {}} = BaseOf(m)
<1>0. Forest /\ BaseOf(m) \in SUBSET DOMAIN log
  BY DEF Ready, Sound, BaseOf
<1>1. AddsOf(m) = Reach(BaseOf(m)) /\ BaseOf(m) \subseteq Reach(BaseOf(m))
  BY <1>0, AddsAreReached, ReachClosed
<1>2. ASSUME NEW j \in BaseOf(m) PROVE Parent(j) = {}
  <2>1. j \in DOMAIN log /\ log[j].into = m.root
    BY DEF BaseOf
  <2>2. m.root # 0
    BY <1>0, <2>1, AddTyped
  <2> QED
    BY <2>1, <2>2 DEF Ready, NotMade, Parent
<1>3. ASSUME NEW j \in Reach(BaseOf(m)), j \notin BaseOf(m) PROVE Parent(j) # {}
  <2>1. PICK k \in Reach(BaseOf(m)) : log[k].made = log[j].into
    BY <1>0, <1>3, ReachBack
  <2>2. k \in DOMAIN log
    BY <1>0, ReachClosed
  <2> QED
    BY <2>1, <2>2 DEF Parent
<1> QED
  BY <1>0, <1>1, <1>2, <1>3

\* What is kept under some of them.
LEMMA UnderIs ==
    ASSUME NEW o, NEW m, Ready(m), NEW S \in SUBSET BaseOf(m)
    PROVE  \A j : (j \in LeavesOf(m) /\ Kept(o, j) /\ Above(j) \intersect S # {})
                     <=> \E a \in S : j \in KeptOf(o, a)
<1>0. Forest /\ BaseOf(m) \in SUBSET DOMAIN log
  BY DEF Ready, Sound, BaseOf
<1>1. \A a \in S : a \in DOMAIN log /\ Parent(a) = {}
  BY TopsAre
<1>2. AddsOf(m) = Reach(BaseOf(m)) /\ Reach(BaseOf(m)) = UNION {Reach({a}) : a \in BaseOf(m)}
  BY <1>0, AddsAreReached, ReachEach
<1>3. ASSUME NEW j, j \in LeavesOf(m), Kept(o, j), NEW a \in Above(j) \intersect S
      PROVE  \E b \in S : j \in KeptOf(o, b)
  <2>1. j \in DOMAIN log /\ log[j].kind # "Tree"
    BY <1>3 DEF LeavesOf, AddsOf
  <2>2. j \in Reach({a})
    BY <1>0, <2>1, AboveIs DEF Reaching
  <2>3. KeptIn(o, a, j)
    BY <1>0, <1>1, <1>3, <2>2, KeptFromTop
  <2> QED
    BY <2>1, <2>2, <2>3 DEF KeptOf
<1>4. ASSUME NEW j, NEW a \in S, j \in KeptOf(o, a)
      PROVE  j \in LeavesOf(m) /\ Kept(o, j) /\ a \in Above(j)
  <2>1. j \in Reach({a}) /\ log[j].kind # "Tree" /\ KeptIn(o, a, j)
    BY <1>4 DEF KeptOf
  <2>2. j \in DOMAIN log
    BY <1>1, <2>1, ReachFurther
  <2>3. j \in LeavesOf(m)
    BY <1>2, <2>1 DEF LeavesOf
  <2>4. Kept(o, j)
    BY <1>0, <1>1, <2>1, KeptFromTop
  <2>5. a \in Above(j)
    BY <1>0, <1>1, <2>1, <2>2, AboveIs DEF Reaching
  <2> QED
    BY <2>3, <2>4, <2>5
<1> QED
  BY <1>3, <1>4

\* From what a line shows to the properties.
LEMMA ShownOnce ==
    ASSUME NEW T, NEW line, NEW S, Shows(T, line, S)
    PROVE  /\ ShowsOnce(line, S)
           /\ \A a, b \in ValuesAt(line) :
                 a < b /\ Siblings(line[a].at, line[b].at) => line[a].at < line[b].at
<1>1. DOMAIN line = 1 .. Len(line) /\ Len(line) \in Nat
  BY DEF Shows
<1>2. \A k : k \in ValuesAt(line) <=> k \in 1 .. Len(line) /\ line[k].t = "value"
  BY <1>1 DEF ValuesAt
<1>3. \A i : i \in S <=> \E p \in ValuesAt(line) : line[p].at = i
  BY <1>2 DEF Shows
<1>4. {line[k].at : k \in ValuesAt(line)} = S
  <2> HIDE DEF ValuesAt
  <2> QED
    BY <1>3
<1>5. ASSUME NEW j \in ValuesAt(line), NEW k \in ValuesAt(line), j < k
      PROVE  line[j].at # line[k].at /\ (Siblings(line[j].at, line[k].at) => line[j].at < line[k].at)
  BY <1>2, <1>5 DEF Shows
<1>6. ASSUME NEW j \in ValuesAt(line), NEW k \in ValuesAt(line), line[j].at = line[k].at PROVE j = k
  <2>1. j \in Nat /\ k \in Nat
    BY <1>1, <1>2
  <2>2. ~(j < k) /\ ~(k < j)
    BY <1>5, <1>6
  <2> QED
    BY <2>1, <2>2
<1> QED
  BY <1>4, <1>5, <1>6 DEF ShowsOnce

\* The adds of a message that a line may show, by the names NdjsonShowsEveryLeaf uses.
Under(o, m, S) == {j \in LeavesOf(m) : Kept(o, j) /\ Above(j) \intersect S # {}}
Selected(o, m) == {j \in BaseOf(m) : \E g \in groups(o) \ Envelope : log[j].name = <<g>>}
Split(o, m) == {j \in BaseOf(m) : log[j].name = o.explode}

\* A line shows what is kept under S, siblings in order, and has its envelope.
Good(o, m, line, S) ==
    /\ ShowsOnce(line, Under(o, m, S))
    /\ \A a, b \in ValuesAt(line) :
          a < b /\ Siblings(line[a].at, line[b].at) => line[a].at < line[b].at
    /\ \A g \in Envelope \intersect groups(o) : Has(line, Token("key", <<g>>, 0))

\* The entries of a message and the adds on its tree.
LEMMA TopEntries ==
    ASSUME NEW m, Ready(m)
    PROVE  LET es == heap[m.fields].entries
           IN  /\ \A k \in DOMAIN es : /\ es[k].at \in BaseOf(m) /\ es[k].at \in Nat /\ k \in Nat
                                       /\ es[k].name = log[es[k].at].name
               /\ \A j \in BaseOf(m) : \E k \in DOMAIN es : es[k].at = j
               /\ \A k, l \in DOMAIN es : k < l => es[k].at < es[l].at
               /\ \A k, l \in DOMAIN es : es[k].at = es[l].at => k = l
<1> DEFINE es == heap[m.fields].entries
<1>0. Sound /\ m.fields \in DOMAIN heap /\ Ats(m.fields) = BaseOf(m)
  BY DEF Ready
<1>1. \A k \in DOMAIN es : /\ es[k].at \in BaseOf(m) /\ es[k].at \in Nat /\ k \in Nat
                           /\ es[k].name = log[es[k].at].name
  BY <1>0, EntryIs, EntriesTyped
<1>2. \A j \in BaseOf(m) : \E k \in DOMAIN es : es[k].at = j
  BY <1>0 DEF Ats
<1>3. \A k, l \in DOMAIN es : k < l => es[k].at < es[l].at
  BY <1>0 DEF Sound, HeapFollowsLog, InOrder
<1> HIDE DEF es
<1>4. ASSUME NEW k \in DOMAIN es, NEW l \in DOMAIN es, es[k].at = es[l].at PROVE k = l
  <2>1. ~(k < l) /\ ~(l < k) /\ k \in Nat /\ l \in Nat
    BY <1>1, <1>3, <1>4
  <2> QED
    BY <2>1
<1> QED
  BY <1>1, <1>2, <1>3, <1>4 DEF es

\* A line that leaves out hide is good for the adds that are left.
LEMMA LineGood ==
    ASSUME NEW o, o.fields \in Seq(Seq(STRING)), NEW m, Ready(m), NEW exploded, NEW hide,
           Fits(o, m.fields, exploded, hide), NEW S \in SUBSET BaseOf(m),
           \A k \in DOMAIN heap[m.fields].entries :
               heap[m.fields].entries[k].at \in S <=> k \in Chosen(o, heap[m.fields].entries) \ hide
    PROVE  Good(o, m, LineFor(o, m.fields, exploded), S)
<1> DEFINE x == m.fields
           es == heap[x].entries
           K == Chosen(o, es) \ hide
<1>0. Sound
  BY DEF Ready
<1>1. PICK line : line = write_one_tls_record(o, grouped_entries(es), exploded)
  OBVIOUS
<1>2. /\ Shows(Tokens(o), line, KeptAt(o, es, K))
      /\ \A g \in Envelope \intersect groups(o) : Has(line, Token("key", <<g>>, 0))
  BY <1>0, <1>1, LineShows
<1>3. \A k \in K : k \in DOMAIN es
  BY DEF Chosen
<1>4. \A j \in S : \E k \in DOMAIN es : es[k].at = j
  BY TopEntries
<1>5. \A j : j \in Under(o, m, S) <=> \E a \in S : j \in KeptOf(o, a)
  BY UnderIs DEF Under
<1>6. \A k \in DOMAIN es : es[k].at \in S <=> k \in K
  OBVIOUS
<1> HIDE DEF K, es
<1>7. \A j : j \in KeptAt(o, es, K) <=> \E k \in K : j \in KeptOf(o, es[k].at)
  BY DEF KeptAt
<1>8. \A j : j \in KeptAt(o, es, K) <=> j \in Under(o, m, S)
  <2>1. ASSUME NEW j, NEW k \in K, j \in KeptOf(o, es[k].at) PROVE \E a \in S : j \in KeptOf(o, a)
    BY <1>3, <1>6, <2>1
  <2>2. ASSUME NEW j, NEW a \in S, j \in KeptOf(o, a) PROVE \E k \in K : j \in KeptOf(o, es[k].at)
    BY <1>4, <1>6, <2>2
  <2> QED
    BY <1>5, <1>7, <2>1, <2>2
<1>9. KeptAt(o, es, K) = Under(o, m, S)
  BY <1>8
<1>10. Shows(Tokens(o), line, Under(o, m, S))
  BY <1>2, <1>9
<1>11. Good(o, m, line, S)
  BY <1>2, <1>10, ShownOnce DEF Good
<1> QED
  BY <1>1, <1>11 DEF es, LineFor

\* The lines of a message: one, or one for each add of the exploded group.
Lined(o, m, lines) ==
    \/ /\ Split(o, m) = {} /\ Len(lines) = 1 /\ DOMAIN lines = {1}
       /\ Good(o, m, lines[1], Selected(o, m))
    \/ /\ Split(o, m) # {}
       /\ \E of \in [DOMAIN lines -> Split(o, m)] :
             /\ \A a, b \in DOMAIN lines : a < b => of[a] < of[b]
             /\ \A j \in Split(o, m) : \E n \in DOMAIN lines : of[n] = j
             /\ \A n \in DOMAIN lines :
                   Good(o, m, lines[n], Selected(o, m) \ (Split(o, m) \ {of[n]}))

LEMMA MessageShows ==
    ASSUME NEW o, o.fields \in Seq(Seq(STRING)), NEW m, Ready(m), NEW lines,
           lines = write_tls_record(o, m.fields)
    PROVE  Lined(o, m, lines)
<1> DEFINE x == m.fields
           es == heap[x].entries
           Line(exploded) == LineFor(o, x, exploded)
           N == Named(es, o.explode)
<1>0. Sound /\ x \in DOMAIN heap
  BY DEF Ready
<1>1. \A k \in DOMAIN es : Parent(es[k].at) = {}
  BY TopEntries, TopsAre
<1>2. /\ \A k \in DOMAIN es : /\ es[k].at \in BaseOf(m) /\ es[k].at \in Nat /\ k \in Nat
                              /\ es[k].name = log[es[k].at].name
      /\ \A j \in BaseOf(m) : \E k \in DOMAIN es : es[k].at = j
      /\ \A k, l \in DOMAIN es : k < l => es[k].at < es[l].at
      /\ \A k, l \in DOMAIN es : es[k].at = es[l].at => k = l
  BY TopEntries
<1>3. /\ \A k \in DOMAIN es : es[k].at \in Selected(o, m) <=> k \in Chosen(o, es)
      /\ \A k \in DOMAIN es : es[k].at \in Split(o, m) <=> k \in N
      /\ \A j \in Split(o, m) : \E k \in N : es[k].at = j
      /\ \A k \in N : k \in DOMAIN es
  <2>1. \A k \in DOMAIN es : es[k].at \in Selected(o, m) <=> k \in Chosen(o, es)
    BY <1>2 DEF Selected, Chosen
  <2>2. \A k \in DOMAIN es : es[k].at \in Split(o, m) <=> k \in N
    BY <1>2 DEF Split, Named
  <2>3. \A j \in Split(o, m) : j \in BaseOf(m)
    BY DEF Split
  <2>4. \A k \in N : k \in DOMAIN es
    BY DEF Named
  <2> QED
    BY <1>2, <2>1, <2>2, <2>3, <2>4
<1>4. Selected(o, m) \in SUBSET BaseOf(m)
  BY DEF Selected
<1>5. CASE N = {} /\ lines = <<Line(<< >>)>>
  <2>1. Split(o, m) = {}
    BY <1>3, <1>5
  <2>2. Fits(o, x, << >>, {})
    BY <1>0, <1>1, <1>5 DEF Fits
  <2>3. Good(o, m, Line(<< >>), Selected(o, m))
    <3>1. PICK hide, exploded : hide = {} /\ exploded = << >>
      OBVIOUS
    <3>2. \A k \in DOMAIN es : es[k].at \in Selected(o, m) <=> k \in Chosen(o, es) \ hide
      BY <1>3, <3>1
    <3>3. Fits(o, m.fields, exploded, hide)
      BY <2>2, <3>1
    <3>4. Good(o, m, Line(exploded), Selected(o, m))
      BY <1>4, <3>2, <3>3, LineGood
    <3> QED
      BY <3>1, <3>4
  <2> HIDE DEF Line
  <2>4. Len(lines) = 1 /\ DOMAIN lines = {1} /\ lines[1] = Line(<< >>)
    BY <1>5
  <2> QED
    BY <2>1, <2>3, <2>4 DEF Lined
<1>6. ASSUME N # {}, NEW values, Values(x, o.explode, values),
             lines = [i \in DOMAIN values |-> Line(<<values[i]>>)]
      PROVE  Lined(o, m, lines)
  <2>1. Split(o, m) # {}
    BY <1>3, <1>6
  <2>2. PICK at : Picks(es, N, values, at)
    BY <1>6 DEF Values
  <2>3. DOMAIN values = 1 .. Len(values)
    BY <1>6 DEF Values
  <2>4. /\ \A i \in DOMAIN values : at[i] \in N /\ values[i] = es[at[i]]
        /\ \A i, j \in DOMAIN values : i < j => at[i] < at[j]
        /\ \A k \in N : \E i \in DOMAIN values : at[i] = k
    <3> HIDE DEF N, es
    <3> QED
      BY <2>2, <2>3 DEF Picks
  <2> DEFINE of == [n \in DOMAIN values |-> es[at[n]].at]
  <2>5. DOMAIN lines = DOMAIN values /\ \A n \in DOMAIN values : lines[n] = Line(<<values[n]>>)
    <3> HIDE DEF Line
    <3> QED
      BY <1>6
  <2>6. \A n \in DOMAIN values : of[n] = es[at[n]].at
    OBVIOUS
  <2>7. of \in [DOMAIN lines -> Split(o, m)]
    BY <1>3, <2>4, <2>5
  <2> HIDE DEF of
  <2>8. ASSUME NEW a \in DOMAIN lines, NEW b \in DOMAIN lines, a < b PROVE of[a] < of[b]
    <3>1. PICK k, l : k = at[a] /\ l = at[b]
      OBVIOUS
    <3>2. k \in DOMAIN es /\ l \in DOMAIN es /\ k < l
      BY <1>3, <2>4, <2>5, <2>8, <3>1
    <3>3. es[k].at < es[l].at
      BY <1>2, <3>2
    <3> QED
      BY <2>5, <2>6, <3>1, <3>3
  <2>9. ASSUME NEW j \in Split(o, m) PROVE \E n \in DOMAIN lines : of[n] = j
    <3>1. PICK k \in N : es[k].at = j
      BY <1>3
    <3>2. PICK n \in DOMAIN values : at[n] = k
      BY <2>4
    <3> QED
      BY <2>5, <2>6, <3>1, <3>2
  <2>10. ASSUME NEW n \in DOMAIN lines
         PROVE  Good(o, m, lines[n], Selected(o, m) \ (Split(o, m) \ {of[n]}))
    <3>1. PICK k, exploded, hide, S : /\ k = at[n] /\ exploded = <<es[k]>> /\ hide = N \ {k}
                                      /\ S = Selected(o, m) \ (Split(o, m) \ {of[n]})
      OBVIOUS
    <3>2. k \in N /\ k \in DOMAIN es /\ values[n] = es[k] /\ of[n] = es[k].at
      BY <1>3, <2>4, <2>5, <2>6, <3>1
    <3>3. Fits(o, m.fields, exploded, hide)
      BY <1>0, <1>1, <3>1, <3>2 DEF Fits
    <3>4. ASSUME NEW l \in DOMAIN es PROVE es[l].at \in S <=> l \in Chosen(o, es) \ hide
      <4>1. es[l].at = of[n] <=> l = k
        BY <1>2, <3>2
      <4>2. /\ es[l].at \in Selected(o, m) <=> l \in Chosen(o, es)
            /\ es[l].at \in Split(o, m) <=> l \in N
        BY <1>3
      <4> HIDE DEF N, es
      <4> QED
        BY <3>1, <4>1, <4>2
    <3>5. S \in SUBSET BaseOf(m)
      BY <1>4, <3>1
    <3>6. Good(o, m, Line(exploded), S)
      BY <3>3, <3>4, <3>5, LineGood
    <3> HIDE DEF Line
    <3>7. lines[n] = Line(exploded)
      BY <2>5, <3>1, <3>2
    <3> QED
      BY <3>1, <3>6, <3>7
  <2> QED
    BY <2>1, <2>7, <2>8, <2>9, <2>10 DEF Lined
<1>7. RecordLines(o, x, lines)
  BY <1>0, RecordIs
<1> QED
  BY <1>5, <1>6, <1>7 DEF RecordLines

\* A message of a frame is ready.
LEMMA MessagesReady ==
    ASSUME IInv, RootsAtTop, NEW i \in DOMAIN messages
    PROVE  Ready(messages[i])
BY DEF IInv, MessagesCopied, RootsAtTop, Ready

\* For every dissector and every choice of groups, maps and exploded group, the
\* lines of a message show exactly what was recorded for it and is not collapsed,
\* each value once on each line it belongs to, and never without the envelope.
THEOREM NdjsonComplete == Spec => []NdjsonShowsEveryLeaf
<1>1. Init => IInv /\ RootsAtTop
  BY Initially DEF Init, RootsAtTop
<1>2. IInv /\ RootsAtTop /\ [Next]_vars => IInv' /\ RootsAtTop'
  BY Stepwise, RootsStay
<1>3. IInv /\ RootsAtTop => NdjsonShowsEveryLeaf
  <2> SUFFICES ASSUME IInv, RootsAtTop, NEW o \in Options, NEW i \in DOMAIN messages
               PROVE  LET m == messages[i]
                          lines == write_tls_record(o, m.fields)
                          tops == {j \in AddsOf(m) : Parent(j) = {}}
                          selected == {j \in tops : \E g \in groups(o) \ Envelope : log[j].name = <<g>>}
                          split == {j \in tops : log[j].name = o.explode}
                          under(S) == {j \in LeavesOf(m) : Kept(o, j) /\ Above(j) \intersect S # {}}
                      IN  /\ \/ split = {} /\ Len(lines) = 1 /\ ShowsOnce(lines[1], under(selected))
                             \/ /\ split # {}
                                /\ \E of \in [DOMAIN lines -> split] :
                                      /\ \A a, b \in DOMAIN lines : a < b => of[a] < of[b]
                                      /\ \A j \in split : \E n \in DOMAIN lines : of[n] = j
                                      /\ \A n \in DOMAIN lines :
                                            ShowsOnce(lines[n], under(selected \ (split \ {of[n]})))
                          /\ \A n \in DOMAIN lines : \A g \in Envelope \intersect groups(o) :
                                \E k \in DOMAIN lines[n] : lines[n][k] = Token("key", <<g>>, 0)
    BY DEF NdjsonShowsEveryLeaf
  <2> DEFINE m == messages[i]
             lines == write_tls_record(o, m.fields)
             tops == {j \in AddsOf(m) : Parent(j) = {}}
             selected == {j \in tops : \E g \in groups(o) \ Envelope : log[j].name = <<g>>}
             split == {j \in tops : log[j].name = o.explode}
             under(S) == {j \in LeavesOf(m) : Kept(o, j) /\ Above(j) \intersect S # {}}
  <2>1. Ready(m) /\ o.fields \in Seq(Seq(STRING))
    BY OptionsAssumption, MessagesReady
  <2>2. Lined(o, m, lines)
    <3> HIDE DEF m
    <3> QED
      BY <2>1, MessageShows
  <2>3. tops = BaseOf(m)
    BY <2>1, TopsAre
  <2>4. \A S : Under(o, m, S) = under(S)
    BY DEF Under
  <2> HIDE DEF m, lines, tops, under
  <2>5. selected = Selected(o, m) /\ split = Split(o, m)
    BY <2>3 DEF Selected, Split
  <2> HIDE DEF selected, split
  <2>6. \A line, S : Good(o, m, line, S) =>
           /\ ShowsOnce(line, under(S))
           /\ \A g \in Envelope \intersect groups(o) :
                 \E k \in DOMAIN line : line[k] = Token("key", <<g>>, 0)
    BY <2>4 DEF Good, Has
  <2>7. CASE split = {}
    <3>1. Len(lines) = 1 /\ DOMAIN lines = {1} /\ Good(o, m, lines[1], selected)
      BY <2>2, <2>5, <2>7 DEF Lined
    <3>2. /\ ShowsOnce(lines[1], under(selected))
          /\ \A g \in Envelope \intersect groups(o) :
                \E k \in DOMAIN lines[1] : lines[1][k] = Token("key", <<g>>, 0)
      BY <2>6, <3>1
    <3>3. \A n \in DOMAIN lines : n = 1
      BY <3>1
    <3> QED
      BY <2>7, <3>1, <3>2, <3>3 DEF m, lines, tops, selected, split, under
  <2>8. CASE split # {}
    <3>1. PICK of \in [DOMAIN lines -> split] :
               /\ \A a, b \in DOMAIN lines : a < b => of[a] < of[b]
               /\ \A j \in split : \E n \in DOMAIN lines : of[n] = j
               /\ \A n \in DOMAIN lines : Good(o, m, lines[n], selected \ (split \ {of[n]}))
      BY <2>2, <2>5, <2>8 DEF Lined
    <3>2. \A n \in DOMAIN lines : ShowsOnce(lines[n], under(selected \ (split \ {of[n]})))
      BY <2>6, <3>1
    <3>3. \A n \in DOMAIN lines : \A g \in Envelope \intersect groups(o) :
             \E k \in DOMAIN lines[n] : lines[n][k] = Token("key", <<g>>, 0)
      BY <2>6, <3>1
    <3>4. \E f \in [DOMAIN lines -> split] :
             /\ \A a, b \in DOMAIN lines : a < b => f[a] < f[b]
             /\ \A j \in split : \E n \in DOMAIN lines : f[n] = j
             /\ \A n \in DOMAIN lines : ShowsOnce(lines[n], under(selected \ (split \ {f[n]})))
      BY <3>1, <3>2
    <3> QED
      BY <2>8, <3>3, <3>4, Zenon DEF m, lines, tops, selected, split, under
  <2> QED
    BY <2>7, <2>8
<1> QED
  BY <1>1, <1>2, <1>3, PTL DEF Spec

\* For every dissector, both writers give the values of one field recorded on one
\* accumulator in the order recorded.
THEOREM SiblingsOrdered == Spec => []SiblingsInOrder
<1>1. Init => IInv /\ RootsAtTop
  BY Initially DEF Init, RootsAtTop
<1>2. IInv /\ RootsAtTop /\ [Next]_vars => IInv' /\ RootsAtTop'
  BY Stepwise, RootsStay
<1>3. IInv /\ RootsAtTop => SiblingsInOrder
  <2> SUFFICES ASSUME IInv, RootsAtTop, NEW i \in DOMAIN messages
               PROVE  /\ \A f \in Names :
                            LET vs == values_for(messages[i].fields, f)
                            IN  \A a, b \in DOMAIN vs : a < b /\ Siblings(vs[a], vs[b]) => vs[a] < vs[b]
                      /\ \A o \in Options :
                            LET lines == write_tls_record(o, messages[i].fields)
                            IN  \A n \in DOMAIN lines : \A a, b \in ValuesAt(lines[n]) :
                                   a < b /\ Siblings(lines[n][a].at, lines[n][b].at)
                                      => lines[n][a].at < lines[n][b].at
    BY DEF SiblingsInOrder, Siblings
  <2>1. PICK m : m = messages[i]
    OBVIOUS
  <2>2. Ready(m) /\ Sound /\ m.fields \in DOMAIN heap
    BY <2>1, MessagesReady DEF Ready
  <2>3. ASSUME NEW f \in Names, NEW vs, vs = values_for(m.fields, f),
               NEW a \in DOMAIN vs, NEW b \in DOMAIN vs, a < b, Siblings(vs[a], vs[b])
        PROVE  vs[a] < vs[b]
    <3>1. Lists(vs, LeafOf(f, Ats(m.fields)))
      BY <2>2, <2>3, ValuesListed
    <3>2. DOMAIN vs = 1 .. Len(vs)
      BY <3>1 DEF Lists
    <3> QED
      BY <2>3, <3>1, <3>2 DEF Lists, Siblings
  <2>4. ASSUME NEW o \in Options, NEW lines, lines = write_tls_record(o, m.fields),
               NEW n \in DOMAIN lines
        PROVE  \A a, b \in ValuesAt(lines[n]) :
                  a < b /\ Siblings(lines[n][a].at, lines[n][b].at) => lines[n][a].at < lines[n][b].at
    <3>1. o.fields \in Seq(Seq(STRING))
      BY OptionsAssumption
    <3>2. Lined(o, m, lines)
      BY <2>2, <2>4, <3>1, MessageShows
    <3>3. PICK S : Good(o, m, lines[n], S)
      BY <3>2 DEF Lined
    <3> QED
      BY <3>3 DEF Good
  <2> QED
    BY <2>1, <2>3, <2>4
<1> QED
  BY <1>1, <1>2, <1>3, PTL DEF Spec
=============================================================================
