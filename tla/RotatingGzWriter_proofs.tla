---------------------- MODULE RotatingGzWriter_proofs ----------------------
(***************************************************************************)
(* The rotated output, for every mode, count and number of restarts: what  *)
(* the chunks hold, which of them are whole, and that a whole one is never *)
(* touched again.                                                          *)
(***************************************************************************)
EXTENDS RotatingGzWriter, FoldLemmas, SequenceTheorems

-----------------------------------------------------------------------------
(* FlattenSeq of the community modules joins sequences end to end.         *)

\* g[i] joins the first i sequences of s, for i up to n.
JoinOne(s, g, i) == IF i = 1 THEN s[i] ELSE g[i - 1] \o s[i]
Joined(s, n, g) == g = [i \in 1 .. n |-> JoinOne(s, g, i)]

\* An entry of the table after the first is the one before it and a sequence.
LEMMA JoinedAt ==
    ASSUME NEW s, NEW n \in Nat, NEW g, Joined(s, n, g), NEW i \in Nat, i + 1 \in 1 .. n
    PROVE  g[i + 1] = IF i + 1 = 1 THEN s[i + 1] ELSE g[i] \o s[i + 1]
<1>1. g[i + 1] = JoinOne(s, g, i + 1)
  BY DEF Joined
<1>2. i + 1 - 1 = i
  OBVIOUS
<1> QED
  BY <1>1, <1>2 DEF JoinOne

\* Every sequence has such a table.
LEMMA JoinedExists ==
    ASSUME NEW s, NEW n \in Nat
    PROVE  \E g : Joined(s, n, g)
<1> DEFINE Table(k) == \E g : Joined(s, k, g)
           Tabled == {k \in Nat : Table(k)}
<1>1. Table(0)
  <2> DEFINE g == [i \in 1 .. 0 |-> s]
  <2>1. Joined(s, 0, g)
    BY DEF Joined
  <2> QED
    BY <2>1
<1>2. ASSUME NEW k \in Nat, Table(k)
      PROVE  Table(k + 1)
  <2>1. PICK g : Joined(s, k, g)
    BY <1>2
  <2> DEFINE h == [i \in 1 .. k + 1 |-> JoinOne(s, g, i)]
  <2>2. \A i \in 1 .. k : h[i] = g[i]
    BY <2>1 DEF Joined
  <2>3. \A i \in 1 .. k + 1 : i # 1 => i - 1 \in 1 .. k
    OBVIOUS
  <2>4. \A i \in 1 .. k + 1 : JoinOne(s, g, i) = JoinOne(s, h, i)
    <3> HIDE DEF h
    <3> QED
      BY <2>2, <2>3 DEF JoinOne
  <2>5. Joined(s, k + 1, h)
    BY <2>4 DEF Joined
  <2> QED
    BY <2>5
<1>3. 0 \in Tabled /\ \A k \in Nat : k \in Tabled => k + 1 \in Tabled
  <2> HIDE DEF Table
  <2> QED
    BY <1>1, <1>2
<1>4. n \in Tabled
  <2> HIDE DEF Tabled
  <2> QED
    BY <1>3, Induct
<1> QED
  BY <1>4

\* Two functions agree on the first n places.
SameUpTo(s, t, n) == \A i \in 1 .. n : s[i] = t[i]

\* The tables of two sequences agree as far as the sequences do.
LEMMA JoinedAgree ==
    ASSUME NEW s, NEW t, NEW n \in Nat, NEW k \in Nat, n <= k,
           SameUpTo(s, t, n),
           NEW g, NEW h, Joined(s, n, g), Joined(t, k, h)
    PROVE  SameUpTo(g, h, n)
<1> DEFINE Agree == {i \in Nat : i \in 1 .. n => g[i] = h[i]}
<1>1. 0 \in Agree
  OBVIOUS
<1>2. ASSUME NEW i \in Nat, i \in Agree
      PROVE  i + 1 \in Agree
  <2> SUFFICES ASSUME i + 1 \in 1 .. n PROVE g[i + 1] = h[i + 1]
    OBVIOUS
  <2>1. /\ g[i + 1] = IF i + 1 = 1 THEN s[i + 1] ELSE g[i] \o s[i + 1]
        /\ h[i + 1] = IF i + 1 = 1 THEN t[i + 1] ELSE h[i] \o t[i + 1]
    <3>1. i + 1 \in 1 .. k
      OBVIOUS
    <3> QED
      BY <3>1, JoinedAt
  <2>2. i + 1 # 1 => g[i] = h[i]
    BY <1>2
  <2> QED
    BY <2>1, <2>2 DEF SameUpTo
<1>3. \A i \in Nat : i \in Agree
  <2> HIDE DEF Agree
  <2> QED
    BY <1>1, <1>2, Induct
<1> QED
  BY <1>3 DEF SameUpTo

\* FlattenSeq is the last entry of a table.
LEMMA FlattenIsJoined ==
    ASSUME NEW s, Len(s) \in Nat \ {0}
    PROVE  \E g : Joined(s, Len(s), g) /\ FlattenSeq(s) = g[Len(s)]
<1> DEFINE g == CHOOSE f : Joined(s, Len(s), f)
<1>1. Joined(s, Len(s), g)
  BY JoinedExists
<1>2. FlattenSeq(s) = g[Len(s)]
  BY DEF FlattenSeq, Joined, JoinOne
<1> QED
  BY <1>1, <1>2

\* The joined sequences are a sequence of what they are sequences of.
LEMMA FlattenType ==
    ASSUME NEW T, NEW s \in Seq(Seq(T))
    PROVE  FlattenSeq(s) \in Seq(T)
<1>1. CASE Len(s) = 0
  BY <1>1 DEF FlattenSeq
<1>2. CASE Len(s) # 0
  <2>1. PICK g : Joined(s, Len(s), g) /\ FlattenSeq(s) = g[Len(s)]
    BY <1>2, FlattenIsJoined
  <2> DEFINE Typed == {i \in Nat : i \in 1 .. Len(s) => g[i] \in Seq(T)}
  <2>2. ASSUME NEW i \in Nat, i \in Typed
        PROVE  i + 1 \in Typed
    <3> SUFFICES ASSUME i + 1 \in 1 .. Len(s) PROVE g[i + 1] \in Seq(T)
      OBVIOUS
    <3>1. g[i + 1] = IF i + 1 = 1 THEN s[i + 1] ELSE g[i] \o s[i + 1]
      BY <2>1, JoinedAt
    <3>2. s[i + 1] \in Seq(T)
      BY ElementOfSeq
    <3>3. i + 1 # 1 => g[i] \in Seq(T)
      BY <2>2
    <3> QED
      BY <3>1, <3>2, <3>3
  <2>3. \A i \in Nat : i \in Typed
    <3>1. 0 \in Typed
      OBVIOUS
    <3> HIDE DEF Typed
    <3> QED
      BY <2>2, <3>1, Induct
  <2> QED
    BY <1>2, <2>1, <2>3
<1> QED
  BY <1>1, <1>2

\* One more sequence is joined to the end of the rest.
LEMMA FlattenAppend ==
    ASSUME NEW T, NEW s \in Seq(Seq(T)), NEW e \in Seq(T)
    PROVE  FlattenSeq(Append(s, e)) = FlattenSeq(s) \o e
<1> DEFINE t == Append(s, e)
<1>0. /\ Len(t) = Len(s) + 1 /\ Len(s) \in Nat /\ t[Len(s) + 1] = e
      /\ \A i \in 1 .. Len(s) : s[i] = t[i]
  OBVIOUS
<1> HIDE DEF t
<1>1. PICK h : Joined(t, Len(t), h) /\ FlattenSeq(t) = h[Len(t)]
  BY <1>0, FlattenIsJoined
<1>2. CASE Len(s) = 0
  <2>1. FlattenSeq(t) = e
    BY <1>0, <1>1, <1>2 DEF Joined, JoinOne
  <2>2. FlattenSeq(s) = s /\ s = << >>
    BY <1>2 DEF FlattenSeq
  <2> QED
    BY <2>1, <2>2 DEF t
<1>3. CASE Len(s) # 0
  <2>1. PICK g : Joined(s, Len(s), g) /\ FlattenSeq(s) = g[Len(s)]
    BY <1>0, <1>3, FlattenIsJoined
  <2>2. g[Len(s)] = h[Len(s)]
    <3>0. PICK n \in Nat, k \in Nat : n = Len(s) /\ k = Len(t) /\ n <= k
      BY <1>0
    <3>1. SameUpTo(s, t, n)
      BY <1>0, <3>0 DEF SameUpTo
    <3>2. Joined(s, n, g) /\ Joined(t, k, h)
      BY <1>1, <2>1, <3>0
    <3>3. SameUpTo(g, h, n)
      BY <3>0, <3>1, <3>2, JoinedAgree
    <3> QED
      BY <1>0, <1>3, <3>0, <3>3 DEF SameUpTo
  <2>3. h[Len(t)] = h[Len(s)] \o e
    <3>1. Len(s) + 1 \in 1 .. Len(t) /\ Len(s) + 1 # 1 /\ Len(t) \in Nat
      BY <1>0, <1>3
    <3>2. h[Len(s) + 1] = IF Len(s) + 1 = 1 THEN t[Len(s) + 1] ELSE h[Len(s)] \o t[Len(s) + 1]
      BY <1>0, <1>1, <3>1, JoinedAt
    <3> QED
      BY <1>0, <3>1, <3>2
  <2> QED
    BY <1>1, <2>1, <2>2, <2>3 DEF t
<1> QED
  BY <1>2, <1>3
-----------------------------------------------------------------------------
(* What each operation does to the files.                                  *)

\* What a chunk is: a path, the messages its encoder was given, and whether the
\* encoder was finished.
Chunk == [path : Nat \X Nat, holds : Seq(Nat), complete : BOOLEAN]

Held(files) == [i \in DOMAIN files |-> files[i].holds]

\* g is f, with its last file finished if it was not.
Finishing(f, g) ==
    /\ g \in Seq(Chunk) /\ Len(g) = Len(f)
    /\ \A i \in 1 .. Len(f) :
          \/ g[i] = f[i]
          \/ i = Len(f) /\ ~f[i].complete /\ g[i] = [f[i] EXCEPT !.complete = TRUE]

\* The fields of a file.
LEMMA ChunkFields ==
    ASSUME NEW c \in Chunk
    PROVE  c.path \in Nat \X Nat /\ c.holds \in Seq(Nat) /\ c.complete \in BOOLEAN
BY DEF Chunk

\* Files with the same fields are the same.
LEMMA ChunkEqual ==
    ASSUME NEW c \in Chunk, NEW d \in Chunk,
           c.path = d.path, c.holds = d.holds, c.complete = d.complete
    PROVE  c = d
BY DEF Chunk

\* A file finished is a file with the same path and messages.
LEMMA FinishOne ==
    ASSUME NEW c \in Chunk
    PROVE  LET d == [c EXCEPT !.complete = TRUE]
           IN  d \in Chunk /\ d.holds = c.holds /\ d.path = c.path /\ d.complete = TRUE
BY Zenon DEF Chunk

\* Finishing the last file, which was being written.
LEMMA FinishLast ==
    ASSUME NEW f \in Seq(Chunk), f # << >>, ~f[Len(f)].complete
    PROVE  Finishing(f, [f EXCEPT ![Len(f)].complete = TRUE])
<1> DEFINE d == [f[Len(f)] EXCEPT !.complete = TRUE]
<1>1. Len(f) \in 1 .. Len(f) /\ f[Len(f)] \in Chunk
  OBVIOUS
<1>2. d \in Chunk
  BY <1>1, FinishOne
<1>3. [f EXCEPT ![Len(f)].complete = TRUE] = [f EXCEPT ![Len(f)] = d]
  OBVIOUS
<1> HIDE DEF d
<1>4. /\ [f EXCEPT ![Len(f)] = d] \in Seq(Chunk)
      /\ Len([f EXCEPT ![Len(f)] = d]) = Len(f)
      /\ \A i \in 1 .. Len(f) : [f EXCEPT ![Len(f)] = d][i] = IF i = Len(f) THEN d ELSE f[i]
  BY <1>1, <1>2, ExceptSeq
<1> QED
  BY <1>1, <1>3, <1>4 DEF Finishing, d

\* Leaving the files alone.
LEMMA FinishNone ==
    ASSUME NEW f \in Seq(Chunk)
    PROVE  Finishing(f, f)
BY DEF Finishing

\* What the files hold is a sequence of sequences of messages.
LEMMA HeldType ==
    ASSUME NEW f \in Seq(Chunk)
    PROVE  /\ Held(f) \in Seq(Seq(Nat)) /\ Len(Held(f)) = Len(f)
           /\ \A i \in 1 .. Len(f) : Held(f)[i] = f[i].holds
<1>1. \A i \in 1 .. Len(f) : f[i] \in Chunk
  OBVIOUS
<1>2. \A i \in 1 .. Len(f) : f[i].holds \in Seq(Nat)
  BY <1>1, ChunkFields
<1> QED
  BY <1>2 DEF Held

\* Finishing a file does not change what is held.
LEMMA HeldFinishing ==
    ASSUME NEW f \in Seq(Chunk), NEW g, Finishing(f, g)
    PROVE  Held(g) = Held(f)
<1>1. \A i \in 1 .. Len(f) : f[i] \in Chunk
  OBVIOUS
<1>2. \A i \in 1 .. Len(f) : g[i].holds = f[i].holds
  BY <1>1, FinishOne DEF Finishing
<1>3. g \in Seq(Chunk) /\ Len(g) = Len(f) /\ DOMAIN g = 1 .. Len(f) /\ DOMAIN f = 1 .. Len(f)
  BY DEF Finishing
<1> QED
  BY <1>2, <1>3 DEF Held

\* One more file.
LEMMA HeldAppend ==
    ASSUME NEW f \in Seq(Chunk), NEW e \in Chunk
    PROVE  /\ Held(Append(f, e)) = Append(Held(f), e.holds)
           /\ FlattenSeq(Held(Append(f, e))) = FlattenSeq(Held(f)) \o e.holds
<1>0. e.holds \in Seq(Nat) /\ Len(f) \in Nat
  BY ChunkFields
<1>1. /\ Append(f, e) \in Seq(Chunk) /\ Len(Append(f, e)) = Len(f) + 1
      /\ \A i \in 1 .. Len(f) + 1 : Append(f, e)[i] = IF i <= Len(f) THEN f[i] ELSE e
  OBVIOUS
<1> DEFINE a == Held(Append(f, e))
           b == Append(Held(f), e.holds)
<1>2. a \in Seq(Seq(Nat)) /\ Len(a) = Len(f) + 1
      /\ \A i \in 1 .. Len(f) + 1 : a[i] = IF i <= Len(f) THEN f[i].holds ELSE e.holds
  <2> DEFINE g == Append(f, e)
  <2> HIDE DEF g
  <2>1. Held(g) \in Seq(Seq(Nat)) /\ Len(Held(g)) = Len(f) + 1
        /\ \A i \in 1 .. Len(f) + 1 : Held(g)[i] = g[i].holds
    BY <1>1, HeldType DEF g
  <2> QED
    BY <1>1, <2>1 DEF g
<1>3. b \in Seq(Seq(Nat)) /\ Len(b) = Len(f) + 1
      /\ \A i \in 1 .. Len(f) + 1 : b[i] = IF i <= Len(f) THEN f[i].holds ELSE e.holds
  <2>1. Held(f) \in Seq(Seq(Nat)) /\ Len(Held(f)) = Len(f)
        /\ \A i \in 1 .. Len(f) : Held(f)[i] = f[i].holds
    BY HeldType
  <2> DEFINE h == Held(f)
             m == e.holds
             T == Seq(Nat)
  <2> HIDE DEF h, m, T
  <2>2. h \in Seq(T) /\ m \in T /\ Len(h) = Len(f)
    BY <1>0, <2>1 DEF h, m, T
  <2>3. Append(h, m) \in Seq(T) /\ Len(Append(h, m)) = Len(f) + 1
        /\ \A i \in 1 .. Len(f) + 1 : Append(h, m)[i] = IF i <= Len(f) THEN h[i] ELSE m
    BY <2>2
  <2> QED
    BY <1>0, <2>1, <2>3 DEF h, m, T
<1>4. \A i \in 1 .. Len(f) + 1 : a[i] = b[i]
  <2> HIDE DEF a, b
  <2> QED
    BY <1>2, <1>3
<1>5. a = b
  <2> HIDE DEF a, b
  <2> QED
    BY <1>2, <1>3, <1>4, SeqEqual
<1> QED
  BY <1>0, <1>5, HeldType, FlattenAppend
\* What storing one message does to the file it is stored in.
StoredOne(c, m) == [c EXCEPT !.holds = Append(@, m)]

\* The file stays a file, its path and state the same.
LEMMA StoreOne ==
    ASSUME NEW c \in Chunk, NEW m \in Nat
    PROVE  /\ StoredOne(c, m) \in Chunk
           /\ StoredOne(c, m).holds = Append(c.holds, m)
           /\ StoredOne(c, m).path = c.path
           /\ StoredOne(c, m).complete = c.complete
<1>1. Append(c.holds, m) \in Seq(Nat)
  BY ChunkFields
<1> DEFINE h == Append(c.holds, m)
<1> HIDE DEF h
<1>2. StoredOne(c, m) = [c EXCEPT !.holds = h]
  BY DEF StoredOne, h
<1>3. h \in Seq(Nat)
  BY <1>1 DEF h
<1>4. /\ [c EXCEPT !.holds = h] \in Chunk /\ [c EXCEPT !.holds = h].holds = h
      /\ [c EXCEPT !.holds = h].path = c.path /\ [c EXCEPT !.holds = h].complete = c.complete
  BY <1>3 DEF Chunk
<1> QED
  BY <1>2, <1>4 DEF h

\* A message stored is the last of all that is held.
LEMMA StoreLast ==
    ASSUME NEW f \in Seq(Chunk), f # << >>, NEW m \in Nat
    PROVE  /\ Stored(f, m) \in Seq(Chunk) /\ Len(Stored(f, m)) = Len(f)
           /\ \A i \in 1 .. Len(f) - 1 : Stored(f, m)[i] = f[i]
           /\ Stored(f, m)[Len(f)] = StoredOne(f[Len(f)], m)
           /\ FlattenSeq(Held(Stored(f, m))) = Append(FlattenSeq(Held(f)), m)
<1> DEFINE n == Len(f)
           c == f[n]
           d == StoredOne(c, m)
           g == [f EXCEPT ![n] = d]
           front == SubSeq(f, 1, n - 1)
<1>1. n \in Nat /\ n \in 1 .. n /\ c \in Chunk
  OBVIOUS
<1>2. d \in Chunk /\ d.holds = Append(c.holds, m) /\ c.holds \in Seq(Nat)
  BY <1>1, StoreOne, ChunkFields
<1>3. Stored(f, m) = g
  BY <1>1 DEF Stored, StoredOne
<1> HIDE DEF d
<1>4. g \in Seq(Chunk) /\ Len(g) = n /\ \A i \in 1 .. n : g[i] = IF i = n THEN d ELSE f[i]
  BY <1>1, <1>2, ExceptSeq
<1>5. /\ front \in Seq(Chunk) /\ Len(front) = n - 1
      /\ \A i \in 1 .. n - 1 : front[i] = f[i]
  <2>1. \A i \in 1 .. n - 1 : f[i] \in Chunk
    OBVIOUS
  <2>2. front = [i \in 1 .. n - 1 |-> f[i]]
    BY <1>1
  <2> HIDE DEF front
  <2> QED
    BY <1>1, <2>1, <2>2
<1> HIDE DEF front, c, n
<1>6. f = Append(front, c)
  <2>1. /\ Append(front, c) \in Seq(Chunk) /\ Len(Append(front, c)) = n
        /\ \A i \in 1 .. n : Append(front, c)[i] = IF i = n THEN c ELSE f[i]
    BY <1>1, <1>5, AppendProperties
  <2> QED
    BY <1>1, <2>1, SeqEqual DEF c, n
<1> HIDE DEF g
<1>7. g = Append(front, d)
  <2>1. /\ Append(front, d) \in Seq(Chunk) /\ Len(Append(front, d)) = n
        /\ \A i \in 1 .. n : Append(front, d)[i] = IF i = n THEN d ELSE f[i]
    BY <1>1, <1>2, <1>5, AppendProperties
  <2> QED
    BY <1>4, <2>1, SeqEqual
<1>8. FlattenSeq(Held(g)) = Append(FlattenSeq(Held(f)), m)
  <2>1. PICK s \in Seq(Nat) : s = FlattenSeq(Held(front))
    BY <1>5, HeldType, FlattenType
  <2>2. FlattenSeq(Held(f)) = s \o c.holds /\ FlattenSeq(Held(g)) = s \o d.holds
    BY <1>1, <1>2, <1>5, <1>6, <1>7, <2>1, HeldAppend
  <2>3. PICK t \in Seq(Nat) : t = c.holds
    BY <1>2
  <2>4. s \o Append(t, m) = Append(s \o t, m)
    OBVIOUS
  <2> QED
    BY <1>2, <2>2, <2>3, <2>4
<1> QED
  BY <1>1, <1>3, <1>4, <1>8 DEF n, c, d

\* The file a rotation begins, given h.
NewFile(h) == [path |-> chunk_path(chunk_counter + 1), holds |-> h, complete |-> FALSE]

\* Opening a file and storing a message in it.
LEMMA StoreOpened ==
    ASSUME NEW f \in Seq(Chunk), NEW m \in Nat, chunk_counter \in Nat, clock \in Nat
    PROVE  /\ NewFile(<< >>) \in Chunk /\ NewFile(<<m>>) \in Chunk
           /\ Opened(f) = Append(f, NewFile(<< >>))
           /\ Stored(Opened(f), m) = Append(f, NewFile(<<m>>))
<1>1. NewFile(<< >>) \in Chunk /\ NewFile(<<m>>) \in Chunk
  BY DEF NewFile, Chunk, chunk_path
<1>2. Opened(f) = Append(f, NewFile(<< >>))
  BY DEF Opened, NewFile
<1> DEFINE e == NewFile(<< >>)
           g == Append(f, e)
           h == Append(f, NewFile(<<m>>))
<1>3. StoredOne(e, m) = NewFile(<<m>>)
  <2>1. Append(<< >>, m) = <<m>>
    OBVIOUS
  <2>2. /\ e.holds = << >> /\ e.path = NewFile(<<m>>).path
        /\ e.complete = FALSE /\ NewFile(<<m>>).complete = FALSE /\ NewFile(<<m>>).holds = <<m>>
    BY DEF NewFile
  <2>3. e \in Chunk
    BY <1>1
  <2> HIDE DEF e
  <2> QED
    <3>1. PICK c \in Chunk : c = NewFile(<<m>>)
      BY <1>1
    <3>2. PICK d \in Chunk : d = StoredOne(e, m)
      BY <2>3, StoreOne
    <3>3. d.holds = c.holds /\ d.path = c.path /\ d.complete = c.complete
      <4>1. d.holds = Append(e.holds, m) /\ d.path = e.path /\ d.complete = e.complete
        BY <2>3, <3>2, StoreOne
      <4>2. c.holds = Append(e.holds, m)
        BY <2>1, <2>2, <3>1, Zenon
      <4>3. c.path = e.path
        BY <2>2, <3>1, Zenon
      <4>4. c.complete = e.complete
        BY <2>2, <3>1, Zenon
      <4> QED
        BY <4>1, <4>2, <4>3, <4>4, Zenon
    <3>4. d = c
      BY <3>3, ChunkEqual
    <3> QED
      BY <3>1, <3>2, <3>4
<1> HIDE DEF e
<1>4. /\ g \in Seq(Chunk) /\ g # << >> /\ Len(g) = Len(f) + 1 /\ g[Len(g)] = e
      /\ \A i \in 1 .. Len(f) : g[i] = f[i]
  BY <1>1 DEF e
<1>5. /\ h \in Seq(Chunk) /\ Len(h) = Len(f) + 1 /\ h[Len(f) + 1] = NewFile(<<m>>)
      /\ \A i \in 1 .. Len(f) : h[i] = f[i]
  BY <1>1
<1> HIDE DEF g, h
<1>6. /\ Stored(g, m) \in Seq(Chunk) /\ Len(Stored(g, m)) = Len(f) + 1
      /\ \A i \in 1 .. Len(f) : Stored(g, m)[i] = f[i]
      /\ Stored(g, m)[Len(f) + 1] = NewFile(<<m>>)
  BY <1>3, <1>4, StoreLast
<1>7. Stored(g, m) = h
  BY <1>5, <1>6, SeqEqual
<1> QED
  BY <1>1, <1>2, <1>7 DEF g, h, e
-----------------------------------------------------------------------------
(* The invariant.                                                          *)

Typed ==
    /\ rotate_by \in RotateBy
    /\ current \in [written : Nat, age : Nat] \union {None}
    /\ chunk_counter \in Nat
    /\ chunks \in Seq(Chunk)
    /\ written \in Nat
    /\ stopped \in {"no", "clean", "error"}
    /\ clock \in Nat /\ started \in Nat
    /\ earlier \in SUBSET Chunk

\* The open chunk is the last one, is not finished, and messages_written is what
\* it holds, one message at least.
OpenIsLast ==
    current # None =>
        /\ stopped = "no" /\ chunks # << >>
        /\ ~chunks[Len(chunks)].complete
        /\ current.written = Len(chunks[Len(chunks)].holds)
        /\ current.written >= 1

\* A chunk is stamped with a second that has come, and one of an earlier process
\* with one no later than that in which this process began.
StampsInPast ==
    /\ started <= clock
    /\ \A f \in earlier : f.path[2] <= started
    /\ \A i \in DOMAIN chunks : chunks[i].path[2] <= clock

Inv ==
    /\ Typed /\ OpenIsLast /\ StampsInPast
    /\ ChunksConcatenate /\ ChunksAreFull /\ OnlyOpenIsIncomplete

\* The messages a chunk holds when it is full.
FullLen == IF rotate_by.n = 0 THEN 1 ELSE rotate_by.n

\* A finished chunk of this process is still there.
WholeStay == \A f \in Range(chunks) : f.complete => f \in Range(chunks')

\* What OnlyOpenIsIncomplete says whether or not the process has stopped.
AllButLastWhole == \A i \in 1 .. Len(chunks) - 1 : chunks[i].complete

\* The part of the invariant that is about the files alone.
FilesOK ==
    /\ chunks \in Seq(Chunk)
    /\ \A i \in DOMAIN chunks : chunks[i].path[2] <= clock
    /\ ChunksAreFull
    /\ AllButLastWhole

\* Finishing the open chunk, or none.
LEMMA FinishingKeeps ==
    ASSUME Inv, Finishing(chunks, chunks'), rotate_by' = rotate_by, written' = written,
           clock' \in Nat, clock <= clock'
    PROVE  FilesOK' /\ ChunksConcatenate' /\ WholeStay
<1>1. /\ chunks \in Seq(Chunk) /\ clock \in Nat
      /\ chunks' \in Seq(Chunk) /\ Len(chunks') = Len(chunks) /\ Len(chunks) \in Nat
      /\ DOMAIN chunks = 1 .. Len(chunks) /\ DOMAIN chunks' = 1 .. Len(chunks)
  BY DEF Inv, Typed, Finishing
<1>2. ASSUME NEW i \in 1 .. Len(chunks)
      PROVE  /\ chunks[i] \in Chunk /\ chunks'[i] \in Chunk
             /\ chunks'[i].holds = chunks[i].holds /\ chunks'[i].path = chunks[i].path
             /\ chunks[i].complete => chunks'[i] = chunks[i]
  <2>1. chunks[i] \in Chunk /\ chunks'[i] \in Chunk
    BY <1>1
  <2>2. \/ chunks'[i] = chunks[i]
        \/ ~chunks[i].complete /\ chunks'[i] = [chunks[i] EXCEPT !.complete = TRUE]
    BY DEF Finishing
  <2> QED
    BY <2>1, <2>2, FinishOne
<1>3. ChunksConcatenate'
  <2>1. Held(chunks)' = Held(chunks)
    <3>1. PICK g : g = chunks'
      OBVIOUS
    <3>2. Held(g) = Held(chunks)
      BY <1>1, <3>1, HeldFinishing
    <3> QED
      BY <3>1, <3>2 DEF Held
  <2> QED
    BY <2>1 DEF Inv, ChunksConcatenate, Held
<1>4. ChunksAreFull'
  BY <1>1, <1>2 DEF Inv, ChunksAreFull
<1>5. WholeStay
  BY <1>1, <1>2 DEF WholeStay, Range
<1>6. AllButLastWhole'
  <2>1. \A i \in 1 .. Len(chunks) - 1 : i \in 1 .. Len(chunks) /\ chunks[i].complete
    BY <1>1 DEF Inv, OnlyOpenIsIncomplete
  <2> QED
    BY <1>1, <1>2, <2>1 DEF AllButLastWhole
<1>7. \A i \in DOMAIN chunks' : chunks'[i].path[2] <= clock'
  <2> SUFFICES ASSUME NEW i \in 1 .. Len(chunks) PROVE chunks'[i].path[2] <= clock'
    BY <1>1
  <2>1. chunks[i].path \in Nat \X Nat /\ chunks[i].path[2] <= clock
    BY <1>1, <1>2, ChunkFields DEF Inv, StampsInPast
  <2> QED
    BY <1>1, <1>2, <2>1
<1> QED
  BY <1>1, <1>3, <1>4, <1>5, <1>6, <1>7 DEF FilesOK

\* Rotation finishes every chunk there is.
LEMMA RotationFinishes ==
    ASSUME Inv, stopped = "no"
    PROVE  /\ Finishing(chunks, Finished(chunks))
           /\ \A i \in 1 .. Len(chunks) : Finished(chunks)[i].complete
<1>1. chunks \in Seq(Chunk)
  BY DEF Inv, Typed
<1>2. CASE current = None
  <2>1. chunks = << >>
    BY <1>2 DEF Inv, OnlyOpenIsIncomplete
  <2> QED
    <3>1. Finished(chunks) = chunks /\ Len(chunks) = 0
      BY <1>2, <2>1 DEF Finished
    <3>2. \A i \in 1 .. Len(chunks) : FALSE
      BY <3>1
    <3>3. Finishing(chunks, chunks)
      BY <1>1, FinishNone
    <3> QED
      BY <3>1, <3>2, <3>3
<1>3. CASE current # None
  <2>1. chunks # << >> /\ ~chunks[Len(chunks)].complete
    BY <1>3 DEF Inv, OpenIsLast
  <2> DEFINE g == Finished(chunks)
  <2>2. g = [chunks EXCEPT ![Len(chunks)].complete = TRUE]
    BY <1>3 DEF Finished
  <2>3. Finishing(chunks, g)
    BY <1>1, <2>1, <2>2, FinishLast
  <2>4. \A i \in 1 .. Len(chunks) - 1 : chunks[i].complete
    BY DEF Inv, OnlyOpenIsIncomplete
  <2>5. Len(chunks) \in 1 .. Len(chunks) /\ chunks[Len(chunks)] \in Chunk
    BY <1>1, <2>1
  <2>6. g[Len(chunks)].complete
    <3>1. g[Len(chunks)] = [chunks[Len(chunks)] EXCEPT !.complete = TRUE]
      <4>1. Len(chunks) \in DOMAIN chunks
        BY <1>1, <2>5
      <4> HIDE DEF g
      <4> QED
        BY <2>2, <4>1
    <3> HIDE DEF g
    <3> QED
      BY <2>5, <3>1, FinishOne
  <2>7. ASSUME NEW i \in 1 .. Len(chunks) - 1 PROVE g[i].complete
    <3>1. i \in 1 .. Len(chunks) /\ i # Len(chunks) /\ chunks[i].complete
      BY <1>1, <2>4
    <3> HIDE DEF g
    <3> QED
      BY <2>3, <3>1 DEF Finishing
  <2> QED
    BY <1>1, <2>3, <2>5, <2>6, <2>7
<1> QED
  BY <1>2, <1>3

\* Rotating by count, every chunk there is is full.
LEMMA RotationIsDue ==
    ASSUME Inv, stopped = "no", should_rotate, rotate_by.kind = "Count"
    PROVE  \A i \in 1 .. Len(chunks) : Len(chunks[i].holds) = FullLen
<1>1. /\ chunks \in Seq(Chunk) /\ Len(chunks) \in Nat /\ DOMAIN chunks = 1 .. Len(chunks)
      /\ rotate_by.n \in Nat
  BY DEF Inv, Typed, RotateBy
<1>2. \A i \in 1 .. Len(chunks) :
         /\ Len(chunks[i].holds) <= FullLen
         /\ i < Len(chunks) => Len(chunks[i].holds) = FullLen
  BY <1>1 DEF Inv, ChunksAreFull, FullLen
<1>3. CASE current = None
  BY <1>1, <1>3 DEF Inv, OnlyOpenIsIncomplete
<1>4. CASE current # None
  <2>1. /\ current.written = Len(chunks[Len(chunks)].holds) /\ current.written >= 1
        /\ current.written >= rotate_by.n /\ current.written \in Nat
        /\ Len(chunks) \in 1 .. Len(chunks)
    BY <1>1, <1>4 DEF Inv, Typed, OpenIsLast, should_rotate
  <2>2. current.written = FullLen
    BY <1>1, <1>2, <2>1 DEF FullLen
  <2>3. \A n \in Nat : \A i \in 1 .. n : i < n \/ i = n
    OBVIOUS
  <2>4. \A i \in 1 .. Len(chunks) : i < Len(chunks) \/ i = Len(chunks)
    BY <1>1, <2>3, Zenon
  <2> QED
    BY <1>2, <2>1, <2>2, <2>4
<1> QED
  BY <1>3, <1>4

\* Beginning a chunk after all others have been finished.
LEMMA AppendKeeps ==
    ASSUME Inv, stopped = "no", should_rotate, rotate_by' = rotate_by, clock' = clock,
           NEW e \in Chunk, e.path = chunk_path(chunk_counter + 1), Len(e.holds) <= 1,
           chunks' = Append(Finished(chunks), e)
    PROVE  /\ FilesOK' /\ WholeStay
           /\ FlattenSeq(Held(chunks')) = FlattenSeq(Held(chunks)) \o e.holds
           /\ chunks' # << >> /\ chunks'[Len(chunks')] = e
<1> DEFINE g == Finished(chunks)
           n == Len(chunks)
<1>1. Finishing(chunks, g) /\ \A i \in 1 .. n : g[i].complete
  BY RotationFinishes
<1> HIDE DEF g
<1>2. /\ chunks \in Seq(Chunk) /\ clock \in Nat /\ rotate_by \in RotateBy
      /\ n \in Nat /\ DOMAIN chunks = 1 .. n
  BY DEF Inv, Typed
<1>3. g \in Seq(Chunk) /\ Len(g) = n /\ Held(g) = Held(chunks)
  BY <1>1, <1>2, HeldFinishing DEF Finishing
<1>4. /\ chunks' \in Seq(Chunk) /\ Len(chunks') = n + 1 /\ DOMAIN chunks' = 1 .. n + 1
      /\ chunks' # << >> /\ chunks'[n + 1] = e
      /\ \A i \in 1 .. n : chunks'[i] = g[i]
  BY <1>3 DEF g
<1>5. FlattenSeq(Held(chunks')) = FlattenSeq(Held(chunks)) \o e.holds
  BY <1>3, HeldAppend DEF g
<1>6. ASSUME NEW i \in 1 .. n
      PROVE  /\ chunks[i] \in Chunk /\ chunks[i].holds = g[i].holds /\ chunks[i].path = g[i].path
             /\ chunks[i].complete => chunks[i] = g[i]
  <2>1. chunks[i] \in Chunk
    BY <1>2
  <2>2. \/ g[i] = chunks[i]
        \/ ~chunks[i].complete /\ g[i] = [chunks[i] EXCEPT !.complete = TRUE]
    BY <1>1 DEF Finishing
  <2> QED
    BY <2>1, <2>2, FinishOne
<1>7. ChunksAreFull'
  <2> SUFFICES ASSUME rotate_by.kind = "Count",
                      NEW i \in 1 .. n + 1
               PROVE  /\ Len(chunks'[i].holds) <= FullLen
                      /\ i < n + 1 => Len(chunks'[i].holds) = FullLen
    BY <1>4 DEF ChunksAreFull, FullLen
  <2>1. FullLen \in Nat /\ FullLen >= 1
    BY <1>2 DEF FullLen, RotateBy
  <2>2. CASE i = n + 1
    BY <1>2, <1>4, <2>1, <2>2, ChunkFields
  <2>3. CASE i \in 1 .. n
    BY <1>2, <1>4, <1>6, <2>1, <2>3, RotationIsDue
  <2>4. i = n + 1 \/ i \in 1 .. n
    BY <1>2
  <2> QED
    BY <2>2, <2>3, <2>4
<1>8. \A i \in DOMAIN chunks' : chunks'[i].path[2] <= clock'
  <2> SUFFICES ASSUME NEW i \in 1 .. n + 1 PROVE chunks'[i].path[2] <= clock
    BY <1>4
  <2>1. CASE i = n + 1
    BY <1>2, <1>4, <2>1 DEF chunk_path
  <2>2. CASE i \in 1 .. n
    BY <1>2, <1>4, <1>6, <2>2 DEF Inv, StampsInPast
  <2>3. i = n + 1 \/ i \in 1 .. n
    BY <1>2
  <2> QED
    BY <2>1, <2>2, <2>3
<1>9. AllButLastWhole'
  BY <1>1, <1>2, <1>4 DEF AllButLastWhole
<1>10. WholeStay
  <2> SUFFICES ASSUME NEW i \in 1 .. n, chunks[i].complete
               PROVE  chunks[i] \in Range(chunks')
    BY <1>2 DEF WholeStay, Range
  <2>1. chunks[i] = chunks'[i] /\ i \in DOMAIN chunks'
    BY <1>2, <1>4, <1>6
  <2> QED
    BY <2>1 DEF Range
<1> QED
  BY <1>4, <1>5, <1>7, <1>8, <1>9, <1>10 DEF FilesOK
-----------------------------------------------------------------------------
(* Steps.                                                                  *)

\* What no step of the running process changes.
Fixed == UNCHANGED <<rotate_by, clock, started>>

\* A file of an earlier process goes only if it was made in the second this one
\* was started in.
EarlierStay == \A f \in earlier : f \in earlier' \/ f.path[2] = started

\* File::create takes no older file's path.
LEMMA CreateSpares ==
    ASSUME Inv, Created
    PROVE  earlier' \in SUBSET earlier /\ EarlierStay
<1>1. earlier' \in SUBSET earlier
  BY DEF Created
<1>2. ASSUME NEW f \in earlier, f \notin earlier'
      PROVE  f.path[2] = started
  <2>1. f.path = <<chunk_counter + 1, clock>>
    BY <1>2 DEF Created, chunk_path
  <2>2. f.path[2] = clock
    BY <2>1
  <2>3. clock \in Nat /\ started \in Nat /\ started <= clock /\ f.path[2] <= started
    BY DEF Inv, Typed, StampsInPast
  <2> QED
    BY <2>2, <2>3
<1> QED
  BY <1>1, <1>2 DEF EarlierStay

\* The messages 1, ..., n and the next one are the messages 1, ..., n + 1.
LEMMA OneMore ==
    ASSUME NEW n \in Nat
    PROVE  /\ [m \in 1 .. n |-> m] \in Seq(Nat)
           /\ [m \in 1 .. n + 1 |-> m] = Append([m \in 1 .. n |-> m], n + 1)
           /\ [m \in 1 .. n + 1 |-> m] = [m \in 1 .. n |-> m] \o <<n + 1>>
<1> DEFINE a == [m \in 1 .. n |-> m]
           b == [m \in 1 .. n + 1 |-> m]
<1>1. a \in Seq(Nat) /\ Len(a) = n /\ b \in Seq(Nat) /\ Len(b) = n + 1
  OBVIOUS
<1>2. \A i \in 1 .. n + 1 : b[i] = Append(a, n + 1)[i]
  OBVIOUS
<1>3. Append(a, n + 1) \in Seq(Nat) /\ Len(Append(a, n + 1)) = n + 1
  BY <1>1
<1> HIDE DEF a, b
<1>4. b = Append(a, n + 1)
  BY <1>1, <1>2, <1>3, SeqEqual
<1>5. Append(a, n + 1) = a \o <<n + 1>>
  BY <1>1, AppendIsConcat
<1> QED
  BY <1>1, <1>4, <1>5 DEF a, b

\* The process ends, by an error or at end of input, with nothing open.
LEMMA EndKeeps ==
    ASSUME Inv, Fixed, FilesOK', ChunksConcatenate', current' = None,
           stopped' = "error" \/ (stopped' = "clean" /\ \A i \in DOMAIN chunks' : chunks'[i].complete),
           chunk_counter' \in Nat, written' = written, earlier' \in SUBSET earlier
    PROVE  Inv'
<1>1. Typed'
  BY DEF Inv, Typed, FilesOK, Fixed
<1>2. OpenIsLast'
  BY DEF OpenIsLast
<1>3. StampsInPast'
  BY DEF Inv, StampsInPast, FilesOK, Fixed
<1>4. OnlyOpenIsIncomplete'
  BY DEF OnlyOpenIsIncomplete, FilesOK, AllButLastWhole
<1> QED
  BY <1>1, <1>2, <1>3, <1>4 DEF Inv, FilesOK

\* A message that begins a chunk.
LEMMA WriteRotates ==
    ASSUME Inv, Fixed, write_message, should_rotate
    PROVE  Inv' /\ WholeStay /\ EarlierStay
<1>1. /\ stopped = "no" /\ stopped' = "no" /\ written' = written + 1
      /\ chunk_counter' = chunk_counter + 1
      /\ chunks' = Stored(Opened(Finished(chunks)), written + 1)
      /\ current' = [written |-> 1, age |-> 0]
      /\ Created
  BY DEF write_message
<1>2. /\ written \in Nat /\ chunk_counter \in Nat /\ clock \in Nat
      /\ chunks \in Seq(Chunk) /\ earlier \in SUBSET Chunk /\ current' # None
  BY <1>1, NoneAssumption DEF Inv, Typed
<1>3. Finished(chunks) \in Seq(Chunk)
  BY <1>1, RotationFinishes DEF Finishing
<1>4. PICK e \in Chunk : e = NewFile(<<written + 1>>)
  BY <1>2, <1>3, StoreOpened
<1>5. chunks' = Append(Finished(chunks), e)
  BY <1>1, <1>2, <1>3, <1>4, StoreOpened
<1>6. /\ e.path = chunk_path(chunk_counter + 1) /\ e.holds = <<written + 1>>
      /\ ~e.complete /\ Len(e.holds) = 1
  BY <1>4 DEF NewFile
<1>7. /\ FilesOK' /\ WholeStay
      /\ FlattenSeq(Held(chunks')) = FlattenSeq(Held(chunks)) \o e.holds
      /\ chunks' # << >> /\ chunks'[Len(chunks')] = e
  <2>1. rotate_by' = rotate_by /\ clock' = clock /\ Len(e.holds) <= 1
    BY <1>6 DEF Fixed
  <2> QED
    BY <1>1, <1>5, <1>6, <2>1, AppendKeeps
<1>8. ChunksConcatenate'
  <2>1. FlattenSeq(Held(chunks)) = [m \in 1 .. written |-> m]
    BY DEF Inv, ChunksConcatenate, Held
  <2>2. FlattenSeq(Held(chunks')) = [m \in 1 .. written + 1 |-> m]
    BY <1>2, <1>6, <1>7, <2>1, OneMore
  <2> QED
    BY <1>1, <2>2 DEF ChunksConcatenate, Held
<1>9. OpenIsLast'
  BY <1>1, <1>6, <1>7 DEF OpenIsLast
<1>10. OnlyOpenIsIncomplete'
  BY <1>1, <1>2, <1>7 DEF OnlyOpenIsIncomplete, FilesOK, AllButLastWhole
<1>11. earlier' \in SUBSET earlier /\ EarlierStay
  BY <1>1, CreateSpares
<1>12. StampsInPast'
  BY <1>7, <1>11 DEF Inv, StampsInPast, FilesOK, Fixed
<1>13. Typed'
  BY <1>1, <1>2, <1>7, <1>11 DEF Inv, Typed, FilesOK, Fixed
<1> QED
  BY <1>7, <1>8, <1>9, <1>10, <1>11, <1>12, <1>13 DEF Inv, FilesOK

\* A place of a sequence is the last or one before it.
LEMMA LastOrBefore ==
    ASSUME NEW n \in Nat
    PROVE  \A i \in 1 .. n : i = n \/ i \in 1 .. n - 1
OBVIOUS

\* A message put in the chunk that is open.
LEMMA WriteStores ==
    ASSUME Inv, Fixed, write_message, ~should_rotate
    PROVE  Inv' /\ WholeStay /\ EarlierStay
<1> DEFINE n == Len(chunks)
           m == written + 1
<1>1. /\ stopped = "no" /\ stopped' = "no" /\ written' = m
      /\ chunks' = Stored(chunks, m)
      /\ current' = [current EXCEPT !.written = @ + 1]
      /\ chunk_counter' = chunk_counter /\ earlier' = earlier
  BY DEF write_message
<1>2. /\ current # None /\ current \in [written : Nat, age : Nat]
      /\ rotate_by.kind = "Count" => ~(current.written >= rotate_by.n)
  BY DEF should_rotate, Inv, Typed
<1>3. /\ chunks # << >> /\ ~chunks[n].complete /\ current.written = Len(chunks[n].holds)
  BY <1>2 DEF Inv, OpenIsLast
<1>4. /\ written \in Nat /\ m \in Nat /\ chunks \in Seq(Chunk) /\ n \in Nat /\ n >= 1
      /\ DOMAIN chunks = 1 .. n /\ chunks[n] \in Chunk /\ rotate_by \in RotateBy
  BY <1>3 DEF Inv, Typed
<1>5. /\ chunks' \in Seq(Chunk) /\ Len(chunks') = n /\ DOMAIN chunks' = 1 .. n /\ chunks' # << >>
      /\ \A i \in 1 .. n - 1 : chunks'[i] = chunks[i]
      /\ chunks'[n] = StoredOne(chunks[n], m)
      /\ FlattenSeq(Held(chunks')) = Append(FlattenSeq(Held(chunks)), m)
  <2>1. PICK g : g = chunks'
    OBVIOUS
  <2> HIDE DEF m
  <2>2. /\ g \in Seq(Chunk) /\ Len(g) = n
        /\ \A i \in 1 .. n - 1 : g[i] = chunks[i]
        /\ g[n] = StoredOne(chunks[n], m)
        /\ FlattenSeq(Held(g)) = Append(FlattenSeq(Held(chunks)), m)
    BY <1>1, <1>3, <1>4, <2>1, StoreLast
  <2>3. DOMAIN g = 1 .. n /\ g # << >>
    BY <1>4, <2>2
  <2> QED
    BY <2>1, <2>2, <2>3
<1> HIDE DEF n, m
<1>6. /\ chunks'[n].holds = Append(chunks[n].holds, m) /\ chunks'[n].path = chunks[n].path
      /\ ~chunks'[n].complete
  <2>1. PICK c \in Chunk : c = chunks[n]
    BY <1>4
  <2>2. PICK d : d = chunks'[n] /\ d = StoredOne(c, m)
    BY <1>5, <2>1
  <2>3. d.holds = Append(c.holds, m) /\ d.path = c.path /\ d.complete = c.complete
    <3>1. m \in Nat /\ d = StoredOne(c, m)
      BY <1>4, <2>2
    <3>2. /\ StoredOne(c, m).holds = Append(c.holds, m)
          /\ StoredOne(c, m).path = c.path /\ StoredOne(c, m).complete = c.complete
      BY <3>1, StoreOne
    <3> QED
      BY <3>1, <3>2, Zenon
  <2> QED
    BY <1>3, <2>1, <2>2, <2>3
<1>7. Len(chunks'[n].holds) = Len(chunks[n].holds) + 1 /\ Len(chunks[n].holds) \in Nat
  BY <1>4, <1>6, ChunkFields
<1>8. ChunksConcatenate'
  <2>1. FlattenSeq(Held(chunks)) = [k \in 1 .. written |-> k]
    BY DEF Inv, ChunksConcatenate, Held
  <2>2. FlattenSeq(Held(chunks')) = [k \in 1 .. written + 1 |-> k]
    BY <1>4, <1>5, <2>1, OneMore DEF m
  <2> QED
    BY <1>1, <2>2 DEF ChunksConcatenate, Held, m
<1>9. current' # None /\ current' \in [written : Nat, age : Nat] /\ current'.written = current.written + 1
  <2>1. PICK w \in Nat : w = current.written + 1
    BY <1>2
  <2>2. current' = [current EXCEPT !.written = w]
    BY <1>1, <2>1
  <2> QED
    BY <1>2, <2>1, <2>2, NoneAssumption
<1>10. OpenIsLast'
  BY <1>1, <1>2, <1>3, <1>5, <1>6, <1>7, <1>9 DEF OpenIsLast
<1>11. ChunksAreFull'
  <2> SUFFICES ASSUME rotate_by.kind = "Count",
                      NEW i \in 1 .. n
               PROVE  /\ Len(chunks'[i].holds) <= FullLen
                      /\ i < n => Len(chunks'[i].holds) = FullLen
    BY <1>5 DEF ChunksAreFull, FullLen, Fixed
  <2>1. rotate_by.n \in Nat /\ current.written \in Nat /\ current.written < rotate_by.n
    BY <1>2, <1>4 DEF RotateBy
  <2>2. CASE i = n
    BY <1>3, <1>7, <2>1, <2>2 DEF FullLen
  <2>3. CASE i \in 1 .. n - 1
    BY <1>4, <1>5, <2>3 DEF Inv, ChunksAreFull, FullLen, n
  <2>4. i = n \/ i \in 1 .. n - 1
    BY <1>4, LastOrBefore
  <2> QED
    BY <2>2, <2>3, <2>4
<1>12. OnlyOpenIsIncomplete'
  BY <1>1, <1>5, <1>9 DEF Inv, OnlyOpenIsIncomplete, n
<1>13. \A i \in DOMAIN chunks' : chunks'[i].path = chunks[i].path
  <2>1. \A i \in 1 .. n : i = n \/ i \in 1 .. n - 1
    BY <1>4, LastOrBefore
  <2> QED
    BY <1>5, <1>6, <2>1
<1>14. StampsInPast'
  BY <1>1, <1>4, <1>5, <1>13 DEF Inv, StampsInPast, Fixed
<1>15. Typed'
  BY <1>1, <1>4, <1>5, <1>9 DEF Inv, Typed, Fixed
<1>16. WholeStay
  <2> SUFFICES ASSUME NEW i \in 1 .. n, chunks[i].complete
               PROVE  chunks[i] \in Range(chunks')
    BY <1>4 DEF WholeStay, Range
  <2>1. i \in 1 .. n - 1
    BY <1>3, <1>4
  <2> QED
    BY <1>5, <2>1 DEF Range
<1>17. EarlierStay
  BY <1>1 DEF EarlierStay
<1> QED
  BY <1>8, <1>10, <1>11, <1>12, <1>14, <1>15, <1>16, <1>17 DEF Inv
\* Drop, finish and the failures end the process.
LEMMA StopKeeps ==
    ASSUME Inv, Fixed, FinishFails \/ CreateFails \/ WriteFails \/ Eof
    PROVE  Inv' /\ WholeStay /\ EarlierStay
<1>0. /\ chunk_counter \in Nat /\ written \in Nat /\ clock \in Nat /\ chunks \in Seq(Chunk)
      /\ rotate_by' = rotate_by /\ clock' = clock /\ clock' \in Nat /\ clock <= clock'
      /\ stopped = "no"
  BY DEF Inv, Typed, Fixed, FinishFails, CreateFails, WriteFails, Eof
<1>1. earlier' = earlier => earlier' \in SUBSET earlier /\ EarlierStay
  BY DEF EarlierStay
<1>2. CASE FinishFails
  <2>1. /\ chunks' = chunks /\ chunk_counter' = chunk_counter /\ written' = written
        /\ earlier' = earlier /\ stopped' = "error" /\ current' = None
    BY <1>2 DEF FinishFails
  <2>2. Finishing(chunks, chunks')
    BY <1>0, <2>1, FinishNone
  <2>3. FilesOK' /\ ChunksConcatenate' /\ WholeStay
    BY <1>0, <2>1, <2>2, FinishingKeeps
  <2> QED
    BY <1>0, <1>1, <2>1, <2>3, EndKeeps
<1>3. CASE CreateFails
  <2>1. /\ chunks' = Finished(chunks) /\ chunk_counter' = chunk_counter + 1 /\ written' = written
        /\ earlier' = earlier /\ stopped' = "error" /\ current' = None
    BY <1>3 DEF CreateFails
  <2>2. Finishing(chunks, chunks')
    BY <1>0, <2>1, RotationFinishes
  <2>3. FilesOK' /\ ChunksConcatenate' /\ WholeStay
    BY <1>0, <2>1, <2>2, FinishingKeeps
  <2>4. chunk_counter' \in Nat
    BY <1>0, <2>1
  <2> QED
    BY <1>1, <2>1, <2>3, <2>4, EndKeeps
<1>4. CASE Eof
  <2>1. /\ chunks' = Finished(chunks) /\ chunk_counter' = chunk_counter /\ written' = written
        /\ earlier' = earlier /\ stopped' = "clean" /\ current' = None
    BY <1>4 DEF Eof
  <2>2. Finishing(chunks, chunks') /\ \A i \in 1 .. Len(chunks) : chunks'[i].complete
    BY <1>0, <2>1, RotationFinishes
  <2>3. FilesOK' /\ ChunksConcatenate' /\ WholeStay
    BY <1>0, <2>1, <2>2, FinishingKeeps
  <2>4. \A i \in DOMAIN chunks' : chunks'[i].complete
    BY <2>2 DEF Finishing
  <2> QED
    BY <1>0, <1>1, <2>1, <2>3, <2>4, EndKeeps
<1>5. CASE WriteFails /\ ~should_rotate
  <2>1. /\ chunks' \in {chunks, [chunks EXCEPT ![Len(chunks)].complete = TRUE]}
        /\ chunk_counter' = chunk_counter /\ written' = written
        /\ earlier' = earlier /\ stopped' = "error" /\ current' = None
    BY <1>5 DEF WriteFails, DropWriter
  <2>2. chunks # << >> /\ ~chunks[Len(chunks)].complete
    BY <1>5 DEF should_rotate, Inv, OpenIsLast
  <2>3. Finishing(chunks, chunks')
    BY <1>0, <2>1, <2>2, FinishNone, FinishLast
  <2>4. FilesOK' /\ ChunksConcatenate' /\ WholeStay
    BY <1>0, <2>1, <2>3, FinishingKeeps
  <2> QED
    BY <1>0, <1>1, <2>1, <2>4, EndKeeps
<1>6. CASE WriteFails /\ should_rotate
  <2> DEFINE g == Finished(chunks)
             f == Opened(g)
  <2>1. /\ chunks' \in {f, [f EXCEPT ![Len(f)].complete = TRUE]}
        /\ chunk_counter' = chunk_counter + 1 /\ written' = written
        /\ Created /\ stopped' = "error" /\ current' = None
    BY <1>6 DEF WriteFails, DropWriter
  <2>2. g \in Seq(Chunk)
    BY <1>0, RotationFinishes DEF Finishing
  <2>3. PICK e \in Chunk : e = NewFile(<< >>) /\ f = Append(g, e)
    BY <1>0, <2>2, StoreOpened
  <2>4. e.path = chunk_path(chunk_counter + 1) /\ e.holds = << >>
    BY <2>3 DEF NewFile
  <2>5. PICK d \in Chunk : d.path = e.path /\ d.holds = e.holds /\ chunks' = Append(g, d)
    <3>1. CASE chunks' = f
      BY <2>3, <3>1
    <3>2. CASE chunks' = [f EXCEPT ![Len(f)].complete = TRUE]
      <4>1. PICK d \in Chunk : d = [e EXCEPT !.complete = TRUE]
        BY FinishOne
      <4>2. d.path = e.path /\ d.holds = e.holds
        BY <4>1, FinishOne
      <4> HIDE DEF f, g
      <4>3. f \in Seq(Chunk) /\ Len(f) = Len(g) + 1 /\ Len(g) \in Nat /\ f[Len(f)] = e
            /\ \A i \in 1 .. Len(g) : f[i] = g[i]
        BY <2>2, <2>3
      <4>4. chunks' = [f EXCEPT ![Len(f)] = d]
        BY <3>2, <4>1, <4>3
      <4>5. /\ chunks' \in Seq(Chunk) /\ Len(chunks') = Len(g) + 1
            /\ \A i \in 1 .. Len(g) + 1 : chunks'[i] = IF i = Len(f) THEN d ELSE f[i]
        <5>1. Len(f) \in 1 .. Len(f)
          BY <4>3
        <5> QED
          BY <4>3, <4>4, <5>1, ExceptSeq
      <4>6. chunks' = Append(g, d)
        <5>1. /\ Append(g, d) \in Seq(Chunk) /\ Len(Append(g, d)) = Len(g) + 1
              /\ \A i \in 1 .. Len(g) + 1 : Append(g, d)[i] = IF i = Len(g) + 1 THEN d ELSE g[i]
          BY <2>2
        <5>2. \A i \in 1 .. Len(g) + 1 : i = Len(g) + 1 \/ i \in 1 .. Len(g)
          BY <4>3
        <5>3. \A i \in 1 .. Len(g) + 1 : chunks'[i] = Append(g, d)[i]
          BY <4>3, <4>5, <5>1, <5>2
        <5>4. PICK c \in Seq(Chunk) : c = chunks'
          BY <4>5
        <5>5. c = Append(g, d)
          BY <4>5, <5>1, <5>3, <5>4, SeqEqual
        <5> QED
          BY <5>4, <5>5
      <4> QED
        BY <4>2, <4>6
    <3> QED
      BY <2>1, <3>1, <3>2
  <2>6. /\ FilesOK' /\ WholeStay
        /\ FlattenSeq(Held(chunks')) = FlattenSeq(Held(chunks)) \o d.holds
    <3>1. d.path = chunk_path(chunk_counter + 1) /\ Len(d.holds) <= 1
      BY <2>4, <2>5
    <3> QED
      BY <1>0, <1>6, <2>5, <3>1, AppendKeeps
  <2>7. ChunksConcatenate'
    <3>1. PICK s \in Seq(Nat) : s = FlattenSeq(Held(chunks))
      BY <1>0, HeldType, FlattenType
    <3>2. s \o << >> = s
      OBVIOUS
    <3>3. FlattenSeq(Held(chunks')) = FlattenSeq(Held(chunks))
      BY <2>4, <2>5, <2>6, <3>1, <3>2
    <3> QED
      BY <2>1, <3>3 DEF Inv, ChunksConcatenate, Held
  <2>8. earlier' \in SUBSET earlier /\ EarlierStay
    BY <2>1, CreateSpares
  <2>9. chunk_counter' \in Nat
    BY <1>0, <2>1
  <2> QED
    BY <2>1, <2>6, <2>7, <2>8, <2>9, EndKeeps
<1> QED
  BY <1>2, <1>3, <1>4, <1>5, <1>6

\* A second passes.
LEMMA TickKeeps ==
    ASSUME Inv, Tick, rotate_by' = rotate_by
    PROVE  Inv' /\ WholeStay /\ EarlierStay
<1>1. /\ clock' = clock + 1 /\ chunk_counter' = chunk_counter /\ chunks' = chunks
      /\ written' = written /\ stopped' = stopped /\ earlier' = earlier /\ started' = started
  BY DEF Tick
<1>2. clock \in Nat /\ clock' \in Nat /\ clock <= clock' /\ chunks \in Seq(Chunk) /\ started \in Nat
  BY <1>1 DEF Inv, Typed
<1>3. /\ current' \in [written : Nat, age : Nat] \union {None}
      /\ current' = None <=> current = None
      /\ current # None => current'.written = current.written
  <2>1. CASE current # None /\ rotate_by.kind = "Seconds" /\ current.age < rotate_by.n
    <3>1. current \in [written : Nat, age : Nat]
      BY <2>1 DEF Inv, Typed
    <3>2. PICK a \in Nat : a = current.age + 1
      BY <3>1
    <3>3. current' = [current EXCEPT !.age = a]
      BY <2>1, <3>2 DEF Tick
    <3> QED
      BY <2>1, <3>1, <3>2, <3>3, NoneAssumption
  <2>2. CASE ~(current # None /\ rotate_by.kind = "Seconds" /\ current.age < rotate_by.n)
    BY <2>2 DEF Tick, Inv, Typed
  <2> QED
    BY <2>1, <2>2
<1>4. FilesOK' /\ ChunksConcatenate' /\ WholeStay
  BY <1>1, <1>2, FinishNone, FinishingKeeps
<1>5. Typed'
  BY <1>1, <1>2, <1>3 DEF Inv, Typed
<1>6. OpenIsLast'
  BY <1>1, <1>3 DEF Inv, OpenIsLast
<1>7. StampsInPast'
  BY <1>1, <1>2, <1>4 DEF Inv, StampsInPast, FilesOK
<1>8. OnlyOpenIsIncomplete'
  BY <1>1, <1>3 DEF Inv, OnlyOpenIsIncomplete
<1>9. EarlierStay
  BY <1>1 DEF EarlierStay
<1> QED
  BY <1>4, <1>5, <1>6, <1>7, <1>8, <1>9 DEF Inv, FilesOK

\* The next process finds the files and holds none of its own.
LEMMA RestartKeeps ==
    ASSUME Inv, Restart, rotate_by' = rotate_by
    PROVE  Inv' /\ Range(chunks) \subseteq earlier' /\ earlier \subseteq earlier'
<1>1. /\ started' = clock /\ earlier' = earlier \union Range(chunks) /\ current' = None
      /\ chunk_counter' = 0 /\ chunks' = << >> /\ written' = 0 /\ stopped' = "no" /\ clock' = clock
  BY DEF Restart
<1>2. /\ chunks \in Seq(Chunk) /\ DOMAIN chunks = 1 .. Len(chunks) /\ earlier \in SUBSET Chunk
      /\ clock \in Nat /\ started \in Nat /\ rotate_by \in RotateBy
  BY DEF Inv, Typed
<1>3. Range(chunks) \in SUBSET Chunk
  BY <1>2 DEF Range
<1>4. Typed'
  BY <1>1, <1>2, <1>3 DEF Typed
<1>5. OpenIsLast' /\ OnlyOpenIsIncomplete'
  BY <1>1 DEF OpenIsLast, OnlyOpenIsIncomplete
<1>6. StampsInPast'
  <2>1. \A f \in earlier : f.path[2] \in Nat /\ f.path[2] <= started /\ started <= clock
    BY <1>2, ChunkFields DEF Inv, StampsInPast
  <2>2. \A f \in Range(chunks) : f.path[2] <= clock
    BY DEF Inv, StampsInPast, Range
  <2>3. \A f \in earlier' : f.path[2] <= clock
    BY <1>1, <1>2, <2>1, <2>2
  <2> QED
    BY <1>1, <1>2, <2>3 DEF StampsInPast
<1>7. ChunksConcatenate' /\ ChunksAreFull'
  <2>1. Held(<< >>) = << >> /\ FlattenSeq(<< >>) = << >> /\ [m \in 1 .. 0 |-> m] = << >>
    BY DEF Held, FlattenSeq
  <2> QED
    BY <1>1, <2>1 DEF ChunksConcatenate, ChunksAreFull, Held
<1> QED
  BY <1>1, <1>4, <1>5, <1>6, <1>7 DEF Inv

\* The first process has written nothing.
LEMMA Initially == Init => Inv
<1> SUFFICES ASSUME Init PROVE Inv
  OBVIOUS
<1>1. Typed /\ OpenIsLast /\ StampsInPast /\ OnlyOpenIsIncomplete /\ ChunksAreFull
  BY ModesAssumption
     DEF Init, Typed, OpenIsLast, StampsInPast, OnlyOpenIsIncomplete, ChunksAreFull
<1>2. ChunksConcatenate
  <2>1. Held(<< >>) = << >> /\ FlattenSeq(<< >>) = << >> /\ [m \in 1 .. 0 |-> m] = << >>
    BY DEF Held, FlattenSeq
  <2> QED
    BY <2>1 DEF Init, ChunksConcatenate, Held
<1> QED
  BY <1>1, <1>2 DEF Inv

\* A finished file outlives the step, or an earlier process made it in the second
\* in which this one was started.
Outlives ==
    \A f \in earlier \union Range(chunks) : f.complete =>
        \/ f \in earlier' \union Range(chunks')
        \/ f \in earlier /\ f.path[2] = started

\* Every step keeps the invariant and what was finished.
LEMMA Stepwise ==
    ASSUME Inv, [Next]_vars
    PROVE  Inv' /\ Outlives
<1>0. WholeStay /\ EarlierStay => Outlives
  BY DEF WholeStay, EarlierStay, Outlives
<1>1. CASE write_message /\ Fixed
  BY <1>0, <1>1, WriteRotates, WriteStores
<1>2. CASE (FinishFails \/ CreateFails \/ WriteFails \/ Eof) /\ Fixed
  BY <1>0, <1>2, StopKeeps
<1>3. CASE Tick /\ rotate_by' = rotate_by
  BY <1>0, <1>3, TickKeeps
<1>4. CASE Restart /\ rotate_by' = rotate_by
  BY <1>4, RestartKeeps DEF Outlives
<1>5. CASE UNCHANGED vars
  <2>1. Inv'
    BY <1>5 DEF vars, process, Inv, Typed, OpenIsLast, StampsInPast, ChunksConcatenate,
                ChunksAreFull, OnlyOpenIsIncomplete
  <2> QED
    BY <1>5, <2>1 DEF vars, process, Outlives
<1> QED
  BY <1>1, <1>2, <1>3, <1>4, <1>5 DEF Next, Running, Fixed

\* The invariant holds throughout.
LEMMA Invariance == Spec => []Inv
<1>1. Inv /\ [Next]_vars => Inv'
  BY Stepwise
<1> QED
  BY <1>1, Initially, PTL DEF Spec

\* Read in chunk order, the chunks of a process hold every message once and in
\* order, in every mode and after any failure.
THEOREM NothingLostOrRepeated == Spec => []ChunksConcatenate
<1>1. Inv => ChunksConcatenate
  BY DEF Inv
<1> QED
  BY <1>1, Invariance, PTL

\* Rotating by any count, every chunk but the last is full and none exceeds it
\* (should_rotate).
THEOREM CountIsExact == Spec => []ChunksAreFull
<1>1. Inv => ChunksAreFull
  BY DEF Inv
<1> QED
  BY <1>1, Invariance, PTL

\* Only the chunk being written is ever incomplete, and after a clean shutdown
\* none is (finish_current, Drop).
THEOREM ClosedChunksWhole == Spec => []OnlyOpenIsIncomplete
<1>1. Inv => OnlyOpenIsIncomplete
  BY DEF Inv
<1> QED
  BY <1>1, Invariance, PTL

\* A finished chunk is never touched again, over any number of processes on the
\* same prefix, but for one made in the second the present process started in.
THEOREM FinishedStay == Spec => FinishedIsFinal
<1>1. Inv /\ [Next]_vars => Inv' /\ [Outlives]_vars
  BY Stepwise
<1> QED
  BY <1>1, Initially, PTL DEF Spec, FinishedIsFinal, Outlives
=============================================================================
