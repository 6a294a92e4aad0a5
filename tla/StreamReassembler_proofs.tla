---------------------- MODULE StreamReassembler_proofs ----------------------
(***************************************************************************)
(* Proofs about StreamReassembler, for every sequence space, stream,       *)
(* payload size and limit, and about its two loops (PendingLoops), for     *)
(* every buffer they may start with.                                       *)
(***************************************************************************)
EXTENDS PendingLoops, FoldLemmas, SequenceTheorems

\* The library's Min of a set of naturals is its least element.
LEMMA MinIsLeast ==
    ASSUME NEW S \in SUBSET Nat, S # {}
    PROVE  Min(S) \in S /\ \A x \in S : Min(S) <= x
<1>1. \E m \in S : \A x \in S : m <= x
  BY LeastNatural
<1> QED
  BY <1>1 DEF Min

\* Sequence numbers below twice the sequence space wrap at most once.
LEMMA WrapOnce ==
    ASSUME NEW x \in 0 .. 2 * SeqSpace - 1
    PROVE  x % SeqSpace = IF x < SeqSpace THEN x ELSE x - SeqSpace
<1> QED
  BY SizeAssumption

\* The sender's sequence numbers are u32 values.
LEMMA SeqOfType ==
    ASSUME NEW p \in Nat
    PROVE  SeqOf(p) \in 0 .. SeqSpace - 1
<1> QED
  BY SizeAssumption, IsnAssumption DEF SeqOf

\* relative_seq returns a u32 value, whatever the anchor.
LEMMA RelativeType ==
    ASSUME TypeOK, NEW seq \in 0 .. SeqSpace - 1
    PROVE  relative_seq(seq) \in 0 .. SeqSpace - 1
<1> QED
  BY SizeAssumption DEF TypeOK, relative_seq, wrapping_sub

-----------------------------------------------------------------------------
(* The out-of-order buffer.                                                *)

IsBuffer(p) ==
    /\ DOMAIN p \in SUBSET (0 .. SeqSpace - 1)
    /\ \A k \in DOMAIN p : p[k] \in Segment

\* The drain ends at an offset the buffer does not cover, everything before it
\* is covered, and it exists: no segment reaches the horizon.
LEMMA DrainedToIsFirstGap ==
    ASSUME NEW p, IsBuffer(p), NEW from \in 0 .. Horizon
    PROVE  /\ DrainedTo(p, from) \in from .. Horizon
           /\ ~Covered(p, DrainedTo(p, from))
           /\ \A x \in from .. DrainedTo(p, from) - 1 : Covered(p, x)
<1> DEFINE Gaps == {x \in Nat : x >= from /\ ~Covered(p, x)}
<1>0. Horizon \in Nat
  BY SizeAssumption DEF Horizon
<1>1. ~Covered(p, Horizon)
  BY SizeAssumption DEF Covered, Covers, Horizon, IsBuffer, Segment
<1>2. Horizon \in Gaps
  BY <1>0, <1>1
<1>3. PICK n \in Gaps : \A x \in Gaps : n <= x
  BY <1>2, LeastNatural
<1>4. n \in from .. Horizon
  BY <1>0, <1>2, <1>3
<1>5. \A x \in from .. n - 1 : Covered(p, x)
  BY <1>0, <1>3, <1>4
<1> QED
  BY <1>3, <1>4, <1>5 DEF DrainedTo

\* A byte of a covered offset comes from a segment that covers it.
LEMMA ByteAtFromSegment ==
    ASSUME NEW p, IsBuffer(p), NEW x \in Nat, Covered(p, x)
    PROVE  \E k \in DOMAIN p : Covers(p, k, x) /\ ByteAt(p, x) = p[k].pos + (x - k)
<1> DEFINE S == {j \in DOMAIN p : Covers(p, j, x)}
<1>1. S \in SUBSET Nat /\ S # {}
  BY SizeAssumption DEF Covered, IsBuffer
<1>2. Min(S) \in S
  BY <1>1, MinIsLeast
<1>3. ByteAt(p, x) = p[Min(S)].pos + (x - Min(S))
  BY DEF ByteAt
<1> QED
  BY <1>2, <1>3

\* Draining or evicting keys leaves a buffer.
LEMMA KeepOnlyIsBuffer ==
    ASSUME NEW p, IsBuffer(p), NEW K \in SUBSET DOMAIN p
    PROVE  IsBuffer(KeepOnly(p, K))
<1> QED
  BY DEF IsBuffer, KeepOnly

\* The payload left after trimming is a segment inside the stream.
LEMMA TrimmedIsSegment ==
    ASSUME TypeOK, NEW p \in Positions, NEW n \in 1 .. MaxPayload, p + n <= StreamLen,
           NEW rel \in Nat, rel + n > next_expected
    PROVE  /\ Trimmed(p, n, rel) \in Segment
           /\ Trimmed(p, n, rel).pos + Trimmed(p, n, rel).len = p + n
<1> DEFINE trim == IF rel < next_expected THEN next_expected - rel ELSE 0
<1>1. trim \in 0 .. n - 1
  BY DEF TypeOK
<1>2. Trimmed(p, n, rel) = [pos |-> p + trim, len |-> n - trim]
  BY DEF Trimmed
<1> QED
  BY <1>1, <1>2, SizeAssumption, StreamAssumption DEF Segment, Positions

\* Filing a segment leaves a buffer.
LEMMA InsertedIsBuffer ==
    ASSUME TypeOK, NEW rel \in 0 .. SeqSpace - 1, NEW seg \in Segment
    PROVE  IsBuffer(Inserted(rel, seg))
<1> QED
  BY DEF TypeOK, IsBuffer, Inserted

-----------------------------------------------------------------------------
(* Type correctness.                                                       *)

\* The payload of a segment is a sequence of stream positions.
LEMMA DataType ==
    ASSUME NEW seg \in Segment
    PROVE  Data(seg) \in Seq(Positions)
<1>1. \A i \in 1 .. seg.len : seg.pos + i - 1 \in Positions
  BY StreamAssumption, SizeAssumption DEF Segment, Positions
<1>2. seg.len \in Nat
  BY SizeAssumption DEF Segment
<1> QED
  BY <1>1, <1>2 DEF Data

\* So is what the drain appends to contiguous.
LEMMA DrainedBytesType ==
    ASSUME NEW p, IsBuffer(p), NEW from \in 0 .. Horizon
    PROVE  [i \in 1 .. DrainedTo(p, from) - from |-> ByteAt(p, from + i - 1)]
              \in Seq(Positions)
<1> DEFINE upto == DrainedTo(p, from)
<1>1. upto \in from .. Horizon /\ \A x \in from .. upto - 1 : Covered(p, x)
  BY DrainedToIsFirstGap
<1>2. upto - from \in Nat
  BY <1>1, SizeAssumption DEF Horizon
<1>3. \A i \in 1 .. upto - from : ByteAt(p, from + i - 1) \in Positions
  <2> TAKE i \in 1 .. upto - from
  <2> DEFINE x == from + i - 1
  <2>1. x \in Nat /\ Covered(p, x)
    BY <1>1, <1>2, SizeAssumption DEF Horizon
  <2>2. PICK k \in DOMAIN p : Covers(p, k, x) /\ ByteAt(p, x) = p[k].pos + (x - k)
    BY <2>1, ByteAtFromSegment
  <2>3. p[k] \in Segment /\ k \in Nat
    BY SizeAssumption DEF IsBuffer
  <2> QED
    BY <2>1, <2>2, <2>3, StreamAssumption, SizeAssumption DEF Covers, Segment, Positions
<1> QED
  BY <1>2, <1>3

\* deliver, with its drain, keeps the types of what it assigns.
LEMMA DeliverType ==
    ASSUME TypeOK, NEW seg \in Segment, next_expected + seg.len \in 0 .. Horizon,
           deliver(seg)
    PROVE  /\ next_expected' \in Nat
           /\ contiguous' \in Seq(Positions)
           /\ IsBuffer(pending')
           /\ pending_age' \in {None} \union (0 .. max_age + 1)
           /\ outcome'.kind \in PushOutcome
<1> DEFINE from == next_expected + seg.len
           upto == DrainedTo(pending, from)
           run == [i \in 1 .. upto - from |-> ByteAt(pending, from + i - 1)]
<1>1. IsBuffer(pending)
  BY DEF TypeOK, IsBuffer
<1>2. upto \in from .. Horizon
  BY <1>1, DrainedToIsFirstGap
<1>3. next_expected' \in Nat
  BY <1>2, SizeAssumption DEF deliver, Horizon
<1>4. contiguous' \in Seq(Positions)
  <2>1. run \in Seq(Positions)
    BY <1>1, DrainedBytesType
  <2>2. Data(seg) \in Seq(Positions) /\ contiguous \in Seq(Positions)
    BY DataType DEF TypeOK
  <2>3. contiguous' = contiguous \o Data(seg) \o run
    BY DEF deliver
  <2> QED
    BY <2>1, <2>2, <2>3
<1>5. IsBuffer(pending')
  BY <1>1, KeepOnlyIsBuffer DEF deliver, Undrained
<1> QED
  BY <1>3, <1>4, <1>5 DEF deliver, TypeOK, Outcome, PushOutcome

\* So does every branch of buffer_pending.
LEMMA BufferPendingType ==
    ASSUME TypeOK, NEW rel \in 0 .. SeqSpace - 1, NEW seg \in Segment,
           buffer_pending(rel, seg)
    PROVE  /\ next_expected' = next_expected
           /\ contiguous' = contiguous
           /\ IsBuffer(pending')
           /\ pending_age' \in {None} \union (0 .. max_age + 1)
           /\ outcome'.kind \in PushOutcome
<1>1. IsBuffer(pending) /\ IsBuffer(Inserted(rel, seg))
  BY InsertedIsBuffer DEF TypeOK, IsBuffer
<1>2. InsertedAge \in {None} \union (0 .. max_age + 1)
  BY AgeAssumption DEF TypeOK, InsertedAge
<1>3. CASE DiscardDuplicate
  BY <1>1, <1>3 DEF DiscardDuplicate, buffers, TypeOK, Outcome, PushOutcome
<1>4. CASE BufferOutOfOrder(rel, seg)
  BY <1>1, <1>2, <1>4 DEF BufferOutOfOrder, Outcome, PushOutcome
<1>5. ASSUME NEW K \in SUBSET DOMAIN Inserted(rel, seg), NEW bytes,
             Abandon(rel, seg, K, bytes)
      PROVE  /\ next_expected' = next_expected
             /\ contiguous' = contiguous
             /\ IsBuffer(pending')
             /\ pending_age' \in {None} \union (0 .. max_age + 1)
             /\ outcome'.kind \in PushOutcome
  BY <1>1, <1>2, <1>5, KeepOnlyIsBuffer DEF Abandon, PushOutcome
<1>6. CASE AbandonAged(rel, seg)
  BY <1>5, <1>6 DEF AbandonAged
<1>7. CASE AbandonOverCap(rel, seg)
  BY <1>5, <1>7 DEF AbandonOverCap, Survivors
<1> QED
  BY <1>3, <1>4, <1>6, <1>7 DEF buffer_pending

\* So does push_relative, duplicates included.
LEMMA PushRelativeType ==
    ASSUME TypeOK, NEW p \in Positions, NEW n \in 1 .. MaxPayload, p + n <= StreamLen,
           NEW rel \in 0 .. SeqSpace - 1, push_relative(p, n, rel)
    PROVE  /\ next_expected' \in Nat
           /\ contiguous' \in Seq(Positions)
           /\ IsBuffer(pending')
           /\ pending_age' \in {None} \union (0 .. max_age + 1)
           /\ outcome'.kind \in PushOutcome
<1> DEFINE seg == Trimmed(p, n, rel)
<1>1. CASE DiscardDuplicate
  BY <1>1 DEF DiscardDuplicate, buffers, TypeOK, IsBuffer, Outcome, PushOutcome
<1>2. CASE rel + n > next_expected /\ rel <= next_expected /\ deliver(seg)
  <2>1. seg \in Segment
    BY <1>2, TrimmedIsSegment, SizeAssumption
  <2>2. next_expected + seg.len = rel + n
    BY <1>2, SizeAssumption DEF Trimmed, TypeOK
  <2>3. next_expected + seg.len \in 0 .. Horizon
    BY <2>2, SizeAssumption DEF Horizon
  <2> QED
    BY <1>2, <2>1, <2>3, DeliverType
<1>3. CASE rel + n > next_expected /\ rel > next_expected /\ buffer_pending(rel, seg)
  <2>1. seg \in Segment
    BY <1>3, TrimmedIsSegment, SizeAssumption
  <2> QED
    BY <1>3, <2>1, BufferPendingType DEF TypeOK
<1> QED
  BY <1>1, <1>2, <1>3 DEF push_relative

\* Pending bytes are bytes of the stream.
LEMMA HeldInStream ==
    ASSUME NEW p, IsBuffer(p)
    PROVE  Held(p) \in SUBSET Positions
<1> QED
  BY StreamAssumption, SizeAssumption DEF Held, BytesOf, IsBuffer, Segment, Positions

\* Every variable keeps its type, in particular no offset, key or byte leaves the
\* ranges the code's integer types and slices rely on.
THEOREM TypeCorrect == Spec => []TypeOK
<1>1. Init => TypeOK
  BY DEF Init, TypeOK, Outcome, PushOutcome
<1>2. TypeOK /\ [Next]_vars => TypeOK'
  <2> SUFFICES ASSUME TypeOK, [Next]_vars PROVE TypeOK'
    OBVIOUS
  <2>1. CASE set_isn
    <3>1. SeqOf(0) \in 0 .. SeqSpace - 1 /\ 0 \in 0 .. StreamLen
      BY SeqOfType, StreamAssumption
    <3> QED
      BY <2>1, <3>1 DEF set_isn, Anchor, TypeOK, buffers
  <2>2. CASE PushEmpty
    BY <2>2 DEF PushEmpty, TypeOK, buffers, history, Outcome, PushOutcome
  <2>3. CASE Push
    <3>1. PICK p \in Positions, n \in 1 .. MaxPayload :
              p + n <= StreamLen /\ push(p, n)
      BY <2>3 DEF Push
    <3> DEFINE rel == relative_seq(SeqOf(p))
    <3>2. p \in Nat /\ n \in Nat /\ p \in 0 .. StreamLen
      BY StreamAssumption, SizeAssumption DEF Positions
    <3>3. SeqOf(p) \in 0 .. SeqSpace - 1 /\ rel \in 0 .. SeqSpace - 1
      BY <3>2, SeqOfType, RelativeType
    <3>4. base_seq' \in {None} \union (0 .. SeqSpace - 1)
          /\ origin' \in {None} \union (0 .. StreamLen)
      BY <3>1, <3>2, <3>3 DEF push, Anchor, TypeOK
    <3>5. /\ next_expected' \in Nat
          /\ contiguous' \in Seq(Positions)
          /\ IsBuffer(pending')
          /\ pending_age' \in {None} \union (0 .. max_age + 1)
          /\ outcome'.kind \in PushOutcome
      BY <3>1, <3>3, PushRelativeType DEF push
    <3>6. (p .. p + n - 1) \in SUBSET Positions
      BY <3>1, <3>2, StreamAssumption DEF Positions
    <3>7. arrived' \in SUBSET Positions
      BY <3>1, <3>6 DEF push, TypeOK
    <3>8. abandoned' \in SUBSET Positions
      <4>1. Held(pending) \in SUBSET Positions
        BY HeldInStream DEF TypeOK, IsBuffer
      <4> QED
        BY <3>1, <3>6, <4>1 DEF push, TypeOK
    <3> QED
      BY <3>1, <3>4, <3>5, <3>7, <3>8 DEF TypeOK, IsBuffer, push
  <2>4. CASE Take
    <3>1. PICK n \in 1 .. Len(contiguous) : take_bytes(n)
      BY <2>4 DEF Take
    <3>2. contiguous \in Seq(Positions) /\ consumed \in Seq(Positions)
      BY DEF TypeOK
    <3>3. /\ SubSeq(contiguous, 1, n) \in Seq(Positions)
          /\ SubSeq(contiguous, n + 1, Len(contiguous)) \in Seq(Positions)
      BY <3>2
    <3>4. contiguous' \in Seq(Positions) /\ consumed' \in Seq(Positions)
      BY <3>1, <3>2, <3>3 DEF take_bytes
    <3> QED
      BY <3>1, <3>4 DEF take_bytes, TypeOK
  <2>5. CASE Tick
    BY <2>5, AgeAssumption, NoneAssumption DEF Tick, TypeOK, history
  <2>6. CASE UNCHANGED vars
    BY <2>6 DEF vars, buffers, history, TypeOK
  <2> QED
    BY <2>1, <2>2, <2>3, <2>4, <2>5, <2>6 DEF Next
<1> QED
  BY <1>1, <1>2, PTL DEF Spec

-----------------------------------------------------------------------------
(* The main invariant, for streams shorter than the sequence space.        *)

NoWrap == StreamLen < SeqSpace

\* Where a segment at position p belongs when offsets count from position o.  A
\* position before the origin wraps to the top of the sequence space.
Offset(o, p) == IF p >= o THEN p - o ELSE p - o + SeqSpace

Anchored ==
    /\ base_seq = None <=> origin = None
    /\ origin = None =>
           /\ next_expected = 0 /\ contiguous = << >> /\ consumed = << >>
           /\ DOMAIN pending = {} /\ arrived = {}
    /\ origin # None => base_seq = SeqOf(origin) /\ origin + next_expected <= StreamLen

\* Every pending segment is filed at the offset of its first byte, ahead of the
\* next expected one.
InPlace ==
    \A k \in DOMAIN pending :
        k > next_expected /\ k = Offset(origin, pending[k].pos)

Inv == TypeOK /\ Anchored /\ InPlace /\ DeliversExactStream /\ NoSilentLoss

\* A stream shorter than the sequence space wraps at most once.
LEMMA SeqOfWrapsOnce ==
    ASSUME NoWrap, NEW p \in 0 .. StreamLen
    PROVE  SeqOf(p) = IF Isn + 1 + p < SeqSpace THEN Isn + 1 + p
                      ELSE Isn + 1 + p - SeqSpace
<1> DEFINE x == Isn + 1 + p
<1>1. x \in 0 .. 2 * SeqSpace - 1
  BY SizeAssumption, IsnAssumption, StreamAssumption DEF NoWrap
<1>2. SeqOf(p) = x % SeqSpace
  BY DEF SeqOf
<1> HIDE DEF x
<1>3. x % SeqSpace = IF x < SeqSpace THEN x ELSE x - SeqSpace
  BY <1>1, WrapOnce
<1>4. SeqOf(p) = IF x < SeqSpace THEN x ELSE x - SeqSpace
  BY <1>2, <1>3, Zenon
<1> QED
  BY <1>4, SizeAssumption, IsnAssumption, StreamAssumption DEF x

\* Below the wrap, the code's u32 difference is the distance in the stream.
LEMMA RelativeIsOffset ==
    ASSUME NoWrap, NEW o \in 0 .. StreamLen, NEW p \in Positions
    PROVE  wrapping_sub(SeqOf(p), SeqOf(o)) = Offset(o, p)
<1>1. p \in 0 .. StreamLen
  BY StreamAssumption DEF Positions
<1>2. SeqOf(p) = IF Isn + 1 + p < SeqSpace THEN Isn + 1 + p ELSE Isn + 1 + p - SeqSpace
  BY <1>1, SeqOfWrapsOnce
<1>3. SeqOf(o) = IF Isn + 1 + o < SeqSpace THEN Isn + 1 + o ELSE Isn + 1 + o - SeqSpace
  BY SeqOfWrapsOnce
<1> QED
  BY <1>2, <1>3, SizeAssumption, IsnAssumption, StreamAssumption
     DEF NoWrap, Positions, wrapping_sub, Offset

\* The facts every case of a push starts from.
LEMMA PushOffset ==
    ASSUME NoWrap, Inv, NEW p \in Positions, Anchor(SeqOf(p), p)
    PROVE  /\ relative_seq(SeqOf(p)) = Offset(origin', p)
           /\ origin' \in 0 .. StreamLen
           /\ origin' + next_expected <= StreamLen
           /\ base_seq' = SeqOf(origin')
           /\ base_seq' \in 0 .. SeqSpace - 1
           /\ origin # None => origin' = origin
           /\ origin = None => DOMAIN pending = {} /\ next_expected = 0 /\ arrived = {}
                                 /\ contiguous = << >> /\ consumed = << >>
<1>1. p \in 0 .. StreamLen /\ p \in Nat
  BY StreamAssumption DEF Positions
<1>2. SeqOf(p) \in 0 .. SeqSpace - 1
  BY <1>1, SeqOfType
<1>3. CASE origin = None
  BY <1>1, <1>2, <1>3, StreamAssumption, SizeAssumption
     DEF Inv, Anchored, Anchor, relative_seq, wrapping_sub, Offset
<1>4. CASE origin # None
  <2>1. origin \in 0 .. StreamLen /\ base_seq # None /\ base_seq = SeqOf(origin)
    BY <1>4 DEF Inv, Anchored, TypeOK
  <2>2. relative_seq(SeqOf(p)) = Offset(origin, p)
    BY <2>1, RelativeIsOffset DEF relative_seq
  <2>3. base_seq \in 0 .. SeqSpace - 1
    BY <2>1 DEF Inv, TypeOK
  <2> QED
    BY <1>4, <2>1, <2>2, <2>3 DEF Inv, Anchored, Anchor
<1> QED
  BY <1>3, <1>4

\* The segments of p are filed by their distance from position o.
FiledFrom(p, o) == \A k \in DOMAIN p : k = Offset(o, p[k].pos)

\* The buffer holds the stream's own bytes at these offsets.
BytesInPlace(p, o, from, upto) == \A x \in from .. upto - 1 : ByteAt(p, x) = o + x

\* A segment that begins at or before upto also ends there, and is in its place.
WhollyPassed(p, o, upto) ==
    \A k \in DOMAIN p : k <= upto => p[k].pos = o + k /\ k + p[k].len <= upto

\* A run of consecutive numbers from c.
Consecutive(s, c) == s \in Seq(Int) /\ \A i \in 1 .. Len(s) : s[i] = c + i - 1

\* A pending segment the drain passes lies wholly in what is delivered, and a
\* covered offset below the stream's end holds that very byte of the stream.
LEMMA DrainStaysInStream ==
    ASSUME NoWrap, NEW p, IsBuffer(p), NEW o \in 0 .. StreamLen,
           FiledFrom(p, o), NEW from \in Nat, o + from <= StreamLen
    PROVE  /\ DrainedTo(p, from) \in from .. StreamLen - o
           /\ BytesInPlace(p, o, from, DrainedTo(p, from))
           /\ WhollyPassed(p, o, DrainedTo(p, from))
<1> DEFINE upto == DrainedTo(p, from)
<1>0. from \in 0 .. Horizon
  BY StreamAssumption, SizeAssumption DEF NoWrap, Horizon
<1>1. /\ upto \in from .. Horizon /\ ~Covered(p, upto)
      /\ \A x \in from .. upto - 1 : Covered(p, x)
  BY <1>0, DrainedToIsFirstGap
<1>2. \A k \in DOMAIN p : k \in Nat /\ p[k].pos \in Nat /\ p[k].len \in Nat \ {0}
                          /\ p[k].pos + p[k].len <= StreamLen
  BY SizeAssumption, StreamAssumption DEF IsBuffer, Segment, Positions
<1>3. \A k \in DOMAIN p : k <= StreamLen - o => p[k].pos = o + k
  BY <1>2, StreamAssumption, SizeAssumption DEF NoWrap, Offset, FiledFrom
<1>4. ~Covered(p, StreamLen - o)
  BY <1>2, <1>3, StreamAssumption DEF Covered, Covers
<1>5. upto \in from .. StreamLen - o
  BY <1>1, <1>4, StreamAssumption, SizeAssumption DEF Horizon
<1>6. ASSUME NEW x \in from .. upto - 1 PROVE ByteAt(p, x) = o + x
  <2>1. x \in Nat /\ x <= StreamLen - o /\ Covered(p, x)
    BY <1>1, <1>5, <1>6, StreamAssumption
  <2>2. PICK k \in DOMAIN p : Covers(p, k, x) /\ ByteAt(p, x) = p[k].pos + (x - k)
    BY <2>1, ByteAtFromSegment
  <2> QED
    BY <1>2, <1>3, <2>1, <2>2, StreamAssumption DEF Covers
<1>7. ASSUME NEW k \in DOMAIN p, k <= upto
      PROVE  p[k].pos = o + k /\ k + p[k].len <= upto
  <2>1. ~Covers(p, k, upto)
    BY <1>1 DEF Covered
  <2> QED
    BY <1>2, <1>3, <1>5, <1>7, <2>1, StreamAssumption DEF Covers
<1> QED
  BY <1>5, <1>6, <1>7 DEF BytesInPlace, WhollyPassed

\* Two runs of consecutive numbers, one after the other.
LEMMA ConcatConsecutive ==
    ASSUME NEW s, NEW t, NEW c \in Int, Consecutive(s, c), Consecutive(t, c + Len(s))
    PROVE  /\ Consecutive(s \o t, c)
           /\ Len(s \o t) = Len(s) + Len(t)
           /\ Len(s) \in Nat /\ Len(t) \in Nat
<1>1. s \in Seq(Int) /\ t \in Seq(Int)
  BY DEF Consecutive
<1>2. /\ s \o t \in Seq(Int) /\ Len(s) \in Nat /\ Len(t) \in Nat
      /\ Len(s \o t) = Len(s) + Len(t)
  BY <1>1
<1>3. ASSUME NEW i \in 1 .. Len(s \o t) PROVE (s \o t)[i] = c + i - 1
  <2>1. CASE i <= Len(s)
    <3>1. (s \o t)[i] = s[i] /\ i \in 1 .. Len(s)
      BY <1>1, <1>2, <2>1
    <3> QED
      BY <3>1 DEF Consecutive
  <2>2. CASE ~(i <= Len(s))
    <3>1. (s \o t)[i] = t[i - Len(s)] /\ i - Len(s) \in 1 .. Len(t)
      BY <1>1, <1>2, <2>2
    <3>2. t[i - Len(s)] = c + Len(s) + (i - Len(s)) - 1
      BY <3>1 DEF Consecutive
    <3> QED
      BY <1>2, <3>1, <3>2
  <2> QED
    BY <2>1, <2>2
<1> QED
  BY <1>2, <1>3 DEF Consecutive

\* What the drain removes from the buffer it has delivered.
LEMMA DrainedIsDelivered ==
    ASSUME NEW p, IsBuffer(p), NEW o \in Nat, NEW upto \in Nat,
           WhollyPassed(p, o, upto), NEW q \in Held(p)
    PROVE  \/ q \in Held(KeepOnly(p, Undrained(p, upto)))
           \/ o <= q /\ q < o + upto
<1>1. PICK k \in DOMAIN p : q \in BytesOf(p[k])
  BY DEF Held
<1>2. k \in Nat /\ p[k].len \in Nat
  BY SizeAssumption DEF IsBuffer, Segment
<1>3. CASE k > upto
  <2>1. k \in Undrained(p, upto)
    BY <1>3 DEF Undrained
  <2> QED
    BY <1>1, <2>1 DEF Held, KeepOnly
<1>4. CASE k <= upto
  <2>1. PICK i \in 0 .. p[k].len - 1 : q = p[k].pos + i
    BY <1>1 DEF BytesOf
  <2>2. p[k].pos = o + k /\ k + p[k].len <= upto
    BY <1>4 DEF WhollyPassed
  <2> QED
    BY <1>2, <2>1, <2>2
<1> QED
  BY <1>2, <1>3, <1>4

\* A push that closes the gap delivers the stream's next bytes, exactly.
LEMMA DeliverKeepsStream ==
    ASSUME NoWrap, TypeOK, NEW o \in 0 .. StreamLen, FiledFrom(pending, o),
           Len(consumed) + Len(contiguous) = next_expected,
           Consecutive(contiguous, o + Len(consumed)),
           NEW seg \in Segment, seg.pos = o + next_expected, deliver(seg)
    PROVE  /\ next_expected' \in Nat
           /\ o + next_expected + seg.len <= o + next_expected'
           /\ o + next_expected' <= StreamLen
           /\ \A k \in DOMAIN pending' : k > next_expected'
           /\ FiledFrom(pending', o)
           /\ Len(consumed) + Len(contiguous') = next_expected'
           /\ Consecutive(contiguous', o + Len(consumed))
           /\ \A q \in Held(pending) :
                  q \in Held(pending') \/ (o <= q /\ q < o + next_expected')
<1> DEFINE from == next_expected + seg.len
           upto == DrainedTo(pending, from)
           run == [i \in 1 .. upto - from |-> ByteAt(pending, from + i - 1)]
<1>1. /\ o \in Nat /\ next_expected \in Nat /\ seg.len \in Nat /\ from \in Nat
      /\ o + from <= StreamLen
  <2>1. o \in Nat /\ next_expected \in Nat
    BY StreamAssumption DEF TypeOK
  <2>2. seg.len \in Nat /\ seg.pos + seg.len <= StreamLen
    BY SizeAssumption DEF Segment
  <2> QED
    BY <2>1, <2>2, StreamAssumption
<1>2. IsBuffer(pending)
  BY DEF TypeOK, IsBuffer
<1>3. /\ upto \in from .. StreamLen - o
      /\ BytesInPlace(pending, o, from, upto)
      /\ WhollyPassed(pending, o, upto)
  BY <1>1, <1>2, DrainStaysInStream
<1>4. /\ next_expected' = upto
      /\ contiguous' = contiguous \o Data(seg) \o run
      /\ pending' = KeepOnly(pending, Undrained(pending, upto))
  BY DEF deliver
<1>5. from = next_expected + seg.len
  OBVIOUS
<1>6. run = [i \in 1 .. upto - from |-> ByteAt(pending, from + i - 1)]
  OBVIOUS
<1> HIDE DEF upto, from, run
<1>7. upto \in Nat /\ upto - from \in Nat /\ from <= upto /\ upto <= StreamLen - o
  BY <1>1, <1>3, StreamAssumption
<1>8. Consecutive(Data(seg), o + next_expected) /\ Len(Data(seg)) = seg.len
  <2>1. Data(seg) = [i \in 1 .. seg.len |-> o + next_expected + i - 1]
    BY DEF Data
  <2> DEFINE l == seg.len
             c == o + next_expected
  <2>2. l \in Nat /\ c \in Int
    BY <1>1
  <2>3. Data(seg) = [i \in 1 .. l |-> c + i - 1]
    BY <2>1
  <2> HIDE DEF l, c
  <2>4. Consecutive(Data(seg), c) /\ Len(Data(seg)) = l
    BY <2>2, <2>3 DEF Consecutive
  <2> QED
    BY <2>4 DEF l, c
<1>9. Consecutive(run, o + from) /\ Len(run) = upto - from
  <2>1. ASSUME NEW i \in 1 .. upto - from
        PROVE  ByteAt(pending, from + i - 1) = o + from + i - 1
    <3>1. from + i - 1 \in from .. upto - 1
      BY <1>1, <1>7
    <3>2. ByteAt(pending, from + i - 1) = o + (from + i - 1)
      BY <1>3, <3>1 DEF BytesInPlace
    <3> QED
      BY <1>1, <1>7, <3>2
  <2>2. run = [i \in 1 .. upto - from |-> o + from + i - 1]
    BY <1>6, <2>1
  <2> QED
    BY <1>1, <1>7, <2>2 DEF Consecutive
<1>10. Len(consumed) \in Nat
  BY DEF TypeOK
<1> DEFINE grown == contiguous \o Data(seg)
<1>11. Consecutive(grown, o + Len(consumed)) /\ Len(grown) = Len(contiguous) + seg.len
       /\ Len(contiguous) \in Nat
  <2>1. Len(contiguous) \in Nat
    BY DEF TypeOK
  <2>2. o + Len(consumed) \in Int /\ o + Len(consumed) + Len(contiguous) = o + next_expected
    BY <1>1, <1>10, <2>1
  <2>3. Consecutive(Data(seg), o + Len(consumed) + Len(contiguous))
    BY <1>8, <2>2
  <2> QED
    BY <1>8, <2>1, <2>2, <2>3, ConcatConsecutive
<1>12. contiguous' = grown \o run
  BY <1>4
<1> HIDE DEF grown
<1>13. Consecutive(contiguous', o + Len(consumed)) /\ Len(contiguous') = Len(grown) + Len(run)
  <2> DEFINE a == Len(consumed)
             b == Len(contiguous)
             l == seg.len
  <2>0. /\ a \in Nat /\ b \in Nat /\ l \in Nat /\ a + b = next_expected
        /\ from = next_expected + l /\ Len(grown) = b + l
    BY <1>1, <1>5, <1>10, <1>11
  <2>1. o + Len(consumed) \in Int /\ o + Len(consumed) + Len(grown) = o + from
    <3> HIDE DEF a, b, l
    <3>1. o + a \in Int /\ o + a + Len(grown) = o + from
      BY <1>1, <2>0
    <3> QED
      BY <3>1 DEF a
  <2>2. Consecutive(run, o + Len(consumed) + Len(grown))
    BY <1>9, <2>1
  <2> QED
    BY <1>11, <1>12, <2>1, <2>2, ConcatConsecutive
<1>14. Len(consumed) + Len(contiguous') = next_expected'
  <2>1. Len(contiguous') = Len(contiguous) + seg.len + (upto - from)
    BY <1>9, <1>11, <1>13
  <2>2. next_expected' = upto
    BY <1>4
  <2>3. Len(contiguous') = Len(contiguous) + (upto - next_expected)
    <3> DEFINE l == seg.len
    <3>1. from = next_expected + l /\ Len(contiguous') = Len(contiguous) + l + (upto - from)
          /\ l \in Nat
      BY <1>1, <1>5, <2>1
    <3> HIDE DEF l
    <3> QED
      BY <1>1, <1>7, <1>11, <3>1
  <2>4. PICK a \in Nat, b \in Nat : a = Len(consumed) /\ b = Len(contiguous)
    BY <1>10, <1>11
  <2>5. a + b = next_expected /\ Len(contiguous') = b + (upto - next_expected)
    BY <2>3, <2>4
  <2>6. a + (b + (upto - next_expected)) = upto
    BY <1>1, <1>7, <2>5
  <2> QED
    BY <2>2, <2>4, <2>5, <2>6
<1>15. (\A k \in DOMAIN pending' : k > next_expected') /\ FiledFrom(pending', o)
  BY <1>4 DEF KeepOnly, Undrained, FiledFrom
<1>16. \A q \in Held(pending) :
           q \in Held(pending') \/ (o <= q /\ q < o + next_expected')
  BY <1>1, <1>2, <1>3, <1>4, <1>7, DrainedIsDelivered
<1>17. /\ next_expected' \in Nat /\ o + next_expected' <= StreamLen
       /\ o + next_expected + seg.len <= o + next_expected'
  <2>1. next_expected' = upto
    BY <1>4
  <2>2. next_expected' \in Nat
    BY <1>7, <2>1
  <2>3. o + upto <= StreamLen
    BY <1>1, <1>7, StreamAssumption
  <2>4. next_expected + seg.len <= upto
    BY <1>5, <1>7
  <2>5. o + next_expected + seg.len <= o + upto
    BY <1>1, <1>7, <2>4
  <2> QED
    BY <2>1, <2>2, <2>3, <2>5
<1> QED
  BY <1>13, <1>14, <1>15, <1>16, <1>17

\* The invariant as a push finds it, o being the origin the push leaves.
Before(o) ==
    /\ TypeOK
    /\ o \in 0 .. StreamLen
    /\ o + next_expected <= StreamLen
    /\ FiledFrom(pending, o)
    /\ \A k \in DOMAIN pending : k > next_expected
    /\ Len(consumed) + Len(contiguous) = next_expected
    /\ Consecutive(contiguous, o + Len(consumed))
    /\ Consecutive(consumed, o)

Delivered(q, o, next) == o <= q /\ q < o + next

\* What a push of the positions S must establish.
Extended(o, S) ==
    /\ next_expected' \in Nat
    /\ o + next_expected' <= StreamLen
    /\ next_expected <= next_expected'
    /\ FiledFrom(pending', o)
    /\ \A k \in DOMAIN pending' : k > next_expected'
    /\ Len(consumed) + Len(contiguous') = next_expected'
    /\ Consecutive(contiguous', o + Len(consumed))
    /\ \A q \in Held(pending) \union S :
           \/ q \in Held(pending')
           \/ Delivered(q, o, next_expected')
           \/ outcome'.kind = "GapAbandoned"

\* The invariant holds of the state a push finds, for the origin it leaves.
LEMMA InvGivesBefore ==
    ASSUME Inv, NEW o \in 0 .. StreamLen, o + next_expected <= StreamLen,
           origin # None => o = origin
    PROVE  Before(o)
<1>1. contiguous \in Seq(Int) /\ consumed \in Seq(Int)
  BY StreamAssumption DEF Inv, TypeOK, Positions
<1>2. Len(consumed) + Len(contiguous) = next_expected
  BY DEF Inv, DeliversExactStream
<1>3. FiledFrom(pending, o) /\ \A k \in DOMAIN pending : k > next_expected
  BY DEF Inv, InPlace, FiledFrom, Anchored
<1>4. CASE origin = None
  <2>1. contiguous = << >> /\ consumed = << >>
    BY <1>4 DEF Inv, Anchored
  <2>2. Consecutive(contiguous, o + Len(consumed)) /\ Consecutive(consumed, o)
    BY <2>1 DEF Consecutive
  <2> QED
    BY <1>2, <1>3, <2>2 DEF Before, Inv
<1>5. CASE origin # None
  <2>1. Consecutive(contiguous, o + Len(consumed))
    BY <1>1, <1>5 DEF Inv, DeliversExactStream, Consecutive
  <2>2. Consecutive(consumed, o)
    BY <1>1, <1>5 DEF Inv, DeliversExactStream, Consecutive
  <2> QED
    BY <1>2, <1>3, <2>1, <2>2 DEF Before, Inv
<1> QED
  BY <1>4, <1>5

\* Consecutive bytes in contiguous are the exact stream from the origin on.
LEMMA ExtendedGivesExact ==
    ASSUME NEW o, Before(o), origin' = o, consumed' = consumed,
           Len(consumed) + Len(contiguous') = next_expected',
           Consecutive(contiguous', o + Len(consumed))
    PROVE  DeliversExactStream'
<1>1. contiguous' \in Seq(Int) /\ consumed \in Seq(Int)
  BY DEF Before, Consecutive
<1>2. \A i \in DOMAIN consumed : consumed[i] = o + i - 1
  <2>1. Consecutive(consumed, o)
    BY DEF Before
  <2>2. \A i \in 1 .. Len(consumed) : consumed[i] = o + i - 1
    BY <2>1 DEF Consecutive
  <2>3. DOMAIN consumed = 1 .. Len(consumed)
    BY <1>1
  <2> QED
    BY <2>2, <2>3
<1>3. \A i \in DOMAIN contiguous' : contiguous'[i] = o + Len(consumed) + i - 1
  <2>1. \A i \in 1 .. Len(contiguous') : contiguous'[i] = o + Len(consumed) + i - 1
    BY DEF Consecutive
  <2>2. DOMAIN contiguous' = 1 .. Len(contiguous')
    BY <1>1
  <2> QED
    BY <2>1, <2>2
<1> QED
  BY <1>2, <1>3 DEF DeliversExactStream

\* What has been delivered stays delivered as next_expected grows.
LEMMA DeliveredStays ==
    ASSUME NEW q \in Nat, NEW o \in Nat, NEW a \in Nat, NEW b \in Nat, a <= b,
           Delivered(q, o, a)
    PROVE  Delivered(q, o, b)
<1> QED
  BY DEF Delivered

\* A byte known before the push is still accounted for after it.
LEMMA ExtendedAccountsFor ==
    ASSUME Inv, TypeOK', NEW o \in Nat, origin' = o, origin # None => o = origin,
           origin = None => arrived = {},
           NEW p, NEW n, push(p, n), Extended(o, p .. p + n - 1), o # None
    PROVE  NoSilentLoss'
<1> DEFINE S == p .. p + n - 1
<1> SUFFICES ASSUME NEW q \in arrived'
             PROVE  \/ q \in Held(pending')
                    \/ q \in abandoned'
                    \/ Delivered(q, o, next_expected')
  BY DEF NoSilentLoss, Delivered
<1>1. q \in Nat /\ next_expected \in Nat /\ next_expected' \in Nat /\ next_expected <= next_expected'
  BY StreamAssumption DEF Inv, TypeOK, Positions, Extended
<1>2. arrived' = arrived \union S
  BY DEF push
<1>3. \/ q \in S
      \/ q \in Held(pending)
      \/ q \in abandoned
      \/ Delivered(q, o, next_expected)
  BY <1>2 DEF Inv, NoSilentLoss, Delivered
<1>4. CASE Delivered(q, o, next_expected)
  BY <1>1, <1>4, DeliveredStays
<1>5. CASE q \in Held(pending) \union S
  <2>1. CASE outcome'.kind = "GapAbandoned"
    BY <1>5, <2>1 DEF push
  <2>2. CASE outcome'.kind # "GapAbandoned"
    BY <1>5, <2>2 DEF Extended
  <2> QED
    BY <2>1, <2>2
<1>6. CASE q \in abandoned /\ q \notin S
  BY <1>6 DEF push
<1> QED
  BY <1>3, <1>4, <1>5, <1>6

\* A discarded duplicate was delivered before: none of its bytes is new.
LEMMA DiscardExtends ==
    ASSUME NoWrap, NEW o, Before(o), NEW p \in Positions, NEW n \in 1 .. MaxPayload,
           Offset(o, p) + n <= next_expected, DiscardDuplicate
    PROVE  Extended(o, p .. p + n - 1)
<1>1. /\ o \in 0 .. StreamLen /\ o + next_expected <= StreamLen /\ next_expected \in Nat
      /\ p \in Nat /\ n \in Nat /\ p < StreamLen
  BY StreamAssumption, SizeAssumption DEF Before, TypeOK, Positions
<1>2. p >= o /\ p - o + n <= next_expected
  BY <1>1, StreamAssumption, SizeAssumption DEF NoWrap, Offset
<1>3. \A q \in p .. p + n - 1 : Delivered(q, o, next_expected)
  BY <1>1, <1>2, StreamAssumption DEF Delivered
<1>4. next_expected' = next_expected /\ pending' = pending /\ contiguous' = contiguous
  BY DEF DiscardDuplicate, buffers
<1> QED
  BY <1>1, <1>3, <1>4 DEF Before, Extended

\* A payload that ends at or before the new next_expected is delivered whole.
LEMMA PayloadDelivered ==
    ASSUME NEW p \in Nat, NEW n \in Nat, NEW o \in Nat, NEW next \in Nat, NEW m \in Nat,
           p >= o, p - o + n > next, p + n <= o + m
    PROVE  next <= m /\ \A q \in p .. p + n - 1 : Delivered(q, o, m)
<1> QED
  BY DEF Delivered

\* A push that fills the gap.
LEMMA DeliverExtends ==
    ASSUME NoWrap, NEW o, Before(o), NEW p \in Positions, NEW n \in 1 .. MaxPayload,
           p + n <= StreamLen, NEW rel \in Nat, rel = Offset(o, p),
           rel + n > next_expected, rel <= next_expected, deliver(Trimmed(p, n, rel))
    PROVE  Extended(o, p .. p + n - 1)
<1> DEFINE seg == Trimmed(p, n, rel)
<1>1. /\ o \in 0 .. StreamLen /\ o + next_expected <= StreamLen /\ next_expected \in Nat
      /\ p \in Nat /\ n \in Nat /\ p < StreamLen /\ o \in Nat /\ TypeOK
  <2>1. o \in 0 .. StreamLen /\ o + next_expected <= StreamLen /\ TypeOK
    BY DEF Before
  <2>2. next_expected \in Nat
    BY <2>1 DEF TypeOK
  <2>3. p \in Nat /\ n \in Nat /\ p < StreamLen /\ o \in Nat
    BY <2>1, StreamAssumption, SizeAssumption DEF Positions
  <2> QED
    BY <2>1, <2>2, <2>3
<1>2. seg \in Segment /\ seg.pos + seg.len = p + n
  BY <1>1, TrimmedIsSegment
<1>3. p >= o /\ rel = p - o
  BY <1>1, StreamAssumption, SizeAssumption DEF NoWrap, Offset
<1>4. seg.pos = o + next_expected
  BY <1>1, <1>3 DEF Trimmed
<1>5. deliver(seg)
  OBVIOUS
<1> HIDE DEF seg
<1>6. /\ next_expected' \in Nat
      /\ o + next_expected + seg.len <= o + next_expected'
      /\ o + next_expected' <= StreamLen
      /\ \A k \in DOMAIN pending' : k > next_expected'
      /\ FiledFrom(pending', o)
      /\ Len(consumed) + Len(contiguous') = next_expected'
      /\ Consecutive(contiguous', o + Len(consumed))
      /\ \A q \in Held(pending) :
             q \in Held(pending') \/ (o <= q /\ q < o + next_expected')
  BY <1>1, <1>2, <1>4, <1>5, DeliverKeepsStream DEF Before
<1>7. next_expected' \in Nat /\ p + n <= o + next_expected'
  BY <1>2, <1>4, <1>6
<1>8. /\ next_expected <= next_expected'
      /\ \A q \in p .. p + n - 1 : Delivered(q, o, next_expected')
  BY <1>1, <1>3, <1>7, PayloadDelivered
<1> QED
  BY <1>6, <1>7, <1>8 DEF Extended, Delivered

\* A segment already pending at the same offset begins at the same byte.
LEMMA SameOffsetSameByte ==
    ASSUME NoWrap, NEW o, Before(o), NEW p \in Positions,
           NEW rel \in DOMAIN pending, rel = Offset(o, p)
    PROVE  pending[rel].pos = p
<1>1. pending[rel].pos \in Positions /\ o \in 0 .. StreamLen /\ rel = Offset(o, pending[rel].pos)
  BY DEF Before, TypeOK, FiledFrom, Segment
<1> QED
  BY <1>1, StreamAssumption, SizeAssumption DEF NoWrap, Offset, Positions

\* The bytes of a payload are those of the segment made of it.
LEMMA PayloadBytes ==
    ASSUME NEW p \in Nat, NEW n \in Nat, NEW seg, seg.pos = p, seg.len \in Nat, seg.len >= n
    PROVE  (p .. p + n - 1) \subseteq BytesOf(seg)
<1> SUFFICES ASSUME NEW q \in p .. p + n - 1 PROVE q \in BytesOf(seg)
  OBVIOUS
<1>1. q - p \in 0 .. seg.len - 1 /\ q = p + (q - p)
  OBVIOUS
<1> QED
  BY <1>1 DEF BytesOf

\* Inserting a segment forgets none: what it replaces was a prefix of it.
LEMMA InsertedHolds ==
    ASSUME NoWrap, NEW o, Before(o), NEW p \in Positions, NEW n \in 1 .. MaxPayload,
           NEW rel \in Nat, rel = Offset(o, p), rel > next_expected,
           NEW seg, seg.pos = p, seg.len = n, ~AlreadyPending(rel, seg)
    PROVE  /\ (Held(pending) \union (p .. p + n - 1)) \subseteq Held(Inserted(rel, seg))
           /\ FiledFrom(Inserted(rel, seg), o)
           /\ \A k \in DOMAIN Inserted(rel, seg) : k > next_expected
<1> DEFINE ins == Inserted(rel, seg)
<1>1. p \in Nat /\ n \in Nat
  BY SizeAssumption, StreamAssumption DEF Positions
<1>2. ins[rel] = seg /\ DOMAIN ins = DOMAIN pending \union {rel}
  BY DEF Inserted
<1>3. \A k \in DOMAIN pending : k # rel => ins[k] = pending[k]
  BY DEF Inserted
<1> HIDE DEF ins
<1>4. BytesOf(seg) \subseteq Held(ins)
  BY <1>2 DEF Held
<1>5. (p .. p + n - 1) \subseteq BytesOf(seg)
  BY <1>1, PayloadBytes
<1>6. ASSUME NEW k \in DOMAIN pending PROVE BytesOf(pending[k]) \subseteq Held(ins)
  <2>1. CASE k # rel
    BY <1>2, <1>3, <2>1 DEF Held
  <2>2. CASE k = rel
    <3>1. pending[rel].pos = p
      BY <2>2, SameOffsetSameByte
    <3>2. pending[rel].len \in Nat /\ pending[rel].len < n
      BY <1>1, <2>2, SizeAssumption DEF AlreadyPending, Before, TypeOK, Segment
    <3>3. BytesOf(pending[rel]) \subseteq BytesOf(seg)
      BY <1>1, <3>1, <3>2 DEF BytesOf
    <3> QED
      BY <1>4, <2>2, <3>3
  <2> QED
    BY <2>1, <2>2
<1>7. Held(pending) \subseteq Held(ins)
  BY <1>6 DEF Held
<1>8. FiledFrom(ins, o)
  BY <1>2, <1>3 DEF Before, FiledFrom
<1>9. \A k \in DOMAIN ins : k > next_expected
  BY <1>2 DEF Before
<1> QED
  BY <1>4, <1>5, <1>7, <1>8, <1>9 DEF ins

\* A push beyond the gap.
LEMMA BufferExtends ==
    ASSUME NoWrap, NEW o, Before(o), NEW p \in Positions, NEW n \in 1 .. MaxPayload,
           NEW rel \in Nat, rel = Offset(o, p), rel > next_expected,
           buffer_pending(rel, Trimmed(p, n, rel))
    PROVE  Extended(o, p .. p + n - 1)
<1> DEFINE seg == Trimmed(p, n, rel)
           ins == Inserted(rel, seg)
<1>1. /\ o + next_expected <= StreamLen /\ next_expected \in Nat
      /\ p \in Nat /\ n \in Nat /\ TypeOK
  BY StreamAssumption, SizeAssumption DEF Before, TypeOK, Positions
<1>2. seg.pos = p /\ seg.len = n
  BY <1>1 DEF Trimmed
<1>3. buffer_pending(rel, seg)
  OBVIOUS
<1> HIDE DEF seg
<1>4. ASSUME next_expected' = next_expected, contiguous' = contiguous,
             FiledFrom(pending', o), \A k \in DOMAIN pending' : k > next_expected,
             \/ (Held(pending) \union (p .. p + n - 1)) \subseteq Held(pending')
             \/ outcome'.kind = "GapAbandoned"
      PROVE  Extended(o, p .. p + n - 1)
  BY <1>1, <1>4 DEF Before, Extended
<1>5. CASE AlreadyPending(rel, seg) /\ DiscardDuplicate
  <2>1. rel \in DOMAIN pending /\ pending[rel].len >= n /\ pending[rel].len \in Nat
    BY <1>2, <1>5, SizeAssumption DEF AlreadyPending, Before, TypeOK, Segment
  <2>2. pending[rel].pos = p
    BY <2>1, SameOffsetSameByte
  <2>3. (p .. p + n - 1) \subseteq BytesOf(pending[rel])
    BY <1>1, <2>1, <2>2, PayloadBytes
  <2>4. (p .. p + n - 1) \subseteq Held(pending)
    BY <2>1, <2>3 DEF Held
  <2> QED
    BY <1>4, <1>5, <2>4 DEF DiscardDuplicate, buffers, Before
<1>6. CASE BufferOutOfOrder(rel, seg)
  <2>1. ~AlreadyPending(rel, seg) /\ pending' = ins
        /\ next_expected' = next_expected /\ contiguous' = contiguous
    BY <1>6 DEF BufferOutOfOrder
  <2>2. /\ (Held(pending) \union (p .. p + n - 1)) \subseteq Held(ins)
        /\ FiledFrom(ins, o)
        /\ \A k \in DOMAIN ins : k > next_expected
    BY <1>2, <2>1, InsertedHolds
  <2> QED
    BY <1>4, <2>1, <2>2
<1>7. ASSUME NEW K \in SUBSET DOMAIN ins, NEW bytes, ~AlreadyPending(rel, seg),
             Abandon(rel, seg, K, bytes)
      PROVE  Extended(o, p .. p + n - 1)
  <2>1. FiledFrom(ins, o) /\ \A k \in DOMAIN ins : k > next_expected
    BY <1>2, <1>7, InsertedHolds
  <2>2. /\ next_expected' = next_expected /\ contiguous' = contiguous
        /\ pending' = KeepOnly(ins, K) /\ outcome'.kind = "GapAbandoned"
    BY <1>7 DEF Abandon
  <2>3. FiledFrom(pending', o) /\ \A k \in DOMAIN pending' : k > next_expected
    BY <1>7, <2>1, <2>2 DEF KeepOnly, FiledFrom
  <2> QED
    BY <1>4, <2>2, <2>3
<1>8. CASE AbandonAged(rel, seg)
  BY <1>7, <1>8 DEF AbandonAged
<1>9. CASE AbandonOverCap(rel, seg)
  BY <1>7, <1>9 DEF AbandonOverCap, Survivors
<1> QED
  BY <1>3, <1>5, <1>6, <1>8, <1>9 DEF buffer_pending

\* A push finds the buffer filed from some origin o, gives the code's offset
\* relative to it, and leaves o the origin and the stream extended.
LEMMA PushExtends ==
    ASSUME NoWrap, Inv, NEW p \in Positions, NEW n \in 1 .. MaxPayload,
           p + n <= StreamLen, push(p, n)
    PROVE  \E o \in 0 .. StreamLen, rel \in 0 .. SeqSpace - 1 :
              /\ origin' = o /\ base_seq' = SeqOf(o) /\ o # None /\ base_seq' # None
              /\ origin # None => o = origin
              /\ origin = None => o = p /\ arrived = {} /\ DOMAIN pending = {}
              /\ rel = Offset(o, p)
              /\ push_relative(p, n, rel)
              /\ Before(o)
              /\ Extended(o, p .. p + n - 1)
<1> DEFINE o == origin'
           rel == relative_seq(SeqOf(p))
<1>1. Anchor(SeqOf(p), p) /\ push_relative(p, n, rel)
  BY DEF push
<1>2. /\ rel = Offset(o, p) /\ o \in 0 .. StreamLen /\ o + next_expected <= StreamLen
      /\ base_seq' = SeqOf(o) /\ base_seq' \in 0 .. SeqSpace - 1
      /\ origin # None => o = origin
      /\ origin = None => arrived = {} /\ DOMAIN pending = {}
  BY <1>1, PushOffset
<1>3. origin = None => o = p
  BY <1>1 DEF Inv, Anchored, Anchor
<1> HIDE DEF o
<1>4. o # None /\ base_seq' # None /\ origin' = o
  BY <1>2, NoneAssumption, SizeAssumption, StreamAssumption DEF o
<1>5. Before(o)
  BY <1>2, InvGivesBefore
<1>6. rel \in 0 .. SeqSpace - 1 /\ rel \in Nat
  <2>1. SeqOf(p) \in 0 .. SeqSpace - 1
    BY SeqOfType, StreamAssumption DEF Positions
  <2> QED
    BY <2>1, RelativeType, SizeAssumption DEF Inv
<1> HIDE DEF rel
<1>7. Extended(o, p .. p + n - 1)
  <2>1. CASE rel + n <= next_expected /\ DiscardDuplicate
    BY <1>2, <1>5, <2>1, DiscardExtends
  <2>2. CASE rel + n > next_expected /\ rel <= next_expected /\ deliver(Trimmed(p, n, rel))
    BY <1>2, <1>5, <1>6, <2>2, DeliverExtends
  <2>3. CASE rel + n > next_expected /\ rel > next_expected
             /\ buffer_pending(rel, Trimmed(p, n, rel))
    BY <1>2, <1>5, <1>6, <2>3, BufferExtends
  <2> QED
    BY <1>1, <2>1, <2>2, <2>3 DEF push_relative
<1> QED
  BY <1>1, <1>2, <1>3, <1>4, <1>5, <1>6, <1>7

\* Every push keeps the invariant (its type part is TypeCorrect's).
LEMMA PushKeepsInv ==
    ASSUME NoWrap, Inv, TypeOK', NEW p \in Positions, NEW n \in 1 .. MaxPayload,
           p + n <= StreamLen, push(p, n)
    PROVE  Inv'
<1>1. PICK o \in 0 .. StreamLen :
         /\ origin' = o /\ base_seq' = SeqOf(o) /\ o # None /\ base_seq' # None
         /\ origin # None => o = origin
         /\ origin = None => arrived = {}
         /\ Before(o)
         /\ Extended(o, p .. p + n - 1)
  BY PushExtends
<1>2. o \in Nat /\ consumed' = consumed
  BY StreamAssumption DEF push
<1>3. Anchored'
  BY <1>1, <1>2 DEF Anchored, Extended
<1>4. InPlace'
  BY <1>1 DEF InPlace, FiledFrom, Extended
<1>5. DeliversExactStream'
  BY <1>1, <1>2, ExtendedGivesExact DEF Extended
<1>6. NoSilentLoss'
  BY <1>1, <1>2, ExtendedAccountsFor
<1> QED
  BY <1>3, <1>4, <1>5, <1>6 DEF Inv

\* Both parts of a run of consecutive numbers are runs.
LEMMA SplitConsecutive ==
    ASSUME NEW s, NEW c \in Int, Consecutive(s, c), NEW n \in 1 .. Len(s)
    PROVE  /\ Consecutive(SubSeq(s, 1, n), c)
           /\ Len(SubSeq(s, 1, n)) = n
           /\ Consecutive(SubSeq(s, n + 1, Len(s)), c + n)
           /\ Len(SubSeq(s, n + 1, Len(s))) = Len(s) - n
<1>1. s \in Seq(Int) /\ Len(s) \in Nat /\ n \in Nat
  BY DEF Consecutive
<1>2. /\ SubSeq(s, 1, n) \in Seq(Int) /\ Len(SubSeq(s, 1, n)) = n
      /\ \A i \in 1 .. n : SubSeq(s, 1, n)[i] = s[i]
  BY <1>1
<1>3. /\ SubSeq(s, n + 1, Len(s)) \in Seq(Int)
      /\ Len(SubSeq(s, n + 1, Len(s))) = Len(s) - n
      /\ \A i \in 1 .. Len(s) - n : SubSeq(s, n + 1, Len(s))[i] = s[n + i]
  BY <1>1
<1>4. \A i \in 1 .. n : s[i] = c + i - 1
  BY <1>1 DEF Consecutive
<1>5. \A i \in 1 .. Len(s) - n : s[n + i] = c + n + i - 1
  <2> SUFFICES ASSUME NEW i \in 1 .. Len(s) - n PROVE s[n + i] = c + n + i - 1
    OBVIOUS
  <2>1. n + i \in 1 .. Len(s)
    BY <1>1
  <2>2. s[n + i] = c + (n + i) - 1
    BY <2>1 DEF Consecutive
  <2> QED
    BY <1>1, <2>2
<1> QED
  BY <1>2, <1>3, <1>4, <1>5 DEF Consecutive

\* Taking bytes moves the front of what is ready to the end of what was consumed.
LEMMA TakeKeepsExact ==
    ASSUME Inv, NEW n \in 1 .. Len(contiguous), take_bytes(n)
    PROVE  DeliversExactStream'
<1> DEFINE front == SubSeq(contiguous, 1, n)
           rest == SubSeq(contiguous, n + 1, Len(contiguous))
<1>1. consumed' = consumed \o front /\ contiguous' = rest /\ next_expected' = next_expected
      /\ origin' = origin
  BY DEF take_bytes
<1>2. /\ contiguous \in Seq(Int) /\ consumed \in Seq(Int)
      /\ Len(contiguous) \in Nat /\ Len(consumed) \in Nat /\ n \in Nat
  BY StreamAssumption DEF Inv, TypeOK, Positions
<1>3. origin \in Nat /\ origin + Len(consumed) \in Int
  <2>1. origin # None
    BY <1>2 DEF Inv, Anchored
  <2> QED
    BY <1>2, <2>1, StreamAssumption DEF Inv, TypeOK
<1>4. Len(consumed) + Len(contiguous) = next_expected
  BY DEF Inv, DeliversExactStream
<1>5. Consecutive(contiguous, origin + Len(consumed)) /\ Consecutive(consumed, origin)
  <2>1. DOMAIN contiguous = 1 .. Len(contiguous) /\ DOMAIN consumed = 1 .. Len(consumed)
    BY <1>2
  <2>2. \A i \in DOMAIN contiguous : contiguous[i] = origin + Len(consumed) + i - 1
    BY DEF Inv, DeliversExactStream
  <2>3. \A i \in DOMAIN consumed : consumed[i] = origin + i - 1
    BY DEF Inv, DeliversExactStream
  <2>4. Consecutive(contiguous, origin + Len(consumed))
    BY <1>2, <2>1, <2>2 DEF Consecutive
  <2>5. Consecutive(consumed, origin)
    BY <1>2, <2>1, <2>3 DEF Consecutive
  <2> QED
    BY <2>4, <2>5
<1>6. /\ Consecutive(front, origin + Len(consumed)) /\ Len(front) = n
      /\ Consecutive(rest, origin + Len(consumed) + n) /\ Len(rest) = Len(contiguous) - n
  BY <1>3, <1>5, SplitConsecutive
<1> HIDE DEF front, rest
<1>7. Consecutive(consumed', origin) /\ Len(consumed') = Len(consumed) + n
  <2>1. origin \in Int
    BY <1>3
  <2>2. Consecutive(consumed \o front, origin)
        /\ Len(consumed \o front) = Len(consumed) + Len(front)
    BY <1>5, <1>6, <2>1, ConcatConsecutive
  <2> QED
    BY <1>1, <1>6, <2>2
<1>8. Consecutive(contiguous', origin + Len(consumed')) /\ Len(contiguous') = Len(contiguous) - n
  <2>1. origin + Len(consumed') = origin + Len(consumed) + n
    BY <1>2, <1>3, <1>7
  <2> QED
    BY <1>1, <1>6, <2>1
<1>9. Len(consumed') + Len(contiguous') = next_expected'
  BY <1>1, <1>2, <1>4, <1>7, <1>8
<1>10. \A i \in DOMAIN consumed' : consumed'[i] = origin' + i - 1
  <2>1. DOMAIN consumed' = 1 .. Len(consumed')
    BY <1>7 DEF Consecutive
  <2> QED
    BY <1>1, <1>7, <2>1 DEF Consecutive
<1>11. \A i \in DOMAIN contiguous' : contiguous'[i] = origin' + Len(consumed') + i - 1
  <2>1. DOMAIN contiguous' = 1 .. Len(contiguous')
    BY <1>8 DEF Consecutive
  <2> QED
    BY <1>1, <1>8, <2>1 DEF Consecutive
<1> QED
  BY <1>9, <1>10, <1>11 DEF DeliversExactStream

\* For every sequence space larger than the stream, every payload size and every
\* limit, the conjunction of these facts is an invariant of the reassembler.
THEOREM Invariance == ASSUME NoWrap PROVE Spec => []Inv
<1>1. Init => Inv
  <2> SUFFICES ASSUME Init PROVE Inv
    OBVIOUS
  <2>1. TypeOK
    BY DEF Init, TypeOK, Outcome, PushOutcome
  <2>2. Anchored /\ InPlace
    BY DEF Init, Anchored, InPlace
  <2>3. DeliversExactStream /\ NoSilentLoss
    BY DEF Init, DeliversExactStream, NoSilentLoss
  <2> QED
    BY <2>1, <2>2, <2>3 DEF Inv
<1>2. TypeOK' /\ Inv /\ [Next]_vars => Inv'
  <2> SUFFICES ASSUME TypeOK', Inv, [Next]_vars PROVE Inv'
    OBVIOUS
  <2>1. CASE set_isn
    <3>1. base_seq' = (IF base_seq = None THEN SeqOf(0) ELSE base_seq)
          /\ origin' = (IF base_seq = None THEN 0 ELSE origin)
      BY <2>1 DEF set_isn, Anchor
    <3>2. UNCHANGED <<next_expected, contiguous, pending, consumed, arrived, abandoned>>
      BY <2>1 DEF set_isn, buffers
    <3>3. CASE base_seq = None
      <4>1. /\ origin = None /\ next_expected = 0 /\ contiguous = << >> /\ consumed = << >>
            /\ DOMAIN pending = {} /\ arrived = {}
        BY <3>3 DEF Inv, Anchored
      <4>2. SeqOf(0) # None /\ 0 # None
        BY SeqOfType, NoneAssumption, SizeAssumption
      <4>3. Anchored'
        BY <3>1, <3>2, <3>3, <4>1, <4>2, StreamAssumption DEF Anchored
      <4>4. InPlace' /\ NoSilentLoss'
        BY <3>2, <4>1 DEF InPlace, NoSilentLoss
      <4>5. DeliversExactStream'
        BY <3>2, <4>1 DEF DeliversExactStream
      <4> QED
        BY <4>3, <4>4, <4>5 DEF Inv
    <3>4. CASE base_seq # None
      BY <3>1, <3>2, <3>4
         DEF Inv, Anchored, InPlace, DeliversExactStream, NoSilentLoss
    <3> QED
      BY <3>3, <3>4
  <2>2. CASE PushEmpty
    BY <2>2 DEF PushEmpty, buffers, history,
                Inv, Anchored, InPlace, DeliversExactStream, NoSilentLoss
  <2>3. CASE Push
    BY <2>3, PushKeepsInv DEF Push
  <2>4. CASE Take
    <3>1. PICK n \in 1 .. Len(contiguous) : take_bytes(n)
      BY <2>4 DEF Take
    <3>2. DeliversExactStream'
      BY <3>1, TakeKeepsExact
    <3>3. Anchored'
      <4>1. origin # None /\ base_seq # None
        BY <3>1 DEF Inv, Anchored
      <4> QED
        BY <3>1, <4>1 DEF take_bytes, Inv, Anchored
    <3> QED
      BY <3>1, <3>2, <3>3 DEF take_bytes, Inv, InPlace, NoSilentLoss
  <2>5. CASE Tick
    BY <2>5 DEF Tick, history, Inv, Anchored, InPlace, DeliversExactStream, NoSilentLoss
  <2>6. CASE UNCHANGED vars
    BY <2>6 DEF vars, buffers, history,
                Inv, Anchored, InPlace, DeliversExactStream, NoSilentLoss
  <2> QED
    BY <2>1, <2>2, <2>3, <2>4, <2>5, <2>6 DEF Next
<1> QED
  BY <1>1, <1>2, TypeCorrect, PTL DEF Spec

\* The record layer reads exactly the sender's bytes, for every stream shorter
\* than the sequence space.
THEOREM ExactDelivery == ASSUME NoWrap PROVE Spec => []DeliversExactStream
<1>1. Inv => DeliversExactStream
  BY DEF Inv
<1> QED
  BY <1>1, Invariance, PTL

\* No captured byte disappears unless a push reported GapAbandoned.
THEOREM NoByteSilentlyLost == ASSUME NoWrap PROVE Spec => []NoSilentLoss
<1>1. Inv => NoSilentLoss
  BY DEF Inv
<1> QED
  BY <1>1, Invariance, PTL

\* Whatever is pending waits for a byte that the reassembler does not have.
THEOREM PendingBehindRealGap == ASSUME NoWrap PROVE Spec => []GapIsReal
<1>1. Inv => GapIsReal
  <2> SUFFICES ASSUME Inv, origin = 0, next_expected \in arrived, next_expected \notin abandoned
               PROVE  FALSE
    BY DEF GapIsReal, Inv, TypeOK
  <2>1. next_expected \in Nat
    BY DEF Inv, TypeOK
  <2>2. next_expected \in Held(pending)
    BY <2>1 DEF Inv, NoSilentLoss
  <2>3. PICK k \in DOMAIN pending : next_expected \in BytesOf(pending[k])
    BY <2>2 DEF Held
  <2>4. k > next_expected /\ k = pending[k].pos /\ pending[k].len \in Nat /\ k \in Nat
    BY SizeAssumption, StreamAssumption DEF Inv, InPlace, Offset, TypeOK, Segment, Positions
  <2> QED
    BY <2>1, <2>3, <2>4 DEF BytesOf
<1> QED
  BY <1>1, Invariance, PTL
-----------------------------------------------------------------------------
(* The limits of the buffer, with no assumption on the stream.             *)

Lens(p) == [k \in DOMAIN p |-> p[k].len]

\* A buffer is finite, and its payload is a natural number at every set of keys.
LEMMA SumLenType ==
    ASSUME NEW p, IsBuffer(p), NEW K \in SUBSET DOMAIN p
    PROVE  /\ IsFiniteSet(DOMAIN p) /\ IsFiniteSet(K)
           /\ Cardinality(K) \in Nat /\ Cardinality(K) <= Cardinality(DOMAIN p)
           /\ SumLen(p, K) = SumFunctionOnSet(Lens(p), K)
           /\ \A k \in DOMAIN p : Lens(p)[k] \in Nat
           /\ SumLen(p, K) \in Nat
<1>1. IsFiniteSet(0 .. SeqSpace - 1)
  BY FS_Interval, SizeAssumption
<1>2. IsFiniteSet(DOMAIN p)
  BY <1>1, FS_Subset DEF IsBuffer
<1>3. IsFiniteSet(K) /\ Cardinality(K) \in Nat /\ Cardinality(K) <= Cardinality(DOMAIN p)
  BY <1>2, FS_Subset, FS_CardinalityType
<1>4. \A k \in DOMAIN p : Lens(p)[k] \in Nat
  BY SizeAssumption DEF IsBuffer, Segment, Lens
<1>5. SumLen(p, K) = SumFunctionOnSet(Lens(p), K)
  BY DEF SumLen, Lens
<1>6. SumFunctionOnSet(Lens(p), K) \in Nat
  BY <1>3, <1>4, SumType
<1> QED
  BY <1>2, <1>3, <1>4, <1>5, <1>6

\* The payload splits over the keys.
LEMMA SumLenSplit ==
    ASSUME NEW p, IsBuffer(p), NEW L \in SUBSET DOMAIN p, NEW K \in SUBSET L
    PROVE  SumLen(p, L) = SumLen(p, K) + SumLen(p, L \ K) /\ SumLen(p, K) <= SumLen(p, L)
<1>1. /\ IsFiniteSet(L) /\ \A k \in DOMAIN p : Lens(p)[k] \in Nat
      /\ SumLen(p, L) = SumFunctionOnSet(Lens(p), L)
  BY SumLenType
<1>2. /\ SumLen(p, K) = SumFunctionOnSet(Lens(p), K) /\ SumLen(p, K) \in Nat
  BY SumLenType
<1>3. /\ SumLen(p, L \ K) = SumFunctionOnSet(Lens(p), L \ K) /\ SumLen(p, L \ K) \in Nat
  <2>1. PICK M \in SUBSET DOMAIN p : M = L \ K
    OBVIOUS
  <2> QED
    BY <2>1, SumLenType
<1>4. SumFunctionOnSet(Lens(p), L) = SumFunctionOnSet(Lens(p), K) + SumFunctionOnSet(Lens(p), L \ K)
  <2>1. \A k \in L : Lens(p)[k] \in Nat
    BY <1>1
  <2>2. PICK f : f = Lens(p)
    OBVIOUS
  <2> QED
    BY <1>1, <2>1, <2>2, SumSplit
<1> QED
  BY <1>1, <1>2, <1>3, <1>4

\* Keeping some keys keeps their payload.
LEMMA SumLenKept ==
    ASSUME NEW p, IsBuffer(p), NEW K \in SUBSET DOMAIN p
    PROVE  /\ DOMAIN KeepOnly(p, K) = K
           /\ SumLen(KeepOnly(p, K), K) = SumLen(p, K)
<1>1. DOMAIN KeepOnly(p, K) = K /\ IsBuffer(KeepOnly(p, K))
  BY KeepOnlyIsBuffer DEF KeepOnly
<1>2. PICK q : q = KeepOnly(p, K)
  OBVIOUS
<1>3. SumLen(q, K) = SumFunctionOnSet(Lens(q), K) /\ SumLen(p, K) = SumFunctionOnSet(Lens(p), K)
      /\ IsFiniteSet(K)
  BY <1>1, <1>2, SumLenType
<1>4. \A k \in K : Lens(q)[k] = Lens(p)[k]
  BY <1>2 DEF Lens, KeepOnly
<1>5. PICK f, g : f = Lens(q) /\ g = Lens(p)
  OBVIOUS
<1>6. SumFunctionOnSet(f, K) = SumFunctionOnSet(g, K)
  BY <1>3, <1>4, <1>5, SumCongruent
<1> QED
  BY <1>1, <1>2, <1>3, <1>5, <1>6

\* The running counter of an insertion is the payload with the segment in it.
LEMMA InsertedLenIsSum ==
    ASSUME TypeOK, pending_len = SumLen(pending, DOMAIN pending),
           NEW rel \in 0 .. SeqSpace - 1, NEW seg \in Segment
    PROVE  /\ InsertedLen(rel, seg) = SumLen(Inserted(rel, seg), DOMAIN Inserted(rel, seg))
           /\ InsertedLen(rel, seg) \in Nat
<1>1. PICK q : q = Inserted(rel, seg) /\ IsBuffer(q)
  BY InsertedIsBuffer
<1>2. IsBuffer(pending)
  BY DEF TypeOK, IsBuffer
<1>3. DOMAIN q = DOMAIN pending \union {rel} /\ q[rel] = seg
      /\ \A k \in DOMAIN pending \ {rel} : q[k] = pending[k]
  BY <1>1 DEF Inserted
<1>4. /\ IsFiniteSet(DOMAIN pending) /\ \A k \in DOMAIN pending : Lens(pending)[k] \in Nat
      /\ pending_len = SumFunctionOnSet(Lens(pending), DOMAIN pending)
  BY <1>2, SumLenType
<1>5. /\ \A k \in DOMAIN q : Lens(q)[k] \in Nat
      /\ SumLen(q, DOMAIN q) = SumFunctionOnSet(Lens(q), DOMAIN q)
  BY <1>1, SumLenType
<1>6. PICK f, g : f = Lens(pending) /\ g = Lens(q)
  OBVIOUS
<1>7. /\ DOMAIN f = DOMAIN pending /\ DOMAIN g = DOMAIN f \union {rel}
      /\ \A k \in DOMAIN f \ {rel} : g[k] = f[k]
      /\ g[rel] = seg.len /\ g[rel] \in Nat
      /\ rel \in DOMAIN pending => f[rel] = pending[rel].len
      /\ IsFiniteSet(DOMAIN f) /\ \A k \in DOMAIN f : f[k] \in Nat
  BY <1>3, <1>4, <1>5, <1>6 DEF Lens
<1>8. /\ SumFunction(f) \in Nat /\ SumFunction(g) \in Nat
      /\ rel \in DOMAIN f => SumFunction(g) + f[rel] = SumFunction(f) + g[rel]
      /\ rel \notin DOMAIN f => SumFunction(g) = SumFunction(f) + g[rel]
  <2>1. PICK r : r = rel
    OBVIOUS
  <2>2. /\ IsFiniteSet(DOMAIN f) /\ \A x \in DOMAIN f : f[x] \in Nat
        /\ DOMAIN g = DOMAIN f \union {r} /\ g[r] \in Nat
        /\ \A x \in DOMAIN f \ {r} : g[x] = f[x]
    BY <1>7, <2>1
  <2>3. /\ SumFunction(f) \in Nat /\ SumFunction(g) \in Nat
        /\ r \in DOMAIN f => SumFunction(g) + f[r] = SumFunction(f) + g[r]
        /\ r \notin DOMAIN f => SumFunction(g) = SumFunction(f) + g[r]
    BY <2>2, SumUpdate
  <2> QED
    BY <2>1, <2>3
<1>9. pending_len = SumFunction(f) /\ SumLen(q, DOMAIN q) = SumFunction(g)
  BY <1>3, <1>4, <1>5, <1>6, <1>7 DEF SumFunction
<1>10. InsertedLen(rel, seg) = SumFunction(g)
  <2>1. CASE rel \in DOMAIN pending
    <3>1. InsertedLen(rel, seg) = SumFunction(f) + g[rel] - f[rel] /\ f[rel] \in Nat
      BY <1>7, <1>9, <2>1 DEF InsertedLen
    <3> QED
      BY <1>7, <1>8, <2>1, <3>1
  <2>2. CASE rel \notin DOMAIN pending
    <3>1. InsertedLen(rel, seg) = SumFunction(f) + g[rel] - 0
      BY <1>7, <1>9, <2>2 DEF InsertedLen
    <3> QED
      BY <1>7, <1>8, <2>2, <3>1
  <2> QED
    BY <2>1, <2>2
<1> QED
  BY <1>1, <1>8, <1>9, <1>10

\* What eviction leaves is within both limits.
LEMMA SurvivorsFit ==
    ASSUME NEW p, IsBuffer(p)
    PROVE  Survivors(p) \subseteq DOMAIN p /\ Fits(p, Survivors(p))
<1>1. Survivors(p) \in SUBSET DOMAIN p /\ DOMAIN p \in SUBSET Nat
  BY SizeAssumption DEF Survivors, IsBuffer
<1>2. CASE Survivors(p) = {}
  <2>1. SumLen(p, {}) = 0
    BY SumEmpty DEF SumLen
  <2> QED
    BY <1>1, <1>2, <2>1, FS_EmptySet, LimitsAssumption DEF Fits
<1>3. CASE Survivors(p) # {}
  <2>1. PICK m \in Survivors(p) : \A x \in Survivors(p) : m <= x
    BY <1>1, <1>3, LeastNatural
  <2> DEFINE U == {j \in DOMAIN p : j >= m}
  <2>2. Fits(p, U)
    BY <2>1 DEF Survivors
  <2>3. \A x \in Survivors(p) : x \in U
    BY <1>1, <2>1
  <2>4. U \in SUBSET DOMAIN p
    OBVIOUS
  <2> HIDE DEF U
  <2>5. PICK K \in SUBSET U : K = Survivors(p)
    BY <2>3
  <2>6. SumLen(p, K) <= SumLen(p, U) /\ SumLen(p, K) \in Nat /\ SumLen(p, U) \in Nat
    BY <2>4, SumLenSplit, SumLenType
  <2>7. IsFiniteSet(U) /\ Cardinality(U) \in Nat
    BY <2>4, SumLenType
  <2>8. Cardinality(K) <= Cardinality(U) /\ Cardinality(K) \in Nat
    BY <2>5, <2>7, FS_Subset, FS_CardinalityType
  <2> QED
    BY <1>1, <2>2, <2>5, <2>6, <2>7, <2>8, LimitsAssumption DEF Fits
<1> QED
  BY <1>1, <1>2, <1>3

\* The buffer and its bookkeeping after a push or as they are.
Within(p, len, age) ==
    /\ len = SumLen(p, DOMAIN p) /\ len <= max_bytes /\ Cardinality(DOMAIN p) <= max_packets
    /\ age = None <=> DOMAIN p = {}

\* Delivery.
LEMMA DeliverWithin ==
    ASSUME TypeOK, Within(pending, pending_len, pending_age), NEW seg, deliver(seg)
    PROVE  Within(pending', pending_len', pending_age')
<1>1. PICK K \in SUBSET DOMAIN pending :
         /\ pending' = KeepOnly(pending, K)
         /\ pending_len' = pending_len - SumLen(pending, DOMAIN pending \ K)
         /\ pending_age' = IF K = {} THEN None ELSE pending_age
  BY DEF deliver, Undrained
<1>2. IsBuffer(pending)
  BY DEF TypeOK, IsBuffer
<1>3. DOMAIN pending' = K /\ SumLen(pending', K) = SumLen(pending, K)
  BY <1>1, <1>2, SumLenKept
<1>4. /\ SumLen(pending, DOMAIN pending) = SumLen(pending, K) + SumLen(pending, DOMAIN pending \ K)
      /\ SumLen(pending, K) <= SumLen(pending, DOMAIN pending)
  BY <1>2, SumLenSplit
<1>5. /\ SumLen(pending, DOMAIN pending) \in Nat /\ SumLen(pending, K) \in Nat
      /\ SumLen(pending, DOMAIN pending \ K) \in Nat
      /\ Cardinality(K) \in Nat /\ Cardinality(DOMAIN pending) \in Nat
      /\ Cardinality(K) <= Cardinality(DOMAIN pending)
  <2>1. PICK M \in SUBSET DOMAIN pending : M = DOMAIN pending \ K
    OBVIOUS
  <2> QED
    BY <1>2, <2>1, SumLenType
<1>6. pending_len' = SumLen(pending', DOMAIN pending') /\ pending_len' <= max_bytes
  BY <1>1, <1>3, <1>4, <1>5, LimitsAssumption DEF Within
<1>7. Cardinality(DOMAIN pending') <= max_packets
  BY <1>3, <1>5, LimitsAssumption DEF Within
<1>8. pending_age' = None <=> DOMAIN pending' = {}
  BY <1>1, <1>3 DEF Within
<1> QED
  BY <1>6, <1>7, <1>8 DEF Within

\* Buffering and eviction.
LEMMA BufferWithin ==
    ASSUME TypeOK, Within(pending, pending_len, pending_age),
           NEW rel \in 0 .. SeqSpace - 1, NEW seg \in Segment, buffer_pending(rel, seg)
    PROVE  Within(pending', pending_len', pending_age')
<1>1. PICK q : q = Inserted(rel, seg) /\ IsBuffer(q)
  BY InsertedIsBuffer
<1>2. InsertedLen(rel, seg) = SumLen(q, DOMAIN q) /\ InsertedLen(rel, seg) \in Nat
  BY <1>1, InsertedLenIsSum DEF Within
<1>3. InsertedAge # None /\ DOMAIN q # {}
  BY <1>1, NoneAssumption DEF InsertedAge, Within, Inserted
<1>4. CASE DiscardDuplicate
  BY <1>4 DEF DiscardDuplicate, buffers
<1>5. CASE BufferOutOfOrder(rel, seg)
  BY <1>1, <1>2, <1>3, <1>5 DEF BufferOutOfOrder, Within
<1>6. ASSUME NEW K \in SUBSET DOMAIN q, Fits(q, K),
             NEW bytes, bytes = SumLen(q, DOMAIN q \ K), Abandon(rel, seg, K, bytes)
      PROVE  Within(pending', pending_len', pending_age')
  <2>1. /\ pending' = KeepOnly(q, K) /\ pending_len' = InsertedLen(rel, seg) - bytes
        /\ pending_age' = IF K = {} THEN None ELSE InsertedAge
    BY <1>1, <1>6 DEF Abandon
  <2>2. DOMAIN pending' = K /\ SumLen(pending', K) = SumLen(q, K)
    BY <1>1, <2>1, SumLenKept
  <2>3. SumLen(q, DOMAIN q) = SumLen(q, K) + SumLen(q, DOMAIN q \ K)
    BY <1>1, SumLenSplit
  <2>4. SumLen(q, K) \in Nat /\ SumLen(q, DOMAIN q \ K) \in Nat
    <3>1. PICK M \in SUBSET DOMAIN q : M = DOMAIN q \ K
      OBVIOUS
    <3> QED
      BY <1>1, <3>1, SumLenType
  <2>5. pending_len' = SumLen(pending', DOMAIN pending') /\ pending_len' <= max_bytes
    BY <1>2, <1>6, <2>1, <2>2, <2>3, <2>4 DEF Fits
  <2>6. Cardinality(DOMAIN pending') <= max_packets
    BY <1>6, <2>2 DEF Fits
  <2>7. pending_age' = None <=> DOMAIN pending' = {}
    BY <1>3, <2>1, <2>2
  <2> QED
    BY <2>5, <2>6, <2>7 DEF Within
<1>7. CASE AbandonAged(rel, seg)
  <2>1. {} \in SUBSET DOMAIN q /\ DOMAIN q \ {} = DOMAIN q
    OBVIOUS
  <2>2. Fits(q, {})
    <3>1. SumLen(q, {}) = 0
      BY SumEmpty DEF SumLen
    <3> QED
      BY <3>1, FS_EmptySet, LimitsAssumption DEF Fits
  <2>3. PICK K \in SUBSET DOMAIN q : K = {}
    BY <2>1
  <2>4. Abandon(rel, seg, K, InsertedLen(rel, seg)) /\ InsertedLen(rel, seg) = SumLen(q, DOMAIN q \ K)
    BY <1>2, <1>7, <2>1, <2>3 DEF AbandonAged
  <2> QED
    BY <1>6, <2>2, <2>3, <2>4
<1>8. CASE AbandonOverCap(rel, seg)
  <2>1. PICK K \in SUBSET DOMAIN q : K = Survivors(q) /\ Fits(q, K)
    BY <1>1, SurvivorsFit
  <2>2. Abandon(rel, seg, K, SumLen(q, DOMAIN q \ K))
    BY <1>1, <1>8, <2>1 DEF AbandonOverCap
  <2> QED
    BY <1>6, <2>1, <2>2
<1> QED
  BY <1>4, <1>5, <1>7, <1>8 DEF buffer_pending

\* The limits and the clock, at every step.
LEMMA LimitsInvariant == Spec => [](TypeOK /\ Within(pending, pending_len, pending_age))
<1> DEFINE W == Within(pending, pending_len, pending_age)
<1>1. Init => W
  <2>1. SumLen(pending, {}) = 0
    BY SumEmpty DEF SumLen
  <2> QED
    BY <2>1, FS_EmptySet, LimitsAssumption DEF Init, Within
<1>2. TypeOK /\ W /\ [Next]_vars => W'
  <2> SUFFICES ASSUME TypeOK, W, [Next]_vars PROVE W'
    OBVIOUS
  <2>1. CASE UNCHANGED <<pending, pending_len, pending_age>>
    BY <2>1
  <2>2. CASE Push
    <3>1. PICK p \in Positions, n \in 1 .. MaxPayload : p + n <= StreamLen /\ push(p, n)
      BY <2>2 DEF Push
    <3>2. PICK rel \in 0 .. SeqSpace - 1 : push_relative(p, n, rel)
      <4>1. p \in Nat
        BY StreamAssumption DEF Positions
      <4>2. relative_seq(SeqOf(p)) \in 0 .. SeqSpace - 1
        BY <4>1, SeqOfType, RelativeType
      <4> QED
        BY <3>1, <4>2 DEF push
    <3>3. CASE DiscardDuplicate
      BY <2>1, <3>3 DEF DiscardDuplicate, buffers
    <3>4. CASE deliver(Trimmed(p, n, rel))
      BY <3>4, DeliverWithin
    <3>5. CASE rel + n > next_expected /\ buffer_pending(rel, Trimmed(p, n, rel))
      <4>1. rel \in Nat
        BY SizeAssumption
      <4>2. Trimmed(p, n, rel) \in Segment
        BY <3>1, <3>5, <4>1, TrimmedIsSegment
      <4> QED
        BY <3>5, <4>2, BufferWithin
    <3> QED
      BY <3>2, <3>3, <3>4, <3>5 DEF push_relative
  <2>3. CASE Tick
    <3>1. pending_age' # None
      BY <2>3, NoneAssumption, AgeAssumption DEF Tick, TypeOK
    <3> QED
      BY <2>3, <3>1 DEF Tick, Within
  <2> QED
    BY <2>1, <2>2, <2>3 DEF Next, set_isn, PushEmpty, Take, take_bytes, buffers, vars
<1> QED
  BY <1>1, <1>2, TypeCorrect, PTL DEF Spec

\* Spec => []WithinLimits: after every push the buffer is within both caps, and the
\* running counter the byte cap is compared with is the payload really buffered.
THEOREM LimitsHold == Spec => []WithinLimits
<1>1. Within(pending, pending_len, pending_age) => WithinLimits
  BY DEF Within, WithinLimits
<1> QED
  BY <1>1, LimitsInvariant, PTL

\* Spec => []ClockRunsWithGap: no clock runs without a gap, and no gap without one.
THEOREM ClockMatchesGap == Spec => []ClockRunsWithGap
<1>1. Within(pending, pending_len, pending_age) => ClockRunsWithGap
  BY DEF Within, ClockRunsWithGap
<1> QED
  BY <1>1, LimitsInvariant, PTL
-----------------------------------------------------------------------------
(* What is forgotten is reported.                                          *)

\* The bytes of the segments at keys K.
BytesAt(p, K) == UNION {BytesOf(p[k]) : k \in K}

\* A segment holds as many bytes as its payload is long.
LEMMA BytesOfSegment ==
    ASSUME NEW seg \in Segment
    PROVE  /\ BytesOf(seg) = seg.pos .. seg.pos + seg.len - 1
           /\ IsFiniteSet(BytesOf(seg)) /\ Cardinality(BytesOf(seg)) = seg.len
<1>1. PICK a, l : a \in Nat /\ l \in Nat \ {0} /\ seg.pos = a /\ seg.len = l
  BY SizeAssumption, StreamAssumption DEF Segment, Positions
<1>2. BytesOf(seg) = {a + i : i \in 0 .. l - 1}
  BY <1>1 DEF BytesOf
<1>3. \A q \in a .. a + l - 1 : q - a \in 0 .. l - 1 /\ q = a + (q - a)
  BY <1>1
<1>4. BytesOf(seg) = a .. a + l - 1
  BY <1>1, <1>2, <1>3
<1>5. IsFiniteSet(a .. a + l - 1) /\ Cardinality(a .. a + l - 1) = l
  BY <1>1, FS_Interval
<1> QED
  BY <1>1, <1>4, <1>5

\* However segments overlap, they hold at most as many bytes as the counter says.
LEMMA BytesAtBounded ==
    ASSUME NEW p, IsBuffer(p), NEW K \in SUBSET DOMAIN p
    PROVE  IsFiniteSet(BytesAt(p, K)) /\ Cardinality(BytesAt(p, K)) <= SumLen(p, K)
<1> DEFINE Fine(s) == IsFiniteSet(BytesAt(p, s)) /\ Cardinality(BytesAt(p, s)) <= SumLen(p, s)
           Bounded == {n \in Nat : \A s \in SUBSET DOMAIN p : Cardinality(s) = n => Fine(s)}
<1>1. \A s \in SUBSET DOMAIN p : IsFiniteSet(s) /\ Cardinality(s) \in Nat /\ SumLen(p, s) \in Nat
  BY SumLenType
<1>2. 0 \in Bounded
  <2> SUFFICES ASSUME NEW s \in SUBSET DOMAIN p, Cardinality(s) = 0 PROVE Fine(s)
    OBVIOUS
  <2>1. s = {}
    BY <1>1, FS_EmptySet
  <2>2. BytesAt(p, s) = {} /\ SumLen(p, s) = 0
    BY <2>1, SumEmpty DEF BytesAt, SumLen
  <2> QED
    BY <2>2, FS_EmptySet
<1>3. ASSUME NEW n \in Nat, n \in Bounded PROVE n + 1 \in Bounded
  <2> SUFFICES ASSUME NEW s \in SUBSET DOMAIN p, Cardinality(s) = n + 1 PROVE Fine(s)
    OBVIOUS
  <2>1. PICK e \in s : TRUE
    BY FS_EmptySet
  <2>2. PICK r \in SUBSET DOMAIN p : r = s \ {e}
    OBVIOUS
  <2>3. Cardinality(r) = n
    BY <1>1, <2>1, <2>2, FS_RemoveElement
  <2>4. Fine(r)
    BY <1>3, <2>3
  <2>5. BytesAt(p, s) = BytesAt(p, r) \union BytesOf(p[e])
    BY <2>1, <2>2 DEF BytesAt
  <2>6. PICK l \in Nat : /\ p[e].len = l /\ Lens(p)[e] = l
                         /\ IsFiniteSet(BytesOf(p[e])) /\ Cardinality(BytesOf(p[e])) = l
    <3>1. p[e] \in Segment /\ Lens(p)[e] = p[e].len
      BY DEF IsBuffer, Lens
    <3>2. p[e].len \in Nat
      BY <3>1, SizeAssumption DEF Segment
    <3> QED
      BY <3>1, <3>2, BytesOfSegment
  <2>7. SumLen(p, s) = l + SumLen(p, r)
    <3>1. PICK f : f = Lens(p)
      OBVIOUS
    <3>2. /\ SumLen(p, s) = SumFunctionOnSet(f, s) /\ SumLen(p, r) = SumFunctionOnSet(f, r)
          /\ \A x \in s : f[x] \in Nat
      BY <3>1, SumLenType
    <3>3. SumFunctionOnSet(f, s) = f[e] + SumFunctionOnSet(f, s \ {e})
      BY <1>1, <3>2, SumRemove
    <3> QED
      BY <2>2, <2>6, <3>1, <3>2, <3>3
  <2>8. PICK A, B : A = BytesAt(p, r) /\ B = BytesOf(p[e])
    OBVIOUS
  <2>9. IsFiniteSet(A) /\ IsFiniteSet(B) /\ Cardinality(A) <= SumLen(p, r) /\ Cardinality(B) = l
    BY <2>4, <2>6, <2>8
  <2>10. /\ IsFiniteSet(A \union B)
         /\ Cardinality(A \union B) = Cardinality(A) + Cardinality(B) - Cardinality(A \cap B)
    BY <2>9, FS_Union
  <2>11. Cardinality(A) \in Nat /\ Cardinality(A \cap B) \in Nat
    <3>1. PICK C \in SUBSET A : C = A \cap B
      OBVIOUS
    <3> QED
      BY <2>9, <3>1, FS_Subset, FS_CardinalityType
  <2>12. Cardinality(A \union B) <= SumLen(p, s)
    BY <1>1, <2>7, <2>9, <2>10, <2>11
  <2> QED
    BY <2>5, <2>8, <2>10, <2>12
<1> HIDE DEF Bounded
<1>4. \A n \in Nat : n \in Bounded
  BY <1>2, <1>3, Induct
<1> QED
  BY <1>1, <1>4 DEF Bounded

\* The results of a push beyond the gap: nothing new, the segment held, or some
\* keys evicted and exactly their payload reported.
LEMMA BufferResults ==
    ASSUME TypeOK, pending_len = SumLen(pending, DOMAIN pending),
           NEW rel \in 0 .. SeqSpace - 1, NEW seg \in Segment, buffer_pending(rel, seg),
           NEW ins, ins = Inserted(rel, seg)
    PROVE  /\ next_expected' = next_expected
           /\ IsBuffer(ins)
           /\ \/ /\ AlreadyPending(rel, seg) /\ pending' = pending
                 /\ outcome' = Outcome("DuplicateDiscarded")
              \/ /\ ~AlreadyPending(rel, seg) /\ pending' = ins
                 /\ outcome' = Outcome("BufferedOutOfOrder")
              \/ /\ ~AlreadyPending(rel, seg)
                 /\ \E K \in SUBSET DOMAIN ins :
                       /\ pending' = KeepOnly(ins, K)
                       /\ outcome' = [kind |-> "GapAbandoned",
                                      bytes |-> SumLen(ins, DOMAIN ins \ K)]
<1>1. IsBuffer(ins)
  BY InsertedIsBuffer
<1>2. InsertedLen(rel, seg) = SumLen(ins, DOMAIN ins)
  BY InsertedLenIsSum
<1>3. CASE AlreadyPending(rel, seg) /\ DiscardDuplicate
  BY <1>1, <1>3 DEF DiscardDuplicate, buffers
<1>4. CASE BufferOutOfOrder(rel, seg)
  BY <1>1, <1>4 DEF BufferOutOfOrder
<1>5. CASE AbandonAged(rel, seg)
  <2>1. {} \in SUBSET DOMAIN ins /\ DOMAIN ins \ {} = DOMAIN ins
    OBVIOUS
  <2>2. /\ ~AlreadyPending(rel, seg) /\ next_expected' = next_expected
        /\ pending' = KeepOnly(ins, {})
        /\ outcome' = [kind |-> "GapAbandoned", bytes |-> SumLen(ins, DOMAIN ins \ {})]
    BY <1>2, <1>5, <2>1 DEF AbandonAged, Abandon
  <2> QED
    BY <1>1, <2>1, <2>2
<1>6. CASE AbandonOverCap(rel, seg)
  <2>1. Survivors(ins) \in SUBSET DOMAIN ins
    BY DEF Survivors
  <2>2. /\ ~AlreadyPending(rel, seg) /\ next_expected' = next_expected
        /\ pending' = KeepOnly(ins, Survivors(ins))
        /\ outcome' = [kind |-> "GapAbandoned", bytes |-> SumLen(ins, DOMAIN ins \ Survivors(ins))]
    BY <1>6 DEF AbandonOverCap, Abandon
  <2> QED
    BY <1>1, <2>1, <2>2
<1> QED
  BY <1>3, <1>4, <1>5, <1>6 DEF buffer_pending

\* What eviction drops of a buffer is at the keys it drops.
LEMMA EvictedIsReported ==
    ASSUME NEW ins, IsBuffer(ins), NEW K \in SUBSET DOMAIN ins, NEW lost,
           \A q \in lost : \E k \in DOMAIN ins : k \notin K /\ q \in BytesOf(ins[k])
    PROVE  Cardinality(lost) <= SumLen(ins, DOMAIN ins \ K)
<1>1. PICK M \in SUBSET DOMAIN ins : M = DOMAIN ins \ K
  OBVIOUS
<1>2. PICK B : B = BytesAt(ins, M)
  OBVIOUS
<1>3. IsFiniteSet(B) /\ Cardinality(B) <= SumLen(ins, M) /\ SumLen(ins, M) \in Nat
  BY <1>2, BytesAtBounded, SumLenType
<1>4. lost \in SUBSET B
  BY <1>1, <1>2 DEF BytesAt
<1>5. Cardinality(lost) <= Cardinality(B) /\ Cardinality(lost) \in Nat /\ Cardinality(B) \in Nat
  BY <1>3, <1>4, FS_Subset, FS_CardinalityType
<1> QED
  BY <1>1, <1>3, <1>5

\* A push that forgets a byte gave up a gap and reported enough.
LEMMA PushReports ==
    ASSUME NoWrap, Inv, Within(pending, pending_len, pending_age),
           NEW p \in Positions, NEW n \in 1 .. MaxPayload, p + n <= StreamLen, push(p, n),
           NEW lost, lost # {},
           \A q \in lost : /\ q \in Held(pending) \union (arrived' \ arrived)
                           /\ q \notin Held(pending')
                           /\ ~(origin' <= q /\ q < origin' + next_expected')
    PROVE  outcome'.kind = "GapAbandoned" /\ Cardinality(lost) <= outcome'.bytes
<1>1. PICK o \in 0 .. StreamLen, rel \in 0 .. SeqSpace - 1 :
         /\ origin' = o /\ rel = Offset(o, p) /\ push_relative(p, n, rel)
         /\ Before(o) /\ Extended(o, p .. p + n - 1)
  BY PushExtends
<1>2. \A q \in lost : q \in Held(pending) \union (p .. p + n - 1)
  BY DEF push
<1>3. outcome'.kind = "GapAbandoned"
  BY <1>1, <1>2 DEF Extended, Delivered
<1>4. rel > next_expected /\ rel \in Nat /\ buffer_pending(rel, Trimmed(p, n, rel))
  BY <1>1, <1>3, SizeAssumption DEF push_relative, DiscardDuplicate, deliver, Outcome
<1>5. PICK seg : seg = Trimmed(p, n, rel)
  OBVIOUS
<1>6. p \in Nat /\ n \in Nat \ {0} /\ next_expected \in Nat /\ TypeOK
  BY StreamAssumption, SizeAssumption DEF Positions, Inv, TypeOK
<1>7. seg.pos = p /\ seg.len = n /\ seg \in Segment
  <2>1. seg.pos = p /\ seg.len = n
    BY <1>4, <1>5, <1>6 DEF Trimmed
  <2>2. rel + n > next_expected
    BY <1>4, <1>6
  <2>3. seg \in Segment
    BY <1>4, <1>5, <1>6, <2>2, TrimmedIsSegment
  <2> QED
    BY <2>1, <2>3
<1>8. PICK ins : ins = Inserted(rel, seg)
  OBVIOUS
<1>9. /\ IsBuffer(ins) /\ ~AlreadyPending(rel, seg)
      /\ \E K \in SUBSET DOMAIN ins :
            /\ pending' = KeepOnly(ins, K)
            /\ outcome' = [kind |-> "GapAbandoned", bytes |-> SumLen(ins, DOMAIN ins \ K)]
  <2>1. buffer_pending(rel, seg) /\ pending_len = SumLen(pending, DOMAIN pending)
    BY <1>4, <1>5 DEF Within
  <2>2. /\ outcome' # Outcome("DuplicateDiscarded") /\ outcome' # Outcome("BufferedOutOfOrder")
    BY <1>3 DEF Outcome
  <2> QED
    BY <1>6, <1>7, <1>8, <2>1, <2>2, BufferResults
<1>10. PICK K \in SUBSET DOMAIN ins :
            /\ pending' = KeepOnly(ins, K)
            /\ outcome' = [kind |-> "GapAbandoned", bytes |-> SumLen(ins, DOMAIN ins \ K)]
  BY <1>9
<1>11. (Held(pending) \union (p .. p + n - 1)) \subseteq Held(ins)
  BY <1>1, <1>4, <1>7, <1>8, <1>9, InsertedHolds
<1>12. ASSUME NEW q \in lost
       PROVE  \E k \in DOMAIN ins : k \notin K /\ q \in BytesOf(ins[k])
  <2>1. q \in Held(ins) /\ q \notin Held(KeepOnly(ins, K))
    BY <1>2, <1>10, <1>11
  <2> QED
    BY <2>1 DEF Held, KeepOnly
<1>13. Cardinality(lost) <= SumLen(ins, DOMAIN ins \ K)
  BY <1>9, <1>12, EvictedIsReported
<1>14. outcome'.bytes = SumLen(ins, DOMAIN ins \ K)
  BY <1>10
<1> QED
  BY <1>3, <1>13, <1>14

\* Spec => LossIsReported: the only step that makes the reassembler forget a byte
\* is a push that returns GapAbandoned, with a count that covers all it forgot.
THEOREM LossesReported == ASSUME NoWrap PROVE Spec => LossIsReported
<1> DEFINE known == Held(pending) \union (arrived' \ arrived)
           lost == {p \in known : p \notin Held(pending') /\
                        ~(origin' <= p /\ p < origin' + next_expected')}
           Reported == lost # {} => /\ outcome'.kind = "GapAbandoned"
                                    /\ Cardinality(lost) <= outcome'.bytes
<1>1. Inv /\ Within(pending, pending_len, pending_age) /\ [Next]_vars => [Reported]_vars
  <2> SUFFICES ASSUME Inv, Within(pending, pending_len, pending_age), Next PROVE Reported
    BY Zenon
  <2>1. CASE UNCHANGED <<pending, arrived>>
    <3>1. lost = {}
      BY <2>1
    <3> QED
      BY <3>1
  <2>2. CASE Push
    <3>1. PICK p \in Positions, n \in 1 .. MaxPayload : p + n <= StreamLen /\ push(p, n)
      BY <2>2 DEF Push
    <3>2. PICK L : L = lost
      OBVIOUS
    <3>3. \A q \in L : /\ q \in Held(pending) \union (arrived' \ arrived)
                       /\ q \notin Held(pending')
                       /\ ~(origin' <= q /\ q < origin' + next_expected')
      BY <3>2
    <3>4. L # {} => outcome'.kind = "GapAbandoned" /\ Cardinality(L) <= outcome'.bytes
      BY <3>1, <3>3, PushReports
    <3> QED
      BY <3>2, <3>4
  <2> QED
    BY <2>1, <2>2 DEF Next, set_isn, PushEmpty, Take, take_bytes, Tick, buffers, history
<1>2. Spec => [][Reported]_vars
  BY <1>1, Invariance, LimitsInvariant, PTL DEF Spec
<1> QED
  BY <1>2, PTL DEF LossIsReported
-----------------------------------------------------------------------------
(* The refinement of LosslessStream.                                       *)

\* The bytes a buffer holds of the stream that begins at position o.
StreamBytes(p, o) == BytesAt(p, {k \in DOMAIN p : p[k].pos >= o})

\* Filed from o, a byte of the stream is in the buffer when its offset is covered.
LEMMA CoveredIsHeld ==
    ASSUME NoWrap, NEW p, IsBuffer(p), NEW o \in 0 .. StreamLen, FiledFrom(p, o),
           NEW x \in 0 .. StreamLen - o
    PROVE  Covered(p, x) <=> o + x \in StreamBytes(p, o)
<1>1. \A k \in DOMAIN p : k \in Nat /\ p[k].pos \in Nat /\ p[k].len \in Nat \ {0}
                          /\ p[k].pos + p[k].len <= StreamLen /\ p[k] \in Segment
  BY SizeAssumption, StreamAssumption DEF IsBuffer, Segment, Positions
<1>2. \A k \in DOMAIN p : k <= StreamLen - o => p[k].pos = o + k /\ p[k].pos >= o
  BY <1>1, StreamAssumption, SizeAssumption DEF NoWrap, Offset, FiledFrom
<1>3. \A k \in DOMAIN p : p[k].pos >= o => p[k].pos = o + k
  BY <1>1, StreamAssumption, SizeAssumption DEF Offset, FiledFrom
<1>4. \A k \in DOMAIN p : BytesOf(p[k]) = p[k].pos .. p[k].pos + p[k].len - 1
  BY <1>1, BytesOfSegment
<1>5. ASSUME NEW k \in DOMAIN p, Covers(p, k, x) PROVE o + x \in StreamBytes(p, o)
  <2>1. k <= x /\ x < k + p[k].len
    BY <1>5 DEF Covers
  <2>2. p[k].pos = o + k /\ p[k].pos >= o
    BY <1>1, <1>2, <2>1, StreamAssumption
  <2>3. o + x \in BytesOf(p[k])
    BY <1>1, <1>4, <2>1, <2>2, StreamAssumption
  <2> QED
    BY <2>2, <2>3 DEF StreamBytes, BytesAt
<1>6. ASSUME o + x \in StreamBytes(p, o) PROVE Covered(p, x)
  <2>1. PICK k \in DOMAIN p : p[k].pos >= o /\ o + x \in BytesOf(p[k])
    BY <1>6 DEF StreamBytes, BytesAt
  <2>2. p[k].pos = o + k /\ o + x \in p[k].pos .. p[k].pos + p[k].len - 1
    BY <1>3, <1>4, <2>1
  <2> QED
    BY <1>1, <2>2, StreamAssumption DEF Covered, Covers
<1> QED
  BY <1>5, <1>6 DEF Covered

\* What is held of the stream lies beyond the first byte awaited.
LEMMA HeldIsAhead ==
    ASSUME NoWrap, NEW p, IsBuffer(p), NEW o \in 0 .. StreamLen, FiledFrom(p, o),
           NEW next \in Nat, \A k \in DOMAIN p : k > next, NEW q \in StreamBytes(p, o)
    PROVE  q \in Nat /\ q > o + next
<1>1. PICK k \in DOMAIN p : p[k].pos >= o /\ q \in BytesOf(p[k])
  BY DEF StreamBytes, BytesAt
<1>2. p[k] \in Segment /\ p[k].pos \in Nat /\ p[k].len \in Nat /\ k \in Nat /\ k > next
  BY SizeAssumption, StreamAssumption DEF IsBuffer, Segment, Positions
<1>3. p[k].pos = o + k
  BY <1>1, <1>2, StreamAssumption DEF FiledFrom, Offset
<1>4. q \in p[k].pos .. p[k].pos + p[k].len - 1
  BY <1>1, <1>2, BytesOfSegment
<1> QED
  BY <1>2, <1>3, <1>4, StreamAssumption

\* The bytes held after an insertion: those of before and the payload, unless it
\* begins before the origin.
LEMMA InsertedStream ==
    ASSUME NoWrap, NEW o, Before(o), NEW p \in Positions, NEW n \in 1 .. MaxPayload,
           NEW rel \in Nat, rel = Offset(o, p),
           NEW seg \in Segment, seg.pos = p, seg.len = n, ~AlreadyPending(rel, seg)
    PROVE  StreamBytes(Inserted(rel, seg), o) =
               StreamBytes(pending, o) \union (IF p < o THEN {} ELSE p .. p + n - 1)
<1> DEFINE S == IF p < o THEN {} ELSE p .. p + n - 1
<1>1. PICK ins : ins = Inserted(rel, seg)
  OBVIOUS
<1>2. /\ ins[rel] = seg /\ DOMAIN ins = DOMAIN pending \union {rel}
      /\ \A k \in DOMAIN pending : k # rel => ins[k] = pending[k]
  BY <1>1 DEF Inserted
<1>3. p \in Nat /\ n \in Nat /\ o \in Nat /\ BytesOf(seg) = p .. p + n - 1
  BY BytesOfSegment, StreamAssumption, SizeAssumption DEF Positions, Before
<1>4. ASSUME NEW q \in StreamBytes(ins, o) PROVE q \in StreamBytes(pending, o) \union S
  <2>1. PICK k \in DOMAIN ins : ins[k].pos >= o /\ q \in BytesOf(ins[k])
    BY DEF StreamBytes, BytesAt
  <2>2. CASE k = rel
    BY <1>2, <1>3, <2>1, <2>2
  <2>3. CASE k # rel
    BY <1>2, <2>1, <2>3 DEF StreamBytes, BytesAt
  <2> QED
    BY <2>2, <2>3
<1>5. ASSUME NEW q \in StreamBytes(pending, o) PROVE q \in StreamBytes(ins, o)
  <2>1. PICK k \in DOMAIN pending : pending[k].pos >= o /\ q \in BytesOf(pending[k])
    BY DEF StreamBytes, BytesAt
  <2>2. CASE k = rel
    <3>1. pending[rel].pos = p
      BY <2>2, SameOffsetSameByte
    <3>2. pending[rel] \in Segment /\ pending[rel].len \in Nat /\ pending[rel].len < n
      <4>1. pending[rel] \in Segment /\ ~(pending[rel].len >= n)
        BY <2>2 DEF AlreadyPending, Before, TypeOK
      <4>2. pending[rel].len \in Nat
        BY <4>1, SizeAssumption DEF Segment
      <4> QED
        BY <1>3, <4>1, <4>2
    <3>3. q \in p .. p + pending[rel].len - 1
      BY <2>1, <2>2, <3>1, <3>2, BytesOfSegment
    <3>4. q \in BytesOf(ins[rel]) /\ ins[rel].pos >= o
      BY <1>2, <1>3, <2>1, <2>2, <3>1, <3>2, <3>3
    <3> QED
      BY <1>2, <3>4 DEF StreamBytes, BytesAt
  <2>3. CASE k # rel
    BY <1>2, <2>1, <2>3 DEF StreamBytes, BytesAt
  <2> QED
    BY <2>2, <2>3
<1>6. ASSUME NEW q \in S PROVE q \in StreamBytes(ins, o)
  <2>1. q \in BytesOf(ins[rel]) /\ ins[rel].pos >= o
    BY <1>2, <1>3
  <2> QED
    BY <1>2, <2>1 DEF StreamBytes, BytesAt
<1> QED
  BY <1>1, <1>4, <1>5, <1>6

\* What a push from origin o must find and leave for its step to be one of
\* LosslessStream: what is held, of the stream from o, before and after.
HeldFrom(o) ==
    /\ HeldOfStream = StreamBytes(pending, o)
    /\ HeldOfStream' = StreamBytes(pending', o)

\* The payload as LosslessStream sees it.
OfStream(p, n, o) == IF p < o THEN {} ELSE p .. p + n - 1

\* A push that fills the gap releases the longest complete run.
LEMMA DeliverReleases ==
    ASSUME NoWrap, NEW o, Before(o), HeldFrom(o),
           NEW p \in Positions, NEW n \in 1 .. MaxPayload,
           p + n <= StreamLen, NEW rel \in Nat, rel = Offset(o, p),
           rel + n > next_expected, rel <= next_expected, deliver(Trimmed(p, n, rel))
    PROVE  Lossless!Release(OfStream(p, n, o), o)
<1> DEFINE old == StreamBytes(pending, o)
           new == StreamBytes(pending', o)
<1>1. /\ o \in 0 .. StreamLen /\ o + next_expected <= StreamLen /\ next_expected \in Nat
      /\ p \in Nat /\ n \in Nat \ {0} /\ p < StreamLen /\ o \in Nat /\ TypeOK
      /\ IsBuffer(pending) /\ FiledFrom(pending, o)
  BY StreamAssumption, SizeAssumption DEF Before, TypeOK, Positions, IsBuffer
<1>2. p >= o /\ rel = p - o
  BY <1>1, StreamAssumption, SizeAssumption DEF NoWrap, Offset
<1>3. PICK from \in Nat : from = next_expected + Trimmed(p, n, rel).len /\ from = p + n - o
  <2>1. Trimmed(p, n, rel).len = n - (next_expected - rel)
    BY <1>1, <1>2 DEF Trimmed
  <2>2. p + n - o \in Nat /\ next_expected + Trimmed(p, n, rel).len = p + n - o
    BY <1>1, <1>2, <2>1
  <2> QED
    BY <2>2
<1>4. PICK upto : upto = DrainedTo(pending, from)
  OBVIOUS
<1>5. /\ next_expected' = upto /\ pending' = KeepOnly(pending, Undrained(pending, upto))
      /\ outcome'.bytes = 0
  BY <1>3, <1>4 DEF deliver, Outcome
<1>6. upto \in from .. StreamLen - o /\ WhollyPassed(pending, o, upto)
  BY <1>1, <1>3, <1>4, DrainStaysInStream
<1>7. ~Covered(pending, upto) /\ \A x \in from .. upto - 1 : Covered(pending, x)
  <2>1. from \in 0 .. Horizon
    BY <1>1, <1>3, StreamAssumption, SizeAssumption DEF NoWrap, Horizon
  <2> QED
    BY <1>1, <1>4, <2>1, DrainedToIsFirstGap
<1>8. upto \in Nat /\ from <= upto /\ next_expected < from /\ o + upto <= StreamLen
  BY <1>1, <1>2, <1>3, <1>6, StreamAssumption
<1>9. PICK S : S = OfStream(p, n, o) /\ S = p .. p + n - 1
  BY <1>1, <1>2 DEF OfStream
<1>10. PICK m \in Int : m = o + upto - 1
  BY <1>1, <1>8
<1>11. o + next_expected \in S /\ m \in o + next_expected .. StreamLen - 1
  BY <1>1, <1>2, <1>3, <1>8, <1>9, <1>10, StreamAssumption
<1>12. ASSUME NEW q \in o + next_expected .. m PROVE q \in old \union S
  <2>1. CASE q < o + from
    BY <1>1, <1>2, <1>3, <1>9, <2>1
  <2>2. CASE q >= o + from
    <3>1. PICK x \in from .. upto - 1 : q = o + x
      <4>1. q - o \in from .. upto - 1 /\ q = o + (q - o)
        BY <1>1, <1>3, <1>8, <1>10, <2>2
      <4> QED
        BY <4>1
    <3>2. x \in 0 .. StreamLen - o
      BY <1>1, <1>3, <1>8, StreamAssumption
    <3> QED
      BY <1>1, <1>7, <3>1, <3>2, CoveredIsHeld
  <2> QED
    BY <1>1, <1>3, <2>1, <2>2
<1>13. m + 1 \notin old \union S
  <2>1. m + 1 = o + upto /\ upto \in 0 .. StreamLen - o
    BY <1>1, <1>8, <1>10, StreamAssumption
  <2>2. o + upto \notin old
    BY <1>1, <1>7, <2>1, CoveredIsHeld
  <2>3. o + upto \notin S
    BY <1>1, <1>3, <1>8, <1>9
  <2> QED
    BY <2>1, <2>2, <2>3
<1>14. next_expected' = m + 1 - o
  BY <1>1, <1>5, <1>8, <1>10
<1>15. new = {q \in old \union S : q > m}
  <2>1. ASSUME NEW q \in new PROVE q \in old /\ q > m
    <3>1. q \in old
      BY <1>5 DEF StreamBytes, BytesAt, KeepOnly, Undrained
    <3>2. IsBuffer(pending') /\ FiledFrom(pending', o) /\ \A k \in DOMAIN pending' : k > upto
      BY <1>1, <1>5, KeepOnlyIsBuffer DEF FiledFrom, KeepOnly, Undrained
    <3>3. PICK b : b = pending'
      OBVIOUS
    <3>4. q \in Nat /\ q > o + upto
      BY <1>1, <1>8, <3>2, <3>3, HeldIsAhead
    <3> QED
      BY <1>1, <1>8, <1>10, <3>1, <3>4
  <2>2. ASSUME NEW q \in old \union S, q > m PROVE q \in new
    <3>1. q \in old
      <4>1. \A r \in S : r \in Int /\ r < o + from
        BY <1>1, <1>3, <1>9
      <4>2. q \in S => FALSE
        BY <1>1, <1>8, <1>10, <2>2, <4>1
      <4> QED
        BY <2>2, <4>2
    <3>2. PICK k \in DOMAIN pending : pending[k].pos >= o /\ q \in BytesOf(pending[k])
      BY <3>1 DEF StreamBytes, BytesAt
    <3>3. /\ pending[k] \in Segment /\ pending[k].pos \in Nat /\ pending[k].len \in Nat /\ k \in Nat
          /\ q \in pending[k].pos .. pending[k].pos + pending[k].len - 1
      <4>1. pending[k] \in Segment /\ k \in Nat
        BY <1>1, SizeAssumption DEF IsBuffer
      <4>2. pending[k].pos \in Nat /\ pending[k].len \in Nat
        BY <4>1, SizeAssumption, StreamAssumption DEF Segment, Positions
      <4> QED
        BY <3>2, <4>1, <4>2, BytesOfSegment
    <3>4. k > upto
      <4> SUFFICES ASSUME k <= upto PROVE FALSE
        BY <1>8, <3>3
      <4>1. pending[k].pos = o + k /\ k + pending[k].len <= upto
        BY <1>6 DEF WhollyPassed
      <4> QED
        BY <1>1, <1>8, <1>10, <2>2, <3>3, <4>1
    <3> QED
      BY <1>5, <3>2, <3>4 DEF StreamBytes, BytesAt, KeepOnly, Undrained
  <2> QED
    BY <2>1, <2>2
<1> HIDE DEF old, new
<1>16. HeldOfStream = old /\ HeldOfStream' = new
  BY DEF HeldFrom, old, new
<1>17. /\ (o + next_expected .. m) \subseteq old \union S
       /\ m + 1 \notin old \union S
  BY <1>12, <1>13
<1> QED
  BY <1>5, <1>9, <1>11, <1>14, <1>15, <1>16, <1>17 DEF Lossless!Release, Lossless!Awaited

\* A duplicate that was delivered before adds nothing.
LEMMA DiscardHolds ==
    ASSUME NoWrap, NEW o, Before(o), HeldFrom(o),
           NEW p \in Positions, NEW n \in 1 .. MaxPayload,
           Offset(o, p) + n <= next_expected, DiscardDuplicate
    PROVE  Lossless!Hold(OfStream(p, n, o), o)
<1>1. /\ o \in Nat /\ o + next_expected <= StreamLen /\ next_expected \in Nat
      /\ p \in Nat /\ n \in Nat /\ p < StreamLen
  BY StreamAssumption, SizeAssumption DEF Before, TypeOK, Positions
<1>2. p >= o /\ p - o + n <= next_expected
  BY <1>1, StreamAssumption, SizeAssumption DEF NoWrap, Offset
<1>3. PICK S : S = OfStream(p, n, o) /\ \A q \in S : q \in Int /\ q < o + next_expected
  BY <1>1, <1>2 DEF OfStream
<1>4. next_expected' = next_expected /\ HeldOfStream' = HeldOfStream /\ outcome'.bytes = 0
  BY DEF DiscardDuplicate, buffers, HeldFrom, Outcome
<1>5. o + next_expected \notin S /\ {q \in S : q > o + next_expected} = {}
  BY <1>1, <1>3
<1> QED
  BY <1>3, <1>4, <1>5 DEF Lossless!Hold, Lossless!Awaited

\* A push beyond the gap holds what is new, or gives bytes up and reports them.
LEMMA BufferHoldsOrGivesUp ==
    ASSUME NoWrap, NEW o, Before(o), HeldFrom(o), Within(pending, pending_len, pending_age),
           NEW p \in Positions, NEW n \in 1 .. MaxPayload, p + n <= StreamLen,
           NEW rel \in 0 .. SeqSpace - 1, rel = Offset(o, p), rel > next_expected,
           buffer_pending(rel, Trimmed(p, n, rel))
    PROVE  Lossless!Hold(OfStream(p, n, o), o) \/ Lossless!GiveUp(OfStream(p, n, o), o)
<1>1. /\ o \in Nat /\ next_expected \in Nat /\ p \in Nat /\ n \in Nat \ {0} /\ rel \in Nat
      /\ TypeOK
  BY StreamAssumption, SizeAssumption DEF Before, TypeOK, Positions
<1>2. PICK seg \in Segment : seg = Trimmed(p, n, rel) /\ seg.pos = p /\ seg.len = n
  <2>1. Trimmed(p, n, rel).pos = p /\ Trimmed(p, n, rel).len = n
    BY <1>1 DEF Trimmed
  <2>2. rel + n > next_expected
    BY <1>1
  <2>3. Trimmed(p, n, rel) \in Segment
    BY <1>1, <2>2, TrimmedIsSegment
  <2> QED
    BY <2>1, <2>3
<1>3. PICK ins : ins = Inserted(rel, seg)
  OBVIOUS
<1>4. /\ next_expected' = next_expected /\ IsBuffer(ins)
      /\ \/ /\ AlreadyPending(rel, seg) /\ pending' = pending
            /\ outcome' = Outcome("DuplicateDiscarded")
         \/ /\ ~AlreadyPending(rel, seg) /\ pending' = ins
            /\ outcome' = Outcome("BufferedOutOfOrder")
         \/ /\ ~AlreadyPending(rel, seg)
            /\ \E K \in SUBSET DOMAIN ins :
                  /\ pending' = KeepOnly(ins, K)
                  /\ outcome' = [kind |-> "GapAbandoned", bytes |-> SumLen(ins, DOMAIN ins \ K)]
  <2>1. buffer_pending(rel, seg) /\ pending_len = SumLen(pending, DOMAIN pending)
    BY <1>2 DEF Within
  <2> QED
    BY <1>1, <1>3, <2>1, BufferResults
<1>5. PICK S : /\ S = OfStream(p, n, o)
               /\ \A q \in S : q \in Int /\ q > o + next_expected
               /\ S # {} => p >= o /\ S = p .. p + n - 1
  <2>1. CASE p < o
    BY <2>1 DEF OfStream
  <2>2. CASE p >= o
    <3>1. rel = p - o
      BY <2>2 DEF Offset
    <3>2. OfStream(p, n, o) = p .. p + n - 1
      BY <1>1, <2>2 DEF OfStream
    <3>3. \A q \in p .. p + n - 1 : q \in Int /\ q > o + next_expected
      BY <1>1, <3>1
    <3> QED
      BY <2>2, <3>2, <3>3
  <2> QED
    BY <1>1, <2>1, <2>2
<1>6. o + next_expected \notin S /\ {q \in S : q > o + next_expected} = S
  BY <1>1, <1>5
<1>7. PICK old, new : /\ old = StreamBytes(pending, o) /\ new = StreamBytes(pending', o)
                      /\ HeldOfStream = old /\ HeldOfStream' = new
  BY DEF HeldFrom
<1>8. ~AlreadyPending(rel, seg) => StreamBytes(ins, o) = old \union S
  BY <1>1, <1>2, <1>3, <1>5, <1>7, InsertedStream DEF OfStream
<1>9. ASSUME new = old \union S, outcome'.bytes = 0 PROVE Lossless!Hold(S, o)
  BY <1>4, <1>6, <1>7, <1>9 DEF Lossless!Hold, Lossless!Awaited
<1>10. CASE AlreadyPending(rel, seg) /\ pending' = pending
            /\ outcome' = Outcome("DuplicateDiscarded")
  <2>1. rel \in DOMAIN pending /\ pending[rel].len >= n /\ pending[rel].len \in Nat
    BY <1>2, <1>10, SizeAssumption DEF AlreadyPending, Before, TypeOK, Segment
  <2>2. pending[rel].pos = p
    BY <2>1, SameOffsetSameByte
  <2>3. (p .. p + n - 1) \subseteq BytesOf(pending[rel])
    BY <1>1, <2>1, <2>2, PayloadBytes
  <2>4. S \subseteq old
    <3> SUFFICES ASSUME NEW q \in S PROVE q \in old
      OBVIOUS
    <3>1. q \in BytesOf(pending[rel]) /\ pending[rel].pos >= o
      BY <1>5, <2>2, <2>3
    <3> QED
      BY <1>7, <2>1, <3>1 DEF StreamBytes, BytesAt
  <2>5. new = old \union S /\ outcome'.bytes = 0
    BY <1>7, <1>10, <2>4 DEF Outcome
  <2> QED
    BY <1>5, <1>9, <2>5
<1>11. CASE ~AlreadyPending(rel, seg) /\ pending' = ins
            /\ outcome' = Outcome("BufferedOutOfOrder")
  <2>1. new = old \union S /\ outcome'.bytes = 0
    BY <1>7, <1>8, <1>11 DEF Outcome
  <2> QED
    BY <1>5, <1>9, <2>1
<1>12. ASSUME ~AlreadyPending(rel, seg), NEW K \in SUBSET DOMAIN ins,
              pending' = KeepOnly(ins, K),
              outcome' = [kind |-> "GapAbandoned", bytes |-> SumLen(ins, DOMAIN ins \ K)]
       PROVE  Lossless!GiveUp(S, o)
  <2>1. new = StreamBytes(KeepOnly(ins, K), o) /\ old \union S = StreamBytes(ins, o)
    BY <1>7, <1>8, <1>12
  <2>2. new \in SUBSET (old \union S)
    BY <2>1 DEF StreamBytes, BytesAt, KeepOnly
  <2>3. PICK lost : lost = (old \union S) \ new
    OBVIOUS
  <2>4. \A q \in lost : \E k \in DOMAIN ins : k \notin K /\ q \in BytesOf(ins[k])
    BY <2>1, <2>3 DEF StreamBytes, BytesAt, KeepOnly
  <2>5. Cardinality(lost) <= SumLen(ins, DOMAIN ins \ K)
    BY <1>4, <2>4, EvictedIsReported
  <2>6. outcome'.bytes = SumLen(ins, DOMAIN ins \ K)
    BY <1>12
  <2>7. Cardinality((old \union S) \ new) <= outcome'.bytes
    BY <2>3, <2>5, <2>6
  <2>8. /\ o + next_expected \notin S /\ next_expected' = next_expected
        /\ HeldOfStream' \in SUBSET (HeldOfStream \union S)
        /\ Cardinality((HeldOfStream \union S) \ HeldOfStream') <= outcome'.bytes
    BY <1>4, <1>6, <1>7, <2>2, <2>7
  <2>9. Lossless!Cardinality((HeldOfStream \union S) \ HeldOfStream') <= outcome'.bytes
    BY <2>8 DEF Cardinality, Lossless!Cardinality
  <2> QED
    BY <2>8, <2>9, Zenon DEF Lossless!GiveUp, Lossless!Awaited
<1> QED
  BY <1>4, <1>5, <1>10, <1>11, <1>12

\* A push is an arrival.
LEMMA PushArrives ==
    ASSUME NoWrap, Inv, Within(pending, pending_len, pending_age),
           NEW p \in Positions, NEW n \in 1 .. MaxPayload, p + n <= StreamLen, push(p, n)
    PROVE  Lossless!Arrive(p, n)
<1>1. PICK o \in 0 .. StreamLen, rel \in 0 .. SeqSpace - 1 :
         /\ origin' = o
         /\ origin # None => o = origin
         /\ origin = None => o = p /\ DOMAIN pending = {}
         /\ rel = Offset(o, p)
         /\ push_relative(p, n, rel)
         /\ Before(o)
  BY PushExtends
<1>2. rel \in Nat
  BY SizeAssumption
<1>3. HeldFrom(o)
  <2>1. HeldOfStream' = StreamBytes(pending', o)
    BY <1>1 DEF HeldOfStream, StreamBytes, BytesAt
  <2>2. CASE origin = None
    BY <1>1, <2>1, <2>2 DEF HeldOfStream, StreamBytes, BytesAt, HeldFrom
  <2>3. CASE origin # None
    BY <1>1, <2>1, <2>3 DEF HeldOfStream, StreamBytes, BytesAt, HeldFrom
  <2> QED
    BY <2>2, <2>3
<1>4. PICK S : S = OfStream(p, n, o)
  OBVIOUS
<1>5. Lossless!Release(S, o) \/ Lossless!Hold(S, o) \/ Lossless!GiveUp(S, o)
  <2>1. CASE rel + n <= next_expected /\ DiscardDuplicate
    BY <1>1, <1>3, <1>4, <2>1, DiscardHolds
  <2>2. CASE rel + n > next_expected /\ rel <= next_expected /\ deliver(Trimmed(p, n, rel))
    BY <1>1, <1>2, <1>3, <1>4, <2>2, DeliverReleases
  <2>3. CASE rel + n > next_expected /\ rel > next_expected
             /\ buffer_pending(rel, Trimmed(p, n, rel))
    BY <1>1, <1>3, <1>4, <2>3, BufferHoldsOrGivesUp
  <2> QED
    BY <1>1, <2>1, <2>2, <2>3 DEF push_relative
<1>6. o = (IF origin = None THEN p ELSE origin) /\ S = (IF p < o THEN {} ELSE p .. p + n - 1)
  BY <1>1, <1>4 DEF OfStream
<1>7. Len(consumed') = Len(consumed)
  BY DEF push
<1> QED
  BY <1>1, <1>5, <1>6, <1>7 DEF Lossless!Arrive

\* Spec => ImplementsLosslessStream: every step of the reassembler releases the
\* longest complete run, holds what came early, reports what it gives up, lets the
\* reader read, or changes nothing the reader can see.
THEOREM ReassemblerIsLossless == ASSUME NoWrap PROVE Spec => ImplementsLosslessStream
<1>1. Init => Lossless!Init
  BY DEF Init, Lossless!Init, HeldOfStream, Outcome
<1>2. Inv /\ Inv' /\ Within(pending, pending_len, pending_age) /\ [Next]_vars
          => [Lossless!Next]_Lossless!vars
  <2> SUFFICES ASSUME Inv, Inv', Within(pending, pending_len, pending_age), [Next]_vars
               PROVE  Lossless!Next \/ UNCHANGED Lossless!vars
    BY Zenon
  <2>1. CASE set_isn
    <3>1. UNCHANGED <<next_expected, pending, outcome, consumed>>
          /\ origin' = (IF base_seq = None THEN 0 ELSE origin)
      BY <2>1 DEF set_isn, Anchor, buffers
    <3>2. CASE origin = None
      <4>1. base_seq = None /\ DOMAIN pending = {}
        BY <3>2 DEF Inv, Anchored
      <4>2. HeldOfStream = {} /\ HeldOfStream' = {}
        BY <3>1, <4>1 DEF HeldOfStream
      <4> QED
        BY <3>1, <3>2, <4>1, <4>2 DEF Lossless!Next, Lossless!Start
    <3>3. CASE origin # None
      <4>1. base_seq # None
        BY <3>3 DEF Inv, Anchored
      <4> QED
        BY <3>1, <4>1 DEF Lossless!vars, HeldOfStream
    <3> QED
      BY <3>2, <3>3
  <2>2. CASE PushEmpty
    <3>1. UNCHANGED <<next_expected, pending, consumed, origin>> /\ outcome'.bytes = 0
      BY <2>2 DEF PushEmpty, buffers, history, Outcome
    <3> QED
      BY <3>1 DEF Lossless!Next, Lossless!ArriveEmpty, HeldOfStream
  <2>3. CASE Push
    <3>1. PICK p \in Positions, n \in 1 .. MaxPayload : p + n <= StreamLen /\ push(p, n)
      BY <2>3 DEF Push
    <3>2. Lossless!Arrive(p, n)
      BY <3>1, PushArrives
    <3> QED
      BY <3>1, <3>2 DEF Lossless!Next, Lossless!Positions, Positions
  <2>4. CASE Take
    <3>1. PICK n \in 1 .. Len(contiguous) : take_bytes(n)
      BY <2>4 DEF Take
    <3>2. UNCHANGED <<next_expected, pending, outcome, origin>>
          /\ consumed' = consumed \o SubSeq(contiguous, 1, n)
      BY <3>1 DEF take_bytes
    <3>3. /\ Len(consumed) \in Nat /\ n \in Nat /\ Len(contiguous') \in Nat /\ next_expected \in Nat
          /\ consumed \in Seq(Positions) /\ SubSeq(contiguous, 1, n) \in Seq(Positions)
          /\ Len(SubSeq(contiguous, 1, n)) = n
      BY DEF Inv, TypeOK
    <3>4. Len(consumed') = Len(consumed) + n
      BY <3>2, <3>3
    <3>5. Len(consumed') + Len(contiguous') = next_expected
      BY <3>2 DEF Inv, DeliversExactStream
    <3>6. Len(consumed') \in Len(consumed) + 1 .. next_expected
      BY <3>3, <3>4, <3>5
    <3>7. HeldOfStream' = HeldOfStream
      BY <3>2 DEF HeldOfStream
    <3> QED
      BY <3>2, <3>6, <3>7 DEF Lossless!Next, Lossless!Read
  <2>5. CASE Tick
    BY <2>5 DEF Tick, history, Lossless!vars, HeldOfStream
  <2>6. CASE UNCHANGED vars
    BY <2>6 DEF vars, buffers, history, Lossless!vars, HeldOfStream
  <2> QED
    BY <2>1, <2>2, <2>3, <2>4, <2>5, <2>6 DEF Next
<1> QED
  BY <1>1, <1>2, Invariance, LimitsInvariant, PTL DEF Spec, Lossless!Spec, ImplementsLosslessStream

-----------------------------------------------------------------------------
(* The two loops compute what PendingBuffer says of them, for every        *)
(* buffer, offset and limit: the step from the code's iterations to the    *)
(* results the theorems above are built on.                                *)

\* A buffer a loop starts with; nothing is assumed of what it holds.
IsInput(p) ==
    /\ DOMAIN p \in SUBSET (1 .. MaxKey)
    /\ \A k \in DOMAIN p : p[k].pos \in Nat /\ p[k].len \in 1 .. MaxPayload

\* The initial buffers are such buffers.
LEMMA BuffersAreInputs ==
    ASSUME NEW p \in Buffers
    PROVE  IsInput(p)
<1>1. PICK K \in SUBSET (1 .. MaxKey) : \E l \in [K -> 1 .. MaxPayload] :
         p = [k \in K |-> [pos |-> Content[k], len |-> l[k]]]
  BY DEF Buffers
<1>2. PICK l \in [K -> 1 .. MaxPayload] : p = [k \in K |-> [pos |-> Content[k], len |-> l[k]]]
  BY <1>1
<1>3. DOMAIN p = K /\ \A k \in K : p[k].pos = Content[k] /\ p[k].len = l[k]
  BY <1>2
<1>4. \A k \in K : Content[k] \in Nat
  BY InputAssumption, ContentAssumption
<1> QED
  BY <1>2, <1>3, <1>4 DEF IsInput

\* DrainedTo is the one offset from which on the run of covered offsets ends.
LEMMA DrainedToIs ==
    ASSUME NEW p, NEW from \in Nat, NEW n \in from .. Horizon, ~Covered(p, n),
           \A x \in from .. n - 1 : Covered(p, x)
    PROVE  DrainedTo(p, from) = n
<1>0. Horizon \in Nat
  BY SizeAssumption DEF Horizon
<1> DEFINE Stop(m) == ~Covered(p, m) /\ \A x \in from .. m - 1 : Covered(p, x)
<1>1. ASSUME NEW m \in from .. Horizon, Stop(m) PROVE m = n
  <2>1. CASE m < n
    BY <1>0, <1>1, <2>1
  <2>2. CASE n < m
    BY <1>0, <1>1, <2>2
  <2> QED
    BY <1>0, <2>1, <2>2
<1>2. Stop(n)
  OBVIOUS
<1> HIDE DEF Stop
<1>3. (CHOOSE m \in from .. Horizon : Stop(m)) = n
  BY <1>1, <1>2
<1> QED
  BY <1>3 DEF DrainedTo, Stop

\* The payload of some keys of a buffer, and of those less one.
LEMMA InputLenType ==
    ASSUME NEW p, IsInput(p), NEW K \in SUBSET DOMAIN p
    PROVE  /\ IsFiniteSet(DOMAIN p) /\ IsFiniteSet(K) /\ Cardinality(K) \in Nat
           /\ SumLen(p, K) \in Nat
           /\ SumLen(p, K) = SumFunctionOnSet(Lens(p), K)
           /\ \A k \in DOMAIN p : Lens(p)[k] \in Nat /\ Lens(p)[k] = p[k].len
<1>1. IsFiniteSet(1 .. MaxKey)
  BY FS_Interval, InputAssumption
<1>2. IsFiniteSet(DOMAIN p)
  BY <1>1, FS_Subset DEF IsInput
<1>3. IsFiniteSet(K) /\ Cardinality(K) \in Nat
  BY <1>2, FS_Subset, FS_CardinalityType
<1>4. \A k \in DOMAIN p : Lens(p)[k] \in Nat /\ Lens(p)[k] = p[k].len
  BY SizeAssumption DEF IsInput, Lens
<1>5. SumLen(p, K) = SumFunctionOnSet(Lens(p), K)
  BY DEF SumLen, Lens
<1>6. SumFunctionOnSet(Lens(p), K) \in Nat
  BY <1>3, <1>4, SumType
<1> QED
  BY <1>2, <1>3, <1>4, <1>5, <1>6

LEMMA InputLenLess ==
    ASSUME NEW p, IsInput(p), NEW K \in SUBSET DOMAIN p, NEW k \in K
    PROVE  SumLen(p, K) = p[k].len + SumLen(p, K \ {k})
<1>1. /\ IsFiniteSet(K) /\ SumLen(p, K) = SumFunctionOnSet(Lens(p), K)
      /\ \A x \in DOMAIN p : Lens(p)[x] \in Nat /\ Lens(p)[x] = p[x].len
  BY InputLenType
<1>2. SumLen(p, K \ {k}) = SumFunctionOnSet(Lens(p), K \ {k})
  BY DEF SumLen, Lens
<1>3. PICK f : f = Lens(p)
  OBVIOUS
<1>4. \A x \in K : f[x] \in Nat
  BY <1>1, <1>3
<1>5. SumFunctionOnSet(f, K) = f[k] + SumFunctionOnSet(f, K \ {k})
  BY <1>1, <1>4, SumRemove
<1> QED
  BY <1>1, <1>2, <1>3, <1>5

\* More keys hold no less.
LEMMA InputLenGrows ==
    ASSUME NEW p, IsInput(p), NEW L \in SUBSET DOMAIN p, NEW K \in SUBSET L
    PROVE  SumLen(p, K) <= SumLen(p, L) /\ Cardinality(K) <= Cardinality(L)
<1>1. /\ IsFiniteSet(L) /\ \A k \in DOMAIN p : Lens(p)[k] \in Nat
      /\ SumLen(p, L) = SumFunctionOnSet(Lens(p), L)
  BY InputLenType
<1>2. SumLen(p, K) = SumFunctionOnSet(Lens(p), K) /\ SumLen(p, K) \in Nat
  BY InputLenType
<1>3. PICK M \in SUBSET DOMAIN p : M = L \ K
  OBVIOUS
<1>4. SumLen(p, M) = SumFunctionOnSet(Lens(p), M) /\ SumLen(p, M) \in Nat
  BY InputLenType
<1>5. PICK f : f = Lens(p)
  OBVIOUS
<1>6. \A k \in L : f[k] \in Nat
  BY <1>1, <1>5
<1>7. SumFunctionOnSet(f, L) = SumFunctionOnSet(f, K) + SumFunctionOnSet(f, L \ K)
  BY <1>1, <1>6, SumSplit
<1>8. Cardinality(K) <= Cardinality(L)
  BY <1>1, FS_Subset
<1> QED
  BY <1>1, <1>2, <1>3, <1>4, <1>5, <1>7, <1>8

\* Keeping some keys keeps their payload.
LEMMA InputLenKept ==
    ASSUME NEW p, IsInput(p), NEW K \in SUBSET DOMAIN p, NEW L \in SUBSET K
    PROVE  SumLen(KeepOnly(p, K), L) = SumLen(p, L)
<1>1. PICK f, g : f = Lens(KeepOnly(p, K)) /\ g = Lens(p)
  OBVIOUS
<1>2. SumLen(KeepOnly(p, K), L) = SumFunctionOnSet(f, L) /\ SumLen(p, L) = SumFunctionOnSet(g, L)
  BY <1>1 DEF SumLen, Lens
<1>3. \A k \in L : f[k] = g[k]
  BY <1>1 DEF Lens, KeepOnly
<1>4. IsFiniteSet(L)
  BY InputLenType
<1> QED
  BY <1>2, <1>3, <1>4, SumCongruent

-----------------------------------------------------------------------------
(* What both loops keep: they work through the keys from the lowest.       *)

Common ==
    LET B == input.buffer
        D == DOMAIN pending
    IN  /\ IsInput(B) /\ input.from \in 0 .. MaxFrom
        /\ input.loop \in {"drain", "evict"} /\ loop \in {input.loop, "done"}
        /\ D \in SUBSET DOMAIN B /\ pending = KeepOnly(B, D)
        /\ \A k \in DOMAIN B \ D : \A j \in D : k < j
        /\ pending_len = SumLen(B, D)

\* The drain has taken every byte up to next_expected from its first segment, and
\* has passed the segments it removed.
DrainInv ==
    LET B == input.buffer
    IN  /\ next_expected \in input.from .. Horizon
        /\ \A x \in input.from .. next_expected - 1 : Covered(B, x)
        /\ \A k \in DOMAIN B \ DOMAIN pending : k + B[k].len <= next_expected
        /\ contiguous \in Seq(Nat) /\ Len(contiguous) = next_expected - input.from
        /\ \A i \in 1 .. Len(contiguous) : contiguous[i] = ByteAt(B, input.from + i - 1)
        /\ loop = "done" => \A k \in DOMAIN pending : k > next_expected

\* The eviction removed only what cannot stay, and counted it.
EvictInv ==
    LET B == input.buffer
    IN  /\ evicted = SumLen(B, DOMAIN B \ DOMAIN pending)
        /\ \A k \in DOMAIN B \ DOMAIN pending : ~Fits(B, {j \in DOMAIN B : j >= k})
        /\ loop = "done" => Fits(B, DOMAIN pending)

LoopInv ==
    /\ Common
    /\ input.loop = "drain" => DrainInv
    /\ input.loop = "evict" => EvictInv

\* Removing the lowest segment.
LEMMA Removal ==
    ASSUME Common, DOMAIN pending # {}, RemoveLowest, UNCHANGED <<loop, input>>
    PROVE  /\ Common'
           /\ Lowest \in DOMAIN pending /\ \A j \in DOMAIN pending : Lowest <= j
           /\ pending[Lowest] = input.buffer[Lowest]
           /\ DOMAIN pending' = DOMAIN pending \ {Lowest}
           /\ {j \in DOMAIN input.buffer : j >= Lowest} = DOMAIN pending
<1>1. PICK B, D, m : B = input.buffer /\ D = DOMAIN pending /\ m = Lowest
  OBVIOUS
<1>2. /\ IsInput(B) /\ D \in SUBSET DOMAIN B /\ pending = KeepOnly(B, D) /\ D # {}
      /\ \A k \in DOMAIN B \ D : \A j \in D : k < j
      /\ pending_len = SumLen(B, D)
  BY <1>1 DEF Common
<1>3. D \in SUBSET Nat /\ DOMAIN B \in SUBSET Nat
  BY <1>2, InputAssumption DEF IsInput
<1>4. m \in D /\ \A j \in D : m <= j
  BY <1>1, <1>2, <1>3, MinIsLeast DEF Lowest
<1>5. pending[m] = B[m]
  BY <1>2, <1>4 DEF KeepOnly
<1>6. pending' = KeepOnly(pending, D \ {m}) /\ pending_len' = pending_len - B[m].len
  BY <1>1, <1>5 DEF RemoveLowest
<1>7. DOMAIN pending' = D \ {m}
  BY <1>6 DEF KeepOnly
<1>8. pending' = KeepOnly(B, D \ {m})
  <2>1. \A k \in D \ {m} : pending[k] = B[k]
    BY <1>2 DEF KeepOnly
  <2> QED
    BY <1>6, <2>1 DEF KeepOnly
<1>9. {j \in DOMAIN B : j >= m} = D
  <2>1. \A j \in DOMAIN B \ D : ~(j >= m)
    BY <1>2, <1>3, <1>4
  <2>2. \A j \in D : j >= m
    BY <1>3, <1>4
  <2> QED
    BY <1>2, <2>1, <2>2
<1>10. pending_len' = SumLen(B, D \ {m})
  <2>1. SumLen(B, D) = B[m].len + SumLen(B, D \ {m})
    BY <1>2, <1>4, InputLenLess
  <2>2. PICK K \in SUBSET DOMAIN B : K = D \ {m}
    BY <1>2
  <2>3. SumLen(B, K) \in Nat
    BY <1>2, InputLenType
  <2>4. B[m].len \in Nat
    BY <1>2, <1>4, SizeAssumption DEF IsInput
  <2> QED
    BY <1>2, <1>6, <2>1, <2>2, <2>3, <2>4
<1>11. \A k \in DOMAIN B \ (D \ {m}) : \A j \in D \ {m} : k < j
  BY <1>2, <1>3, <1>4
<1>12. Common'
  <2>1. /\ B = input'.buffer /\ D \ {m} = DOMAIN pending' /\ D \ {m} \in SUBSET DOMAIN B
        /\ input' = input /\ loop' = loop
    BY <1>1, <1>2, <1>7
  <2> QED
    BY <1>1, <1>2, <1>8, <1>10, <1>11, <2>1 DEF Common
<1> QED
  BY <1>1, <1>4, <1>5, <1>7, <1>9, <1>12

-----------------------------------------------------------------------------
(* The steps.                                                              *)

\* A byte that only the segment at m and higher ones hold is taken from m.
LEMMA ByteAtIs ==
    ASSUME NEW p, IsInput(p), NEW x \in Nat, NEW m \in DOMAIN p, Covers(p, m, x),
           \A k \in DOMAIN p : Covers(p, k, x) => m <= k
    PROVE  ByteAt(p, x) = p[m].pos + (x - m)
<1> DEFINE S == {j \in DOMAIN p : Covers(p, j, x)}
<1>1. S \in SUBSET Nat /\ m \in S /\ \A k \in S : m <= k
  BY InputAssumption DEF IsInput
<1>2. Min(S) = m
  <2>1. Min(S) \in S /\ \A k \in S : Min(S) <= k
    BY <1>1, MinIsLeast
  <2>2. PICK q : q = Min(S)
    OBVIOUS
  <2>3. q \in S /\ q <= m /\ m <= q /\ q \in Nat /\ m \in Nat
    BY <1>1, <2>1, <2>2
  <2> QED
    BY <2>2, <2>3
<1> QED
  BY <1>2 DEF ByteAt

LEMMA DiscardKeeps ==
    ASSUME LoopInv, DrainDiscard
    PROVE  LoopInv'
<1>1. /\ Common /\ loop = "drain" /\ input.loop = "drain" /\ DrainInv /\ DOMAIN pending # {}
      /\ RemoveLowest /\ UNCHANGED <<loop, input, next_expected, contiguous, evicted>>
      /\ Lowest + pending[Lowest].len <= next_expected
  BY DEF LoopInv, Common, DrainDiscard
<1>2. /\ Common' /\ Lowest \in DOMAIN pending /\ pending[Lowest] = input.buffer[Lowest]
      /\ DOMAIN pending' = DOMAIN pending \ {Lowest}
  BY <1>1, Removal
<1>3. PICK B, m : B = input.buffer /\ m = Lowest
  OBVIOUS
<1>4. \A k \in DOMAIN B \ (DOMAIN pending \ {m}) : k + B[k].len <= next_expected
  BY <1>1, <1>2, <1>3 DEF DrainInv
<1>5. DrainInv'
  BY <1>1, <1>2, <1>3, <1>4 DEF DrainInv
<1> QED
  BY <1>1, <1>2, <1>5 DEF LoopInv

LEMMA DeliverKeeps ==
    ASSUME LoopInv, DrainDeliver
    PROVE  LoopInv'
<1>1. PICK B, m, seg, D : B = input.buffer /\ m = Lowest /\ seg = TrimmedLowest /\ D = DOMAIN pending
  OBVIOUS
<1>2. /\ Common /\ loop = "drain" /\ input.loop = "drain" /\ DrainInv /\ D # {}
      /\ RemoveLowest /\ UNCHANGED <<loop, input, evicted>>
      /\ m <= next_expected /\ m + pending[m].len > next_expected
      /\ next_expected' = next_expected + seg.len
      /\ contiguous' = contiguous \o Data(seg)
  BY <1>1 DEF LoopInv, Common, DrainDeliver
<1>3. /\ Common' /\ m \in D /\ pending[m] = B[m] /\ \A j \in D : m <= j
      /\ DOMAIN pending' = D \ {m}
  BY <1>1, <1>2, Removal
<1>4. IsInput(B) /\ m \in DOMAIN B /\ D \in SUBSET DOMAIN B
  BY <1>1, <1>2, <1>3 DEF Common
<1>5. /\ m \in 1 .. MaxKey /\ m \in Nat /\ B[m].pos \in Nat /\ B[m].len \in 1 .. MaxPayload
      /\ B[m].len \in Nat /\ input.from \in Nat /\ Horizon \in Nat /\ m + B[m].len <= Horizon
  <2>1. /\ m \in 1 .. MaxKey /\ m \in Nat /\ B[m].pos \in Nat /\ B[m].len \in 1 .. MaxPayload
    BY <1>4, InputAssumption DEF IsInput
  <2>2. input.from \in Nat
    BY <1>2, InputAssumption DEF Common
  <2> QED
    BY <2>1, <2>2, InputAssumption, SizeAssumption DEF Horizon
<1>6. PICK n, f \in Nat : n = next_expected /\ f = input.from /\ f <= n
  BY <1>2, <1>5 DEF DrainInv
<1>7. seg.pos = B[m].pos + (n - m) /\ seg.len = B[m].len - (n - m) /\ seg.len \in Nat
  <2>1. seg = [pos |-> B[m].pos + (n - m), len |-> B[m].len - (n - m)]
    BY <1>1, <1>3, <1>6 DEF TrimmedLowest
  <2>2. B[m].len - (n - m) \in Nat
    BY <1>2, <1>3, <1>5, <1>6
  <2> QED
    BY <2>1, <2>2
<1>8. next_expected' = m + B[m].len
  <2>1. PICK k, l \in Nat : k = m /\ l = B[m].len
    BY <1>5
  <2>2. n + (l - (n - k)) = k + l
    BY <1>6, <2>1
  <2>3. next_expected' = n + (l - (n - k))
    BY <1>2, <1>6, <1>7, <2>1
  <2> QED
    BY <2>1, <2>2, <2>3
<1>9. next_expected' \in f .. Horizon /\ n <= next_expected'
  BY <1>2, <1>3, <1>5, <1>6, <1>8
<1>10. \A x \in n .. next_expected' - 1 : Covers(B, m, x) /\ Covered(B, x)
  BY <1>2, <1>4, <1>5, <1>6, <1>8 DEF Covers, Covered
<1>11. \A x \in f .. next_expected' - 1 : Covered(B, x)
  BY <1>1, <1>2, <1>6, <1>9, <1>10 DEF DrainInv
<1>12. \A k \in DOMAIN B \ D : k + B[k].len <= n
  BY <1>1, <1>2, <1>6 DEF DrainInv
<1>13. \A k \in DOMAIN B \ (D \ {m}) : k + B[k].len <= next_expected'
  <2>1. \A k \in DOMAIN B : k \in Nat /\ B[k].len \in Nat
    BY <1>4, InputAssumption, SizeAssumption DEF IsInput
  <2> QED
    BY <1>5, <1>6, <1>8, <1>9, <1>12, <2>1
<1>14. \A x \in n .. next_expected' - 1 : ByteAt(B, x) = B[m].pos + (x - m)
  <2> TAKE x \in n .. next_expected' - 1
  <2>1. x \in Nat /\ n <= x
    BY <1>5, <1>6, <1>8
  <2>2. \A k \in DOMAIN B : Covers(B, k, x) => m <= k
    <3>1. \A k \in DOMAIN B : k \in Nat /\ B[k].len \in Nat
      BY <1>4, InputAssumption, SizeAssumption DEF IsInput
    <3>2. \A k \in DOMAIN B \ D : ~Covers(B, k, x)
      BY <1>6, <1>12, <2>1, <3>1 DEF Covers
    <3> QED
      BY <1>3, <3>2
  <2>3. Covers(B, m, x)
    BY <1>10
  <2> QED
    BY <1>4, <2>1, <2>2, <2>3, ByteAtIs
<1>15. PICK d, t : d = contiguous /\ t = Data(seg)
  OBVIOUS
<1>16. /\ d \in Seq(Nat) /\ Len(d) = n - f /\ Len(d) \in Nat
       /\ \A i \in 1 .. Len(d) : d[i] = ByteAt(B, f + i - 1)
  BY <1>1, <1>2, <1>6, <1>15 DEF DrainInv
<1>17. t \in Seq(Nat) /\ Len(t) = seg.len /\ \A i \in 1 .. seg.len : t[i] = seg.pos + i - 1
  <2>1. t = [i \in 1 .. seg.len |-> seg.pos + i - 1]
    BY <1>15 DEF Data
  <2>2. seg.pos \in Nat
    <3>1. m <= n
      BY <1>2, <1>6
    <3>2. PICK p \in Nat, k \in Nat : p = B[m].pos /\ k = m
      BY <1>5
    <3>3. p + (n - k) \in Nat
      BY <1>6, <3>1, <3>2
    <3> QED
      BY <1>7, <3>2, <3>3
  <2>3. \A i \in 1 .. seg.len : seg.pos + i - 1 \in Nat
    BY <1>7, <2>2
  <2> QED
    BY <1>7, <2>1, <2>3
<1>18. /\ contiguous' = d \o t /\ contiguous' \in Seq(Nat) /\ Len(contiguous') = Len(d) + Len(t)
       /\ \A i \in 1 .. Len(d) + Len(t) : contiguous'[i] = IF i <= Len(d) THEN d[i] ELSE t[i - Len(d)]
  <2>1. contiguous' = d \o t
    BY <1>2, <1>15
  <2>2. \A u, v \in Seq(Nat) :
           /\ u \o v \in Seq(Nat) /\ Len(u \o v) = Len(u) + Len(v)
           /\ \A i \in 1 .. Len(u) + Len(v) :
                 (u \o v)[i] = IF i <= Len(u) THEN u[i] ELSE v[i - Len(u)]
    OBVIOUS
  <2>3. /\ d \o t \in Seq(Nat) /\ Len(d \o t) = Len(d) + Len(t)
        /\ \A i \in 1 .. Len(d) + Len(t) :
              (d \o t)[i] = IF i <= Len(d) THEN d[i] ELSE t[i - Len(d)]
    BY <1>16, <1>17, <2>2, Zenon
  <2> QED
    BY <2>1, <2>3, Zenon
<1>19. Len(contiguous') = next_expected' - f
  <2>1. PICK l \in Nat : l = seg.len
    BY <1>7
  <2>2. next_expected' = n + l
    BY <1>2, <1>6, <2>1
  <2>3. Len(contiguous') = (n - f) + l
    BY <1>16, <1>17, <1>18, <2>1
  <2>4. (n - f) + l = (n + l) - f
    BY <1>6, <2>1
  <2> QED
    BY <2>2, <2>3, <2>4
<1>20. ASSUME NEW i \in 1 .. Len(contiguous')
       PROVE  contiguous'[i] = ByteAt(B, f + i - 1)
  <2>1. CASE i <= Len(d)
    BY <1>16, <1>18, <1>20, <2>1
  <2>2. CASE ~(i <= Len(d))
    <3>1. i - Len(d) \in 1 .. seg.len /\ contiguous'[i] = t[i - Len(d)]
      <4>1. PICK p, l \in Nat : p = Len(d) /\ l = seg.len
        BY <1>7, <1>16
      <4>2. i \in 1 .. p + l /\ ~(i <= p)
        BY <1>17, <1>18, <1>20, <2>2, <4>1
      <4>3. i - p \in 1 .. l
        BY <4>1, <4>2
      <4>4. contiguous'[i] = t[i - Len(d)]
        BY <1>17, <1>18, <2>2, <4>1, <4>2
      <4> QED
        BY <4>1, <4>3, <4>4
    <3>2. contiguous'[i] = seg.pos + (i - Len(d)) - 1
      BY <1>17, <3>1
    <3>3. PICK e \in Nat : e = next_expected' /\ Len(contiguous') = e - f
      BY <1>5, <1>8, <1>19
    <3>4. i \in Nat /\ n - f < i /\ i <= e - f /\ Len(d) = n - f
      BY <1>6, <1>16, <1>20, <2>2, <3>3
    <3>5. PICK x \in n .. e - 1 : x = f + i - 1 /\ x \in Nat
      <4>1. \A a, b, c, j \in Nat : b - a < j /\ j <= c - a => a + j - 1 \in b .. c - 1
        OBVIOUS
      <4>2. f + i - 1 \in n .. e - 1
        BY <1>6, <3>3, <3>4, <4>1
      <4> QED
        BY <1>6, <4>2
    <3>6. ByteAt(B, x) = B[m].pos + (x - m)
      BY <1>14, <3>3
    <3>7. seg.pos + (i - Len(d)) - 1 = B[m].pos + (x - m)
      <4>1. PICK q \in Nat : q = B[m].pos
        BY <1>5
      <4>2. q + (n - m) + (i - (n - f)) - 1 = q + ((f + i - 1) - m)
        <5>1. f \in Nat /\ n \in Nat /\ i \in Nat /\ m \in Nat
          BY <1>5, <1>6, <3>4
        <5> QED
          BY <4>1, <5>1
      <4> QED
        BY <1>7, <3>4, <3>5, <4>1, <4>2
    <3> QED
      BY <3>2, <3>5, <3>6, <3>7
  <2> QED
    BY <2>1, <2>2
<1>21. DrainInv'
  <2>1. input' = input /\ loop' = "drain" /\ B = input'.buffer /\ f = input'.from
    BY <1>1, <1>2, <1>6
  <2> QED
    BY <1>3, <1>9, <1>11, <1>13, <1>18, <1>19, <1>20, <2>1 DEF DrainInv
<1> QED
  BY <1>2, <1>3, <1>21 DEF LoopInv

LEMMA DrainEndKeeps ==
    ASSUME LoopInv, DrainEnd
    PROVE  LoopInv'
<1>1. /\ Common /\ loop = "drain" /\ input.loop = "drain" /\ DrainInv /\ loop' = "done"
      /\ UNCHANGED <<input, pending, pending_len, next_expected, contiguous, evicted>>
      /\ DOMAIN pending # {} => Lowest > next_expected
  BY DEF LoopInv, Common, DrainEnd
<1>2. \A k \in DOMAIN pending : k > next_expected
  <2> SUFFICES ASSUME NEW k \in DOMAIN pending PROVE k > next_expected
    OBVIOUS
  <2>1. DOMAIN pending \in SUBSET Nat
    BY <1>1, InputAssumption DEF Common, IsInput
  <2>2. Lowest \in DOMAIN pending /\ Lowest <= k
    BY <2>1, MinIsLeast DEF Lowest
  <2>3. next_expected \in Int
    BY <1>1, SizeAssumption, InputAssumption DEF DrainInv, Common, Horizon
  <2> QED
    BY <1>1, <2>1, <2>2, <2>3
<1>3. Common'
  BY <1>1 DEF Common
<1>4. DrainInv'
  BY <1>1, <1>2 DEF DrainInv
<1> QED
  BY <1>1, <1>3, <1>4 DEF LoopInv

LEMMA EvictKeeps ==
    ASSUME LoopInv, Evict
    PROVE  LoopInv'
<1>1. PICK B, m, D : B = input.buffer /\ m = Lowest /\ D = DOMAIN pending
  OBVIOUS
<1>2. /\ Common /\ loop = "evict" /\ input.loop = "evict" /\ EvictInv /\ D # {} /\ OverCap
      /\ RemoveLowest /\ UNCHANGED <<loop, input, next_expected, contiguous>>
      /\ evicted' = evicted + pending[m].len
  BY <1>1 DEF LoopInv, Common, Evict
<1>3. /\ Common' /\ m \in D /\ pending[m] = B[m] /\ DOMAIN pending' = D \ {m}
      /\ {j \in DOMAIN B : j >= m} = D
  BY <1>1, <1>2, Removal
<1>4. IsInput(B) /\ m \in DOMAIN B /\ D \in SUBSET DOMAIN B /\ pending_len = SumLen(B, D)
  BY <1>1, <1>2, <1>3 DEF Common
<1>5. ~Fits(B, D)
  <2>1. SumLen(B, D) \in Nat /\ Cardinality(D) \in Nat
    BY <1>4, InputLenType
  <2> QED
    BY <1>1, <1>2, <1>4, <2>1, LimitsAssumption DEF OverCap, Fits
<1>6. \A k \in DOMAIN B \ (D \ {m}) : ~Fits(B, {j \in DOMAIN B : j >= k})
  <2>1. \A k \in DOMAIN B \ D : ~Fits(B, {j \in DOMAIN B : j >= k})
    BY <1>1, <1>2 DEF EvictInv
  <2> QED
    BY <1>3, <1>5, <2>1
<1>7. evicted' = SumLen(B, DOMAIN B \ (D \ {m}))
  <2>1. PICK K \in SUBSET DOMAIN B : K = DOMAIN B \ (D \ {m})
    OBVIOUS
  <2>2. m \in K /\ K \ {m} = DOMAIN B \ D
    BY <1>3, <1>4, <2>1
  <2>3. SumLen(B, K) = B[m].len + SumLen(B, K \ {m})
    BY <1>4, <2>2, InputLenLess
  <2>4. PICK M \in SUBSET DOMAIN B : M = K \ {m}
    OBVIOUS
  <2>5. SumLen(B, M) \in Nat
    BY <1>4, InputLenType
  <2>6. B[m].len \in Nat
    BY <1>4, SizeAssumption DEF IsInput
  <2>7. evicted = SumLen(B, DOMAIN B \ D)
    BY <1>1, <1>2 DEF EvictInv
  <2>8. evicted = SumLen(B, M) /\ SumLen(B, K) = B[m].len + SumLen(B, M)
    BY <2>2, <2>3, <2>4, <2>7
  <2>9. evicted' = evicted + B[m].len
    BY <1>2, <1>3
  <2> QED
    BY <2>1, <2>5, <2>6, <2>8, <2>9
<1>8. EvictInv'
  <2>1. input' = input /\ loop' = "evict" /\ B = input'.buffer
    BY <1>1, <1>2
  <2> QED
    BY <1>3, <1>6, <1>7, <2>1 DEF EvictInv
<1> QED
  BY <1>2, <1>3, <1>8 DEF LoopInv

LEMMA EvictEndKeeps ==
    ASSUME LoopInv, EvictEnd
    PROVE  LoopInv'
<1>1. PICK B, D : B = input.buffer /\ D = DOMAIN pending
  OBVIOUS
<1>2. /\ Common /\ loop = "evict" /\ input.loop = "evict" /\ EvictInv /\ loop' = "done"
      /\ UNCHANGED <<input, pending, pending_len, next_expected, contiguous, evicted>>
      /\ ~OverCap \/ D = {}
  BY <1>1 DEF LoopInv, Common, EvictEnd
<1>3. IsInput(B) /\ D \in SUBSET DOMAIN B /\ pending_len = SumLen(B, D)
  BY <1>1, <1>2 DEF Common
<1>4. SumLen(B, D) \in Nat /\ Cardinality(D) \in Nat
  BY <1>3, InputLenType
<1>5. Fits(B, D)
  <2>1. CASE ~OverCap
    BY <1>1, <1>3, <1>4, <2>1, LimitsAssumption DEF OverCap, Fits
  <2>2. CASE D = {}
    <3>1. SumLen(B, {}) = 0 /\ Cardinality({}) = 0
      BY SumEmpty, FS_EmptySet DEF SumLen
    <3> QED
      BY <2>2, <3>1, LimitsAssumption DEF Fits
  <2> QED
    BY <1>2, <2>1, <2>2
<1>6. Common'
  BY <1>2 DEF Common
<1>7. EvictInv'
  BY <1>1, <1>2, <1>5 DEF EvictInv
<1> QED
  BY <1>2, <1>6, <1>7 DEF LoopInv

LEMMA LoopInitially == LoopInit => LoopInv
<1> SUFFICES ASSUME LoopInit PROVE LoopInv
  OBVIOUS
<1>1. PICK B : B = input.buffer
  OBVIOUS
<1>2. /\ B \in Buffers /\ input.from \in 0 .. MaxFrom /\ input.loop = loop
      /\ loop \in {"drain", "evict"} /\ pending = B /\ next_expected = input.from
      /\ pending_len = SumLen(pending, DOMAIN pending) /\ contiguous = << >> /\ evicted = 0
  BY <1>1 DEF LoopInit
<1>3. IsInput(B)
  BY <1>2, BuffersAreInputs
<1>4. B = KeepOnly(B, DOMAIN B)
  <2>1. PICK K \in SUBSET (1 .. MaxKey) : \E l \in [K -> 1 .. MaxPayload] :
           B = [k \in K |-> [pos |-> Content[k], len |-> l[k]]]
    BY <1>2 DEF Buffers
  <2>2. B = [k \in DOMAIN B |-> B[k]]
    BY <2>1
  <2> QED
    BY <2>2 DEF KeepOnly
<1>5. Common
  BY <1>1, <1>2, <1>3, <1>4 DEF Common
<1>6. DrainInv
  <2>1. input.from \in Nat /\ Horizon \in Nat /\ input.from <= Horizon
    BY <1>2, InputAssumption, SizeAssumption DEF Horizon
  <2>2. /\ next_expected \in input.from .. Horizon /\ input.from .. next_expected - 1 = {}
        /\ next_expected - input.from = 0
    BY <1>2, <2>1
  <2>3. contiguous \in Seq(Nat) /\ Len(contiguous) = 0
    BY <1>2
  <2> QED
    BY <1>1, <1>2, <2>2, <2>3 DEF DrainInv
<1>7. EvictInv
  <2>1. DOMAIN B \ DOMAIN pending = {}
    BY <1>2
  <2>2. SumLen(B, {}) = 0
    BY SumEmpty DEF SumLen
  <2> QED
    BY <1>1, <1>2, <2>1, <2>2 DEF EvictInv
<1> QED
  BY <1>5, <1>6, <1>7 DEF LoopInv

\* The invariant holds throughout.
LEMMA LoopInvariance == LoopSpec => []LoopInv
<1>1. LoopInv /\ [LoopNext]_loopVars => LoopInv'
  <2> SUFFICES ASSUME LoopInv, [LoopNext]_loopVars PROVE LoopInv'
    OBVIOUS
  <2>1. CASE UNCHANGED loopVars
    BY <2>1 DEF loopVars, LoopInv, Common, DrainInv, EvictInv
  <2> QED
    BY <2>1, DiscardKeeps, DeliverKeeps, DrainEndKeeps, EvictKeeps, EvictEndKeeps DEF LoopNext
<1> QED
  BY <1>1, LoopInitially, PTL DEF LoopSpec

\* drain_pending, for every buffer and offset: it stops at the first offset no
\* segment covers, takes each byte from the first segment that holds it, and
\* leaves exactly the segments beyond, with their bytes counted.
THEOREM DrainIsTheRun == LoopSpec => []DrainComputesRun
<1>1. LoopInv => DrainComputesRun
  <2> SUFFICES ASSUME LoopInv, loop = "done", input.loop = "drain" PROVE DrainComputesRun
    BY DEF DrainComputesRun
  <2>1. PICK B, D, f, n : B = input.buffer /\ D = DOMAIN pending /\ f = input.from /\ n = next_expected
    OBVIOUS
  <2>2. /\ IsInput(B) /\ f \in 0 .. MaxFrom /\ D \in SUBSET DOMAIN B /\ pending = KeepOnly(B, D)
        /\ \A k \in DOMAIN B \ D : \A j \in D : k < j
        /\ pending_len = SumLen(B, D)
    BY <2>1 DEF LoopInv, Common
  <2>3. /\ n \in f .. Horizon
        /\ \A x \in f .. n - 1 : Covered(B, x)
        /\ \A k \in DOMAIN B \ D : k + B[k].len <= n
        /\ contiguous \in Seq(Nat) /\ Len(contiguous) = n - f
        /\ \A i \in 1 .. Len(contiguous) : contiguous[i] = ByteAt(B, f + i - 1)
        /\ \A k \in D : k > n
    BY <2>1 DEF LoopInv, DrainInv
  <2>4. f \in Nat /\ n \in Nat /\ \A k \in DOMAIN B : k \in Nat /\ B[k].len \in Nat /\ B[k].len > 0
    BY <2>2, <2>3, InputAssumption, SizeAssumption DEF IsInput, Horizon
  <2>5. ~Covered(B, n)
    BY <2>2, <2>3, <2>4 DEF Covered, Covers
  <2>6. DrainedTo(B, f) = n
    BY <2>3, <2>4, <2>5, DrainedToIs
  <2>7. Undrained(B, n) = D
    <3>1. \A k \in DOMAIN B : k > n <=> k \in D
      BY <2>3, <2>4
    <3> QED
      BY <2>2, <3>1 DEF Undrained
  <2>8. contiguous = [i \in 1 .. n - f |-> ByteAt(B, f + i - 1)]
    BY <2>3, <2>4
  <2>9. SumLen(pending, D) = SumLen(B, D)
    BY <2>2, InputLenKept
  <2> QED
    BY <2>1, <2>2, <2>6, <2>7, <2>8, <2>9 DEF DrainComputesRun
<1> QED
  BY <1>1, LoopInvariance, PTL

\* The eviction loop, for every buffer and limits: it leaves the largest top part
\* that is within both, and counts what it removed.
THEOREM EvictionKeepsTop == LoopSpec => []EvictKeepsTop
<1>1. LoopInv => EvictKeepsTop
  <2> SUFFICES ASSUME LoopInv, loop = "done", input.loop = "evict" PROVE EvictKeepsTop
    BY DEF EvictKeepsTop
  <2>1. PICK B, D : B = input.buffer /\ D = DOMAIN pending
    OBVIOUS
  <2>2. /\ IsInput(B) /\ D \in SUBSET DOMAIN B /\ pending = KeepOnly(B, D)
        /\ \A k \in DOMAIN B \ D : \A j \in D : k < j
        /\ pending_len = SumLen(B, D)
    BY <2>1 DEF LoopInv, Common
  <2>3. /\ evicted = SumLen(B, DOMAIN B \ D) /\ Fits(B, D)
        /\ \A k \in DOMAIN B \ D : ~Fits(B, {j \in DOMAIN B : j >= k})
    BY <2>1 DEF LoopInv, EvictInv
  <2>4. ASSUME NEW k \in D PROVE Fits(B, {j \in DOMAIN B : j >= k})
    <3>1. DOMAIN B \in SUBSET Nat
      BY <2>2, InputAssumption DEF IsInput
    <3>2. PICK U \in SUBSET D : U = {j \in DOMAIN B : j >= k}
      <4>1. {j \in DOMAIN B : j >= k} \subseteq D
        BY <2>2, <2>4, <3>1
      <4> QED
        BY <4>1
    <3>3. SumLen(B, U) <= SumLen(B, D) /\ Cardinality(U) <= Cardinality(D)
      BY <2>2, InputLenGrows
    <3>4. SumLen(B, D) \in Nat /\ Cardinality(D) \in Nat
      BY <2>2, InputLenType
    <3>5. U \in SUBSET DOMAIN B
      BY <2>2, <3>2
    <3>6. SumLen(B, U) \in Nat /\ Cardinality(U) \in Nat
      BY <2>2, <3>5, InputLenType
    <3> QED
      BY <2>3, <3>2, <3>3, <3>4, <3>6, LimitsAssumption DEF Fits
  <2>5. Survivors(B) = D
    BY <2>2, <2>3, <2>4 DEF Survivors
  <2>6. SumLen(pending, D) = SumLen(B, D)
    BY <2>2, InputLenKept
  <2>7. Fits(pending, D)
    BY <2>3, <2>6 DEF Fits
  <2> QED
    BY <2>1, <2>2, <2>3, <2>5, <2>6, <2>7 DEF EvictKeepsTop
<1> QED
  BY <1>1, LoopInvariance, PTL
=============================================================================
