------------------------- MODULE StreamReassembler -------------------------
(***************************************************************************)
(* One direction of a TCP stream, reassembled from the captured segments   *)
(* (src/src/reassembly.rs).                                                *)
(*                                                                         *)
(* A byte of the stream is its position 0 .. StreamLen-1: a retransmission *)
(* carries the same bytes, so the position is the content.  The capture    *)
(* may lose, repeat, reorder and re-cut segments, and may have missed the  *)
(* SYN.  Sequence numbers keep their width (SeqSpace stands for 2^32);     *)
(* relative offsets are u64 in the code and plain naturals here.           *)
(***************************************************************************)
EXTENDS PendingBuffer, Sequences

CONSTANTS
    StreamLen,     \* bytes the sender sends in this direction
    Isn,           \* sequence number of the SYN
    max_age,       \* PendingLimits.max_age, in ticks of the clock
    None           \* Option::None

ASSUME IsnAssumption == Isn \in 0 .. SeqSpace - 1
ASSUME StreamAssumption == StreamLen \in Nat
ASSUME AgeAssumption == max_age \in Nat
ASSUME NoneAssumption == None \notin Int

VARIABLES
    base_seq,        \* None, or the sequence number relative offsets count from
    next_expected,   \* next_expected_relative
    contiguous,      \* bytes delivered in order and not yet consumed
    pending,         \* relative offset -> out-of-order segment
    pending_len,     \* the counter the byte limit is compared with
    pending_age,     \* None, or time elapsed since pending_since
    outcome,         \* what the last push returned
    consumed,        \* history: every byte take_bytes returned, in order
    origin,          \* history: the stream position base_seq stands for
    arrived,         \* history: every position some push carried
    abandoned        \* history: positions evicted and not seen again since

buffers == <<next_expected, contiguous, pending, pending_len, pending_age>>
history == <<consumed, origin, arrived, abandoned>>
vars == <<base_seq, buffers, outcome, history>>

Positions == 0 .. StreamLen - 1
Segment ==
    {s \in [pos : Positions, len : 1 .. MaxPayload] : s.pos + s.len <= StreamLen}

PushOutcome ==
    {"None", "Delivered", "DuplicateDiscarded", "BufferedOutOfOrder", "GapAbandoned"}

Outcome(kind) == [kind |-> kind, bytes |-> 0]

-----------------------------------------------------------------------------
(* Sequence-number arithmetic.                                             *)

\* The sequence number the sender puts on position p.
SeqOf(p) == (Isn + 1 + p) % SeqSpace

\* Mutant: saturating instead of wrapping.
saturating_sub(a, b) == IF a >= b THEN a - b ELSE 0

\* u32::wrapping_sub
wrapping_sub(a, b) == IF a >= b THEN a - b ELSE a - b + SeqSpace

\* The first sequence number seen anchors the stream when no SYN did.
relative_seq(seq) ==
    wrapping_sub(seq, IF base_seq = None THEN seq ELSE base_seq)

\* get_or_insert: base_seq keeps its value once it has one.
Anchor(seq, p) ==
    /\ base_seq' = IF base_seq = None THEN seq ELSE base_seq
    /\ origin' = IF base_seq = None THEN p ELSE origin

-----------------------------------------------------------------------------
Init ==
    /\ base_seq = None
    /\ next_expected = 0
    /\ contiguous = << >>
    /\ pending = [k \in {} |-> None]
    /\ pending_len = 0
    /\ pending_age = None
    /\ outcome = Outcome("None")
    /\ consumed = << >>
    /\ origin = None
    /\ arrived = {}
    /\ abandoned = {}

\* A SYN (or its retransmission) reaches the orchestrator.
set_isn ==
    /\ Anchor(SeqOf(0), 0)
    /\ UNCHANGED <<buffers, outcome, consumed, arrived, abandoned>>

\* An empty payload returns before it can anchor the stream.
PushEmpty ==
    /\ outcome' = Outcome("DuplicateDiscarded")
    /\ UNCHANGED <<base_seq, buffers, history>>

\* Mutant of deliver: the clock of a closed gap goes on.
deliverKeepsClock(seg) ==
    LET from == next_expected + seg.len
        upto == DrainedTo(pending, from)
        kept == Undrained(pending, upto)
    IN  /\ next_expected' = upto
        /\ contiguous' = contiguous \o Data(seg)
                \o [i \in 1 .. upto - from |-> ByteAt(pending, from + i - 1)]
        /\ pending' = KeepOnly(pending, kept)
        /\ pending_len' = pending_len - SumLen(pending, DOMAIN pending \ kept)
        /\ outcome' = Outcome("Delivered")
        /\ UNCHANGED pending_age

\* deliver, then drain_pending.
deliver(seg) ==
    LET from == next_expected + seg.len
        upto == DrainedTo(pending, from)
        kept == Undrained(pending, upto)
    IN  /\ next_expected' = upto
        /\ contiguous' = contiguous \o Data(seg)
                \o [i \in 1 .. upto - from |-> ByteAt(pending, from + i - 1)]
        /\ pending' = KeepOnly(pending, kept)
        /\ pending_len' = pending_len - SumLen(pending, DOMAIN pending \ kept)
        /\ pending_age' = IF kept = {} THEN None ELSE pending_age
        /\ outcome' = Outcome("Delivered")

\* The buffer with seg at rel, in place of a shorter segment there.
Inserted(rel, seg) ==
    [k \in DOMAIN pending \union {rel} |-> IF k = rel THEN seg ELSE pending[k]]

\* Mutant: a replaced segment stays counted.
InsertedLenTwice(rel, seg) == pending_len + seg.len

InsertedLen(rel, seg) ==
    pending_len + seg.len - (IF rel \in DOMAIN pending THEN pending[rel].len ELSE 0)

InsertedAge == IF DOMAIN pending = {} THEN 0 ELSE pending_age

\* Mutant: the offset alone makes a duplicate, however long the segment.
AlreadyAtOffset(rel, seg) == rel \in DOMAIN pending

AlreadyPending(rel, seg) ==
    rel \in DOMAIN pending /\ pending[rel].len >= seg.len

\* The segment waits for its gap to close.
BufferOutOfOrder(rel, seg) ==
    /\ ~AlreadyPending(rel, seg)
    /\ InsertedLen(rel, seg) <= max_bytes
    /\ Cardinality(DOMAIN Inserted(rel, seg)) <= max_packets
    /\ InsertedAge <= max_age
    /\ pending' = Inserted(rel, seg)
    /\ pending_len' = InsertedLen(rel, seg)
    /\ pending_age' = InsertedAge
    /\ outcome' = Outcome("BufferedOutOfOrder")
    /\ UNCHANGED <<next_expected, contiguous>>

\* The buffer keeps only keys K of what it held with seg in it.
Abandon(rel, seg, K, bytes) ==
    LET p == Inserted(rel, seg)
    IN  /\ pending' = KeepOnly(p, K)
        /\ pending_len' = InsertedLen(rel, seg) - bytes
        /\ pending_age' = IF K = {} THEN None ELSE InsertedAge
        /\ outcome' = [kind |-> "GapAbandoned", bytes |-> bytes]
        /\ UNCHANGED <<next_expected, contiguous>>

\* The gap has been open longer than max_age: give up on all of it.
AbandonAged(rel, seg) ==
    /\ ~AlreadyPending(rel, seg)
    /\ InsertedAge > max_age
    /\ Abandon(rel, seg, {}, InsertedLen(rel, seg))

\* Mutant of AbandonOverCap: reports the packets it evicts, not their bytes.
AbandonCountsPackets(rel, seg) ==
    LET p == Inserted(rel, seg)
    IN  /\ ~AlreadyPending(rel, seg)
        /\ InsertedAge <= max_age
        /\ ~Fits(p, DOMAIN p)
        /\ Abandon(rel, seg, Survivors(p), Cardinality(DOMAIN p \ Survivors(p)))

\* Over the byte or the packet cap: evict the lowest keys.
AbandonOverCap(rel, seg) ==
    LET p == Inserted(rel, seg)
    IN  /\ ~AlreadyPending(rel, seg)
        /\ InsertedAge <= max_age
        /\ \/ InsertedLen(rel, seg) > max_bytes
           \/ Cardinality(DOMAIN p) > max_packets
        /\ Abandon(rel, seg, Survivors(p), SumLen(p, DOMAIN p \ Survivors(p)))

\* Nothing new in the segment: nothing changes.
DiscardDuplicate ==
    /\ outcome' = Outcome("DuplicateDiscarded")
    /\ UNCHANGED buffers

buffer_pending(rel, seg) ==
    \/ AlreadyPending(rel, seg) /\ DiscardDuplicate
    \/ BufferOutOfOrder(rel, seg)
    \/ AbandonAged(rel, seg)
    \/ AbandonOverCap(rel, seg)

\* Mutants of Trimmed: nothing trimmed; the start moved and the length kept.
Untrimmed(p, n, rel) == [pos |-> p, len |-> n]
TrimmedPastEnd(p, n, rel) ==
    [pos |-> p + (IF rel < next_expected THEN next_expected - rel ELSE 0), len |-> n]

\* The payload at relative offset rel, its delivered prefix trimmed off.
Trimmed(p, n, rel) ==
    LET trim == IF rel < next_expected THEN next_expected - rel ELSE 0
    IN  [pos |-> p + trim, len |-> n - trim]

push_relative(p, n, rel) ==
    \/ rel + n <= next_expected /\ DiscardDuplicate
    \/ /\ rel + n > next_expected
       /\ rel <= next_expected
       /\ deliver(Trimmed(p, n, rel))
    \/ /\ rel + n > next_expected
       /\ rel > next_expected
       /\ buffer_pending(rel, Trimmed(p, n, rel))

\* A segment carrying positions p .. p+n-1 is captured.
push(p, n) ==
    LET payload == p .. p + n - 1
    IN  /\ Anchor(SeqOf(p), p)
        /\ push_relative(p, n, relative_seq(SeqOf(p)))
        /\ arrived' = arrived \union payload
        /\ abandoned' = IF outcome'.kind = "GapAbandoned"
                        THEN (abandoned \union Held(pending) \union payload) \ Held(pending')
                        ELSE abandoned \ payload
        /\ UNCHANGED consumed

\* The record layer consumes n ready bytes.
take_bytes(n) ==
    /\ consumed' = consumed \o SubSeq(contiguous, 1, n)
    /\ contiguous' = SubSeq(contiguous, n + 1, Len(contiguous))
    /\ UNCHANGED <<base_seq, next_expected, pending, pending_len, pending_age,
                   outcome, origin, arrived, abandoned>>

\* Time passes; ages beyond max_age need not be told apart.
Tick ==
    /\ pending_age # None
    /\ pending_age <= max_age
    /\ pending_age' = pending_age + 1
    /\ UNCHANGED <<base_seq, next_expected, contiguous, pending, pending_len,
                   outcome, history>>

Push == \E p \in Positions : \E n \in 1 .. MaxPayload :
            p + n <= StreamLen /\ push(p, n)

Take == \E n \in 1 .. Len(contiguous) : take_bytes(n)

Next == set_isn \/ PushEmpty \/ Push \/ Take \/ Tick

Spec == Init /\ [][Next]_vars

-----------------------------------------------------------------------------
(* Properties.                                                             *)

TypeOK ==
    /\ base_seq \in {None} \union (0 .. SeqSpace - 1)
    /\ next_expected \in Nat
    /\ contiguous \in Seq(Positions)
    /\ DOMAIN pending \in SUBSET (0 .. SeqSpace - 1)
    /\ \A k \in DOMAIN pending : pending[k] \in Segment
    /\ pending_age \in {None} \union (0 .. max_age + 1)
    /\ outcome.kind \in PushOutcome
    /\ consumed \in Seq(Positions)
    /\ origin \in {None} \union (0 .. StreamLen)
    /\ arrived \in SUBSET Positions
    /\ abandoned \in SUBSET Positions

\* The record layer reads exactly the stream the sender wrote from the anchor
\* on: no byte missing, repeated or out of place, however the capture
\* reordered, repeated or re-cut the segments (push_relative, drain_pending).
DeliversExactStream ==
    /\ Len(consumed) + Len(contiguous) = next_expected
    /\ \A i \in DOMAIN consumed : consumed[i] = origin + i - 1
    /\ \A i \in DOMAIN contiguous :
           contiguous[i] = origin + Len(consumed) + i - 1

\* "Never silently dropped": every byte that was ever pushed has been delivered,
\* is still pending, or was evicted by a push that returned GapAbandoned.
NoSilentLoss ==
    \A p \in arrived :
        \/ p \in Held(pending)
        \/ p \in abandoned
        \/ origin # None /\ origin <= p /\ p < origin + next_expected

\* Whatever waits in the buffer waits for a byte that was not captured or was
\* given up: a byte the reassembler has is never stuck behind a closed gap.  (A
\* stream anchored without its SYN files what precedes the anchor elsewhere.)
GapIsReal ==
    DOMAIN pending # {} /\ origin = 0 =>
        origin + next_expected \notin (arrived \ abandoned)

\* The limits hold after every push, and the running counter they are compared
\* with is the payload really buffered, whatever was replaced, drained or evicted.
WithinLimits ==
    /\ pending_len = SumLen(pending, DOMAIN pending)
    /\ pending_len <= max_bytes
    /\ Cardinality(DOMAIN pending) <= max_packets

\* The age clock runs exactly while something is pending.
ClockRunsWithGap == pending_age = None <=> DOMAIN pending = {}

\* A push that makes the reassembler forget bytes says so, and reports at least
\* as many bytes as it forgot (the orchestrator adds them to its counters).
LossIsReported ==
    [][LET known == Held(pending) \union (arrived' \ arrived)
           lost  == {p \in known : p \notin Held(pending') /\
                         ~(origin' <= p /\ p < origin' + next_expected')}
       IN  lost # {} => /\ outcome'.kind = "GapAbandoned"
                        /\ Cardinality(lost) <= outcome'.bytes]_vars
-----------------------------------------------------------------------------
(* The reassembler as an implementation of LosslessStream.                 *)

\* A pending segment that begins before the origin is filed near the top of the
\* sequence space and is no part of the stream.
HeldOfStream ==
    UNION {BytesOf(pending[k]) : k \in {j \in DOMAIN pending : pending[j].pos >= origin}}

Lossless == INSTANCE LosslessStream WITH
    released <- next_expected,
    read <- Len(consumed),
    held <- HeldOfStream,
    report <- outcome.bytes

\* The reassembler keeps the promise of LosslessStream: each push releases the
\* longest complete run, holds what came early, or reports what it gives up.
ImplementsLosslessStream == Lossless!Spec
=============================================================================
