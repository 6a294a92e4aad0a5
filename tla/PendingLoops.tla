---------------------------- MODULE PendingLoops ----------------------------
(***************************************************************************)
(* The two while loops of the reassembler, one iteration per step:         *)
(* drain_pending and the eviction loop of buffer_pending                   *)
(* (src/src/reassembly.rs), run on every small buffer.  What they compute  *)
(* is what PendingBuffer states.  The state is the reassembler's.          *)
(***************************************************************************)
EXTENDS StreamReassembler

CONSTANTS
    MaxKey,    \* largest key of an initial buffer
    MaxFrom,   \* largest next_expected_relative at the loop's start
    Content    \* what the segment filed at a key begins with

ASSUME InputAssumption == MaxKey \in 1 .. SeqSpace - 1 /\ MaxFrom \in 0 .. MaxKey
ASSUME ContentAssumption == Content \in [1 .. MaxKey -> Nat]

VARIABLES
    loop,      \* "drain", "evict", or "done"
    input,     \* the buffer and offset the loop started with
    evicted    \* evicted_bytes

\* What neither loop reads or writes.
aside == <<base_seq, pending_age, outcome, history>>
loopVars == <<loop, input, evicted, next_expected, contiguous, pending, pending_len, aside>>

Buffers ==
    UNION {{[k \in K |-> [pos |-> Content[k], len |-> l[k]]] : l \in [K -> 1 .. MaxPayload]}
              : K \in SUBSET (1 .. MaxKey)}

LoopInit ==
    /\ loop \in {"drain", "evict"}
    /\ input \in [buffer : Buffers, from : 0 .. MaxFrom, loop : {loop}]
    /\ loop = "evict" => input.from = 0
    /\ pending = input.buffer
    /\ pending_len = SumLen(pending, DOMAIN pending)
    /\ next_expected = input.from
    /\ contiguous = << >>
    /\ evicted = 0
    /\ base_seq = None /\ pending_age = None /\ outcome = Outcome("None")
    /\ consumed = << >> /\ origin = None /\ arrived = {} /\ abandoned = {}

Lowest == Min(DOMAIN pending)

\* self.pending.remove(&key) and its byte count.
RemoveLowest ==
    /\ pending' = KeepOnly(pending, DOMAIN pending \ {Lowest})
    /\ pending_len' = pending_len - pending[Lowest].len

\* Mutant of TrimmedLowest: the redundant prefix is delivered again.
UntrimmedLowest == pending[Lowest]

\* What the segment at the lowest key adds beyond next_expected.
TrimmedLowest ==
    LET trim == next_expected - Lowest
    IN  [pos |-> pending[Lowest].pos + trim, len |-> pending[Lowest].len - trim]

\* Mutant of DrainDiscard: a redundant segment is left where it is.
DrainSkip ==
    /\ loop = "drain"
    /\ DOMAIN pending # {}
    /\ Lowest < next_expected
    /\ Lowest + pending[Lowest].len <= next_expected
    /\ UNCHANGED loopVars

\* The lowest segment is wholly redundant by now.
DrainDiscard ==
    /\ loop = "drain"
    /\ DOMAIN pending # {}
    /\ Lowest < next_expected
    /\ Lowest + pending[Lowest].len <= next_expected
    /\ RemoveLowest
    /\ UNCHANGED <<loop, input, next_expected, contiguous, evicted, aside>>

\* The lowest segment is partly redundant, or begins exactly at next_expected.
DrainDeliver ==
    /\ loop = "drain"
    /\ DOMAIN pending # {}
    /\ Lowest <= next_expected
    /\ Lowest + pending[Lowest].len > next_expected
    /\ RemoveLowest
    /\ next_expected' = next_expected + TrimmedLowest.len
    /\ contiguous' = contiguous \o Data(TrimmedLowest)
    /\ UNCHANGED <<loop, input, evicted, aside>>

\* The buffer is empty, or its lowest segment is beyond the gap.
DrainEnd ==
    /\ loop = "drain"
    /\ DOMAIN pending # {} => Lowest > next_expected
    /\ loop' = "done"
    /\ UNCHANGED <<input, pending, pending_len, next_expected, contiguous, evicted, aside>>

\* Mutant of OverCap: a buffer exactly at its cap is over it.
AtCap == pending_len >= max_bytes \/ Cardinality(DOMAIN pending) >= max_packets

OverCap == pending_len > max_bytes \/ Cardinality(DOMAIN pending) > max_packets

Evict ==
    /\ loop = "evict"
    /\ OverCap
    /\ DOMAIN pending # {}
    /\ RemoveLowest
    /\ evicted' = evicted + pending[Lowest].len
    /\ UNCHANGED <<loop, input, next_expected, contiguous, aside>>

EvictEnd ==
    /\ loop = "evict"
    /\ ~OverCap \/ DOMAIN pending = {}
    /\ loop' = "done"
    /\ UNCHANGED <<input, pending, pending_len, next_expected, contiguous, evicted, aside>>

LoopNext == DrainDiscard \/ DrainDeliver \/ DrainEnd \/ Evict \/ EvictEnd

\* A loop that has an iteration to run runs it.
LoopSpec == LoopInit /\ [][LoopNext]_loopVars /\ WF_loopVars(LoopNext)

-----------------------------------------------------------------------------
\* drain_pending, iteration by iteration, stops at the first offset no pending
\* segment covers, takes every byte from the first segment that holds it, leaves
\* exactly the segments beyond, and keeps pending_len exact.
DrainComputesRun ==
    loop = "done" /\ input.loop = "drain" =>
        LET upto == DrainedTo(input.buffer, input.from)
        IN  /\ next_expected = upto
            /\ contiguous = [i \in 1 .. upto - input.from |-> ByteAt(input.buffer, input.from + i - 1)]
            /\ pending = KeepOnly(input.buffer, Undrained(input.buffer, upto))
            /\ pending_len = SumLen(pending, DOMAIN pending)

\* The eviction loop leaves the largest top part of the buffer that is within
\* both caps and counts the bytes it removed.
EvictKeepsTop ==
    loop = "done" /\ input.loop = "evict" =>
        /\ pending = KeepOnly(input.buffer, Survivors(input.buffer))
        /\ Fits(pending, DOMAIN pending)
        /\ evicted = SumLen(input.buffer, DOMAIN input.buffer \ DOMAIN pending)
        /\ pending_len = SumLen(pending, DOMAIN pending)

\* Both loops end, whatever the buffer.
LoopsTerminate == <>(loop = "done")
=============================================================================
