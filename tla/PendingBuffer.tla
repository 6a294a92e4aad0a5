--------------------------- MODULE PendingBuffer ---------------------------
(***************************************************************************)
(* The reassembler's out-of-order buffer (src/src/reassembly.rs): a map    *)
(* from relative offset to segment, and what its two loops compute.  The   *)
(* loops are stated by their result; PendingLoops checks that the code's   *)
(* iterations reach it.                                                    *)
(***************************************************************************)
EXTENDS Integers, FiniteSets, FiniteSetsExt, Functions

CONSTANTS
    SeqSpace,      \* number of TCP sequence numbers (2^32)
    MaxPayload,    \* longest TCP payload
    max_bytes,     \* PendingLimits.max_bytes
    max_packets    \* PendingLimits.max_packets

ASSUME SizeAssumption == SeqSpace \in Nat \ {0} /\ MaxPayload \in Nat \ {0}
ASSUME LimitsAssumption == max_bytes \in Nat /\ max_packets \in Nat

BytesOf(seg) == {seg.pos + i : i \in 0 .. seg.len - 1}
Data(seg) == [i \in 1 .. seg.len |-> seg.pos + i - 1]

Held(p) == UNION {BytesOf(p[k]) : k \in DOMAIN p}

\* Total payload of the segments at keys K.
SumLen(p, K) == SumFunctionOnSet([k \in DOMAIN p |-> p[k].len], K)

KeepOnly(p, K) == [k \in K |-> p[k]]

\* Segment at key k of buffer p holds the byte at relative offset x.
Covers(p, k, x) == k <= x /\ x < k + p[k].len
Covered(p, x) == \E k \in DOMAIN p : Covers(p, k, x)

\* Beyond every offset a segment can reach: rel < SeqSpace, plus one payload.
Horizon == SeqSpace + MaxPayload

\* Mutant of DrainedTo: pending segments are not looked at.
NotDrained(p, from) == from

\* drain_pending visits the keys in ascending order and stops at the first one
\* beyond next_expected: it ends at the first offset no pending segment covers.
DrainedTo(p, from) ==
    CHOOSE n \in from .. Horizon :
        ~Covered(p, n) /\ \A x \in from .. n - 1 : Covered(p, x)

\* A byte several segments hold comes from the one visited first.
ByteAt(p, x) ==
    LET k == Min({j \in DOMAIN p : Covers(p, j, x)})
    IN  p[k].pos + (x - k)

\* The keys the drain loop leaves: those it did not reach.
Undrained(p, n) == {k \in DOMAIN p : k > n}

\* Eviction removes the lowest key while a cap is exceeded: a key survives when
\* everything from it upwards is within both caps.
Fits(p, K) == SumLen(p, K) <= max_bytes /\ Cardinality(K) <= max_packets
Survivors(p) == {k \in DOMAIN p : Fits(p, {j \in DOMAIN p : j >= k})}
=============================================================================
