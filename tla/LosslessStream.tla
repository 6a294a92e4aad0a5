--------------------------- MODULE LosslessStream ---------------------------
(***************************************************************************)
(* What a reassembler promises its reader: the sender's bytes from some    *)
(* origin on, in order; bytes that arrive early are held and released as   *)
(* soon as the bytes before them are there; a held byte is given up only   *)
(* by a step that reports it.                                              *)
(***************************************************************************)
EXTENDS Integers, FiniteSets

CONSTANTS StreamLen, MaxPayload, None

VARIABLES
    origin,     \* None, or the first position the reader will be given
    released,   \* how many bytes have been released to the reader
    read,       \* how many of them the reader has taken
    held,       \* positions that arrived and wait for an earlier one
    report      \* bytes the last arrival reported as given up

vars == <<origin, released, read, held, report>>

Positions == 0 .. StreamLen - 1

Init ==
    /\ origin = None
    /\ released = 0
    /\ read = 0
    /\ held = {}
    /\ report = 0

\* The first byte awaited when the stream's origin is o.
Awaited(o) == o + released

\* The stream start becomes known before any byte arrives.
Start ==
    /\ origin = None
    /\ origin' = 0
    /\ UNCHANGED <<released, read, held, report>>

\* Positions S arrive, the awaited one among them: the longest run that is now
\* complete is released.
Release(S, o) ==
    LET known == held \union S
    IN  /\ Awaited(o) \in S
        /\ \E n \in Awaited(o) .. StreamLen - 1 :
              /\ (Awaited(o) .. n) \subseteq known
              /\ n + 1 \notin known
              /\ released' = n + 1 - o
              /\ held' = {p \in known : p > n}
        /\ report' = 0

\* Positions S arrive, the awaited one not among them: what is new is held.
Hold(S, o) ==
    /\ Awaited(o) \notin S
    /\ held' = held \union {p \in S : p > Awaited(o)}
    /\ report' = 0
    /\ UNCHANGED released

\* As Hold, but some bytes are given up, and reported.
GiveUp(S, o) ==
    LET known == held \union S
    IN  /\ Awaited(o) \notin S
        /\ held' \in SUBSET known
        /\ Cardinality(known \ held') <= report'
        /\ UNCHANGED released

\* A run of positions from p is captured.  What precedes the origin is not part
\* of the stream; a run that begins before it is of no use.
Arrive(p, n) ==
    LET o == IF origin = None THEN p ELSE origin
        S == IF p < o THEN {} ELSE p .. p + n - 1
    IN  /\ origin' = o
        /\ Release(S, o) \/ Hold(S, o) \/ GiveUp(S, o)
        /\ UNCHANGED read

\* A segment without payload is captured.
ArriveEmpty ==
    /\ report' = 0
    /\ UNCHANGED <<origin, released, read, held>>

Read ==
    /\ read' \in read + 1 .. released
    /\ UNCHANGED <<origin, released, held, report>>

Next ==
    \/ Start
    \/ ArriveEmpty
    \/ \E p \in Positions : \E n \in 1 .. MaxPayload :
           p + n <= StreamLen /\ Arrive(p, n)
    \/ Read

Spec == Init /\ [][Next]_vars
=============================================================================
