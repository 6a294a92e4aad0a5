---------------------------- MODULE MCLongStream ----------------------------
(***************************************************************************)
(* A stream longer than the sequence space, under the friendliest capture: *)
(* the SYN is seen and every segment is captured once, in order.           *)
(***************************************************************************)
EXTENDS StreamReassembler

\* The sender's next unsent byte.
NextUnsent == Cardinality(arrived)

InOrderNext ==
    \/ origin = None /\ set_isn
    \/ /\ origin # None
       /\ \E n \in 1 .. MaxPayload :
              NextUnsent + n <= StreamLen /\ push(NextUnsent, n)
    \/ Take

LongStreamSpec == Init /\ [][InOrderNext]_vars
=============================================================================
