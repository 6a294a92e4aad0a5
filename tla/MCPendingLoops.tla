--------------------------- MODULE MCPendingLoops ---------------------------
(***************************************************************************)
(* TLC instance of PendingLoops: contents so far apart that every byte     *)
(* tells which segment it is from.                                         *)
(***************************************************************************)
EXTENDS PendingLoops

Tens == [k \in 1 .. MaxKey |-> 10 * k]
=============================================================================
