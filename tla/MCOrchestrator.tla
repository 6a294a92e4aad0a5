--------------------------- MODULE MCOrchestrator ---------------------------
(***************************************************************************)
(* TLC instances of Orchestrator.                                          *)
(***************************************************************************)
EXTENDS Orchestrator

MCFrameFlags == {{"syn"}, {"ack"}, {"fin", "ack"}, {"rst"}}
=============================================================================
