---------------------------- MODULE MCConversions ---------------------------
(***************************************************************************)
(* TLC instance of Conversions: the 400 years after 1970, and clocks of    *)
(* three decimal digits with every resolution around them.                 *)
(***************************************************************************)
EXTENDS Conversions

MCResolutions == {None} \union [binary : BOOLEAN, value : 0 .. 5]
=============================================================================
