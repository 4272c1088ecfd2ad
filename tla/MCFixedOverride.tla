--------------------------- MODULE MCFixedOverride ---------------------------
EXTENDS FixedOverride

(* The game asks for 2x, the user forces 3x, and the latency trial may     *)
(* lower that to 2x, which the game asks for already.                      *)
MCGameCounts  == {1}
MCMultipliers == {3}
=============================================================================
