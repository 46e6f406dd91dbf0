--------------------------- MODULE MCCommandRoute ---------------------------
(* The command route, for TLC: the bounds are in the cfg. *)
EXTENDS CommandRoute
=============================================================================
