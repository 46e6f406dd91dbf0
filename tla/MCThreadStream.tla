--------------------------- MODULE MCThreadStream ---------------------------
(* The v2 streams, for TLC: the bounds are in the cfgs. *)
EXTENDS ThreadStream
=============================================================================
