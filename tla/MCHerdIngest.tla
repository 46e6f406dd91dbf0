---------------------------- MODULE MCHerdIngest ----------------------------
(* The herd ingest, for TLC: the bounds are in the cfgs. *)
EXTENDS HerdIngest
=============================================================================
