--------------------------- MODULE MCThreadQueue ---------------------------
(***************************************************************************)
(* ThreadQueue for TLC: the messages are interchangeable.                  *)
(***************************************************************************)
EXTENDS ThreadQueue, TLC

Symmetry == Permutations(Msgs)
=============================================================================
