--------------------------- MODULE MCGuardedSend ----------------------------
(* Two sends and a plain write on one pane, for TLC. *)
EXTENDS GuardedSend

CONSTANTS s1, s2, w1, pane

MCKeyOf == [c \in Calls |-> pane]
=============================================================================
