---------------------------- MODULE MCHerdWatch -----------------------------
(* One pane for TLC: its harness is one whose card Herdr calls done, or working. *)
EXTENDS HerdWatch

MCSniffSets == {{"done"}, {"working"}}
=============================================================================
