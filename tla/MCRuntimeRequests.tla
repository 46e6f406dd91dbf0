------------------------- MODULE MCRuntimeRequests --------------------------
(* Two devices and two dialogs, the second a permission, for TLC. *)
EXTENDS RuntimeRequests, TLC

CONSTANTS phone, desk
MCDevices == {phone, desk}
=============================================================================
