--------------------------- MODULE MCFindVolume ----------------------------
(* A small instance of FindVolume for TLC. *)
EXTENDS FindVolume

CONSTANTS v1, v2, v3
=============================================================================
