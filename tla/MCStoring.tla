----------------------------- MODULE MCStoring ------------------------------
(* Small instances of Storing for TLC. *)
EXTENDS Storing

CONSTANTS n1, n2, n3, v1, v2, v3, k1, r1

(* One volume on each node. *)
OneEach ==
  [v \in Volumes |-> IF v = v1 THEN n1 ELSE IF v = v2 THEN n2 ELSE n3]
=============================================================================
