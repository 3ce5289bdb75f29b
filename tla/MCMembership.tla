---------------------------- MODULE MCMembership ----------------------------
(* Small instances of Membership for TLC. *)
EXTENDS Membership

CONSTANTS n1, n2, v1, v2, w

(* The volume of n1 has another ID after a Reset; and n1 may come back     *)
(* with the first under the name n2, which config.New draws when none is   *)
(* configured, or leave that name to another node.                         *)
RenamedVolumes ==
  [n \in Nodes |-> IF n = n1 THEN {{v1}, {v2}} ELSE {{v1}, {w}}]
=============================================================================
