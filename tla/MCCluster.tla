----------------------------- MODULE MCCluster ------------------------------
(* Small instances of Cluster, and of Succession, for TLC. *)
EXTENDS Succession

CONSTANTS n1, n2, n3, k1, s1

(* A client puts one object. *)
OnePut == {<<n1, k1, s1>>}
=============================================================================
