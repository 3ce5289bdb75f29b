--------------------------- MODULE MCVolumeSerial ---------------------------
(* A small instance of VolumeSerial for TLC. *)
EXTENDS VolumeSerial, TLC

CONSTANTS k1, k2, k3, s1, s2, c1, c2

MCSize == [s \in Sigs |-> IF s = s1 THEN 1 ELSE 2]
MCVidLists == {<<p, i>> : p \in Peers, i \in SelfIDs}
Symmetry == Permutations(Keys) \cup Permutations(Clients)
=============================================================================
