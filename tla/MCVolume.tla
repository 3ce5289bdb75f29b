------------------------------ MODULE MCVolume ------------------------------
(* Small instances of Volume for TLC. *)
EXTENDS Volume, TLC

CONSTANTS k1, k2, s1, s2, c1, c2

MCSize == [s \in Sigs |-> IF s = s1 THEN 1 ELSE 2]
MCVidLists == {<<p, i>> : p \in Peers, i \in SelfIDs}
Symmetry ==
  {f @@ g @@ h : f \in Permutations(Keys), g \in Permutations(Clients),
                 h \in Permutations(SelfIDs)}
=============================================================================
