---------------------------- MODULE MCVolumeTTL -----------------------------
(* Small instances of VolumeTTL for TLC.  Symmetry is for the runs without *)
(* a liveness property.                                                    *)
EXTENDS VolumeTTL, TLC

CONSTANTS k1, k2, s1, s2, c1

MCSize == [s \in Sigs |-> IF s = s1 THEN 1 ELSE 2]
Symmetry == Permutations(Keys)
=============================================================================
