------------------------------- MODULE Lists --------------------------------
(* Lists of volume IDs, as the rows and the replicas hold them (file/), and *)
(* tables: functions whose domain changes, as the buckets of a database.   *)
EXTENDS Integers, Sequences

(* Tables: functions with a domain that changes. *)
IsTable(t, D, R) == DOMAIN t \in SUBSET D /\ t \in [DOMAIN t -> R]
Put(t, x, v) == [y \in DOMAIN t \cup {x} |-> IF y = x THEN v ELSE t[y]]
Drop(t, x) == [y \in DOMAIN t \ {x} |-> t[y]]
Empty == [x \in {} |-> x]

ElemsOf(s) == {s[i] : i \in DOMAIN s}

(* The volume IDs other than v, in their order. *)
DeleteVolumeID(vids, v) ==
  LET kept[n \in 0..Len(vids)] ==
        IF n = 0 THEN <<>>
        ELSE IF vids[n] = v THEN kept[n - 1]
        ELSE Append(kept[n - 1], vids[n])
  IN  kept[Len(vids)]
=============================================================================
