------------------------------ MODULE KeyStore ------------------------------
(***************************************************************************)
(* What a volume promises its callers (the interface Volume of             *)
(* volume/volume.go): a map from keys to contents.  A write of one key     *)
(* never changes what another key gives, a key gives the content last put  *)
(* under it until it is deleted, and only a reset forgets everything.      *)
(***************************************************************************)
CONSTANTS Keys, Contents, None

VARIABLE store

Init == store = [k \in Keys |-> None]

CreateFile(k, c) == store' = [store EXCEPT ![k] = c]
DeleteFile(k) == store' = [store EXCEPT ![k] = None]
Reset == store' = [k \in Keys |-> None]

Next ==
  \/ \E k \in Keys, c \in Contents : CreateFile(k, c)
  \/ \E k \in Keys : DeleteFile(k)
  \/ Reset

Spec == Init /\ [][Next]_store
=============================================================================
