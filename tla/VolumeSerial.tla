---------------------------- MODULE VolumeSerial ----------------------------
(***************************************************************************)
(* The volume when no content is dropped while an upload of the same       *)
(* content is between its Rename and its transaction.  Nothing in the code *)
(* enforces this: it is the condition under which a volume keeps the       *)
(* promise of KeyStore, and without it a row can outlive its content.      *)
(***************************************************************************)
EXTENDS Volume

CONSTANT None
ASSUME NoneAssumption == None \notin Sigs

(* No step takes away the content of an upload that still waits. *)
KeepsUploads == \A c \in DOMAIN pending' : pending'[c].sig \in blobs'

SerialNext == Next /\ KeepsUploads
SerialSpec == Init /\ [][SerialNext]_vars

(* What GetFile gives for a key: the content its index entry names, when   *)
(* that content is at its path.                                            *)
GetFile(k) == IF Readable(k) THEN idxkeys[k] ELSE None

Promise == INSTANCE KeyStore
             WITH Contents <- Sigs, store <- [k \in Keys |-> GetFile(k)]

(* GetFile answers as a map from keys to contents would: every step of the *)
(* volume is a CreateFile, a DeleteFile or a Reset of that map, or does    *)
(* not change it.  Dropping the content of one key never disturbs another. *)
KeepsPromise == Promise!Spec

(* A CreateFile that answers success leaves its key readable with its      *)
(* content, the early return for a content already stored under the key    *)
(* included.                                                               *)
PutIsRead ==
  [][\A c \in DOMAIN pending, k \in Keys :
       /\ k = pending[c].key
       /\ CreateFileUnchanged(c) \/ CreateFileCommits(c)
       => GetFile(k)' = pending[c].sig]_vars

(* Every key can be deleted: the content is there to rename, and what is   *)
(* given back fits.  Otherwise DeleteFile and every overwrite of the key   *)
(* fail for ever.  A volume that starts with less room than it uses does   *)
(* not keep it; VolumeProofs shows that every other does.                  *)
KeysDeletable ==
  \A k \in DOMAIN idxkeys :
    \A s \in LastNameOf(k) : s \in blobs /\ CanStore(-Size[s])
=============================================================================
