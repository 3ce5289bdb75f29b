------------------------------- MODULE Volume -------------------------------
(***************************************************************************)
(* One local volume of a rebost node: the object files on disk, the rows   *)
(* its bolt database keeps about them, and the queue of replicas still to  *)
(* be made (volume/volume.go).                                             *)
(*                                                                         *)
(* A write transaction of the database is one step, because bolt lets one  *)
(* writer in at a time.  What happens outside a transaction is a step of   *)
(* its own: CreateFile moves the uploaded content to its final path before *)
(* its transaction begins, so a crash or any other transaction can come    *)
(* between the two.                                                        *)
(*                                                                         *)
(* A call that ends in an error and rolls back leaves every variable as it *)
(* was and has no action, except that the upload it ends must go.          *)
(***************************************************************************)
EXTENDS Integers, Sequences, FiniteSets, Functions, Lists

CONSTANTS
  Keys,      \* the names objects are stored under
  Sigs,      \* the SHA1 signatures of the contents
  SelfIDs,   \* the uuids createID may draw for this volume
  Peers,     \* the IDs of the volumes of other nodes
  Clients,   \* the concurrent CreateFile calls
  Size,      \* Size[s] is the length of the content signed s
  Totals,    \* the dedicated sizes the volume may be started with
  Reps,      \* the replica factors asked for
  TTLs,      \* the times to live asked for, NoTTL among them
  CreatedAts, \* the creation times asked for, past or future
  VidLists,  \* the volume lists a master may send to UpdateFileReplica
  MaxNow,    \* bound on the clock
  MaxQueue,  \* bound on the length of the replica queue
  MaxVids    \* no upload or replica is begun of a content with this many IDs

NoTTL == 0
ZeroTime == -1        \* Go's zero time, before every time of the clock
VolumeIDs == SelfIDs \cup Peers

ASSUME IDsAssumption == SelfIDs \cap Peers = {}
ASSUME SigsAssumption == IsFiniteSet(Sigs) /\ Size \in [Sigs -> Nat]
ASSUME InputsAssumption ==
  /\ Totals \subseteq Nat
  /\ Reps \subseteq Int
  /\ TTLs \subseteq Nat /\ CreatedAts \subseteq Nat
  /\ \A l \in VidLists : l \in Seq(VolumeIDs)
ASSUME BoundsAssumption ==
  MaxNow \in Nat /\ MaxQueue \in Nat /\ MaxVids \in Nat

VARIABLES
  up,          \* the process runs
  started,     \* the database holds a State row (some start completed)
  tmps,        \* the directory uploads are first written to exists
  id,          \* l.id
  retired,     \* the IDs this volume had before a Reset
  now,         \* the clock, in seconds
  files,       \* bucket files: signature -> row
  idxkeys,     \* bucket idxkeys: key -> signature
  idxvolumes,  \* bucket idxvolumes: pairs <<volume ID, signature>>
  idxttls,     \* bucket idxttls: pairs <<expiry, signature>>
  replicas,    \* bucket replicas, in the order of its keys
  used,        \* State.VolumeUsedSize
  total,       \* State.VolumeTotalSize
  blobs,       \* the contents at their final path
  pending      \* the CreateFile calls between Rename and transaction

durable == <<started, id, retired, files, idxkeys, idxvolumes, idxttls,
             replicas, used>>
vars == <<up, started, tmps, id, retired, now, files, idxkeys, idxvolumes,
          idxttls, replicas, used, total, blobs, pending>>

-----------------------------------------------------------------------------
Row == [keys : (SUBSET Keys) \ {{}}, replica : Int, vids : Seq(VolumeIDs),
        ttl : Nat, created : Nat]
Upload == [key : Keys, sig : Sigs, rep : Int, ttl : Nat, created : Nat]
Replica == [key : Keys, sig : Sigs, count : Int, original : Int,
            vids : Seq(VolumeIDs), ttl : Nat, created : Nat]

(* State.CanStore of a volume with a dedicated size. *)
CanStore(b) == used + b <= total

\* faulty: the content goes with any of its keys
LastNameOfAnyName(k) ==
  {s \in DOMAIN files : k \in DOMAIN idxkeys /\ idxkeys[k] = s}
(* The signatures key k is the only name of: dropping k drops the content. *)
LastNameOf(k) ==
  {s \in DOMAIN files : k \in DOMAIN idxkeys /\ idxkeys[k] = s
                        /\ files[s].keys \ {k} = {}}

\* faulty: the row goes with any of its keys
UnlinkWholeRow(rows, s, k) == Drop(rows, s)
\* faulty: the row stays when its last key is dropped
UnlinkKeepRow(rows, s, k) == [rows EXCEPT ![s].keys = @ \ {k}]
(* rows without key k in the row of s: the row goes when no key is left. *)
Unlink(rows, s, k) ==
  IF rows[s].keys \ {k} = {} THEN Drop(rows, s)
  ELSE [rows EXCEPT ![s].keys = @ \ {k}]

ExpiresAt(row) == row.created + row.ttl

(* The index of expiries with s added at t.  An entry read back has the    *)
(* zero ExpiresAt (parseTime hands time.Parse its arguments swapped), so   *)
(* the second signature of a second is saved, with the first, under the    *)
(* zero time, and the entry at t stays as it was.                          *)
AddExpiry(t, s) ==
  LET dueAt == {p[2] : p \in {q \in idxttls : q[1] = t}}
  IN  IF dueAt = {} THEN idxttls \cup {<<t, s>>}
      ELSE {p \in idxttls : p[1] # ZeroTime}
           \cup ({ZeroTime} \X (dueAt \cup {s}))

-----------------------------------------------------------------------------
(* A volume that was never started: New will draw the first ID. *)
Init ==
  /\ up = FALSE /\ started = FALSE /\ tmps = FALSE
  /\ id \in SelfIDs
  /\ retired = {}
  /\ now = 0
  /\ files = Empty /\ idxkeys = Empty
  /\ idxvolumes = {} /\ idxttls = {}
  /\ replicas = <<>>
  /\ used = 0
  /\ total \in Totals
  /\ blobs = {}
  /\ pending = Empty

(* New on a volume whose heartbeat is recent enough to keep its data. *)
Start(t) ==
  /\ ~up /\ started
  /\ up' = TRUE /\ tmps' = TRUE
  /\ total' = t
  /\ UNCHANGED <<durable, now, blobs, pending>>

(* The process dies in New's wake, before the Reset that was due: the next *)
(* start reads the heartbeat New wrote and keeps what is there.            *)
StartInterrupted(t) ==
  /\ ~up
  /\ started' = TRUE /\ tmps' = TRUE
  /\ total' = t
  /\ UNCHANGED <<up, id, retired, now, files, idxkeys, idxvolumes, idxttls,
                 replicas, used, blobs, pending>>

(* New, and then Reset because the heartbeat read before is too old: every *)
(* table but idxttls is emptied, both directories are removed and an ID is *)
(* drawn.  The first start of a volume reads a zero heartbeat.             *)
StartReset(t) ==
  /\ ~up
  /\ up' = TRUE /\ started' = TRUE /\ tmps' = FALSE
  /\ files' = Empty /\ idxkeys' = Empty /\ idxvolumes' = {}
  /\ replicas' = <<>>
  /\ blobs' = {}
  /\ used' = 0
  /\ total' = t
  /\ id' \in SelfIDs \ (retired \cup {id})
  /\ retired' = retired \cup {id}
  /\ UNCHANGED <<now, idxttls, pending>>

(* The process ends.  Uploads under way are lost; what CreateFile already  *)
(* moved to its final path stays there.                                    *)
Crash ==
  /\ up
  /\ up' = FALSE
  /\ pending' = Empty
  /\ UNCHANGED <<durable, tmps, now, total, blobs>>

Tick ==
  /\ now < MaxNow
  /\ now' = now + 1
  /\ UNCHANGED <<durable, up, tmps, total, blobs, pending>>

-----------------------------------------------------------------------------
(* CreateFile, up to the Rename of the uploaded content to its final path. *)
CreateFileRename(c, k, s, rep, ttl, ca) ==
  /\ up /\ tmps
  /\ c \notin DOMAIN pending
  /\ pending' = Put(pending, c, [key |-> k, sig |-> s, rep |-> rep,
                                 ttl |-> ttl, created |-> ca])
  /\ blobs' = blobs \cup {s}
  /\ UNCHANGED <<durable, up, tmps, now, total>>

Known(u) == u.sig \in DOMAIN files
\* faulty: the early return does not look at the key
StoredUnderAnyKey(u) == Known(u)
(* CreateFile's early return: the content already has the key. *)
Stored(u) == Known(u) /\ u.key \in files[u.sig].keys

(* The row CreateFile writes.  A known content keeps its replica factor,   *)
(* time to live and creation time, and lists this volume once more.        *)
RowFor(u) ==
  IF Known(u)
  THEN [files[u.sig] EXCEPT !.keys = @ \cup {u.key}, !.vids = Append(@, id)]
  ELSE [keys |-> {u.key}, replica |-> u.rep, vids |-> <<id>>,
        ttl |-> u.ttl, created |-> u.created]

\* faulty: the copy of this volume is not counted
ReplicaForUncounted(u) ==
  [key |-> u.key, sig |-> u.sig, count |-> u.rep, original |-> u.rep,
   vids |-> <<id>>, ttl |-> u.ttl, created |-> u.created]
(* The replica CreateFile queues: this volume has the first copy. *)
ReplicaFor(u) ==
  [key |-> u.key, sig |-> u.sig, count |-> u.rep - 1, original |-> u.rep,
   vids |-> <<id>>, ttl |-> u.ttl, created |-> u.created]

(* What the State is asked for: a known content takes no more room. *)
Taken(u) == IF Known(u) THEN 0 ELSE Size[u.sig]

FinishUpload(c) == pending' = Drop(pending, c)

(* The transaction of CreateFile finds the key on the content: success     *)
(* without a write.                                                        *)
CreateFileUnchanged(c) ==
  /\ up /\ c \in DOMAIN pending
  /\ Stored(pending[c])
  /\ FinishUpload(c)
  /\ UNCHANGED <<durable, up, tmps, now, total, blobs>>

(* The transaction rolls back: the content does not fit, or the content    *)
(* whose last key is overwritten is not where its row says.  The content   *)
(* renamed before the transaction stays.                                   *)
CreateFileFails(c) ==
  /\ up /\ c \in DOMAIN pending
  /\ LET u == pending[c]
     IN  /\ ~Stored(u)
         /\ \/ ~Known(u) /\ ~CanStore(Taken(u))
            \/ ~(LastNameOf(u.key) \subseteq blobs)
  /\ FinishUpload(c)
  /\ UNCHANGED <<durable, up, tmps, now, total, blobs>>

(* The transaction commits.  A key that named another content leaves it,   *)
(* and the content goes with its last key.                                 *)
CreateFileCommits(c) ==
  /\ up /\ c \in DOMAIN pending
  /\ LET u == pending[c]
         rows == Put(files, u.sig, RowFor(u))
     IN  /\ ~Stored(u)
         /\ Known(u) \/ CanStore(Taken(u))
         /\ LastNameOf(u.key) \subseteq blobs
         /\ used' = used + Taken(u)
         /\ files' = IF u.key \in DOMAIN idxkeys
                     THEN Unlink(rows, idxkeys[u.key], u.key)
                     ELSE rows
         /\ blobs' = blobs \ LastNameOf(u.key)
         /\ idxkeys' = Put(idxkeys, u.key, u.sig)
         /\ idxttls' = IF u.ttl = NoTTL THEN idxttls
                       ELSE AddExpiry(ExpiresAt(RowFor(u)), u.sig)
         /\ IF u.rep - 1 >= 1
            THEN /\ Len(replicas) < MaxQueue
                 /\ replicas' = Append(replicas, ReplicaFor(u))
            ELSE UNCHANGED replicas
  /\ FinishUpload(c)
  /\ UNCHANGED <<up, started, tmps, id, retired, now, idxvolumes, total>>

\* faulty: every key gives back the size of the content
FreedPerKey(k) == Size[idxkeys[k]]
(* What DeleteFile gives back to the State. *)
Freed(k) == IF LastNameOf(k) = {} THEN 0 ELSE Size[idxkeys[k]]

(* DeleteFile of a key that is there: the content and its row go with the  *)
(* last key.  When the content is missing, or the size given back does not *)
(* fit, the call fails and changes nothing.                                *)
DeleteFile(k) ==
  /\ up /\ k \in DOMAIN idxkeys
  /\ LET s == idxkeys[k]
     IN  /\ files' = Unlink(files, s, k)
         /\ LastNameOf(k) # {} => s \in blobs /\ CanStore(-Freed(k))
         /\ blobs' = blobs \ LastNameOf(k)
         /\ used' = used - Freed(k)
  /\ idxkeys' = Drop(idxkeys, k)
  /\ UNCHANGED <<up, started, tmps, id, retired, now, idxvolumes, idxttls,
                 replicas, total, pending>>

(* HasFile and GetFile: a key is there when it is indexed, and readable    *)
(* when the content is at its path too.                                    *)
HasFile(k) == k \in DOMAIN idxkeys
Readable(k) == HasFile(k) /\ idxkeys[k] \in blobs

-----------------------------------------------------------------------------
(* UpdateReplica(rp, v) on the head of the queue, which NextReplica gave   *)
(* to the replication loop: v, a volume outside rp.VolumeIDs, now has the  *)
(* content.  The loop added v to rp.VolumeIDs before the call.             *)
UpdateReplica(v) ==
  /\ up /\ replicas # <<>>
  /\ LET rp == Head(replicas)
     IN  /\ v \notin ElemsOf(rp.vids)
         /\ rp.original # 0
         /\ rp.sig \in DOMAIN files
         /\ Len(files[rp.sig].vids) < MaxVids
         /\ files' = [files EXCEPT ![rp.sig].vids = Append(@, v),
                                   ![rp.sig].replica = rp.original]
         /\ idxvolumes' = idxvolumes \cup {<<v, rp.sig>>}
         /\ replicas' =
              IF rp.count - 1 > 0
              THEN Append(Tail(replicas),
                          [rp EXCEPT !.count = @ - 1, !.vids = Append(@, v)])
              ELSE Tail(replicas)
  /\ UNCHANGED <<up, started, tmps, id, retired, now, idxkeys, idxttls, used,
                 total, blobs, pending>>

\* faulty: the master, first of its list, is left out
HoldersNoMaster(vids) == ElemsOf(Tail(vids)) \ {id}
(* The volumes of a master's list that UpdateFileReplica indexes. *)
Holders(vids) == ElemsOf(vids) \ {id}

\* faulty: accepts a list this volume is not in
UpdateFileReplicaUnchecked(k, vids, n) ==
  /\ up
  /\ k \in DOMAIN idxkeys
  /\ LET s == idxkeys[k]
     IN  /\ s \in DOMAIN files
         /\ files' = [files EXCEPT ![s].vids = vids, ![s].replica = n]
         /\ idxvolumes' = idxvolumes \cup (Holders(vids) \X {s})
  /\ UNCHANGED <<up, started, tmps, id, retired, now, idxkeys, idxttls,
                 replicas, used, total, blobs, pending>>

(* UpdateFileReplica: the master of the content sends the volumes that     *)
(* have it.  Nothing is taken out of idxvolumes.                           *)
UpdateFileReplica(k, vids, n) ==
  /\ up
  /\ id \in ElemsOf(vids)
  /\ k \in DOMAIN idxkeys
  /\ LET s == idxkeys[k]
     IN  /\ s \in DOMAIN files
         /\ files' = [files EXCEPT ![s].vids = vids, ![s].replica = n]
         /\ idxvolumes' = idxvolumes \cup (Holders(vids) \X {s})
  /\ UNCHANGED <<up, started, tmps, id, retired, now, idxkeys, idxttls,
                 replicas, used, total, blobs, pending>>

SignaturesOf(v) == {p[2] : p \in {q \in idxvolumes : q[1] = v}}

(* The contents this volume answers for once v is gone. *)
Inherited(v) ==
  {s \in SignaturesOf(v) : Head(DeleteVolumeID(files[s].vids, v)) = id}

ReplicaWithout(s, k, v) ==
  LET vids == DeleteVolumeID(files[s].vids, v)
  IN  [key |-> k, sig |-> s, count |-> files[s].replica - Len(vids),
       original |-> files[s].replica, vids |-> vids, ttl |-> NoTTL,
       created |-> 0]

Orders(S) ==
  {o \in [1..Cardinality(S) -> S] :
     \A i, j \in DOMAIN o : o[i] = o[j] => i = j}

(* SynchronizeReplicas: v left the cluster.  A replica is queued for each  *)
(* content v had and this volume is now the first holder of, under one of  *)
(* its keys, in the order the index lists them (any order here).  One      *)
(* signature without a row makes the whole call fail.  The shortened       *)
(* VolumeIDs go to the replica only: the row keeps v.                      *)
SynchronizeReplicas(v) ==
  /\ up
  /\ SignaturesOf(v) # {}
  /\ SignaturesOf(v) \subseteq DOMAIN files
  /\ Len(replicas) + Cardinality(Inherited(v)) <= MaxQueue
  /\ \E o \in Orders(Inherited(v)) :
       \E name \in [Inherited(v) -> Keys] :
         /\ \A s \in Inherited(v) : name[s] \in files[s].keys
         /\ replicas' = replicas \o [i \in 1..Cardinality(Inherited(v)) |->
                                       ReplicaWithout(o[i], name[o[i]], v)]
  /\ UNCHANGED <<up, started, tmps, id, retired, now, files, idxkeys,
                 idxvolumes, idxttls, used, total, blobs, pending>>

-----------------------------------------------------------------------------
(* The caller chooses the replica factor, the time to live and, as a node  *)
(* that makes a copy does, the creation time; without one it is now.       *)
BeginCreateFile ==
  \E c \in Clients, k \in Keys, s \in Sigs, rep \in Reps, ttl \in TTLs,
     ca \in {now} \cup CreatedAts :
    /\ s \in DOMAIN files =>
         Len(files[s].vids) + Cardinality(DOMAIN pending) < MaxVids
    /\ CreateFileRename(c, k, s, rep, ttl, ca)

FinishCreateFile ==
  \E c \in Clients :
    CreateFileUnchanged(c) \/ CreateFileFails(c) \/ CreateFileCommits(c)

Next ==
  \/ \E t \in Totals : Start(t) \/ StartInterrupted(t) \/ StartReset(t)
  \/ Crash
  \/ Tick
  \/ BeginCreateFile
  \/ FinishCreateFile
  \/ \E k \in Keys : DeleteFile(k)
  \/ \E v \in Peers : UpdateReplica(v) \/ SynchronizeReplicas(v)
  \/ \E k \in Keys, vids \in VidLists, n \in Reps :
       UpdateFileReplica(k, vids, n)

Spec == Init /\ [][Next]_vars

-----------------------------------------------------------------------------
(* Every variable, every row and every queued replica has its type; a row  *)
(* has a key, or CreateFile and deleteFile would have dropped it.          *)
TypeOK ==
  /\ up \in BOOLEAN /\ started \in BOOLEAN /\ tmps \in BOOLEAN
  /\ id \in SelfIDs
  /\ retired \in SUBSET SelfIDs
  /\ now \in Nat
  /\ IsTable(files, Sigs, Row)
  /\ IsTable(idxkeys, Keys, Sigs)
  /\ idxvolumes \in SUBSET (VolumeIDs \X Sigs)
  /\ idxttls \in SUBSET (Int \X Sigs)
  /\ replicas \in Seq(Replica)
  /\ used \in Int
  /\ total \in Nat
  /\ blobs \in SUBSET Sigs
  /\ IsTable(pending, Clients, Upload)

(* idxkeys and files say the same of every key: what CreateFile's          *)
(* collision branch and deleteFile maintain on two tables.  If it broke,   *)
(* dbf would be nil in either of them.                                     *)
IndexConsistent ==
  \A k \in Keys, s \in Sigs :
    (k \in DOMAIN idxkeys /\ idxkeys[k] = s)
      <=> (s \in DOMAIN files /\ k \in files[s].keys)

(* Every row lists this volume under its present ID, through Resets and    *)
(* through the lists masters send: so f.VolumeIDs[0] in                    *)
(* SynchronizeReplicas is never out of range.                              *)
SelfListed == \A s \in DOMAIN files : id \in ElemsOf(files[s].vids)

(* Every other volume a row lists is in the index SynchronizeReplicas      *)
(* walks when that volume leaves: no holder of a copy is forgotten.        *)
VolumesIndexed ==
  \A s \in DOMAIN files :
    \A v \in ElemsOf(files[s].vids) \ {id} : <<v, s>> \in idxvolumes

Listed(rp) == Cardinality(ElemsOf(rp.vids))

(* A queued replica never asks for more copies than the distinct volumes   *)
(* of its list lack of its factor, whether CreateFile, UpdateReplica or    *)
(* SynchronizeReplicas queued it: no copy is sent that nobody asked for.   *)
NeverAsksTooMany ==
  \A i \in DOMAIN replicas :
    replicas[i].count + Listed(replicas[i]) <= replicas[i].original

(* Every content a row names is at its path: a key that is listed can be   *)
(* read, overwritten and deleted.                                          *)
ContentPresent == DOMAIN files \subseteq blobs

StoredBytes == SumFunctionOnSet(Size, DOMAIN files)

(* The volume never counts less than it stores, so it never stores more    *)
(* than its dedicated size and never gives back what it did not count.     *)
NeverUndercounts == StoredBytes <= used
=============================================================================
