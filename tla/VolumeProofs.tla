---------------------------- MODULE VolumeProofs ----------------------------
(* Theorems about Volume: what holds of a volume whatever interleaves; and *)
(* about VolumeSerial: a volume whose uploads are not disturbed keeps the  *)
(* promise of KeyStore.                                                    *)
EXTENDS VolumeSerial, ListProofs

-----------------------------------------------------------------------------
(* Unlink of key k drops the row of s when k was its only key.             *)
LEMMA UnlinkDomain ==
  ASSUME NEW t, IsTable(t, Sigs, Row), NEW s \in DOMAIN t, NEW k
  PROVE  /\ IsTable(Unlink(t, s, k), Sigs, Row)
         /\ t[s].keys \ {k} = {} => DOMAIN Unlink(t, s, k) = DOMAIN t \ {s}
         /\ t[s].keys \ {k} # {} => DOMAIN Unlink(t, s, k) = DOMAIN t
<1>1. CASE t[s].keys \ {k} = {}
  <2>1. Unlink(t, s, k) = Drop(t, s)
    BY <1>1 DEF Unlink
  <2>2. /\ IsTable(Drop(t, s), Sigs, Row)
        /\ DOMAIN Drop(t, s) = DOMAIN t \ {s}
        /\ \A y \in DOMAIN t \ {s} : Drop(t, s)[y] = t[y]
    BY DEF IsTable, Drop
  <2> QED BY <1>1, <2>1, <2>2
<1>2. CASE t[s].keys \ {k} # {}
  <2>1. t[s] \in Row
    BY DEF IsTable
  <2>2. [t[s] EXCEPT !.keys = @ \ {k}] \in Row
    BY <1>2, <2>1 DEF Row
  <2> QED BY <1>2, <2>2 DEF Unlink, IsTable
<1> QED BY <1>1, <1>2

(* It changes no other row, and the row of s only in its keys. *)
LEMMA UnlinkRows ==
  ASSUME NEW t, IsTable(t, Sigs, Row), NEW s \in DOMAIN t, NEW k
  PROVE  /\ \A y \in DOMAIN t : y # s => Unlink(t, s, k)[y] = t[y]
         /\ t[s].keys \ {k} # {} => Unlink(t, s, k)[s].keys = t[s].keys \ {k}
         /\ t[s].keys \ {k} # {} => Unlink(t, s, k)[s].vids = t[s].vids
<1>1. CASE t[s].keys \ {k} = {}
  <2>1. Unlink(t, s, k) = Drop(t, s)
    BY <1>1 DEF Unlink
  <2>2. /\ IsTable(Drop(t, s), Sigs, Row)
        /\ DOMAIN Drop(t, s) = DOMAIN t \ {s}
        /\ \A y \in DOMAIN t \ {s} : Drop(t, s)[y] = t[y]
    BY DEF IsTable, Drop
  <2> QED BY <1>1, <2>1, <2>2
<1>2. CASE t[s].keys \ {k} # {}
  <2>1. t[s] \in Row
    BY DEF IsTable
  <2>2. [t[s] EXCEPT !.keys = @ \ {k}] \in Row
    BY <1>2, <2>1 DEF Row
  <2> QED BY <1>2, <2>2 DEF Unlink, IsTable
<1> QED BY <1>1, <1>2

-----------------------------------------------------------------------------
(* Counted with its duplicates, the list of a queued replica and what it   *)
(* asks for make up its factor: UpdateReplica adds one to the list as it   *)
(* takes one from the count.  A volume listed twice counts as two copies,  *)
(* so this bounds what is asked for and does not promise enough.           *)
ListBalanced ==
  \A i \in DOMAIN replicas :
    replicas[i].count + Len(replicas[i].vids) = replicas[i].original

(* The inductive invariant.  IndexConsistent alone is not inductive: that  *)
(* a row which loses a key still has one needs the types of the rows, and  *)
(* VolumesIndexed needs SelfListed's own ID to stay the one it excludes.   *)
IInv ==
  /\ TypeOK
  /\ IndexConsistent
  /\ SelfListed
  /\ VolumesIndexed
  /\ ListBalanced

LEMMA InitIInv == Init => IInv
<1> SUFFICES ASSUME Init PROVE IInv
  OBVIOUS
<1>1. /\ IsTable(files, Sigs, Row) /\ IsTable(idxkeys, Keys, Sigs)
      /\ IsTable(pending, Clients, Upload)
      /\ DOMAIN files = {} /\ DOMAIN idxkeys = {}
  BY EmptyTable DEF Init
<1>2. <<>> \in Seq(Replica)
  OBVIOUS
<1>3. TypeOK
  <2>1. up \in BOOLEAN /\ started \in BOOLEAN /\ tmps \in BOOLEAN
    BY Zenon DEF Init
  <2>2. /\ id \in SelfIDs /\ retired \in SUBSET SelfIDs
        /\ now \in Nat /\ used \in Int /\ total \in Nat
    BY InputsAssumption DEF Init
  <2>3. /\ idxvolumes \in SUBSET (VolumeIDs \X Sigs)
        /\ idxttls \in SUBSET (Int \X Sigs)
        /\ blobs \in SUBSET Sigs /\ replicas \in Seq(Replica)
    BY <1>2 DEF Init
  <2> QED BY <1>1, <2>1, <2>2, <2>3 DEF TypeOK
<1> QED
  BY <1>1, <1>3 DEF Init, IInv, IndexConsistent, SelfListed, VolumesIndexed,
                    ListBalanced

(* A step that keeps every table keeps what the invariant says of them.    *)
LEMMA TablesKept ==
  ASSUME IInv, TypeOK',
         UNCHANGED <<id, files, idxkeys, idxvolumes, replicas>>
  PROVE  IInv'
BY DEF IInv, IndexConsistent, SelfListed, VolumesIndexed, ListBalanced

LEMMA StartIInv ==
  ASSUME IInv, NEW t \in Totals, Start(t) PROVE IInv'
<1>1. TypeOK'
  BY InputsAssumption DEF IInv, TypeOK, Start, durable
<1> QED
  BY <1>1, TablesKept DEF Start, durable

LEMMA StartInterruptedIInv ==
  ASSUME IInv, NEW t \in Totals, StartInterrupted(t) PROVE IInv'
<1>1. TypeOK'
  BY InputsAssumption DEF IInv, TypeOK, StartInterrupted
<1> QED
  BY <1>1, TablesKept DEF StartInterrupted

LEMMA StartResetIInv ==
  ASSUME IInv, NEW t \in Totals, StartReset(t) PROVE IInv'
<1>1. /\ IsTable(files, Sigs, Row)' /\ IsTable(idxkeys, Keys, Sigs)'
      /\ DOMAIN files' = {} /\ DOMAIN idxkeys' = {}
  BY EmptyTable DEF StartReset
<1>2. replicas' \in Seq(Replica)
  BY DEF StartReset
<1>3. TypeOK'
  <2>1. up' \in BOOLEAN /\ started' \in BOOLEAN /\ tmps' \in BOOLEAN
    BY Zenon DEF StartReset
  <2>2. /\ id' \in SelfIDs /\ retired' \in SUBSET SelfIDs
        /\ now' \in Nat /\ used' \in Int /\ total' \in Nat
    BY InputsAssumption DEF StartReset, IInv, TypeOK
  <2>3. /\ idxvolumes' \in SUBSET (VolumeIDs \X Sigs)
        /\ idxttls' \in SUBSET (Int \X Sigs)
        /\ blobs' \in SUBSET Sigs /\ IsTable(pending, Clients, Upload)'
    BY DEF StartReset, IInv, TypeOK
  <2> QED BY <1>1, <1>2, <2>1, <2>2, <2>3 DEF TypeOK
<1> QED
  BY <1>1, <1>3 DEF StartReset, IInv, IndexConsistent, SelfListed,
                    VolumesIndexed, ListBalanced

LEMMA CrashIInv ==
  ASSUME IInv, Crash PROVE IInv'
<1>1. IsTable(pending, Clients, Upload)'
  BY EmptyTable DEF Crash
<1>2. TypeOK'
  BY <1>1 DEF IInv, TypeOK, Crash, durable
<1> QED
  BY <1>2, TablesKept DEF Crash, durable

LEMMA TickIInv ==
  ASSUME IInv, Tick PROVE IInv'
<1>1. TypeOK'
  BY DEF IInv, TypeOK, Tick, durable
<1> QED
  BY <1>1, TablesKept DEF Tick, durable

LEMMA RenameIInv ==
  ASSUME IInv, NEW c \in Clients, NEW k \in Keys, NEW s \in Sigs,
         NEW rep \in Reps, NEW ttl \in TTLs, NEW ca \in {now} \cup CreatedAts,
         CreateFileRename(c, k, s, rep, ttl, ca)
  PROVE  IInv'
<1>1. [key |-> k, sig |-> s, rep |-> rep, ttl |-> ttl, created |-> ca]
        \in Upload
  <2>1. ca \in Nat
    BY InputsAssumption DEF IInv, TypeOK
  <2> QED
    BY <2>1, InputsAssumption DEF Upload
<1>2. IsTable(pending, Clients, Upload)'
  BY <1>1, PutTable DEF CreateFileRename, IInv, TypeOK
<1>3. TypeOK'
  BY <1>2 DEF IInv, TypeOK, CreateFileRename, durable
<1> QED
  BY <1>3, TablesKept DEF CreateFileRename, durable

LEMMA UploadEndsIInv ==
  ASSUME IInv, NEW c \in Clients, CreateFileUnchanged(c) \/ CreateFileFails(c)
  PROVE  IInv'
<1>1. pending' = Drop(pending, c)
  BY DEF CreateFileUnchanged, CreateFileFails, FinishUpload
<1>2. IsTable(pending, Clients, Upload)'
  BY <1>1, DropTable DEF IInv, TypeOK
<1>3. TypeOK'
  BY <1>2 DEF IInv, TypeOK, CreateFileUnchanged, CreateFileFails, durable
<1> QED
  BY <1>3, TablesKept DEF CreateFileUnchanged, CreateFileFails, durable

(* What a committing CreateFile of u writes: the row of its content ...    *)
CommitRow(u, row) ==
  /\ u.key \in row.keys
  /\ id \in ElemsOf(row.vids)
  /\ u.sig \in DOMAIN files =>
       /\ row.keys = files[u.sig].keys \cup {u.key}
       /\ ElemsOf(row.vids) = ElemsOf(files[u.sig].vids) \cup {id}
  /\ u.sig \notin DOMAIN files =>
       /\ row.keys = {u.key}
       /\ ElemsOf(row.vids) = {id}

(* ... the index, in which no other key moves ...                          *)
CommitKeys(u) ==
  /\ IsTable(idxkeys', Keys, Sigs)
  /\ DOMAIN idxkeys' = DOMAIN idxkeys \cup {u.key}
  /\ idxkeys'[u.key] = u.sig
  /\ \A k \in DOMAIN idxkeys : k # u.key => idxkeys'[k] = idxkeys[k]

(* ... and the rows, of which no other loses more than that key.           *)
CommitRows(u, row) ==
  /\ IsTable(files', Sigs, Row)
  /\ u.sig \in DOMAIN files' /\ files'[u.sig] = row
  /\ \A s \in DOMAIN files' \ {u.sig} :
       /\ s \in DOMAIN files
       /\ files'[s].vids = files[s].vids
       /\ files'[s].keys = files[s].keys \ {u.key}
  /\ \A s \in DOMAIN files \ {u.sig} :
       files[s].keys \ {u.key} # {} => s \in DOMAIN files'

LEMMA CommitEffect ==
  ASSUME IInv, NEW c \in Clients, CreateFileCommits(c), NEW u, u = pending[c],
         NEW row, row = RowFor(u)
  PROVE  /\ u \in Upload /\ row \in Row
         /\ CommitRow(u, row)
         /\ CommitKeys(u)
         /\ CommitRows(u, row)
<1>1. u \in Upload
  BY DEF IInv, TypeOK, IsTable, CreateFileCommits
<1>2. /\ u.key \in Keys /\ u.sig \in Sigs /\ u.rep \in Int
      /\ u.ttl \in Nat /\ u.created \in Nat
  BY <1>1 DEF Upload
<1>3. /\ row \in Row
      /\ u.key \in row.keys
      /\ id \in ElemsOf(row.vids)
      /\ u.sig \in DOMAIN files =>
           /\ row.keys = files[u.sig].keys \cup {u.key}
           /\ ElemsOf(row.vids) = ElemsOf(files[u.sig].vids) \cup {id}
      /\ u.sig \notin DOMAIN files =>
           /\ row.keys = {u.key}
           /\ ElemsOf(row.vids) = {id}
  <2>1. id \in VolumeIDs
    BY DEF IInv, TypeOK, VolumeIDs
  <2>2. CASE u.sig \in DOMAIN files
    <3>1. PICK f : f = files[u.sig]
      OBVIOUS
    <3>2. f \in Row /\ f.vids \in Seq(VolumeIDs)
      BY <2>2, <3>1 DEF IInv, TypeOK, IsTable, Row
    <3>3. row = [f EXCEPT !.keys = @ \cup {u.key}, !.vids = Append(@, id)]
      BY <2>2, <3>1 DEF RowFor, Known
    <3>4. /\ Append(f.vids, id) \in Seq(VolumeIDs)
          /\ ElemsOf(Append(f.vids, id)) = ElemsOf(f.vids) \cup {id}
      BY <2>1, <3>2, AppendElems
    <3>5. row \in Row /\ row.keys = f.keys \cup {u.key}
          /\ row.vids = Append(f.vids, id)
      <4>1. f.keys \cup {u.key} \in (SUBSET Keys) \ {{}}
        BY <1>2, <3>2 DEF Row
      <4> QED BY <3>2, <3>3, <3>4, <4>1 DEF Row
    <3> QED BY <2>2, <3>1, <3>4, <3>5
  <2>3. CASE u.sig \notin DOMAIN files
    <3>1. row = [keys |-> {u.key}, replica |-> u.rep, vids |-> <<id>>,
                 ttl |-> u.ttl, created |-> u.created]
      BY <2>3 DEF RowFor, Known
    <3>2. <<id>> \in Seq(VolumeIDs) /\ ElemsOf(<<id>>) = {id}
      BY <2>1 DEF ElemsOf
    <3>3. {u.key} \in (SUBSET Keys) \ {{}}
      BY <1>2
    <3>4. row \in Row
      BY <1>2, <3>1, <3>2, <3>3 DEF Row
    <3>5. row.keys = {u.key} /\ row.vids = <<id>>
      BY <3>1
    <3> QED BY <2>3, <3>2, <3>4, <3>5
  <2> QED BY <2>2, <2>3
<1>4. IsTable(files, Sigs, Row) /\ IsTable(idxkeys, Keys, Sigs)
  BY DEF IInv, TypeOK
<1>b. PICK rows : rows = Put(files, u.sig, row)
  OBVIOUS
<1>5. /\ IsTable(rows, Sigs, Row)
      /\ DOMAIN rows = DOMAIN files \cup {u.sig}
      /\ rows[u.sig] = row
      /\ \A s \in DOMAIN files : s # u.sig => rows[s] = files[s]
  BY <1>b, <1>2, <1>3, <1>4 DEF IsTable, Put
<1>c. PICK old : old = idxkeys[u.key]
  OBVIOUS
<1>6. /\ idxkeys' = Put(idxkeys, u.key, u.sig)
      /\ files' = IF u.key \in DOMAIN idxkeys THEN Unlink(rows, old, u.key)
                  ELSE rows
      /\ id' = id /\ idxvolumes' = idxvolumes
      /\ pending' = Drop(pending, c)
      /\ ~Stored(u)
  BY <1>b, <1>c DEF CreateFileCommits, FinishUpload
<1>7. /\ IsTable(idxkeys', Keys, Sigs)
      /\ DOMAIN idxkeys' = DOMAIN idxkeys \cup {u.key}
      /\ idxkeys'[u.key] = u.sig
      /\ \A k \in DOMAIN idxkeys : k # u.key => idxkeys'[k] = idxkeys[k]
  <2>1. idxkeys' = Put(idxkeys, u.key, u.sig)
    BY <1>6
  <2> QED BY <1>2, <1>4, <2>1 DEF IsTable, Put
<1>8. u.key \in DOMAIN idxkeys =>
        old \in DOMAIN files /\ old # u.sig /\ u.key \in files[old].keys
  <2>1. SUFFICES ASSUME u.key \in DOMAIN idxkeys
                 PROVE  old \in DOMAIN files /\ old # u.sig
                        /\ u.key \in files[old].keys
    OBVIOUS
  <2>2. old \in Sigs
    BY <1>4, <1>c, <2>1 DEF IsTable
  <2>3. old \in DOMAIN files /\ u.key \in files[old].keys
    BY <1>2, <1>c, <2>1, <2>2 DEF IInv, IndexConsistent
  <2> QED BY <1>6, <2>3 DEF Stored, Known
<1>9. /\ IsTable(files', Sigs, Row)
      /\ u.sig \in DOMAIN files' /\ files'[u.sig] = row
      /\ \A s \in DOMAIN files' \ {u.sig} :
           /\ s \in DOMAIN files
           /\ files'[s].vids = files[s].vids
           /\ files'[s].keys = files[s].keys \ {u.key}
      /\ \A s \in DOMAIN files \ {u.sig} :
           files[s].keys \ {u.key} # {} => s \in DOMAIN files'
  <2>1. CASE u.key \in DOMAIN idxkeys
    <3>1. old \in DOMAIN rows /\ rows[old] = files[old]
      BY <1>5, <1>8, <2>1
    <3>2. files' = Unlink(rows, old, u.key)
      BY <1>6, <2>1
    <3>3. \A s \in DOMAIN files \ {old, u.sig} : u.key \notin files[s].keys
      BY <1>2, <1>4, <1>c, <2>1 DEF IInv, IndexConsistent, IsTable
    <3>4. /\ IsTable(files', Sigs, Row)
          /\ rows[old].keys \ {u.key} = {} => DOMAIN files' = DOMAIN rows \ {old}
          /\ rows[old].keys \ {u.key} # {} => DOMAIN files' = DOMAIN rows
          /\ \A y \in DOMAIN rows : y # old => files'[y] = rows[y]
          /\ rows[old].keys \ {u.key} # {}
               => /\ files'[old].keys = rows[old].keys \ {u.key}
                  /\ files'[old].vids = rows[old].vids
      <4>1. IsTable(rows, Sigs, Row)
        BY <1>5
      <4>2. /\ IsTable(Unlink(rows, old, u.key), Sigs, Row)
            /\ rows[old].keys \ {u.key} = {}
                 => DOMAIN Unlink(rows, old, u.key) = DOMAIN rows \ {old}
            /\ rows[old].keys \ {u.key} # {}
                 => DOMAIN Unlink(rows, old, u.key) = DOMAIN rows
        <5>1. ASSUME NEW k
              PROVE  /\ IsTable(Unlink(rows, old, k), Sigs, Row)
                     /\ rows[old].keys \ {k} = {}
                          => DOMAIN Unlink(rows, old, k) = DOMAIN rows \ {old}
                     /\ rows[old].keys \ {k} # {}
                          => DOMAIN Unlink(rows, old, k) = DOMAIN rows
          BY <3>1, <4>1, UnlinkDomain
        <5> QED BY <5>1
      <4>3. /\ \A y \in DOMAIN rows :
                 y # old => Unlink(rows, old, u.key)[y] = rows[y]
            /\ rows[old].keys \ {u.key} # {}
                 => /\ Unlink(rows, old, u.key)[old].keys = rows[old].keys \ {u.key}
                    /\ Unlink(rows, old, u.key)[old].vids = rows[old].vids
        BY <3>1, <4>1, UnlinkRows
      <4> QED BY <3>2, <4>2, <4>3
    <3> QED BY <1>5, <1>8, <2>1, <3>1, <3>3, <3>4
  <2>2. CASE u.key \notin DOMAIN idxkeys
    <3>1. files' = rows
      BY <1>6, <2>2
    <3>2. \A s \in DOMAIN files : u.key \notin files[s].keys
      BY <1>2, <1>4, <2>2 DEF IInv, IndexConsistent, IsTable
    <3> QED BY <1>5, <3>1, <3>2
  <2> QED BY <2>1, <2>2
<1> QED
  BY <1>1, <1>3, <1>7, <1>9 DEF CommitRow, CommitKeys, CommitRows

(* The committing CreateFile keeps the invariant. *)
LEMMA CommitIInv ==
  ASSUME IInv, NEW c \in Clients, CreateFileCommits(c) PROVE IInv'
<1>1. PICK u : u = pending[c]
  OBVIOUS
<1>a. PICK row : row = RowFor(u)
  OBVIOUS
<1>b. u \in Upload /\ row \in Row /\ CommitRow(u, row) /\ CommitKeys(u)
      /\ CommitRows(u, row)
  BY <1>1, <1>a, CommitEffect
<1>2. /\ u.key \in Keys /\ u.sig \in Sigs /\ u.rep \in Int
      /\ u.ttl \in Nat /\ u.created \in Nat
  BY <1>b DEF Upload
<1>3. row \in Row /\ CommitRow(u, row)
  BY <1>b
<1>6. id' = id /\ idxvolumes' = idxvolumes /\ pending' = Drop(pending, c)
  BY <1>1 DEF CreateFileCommits, FinishUpload
<1>7. CommitKeys(u)
  BY <1>b
<1>9. CommitRows(u, row)
  BY <1>b
<1>10. /\ replicas' \in Seq(Replica)
       /\ ListBalanced'
  <2>1. id \in VolumeIDs /\ replicas \in Seq(Replica)
    BY DEF IInv, TypeOK, VolumeIDs
  <2>2. CASE replicas' = replicas
    BY <2>1, <2>2 DEF IInv, ListBalanced
  <2>3. CASE replicas' = Append(replicas, ReplicaFor(u))
    <3>1. ReplicaFor(u) \in Replica
      BY <1>2, <2>1 DEF ReplicaFor, Replica
    <3>2. ReplicaFor(u).count + Len(ReplicaFor(u).vids) = ReplicaFor(u).original
      BY <1>2 DEF ReplicaFor
    <3> QED BY <2>1, <2>3, <3>1, <3>2 DEF IInv, ListBalanced
  <2> QED BY <1>1, <2>2, <2>3 DEF CreateFileCommits
<1>11. TypeOK'
  <2>1. IsTable(pending', Clients, Upload)
    BY <1>6, DropTable DEF IInv, TypeOK
  <2>2. idxttls' \in SUBSET (Int \X Sigs)
    <3>1. idxttls \in SUBSET (Int \X Sigs)
      BY DEF IInv, TypeOK
    <3>2. ExpiresAt(row) \in Int
      BY <1>3 DEF ExpiresAt, Row
    <3>3. AddExpiry(ExpiresAt(row), u.sig) \in SUBSET (Int \X Sigs)
      <4>1. PICK t \in Int : t = ExpiresAt(row)
        BY <3>2
      <4>2. AddExpiry(t, u.sig) \in SUBSET (Int \X Sigs)
        BY <1>2, <3>1 DEF AddExpiry, ZeroTime
      <4> QED BY <4>1, <4>2
    <3> QED BY <1>1, <1>a, <3>1, <3>3 DEF CreateFileCommits
  <2>3. used' \in Int
    <3>1. Taken(u) \in Int
      BY <1>2, SigsAssumption DEF Taken
    <3> QED BY <1>1, <3>1 DEF CreateFileCommits, IInv, TypeOK
  <2>4. blobs' \in SUBSET Sigs
    BY DEF CreateFileCommits, IInv, TypeOK
  <2> QED
    BY <1>7, <1>9, <1>10, <2>1, <2>2, <2>3, <2>4
    DEF CreateFileCommits, IInv, TypeOK, CommitKeys, CommitRows
<1>12. IndexConsistent'
  <2>1. ASSUME NEW k \in Keys, NEW s \in Sigs
        PROVE  (k \in DOMAIN idxkeys' /\ idxkeys'[k] = s)
                 <=> (s \in DOMAIN files' /\ k \in files'[s].keys)
    <3>0. (k \in DOMAIN idxkeys /\ idxkeys[k] = s)
            <=> (s \in DOMAIN files /\ k \in files[s].keys)
      BY DEF IInv, IndexConsistent
    <3>1. CASE k = u.key
      BY <1>3, <1>7, <1>9, <3>1 DEF CommitRow, CommitKeys, CommitRows
    <3>2. CASE k # u.key /\ s = u.sig
      BY <1>3, <1>7, <1>9, <3>0, <3>2 DEF CommitRow, CommitKeys, CommitRows
    <3>3. CASE k # u.key /\ s # u.sig
      BY <1>7, <1>9, <3>0, <3>3 DEF CommitKeys, CommitRows
    <3> QED BY <3>1, <3>2, <3>3
  <2> QED BY <2>1 DEF IndexConsistent
<1>13. SelfListed'
  BY <1>3, <1>6, <1>9 DEF IInv, SelfListed, CommitRow, CommitRows
<1>14. VolumesIndexed'
  BY <1>3, <1>6, <1>9 DEF IInv, VolumesIndexed, CommitRow, CommitRows
<1> QED BY <1>10, <1>11, <1>12, <1>13, <1>14 DEF IInv

LEMMA DeleteFileIInv ==
  ASSUME IInv, NEW k \in Keys, DeleteFile(k) PROVE IInv'
<1>1. PICK s : s = idxkeys[k]
  OBVIOUS
<1>2. IsTable(files, Sigs, Row) /\ IsTable(idxkeys, Keys, Sigs)
  BY DEF IInv, TypeOK
<1>3. /\ k \in DOMAIN idxkeys
      /\ files' = Unlink(files, s, k)
      /\ idxkeys' = Drop(idxkeys, k)
      /\ UNCHANGED <<id, idxvolumes, replicas>>
  BY <1>1 DEF DeleteFile
<1>4. s \in Sigs /\ s \in DOMAIN files /\ k \in files[s].keys
  <2>1. s \in Sigs
    BY <1>1, <1>2, <1>3 DEF IsTable
  <2> QED BY <1>1, <1>3, <2>1 DEF IInv, IndexConsistent
<1>5. \A y \in DOMAIN files \ {s} : k \notin files[y].keys
  BY <1>1, <1>2, <1>3 DEF IInv, IndexConsistent, IsTable
<1>6. /\ IsTable(files', Sigs, Row)
      /\ \A y \in DOMAIN files' :
           /\ y \in DOMAIN files
           /\ files'[y].vids = files[y].vids
           /\ files'[y].keys = files[y].keys \ {k}
      /\ \A y \in DOMAIN files : files[y].keys \ {k} # {} => y \in DOMAIN files'
  <2>1. /\ IsTable(files', Sigs, Row)
        /\ files[s].keys \ {k} = {} => DOMAIN files' = DOMAIN files \ {s}
        /\ files[s].keys \ {k} # {} => DOMAIN files' = DOMAIN files
    <3>1. IsTable(files, Sigs, Row) /\ s \in DOMAIN files
      BY <1>2, <1>4
    <3>2. /\ IsTable(Unlink(files, s, k), Sigs, Row)
          /\ files[s].keys \ {k} = {}
               => DOMAIN Unlink(files, s, k) = DOMAIN files \ {s}
          /\ files[s].keys \ {k} # {}
               => DOMAIN Unlink(files, s, k) = DOMAIN files
      BY <3>1, UnlinkDomain
    <3> QED BY <1>3, <3>2
  <2>2. /\ \A y \in DOMAIN files : y # s => files'[y] = files[y]
        /\ files[s].keys \ {k} # {} => files'[s].keys = files[s].keys \ {k}
        /\ files[s].keys \ {k} # {} => files'[s].vids = files[s].vids
    <3>1. IsTable(files, Sigs, Row) /\ s \in DOMAIN files
      BY <1>2, <1>4
    <3> QED BY <1>3, <3>1, UnlinkRows
  <2> QED BY <1>4, <1>5, <2>1, <2>2
<1>7. /\ IsTable(idxkeys', Keys, Sigs)
      /\ DOMAIN idxkeys' = DOMAIN idxkeys \ {k}
      /\ \A y \in DOMAIN idxkeys \ {k} : idxkeys'[y] = idxkeys[y]
  BY <1>2, <1>3 DEF IsTable, Drop
<1>8. TypeOK'
  <2>1. used' \in Int
    <3>1. Freed(k) \in Int
      BY <1>1, <1>4, SigsAssumption DEF Freed
    <3> QED BY <3>1 DEF DeleteFile, IInv, TypeOK
  <2> QED BY <1>6, <1>7, <2>1 DEF DeleteFile, IInv, TypeOK
<1>9. IndexConsistent'
  <2>1. ASSUME NEW y \in Keys, NEW r \in Sigs
        PROVE  (y \in DOMAIN idxkeys' /\ idxkeys'[y] = r)
                 <=> (r \in DOMAIN files' /\ y \in files'[r].keys)
    <3>1. (y \in DOMAIN idxkeys /\ idxkeys[y] = r)
            <=> (r \in DOMAIN files /\ y \in files[r].keys)
      BY DEF IInv, IndexConsistent
    <3> QED BY <1>6, <1>7, <3>1
  <2> QED BY <2>1 DEF IndexConsistent
<1>10. SelfListed' /\ VolumesIndexed' /\ ListBalanced'
  BY <1>3, <1>6 DEF IInv, SelfListed, VolumesIndexed, ListBalanced
<1> QED BY <1>8, <1>9, <1>10 DEF IInv

LEMMA UpdateReplicaIInv ==
  ASSUME IInv, NEW v \in Peers, UpdateReplica(v) PROVE IInv'
<1>1. PICK rp \in Replica : rp = Head(replicas)
  BY DEF UpdateReplica, IInv, TypeOK
<1>2. PICK s : s = rp.sig
  OBVIOUS
<1>3. /\ s \in DOMAIN files /\ s \in Sigs
      /\ files' = [files EXCEPT ![s].vids = Append(@, v),
                               ![s].replica = rp.original]
      /\ idxvolumes' = idxvolumes \cup {<<v, s>>}
      /\ UNCHANGED <<id, idxkeys>>
      /\ replicas # <<>> /\ replicas \in Seq(Replica)
      /\ v \in VolumeIDs
  BY <1>1, <1>2 DEF UpdateReplica, IInv, TypeOK, IsTable, VolumeIDs
<1>4. IsTable(files, Sigs, Row)
  BY DEF IInv, TypeOK
<1>5. PICK f \in Row : f = files[s]
  BY <1>3, <1>4 DEF IsTable
<1>6. /\ f.vids \in Seq(VolumeIDs)
      /\ Append(f.vids, v) \in Seq(VolumeIDs)
      /\ ElemsOf(Append(f.vids, v)) = ElemsOf(f.vids) \cup {v}
  BY <1>3, AppendElems DEF Row
<1>7. /\ IsTable(files', Sigs, Row) /\ DOMAIN files' = DOMAIN files
      /\ \A y \in DOMAIN files : files'[y].keys = files[y].keys
      /\ \A y \in DOMAIN files : y # s => files'[y].vids = files[y].vids
      /\ files'[s].vids = Append(f.vids, v)
  <2>1. PICK g : g = [f EXCEPT !.vids = Append(@, v), !.replica = rp.original]
    OBVIOUS
  <2>2. g \in Row /\ g.keys = f.keys /\ g.vids = Append(f.vids, v)
    BY <1>6, <2>1 DEF Row, Replica
  <2>3. files' = [files EXCEPT ![s] = g]
    BY <1>3, <1>4, <1>5, <2>1 DEF IsTable
  <2> QED BY <1>3, <1>4, <1>5, <2>2, <2>3 DEF IsTable
<1>8. replicas' \in Seq(Replica) /\ ListBalanced'
  <2>0. /\ Len(replicas) \in Nat /\ 1 \in DOMAIN replicas
        /\ Head(replicas) = replicas[1]
    BY <1>3, LenProperties, EmptySeq
  <2>1. PICK q \in Seq(Replica) : q = Tail(replicas)
    BY <1>3, HeadTailProperties
  <2>2. \A i \in DOMAIN q : q[i].count + Len(q[i].vids) = q[i].original
    BY <1>3, <2>1 DEF IInv, ListBalanced
  <2>3. CASE replicas' = q
    BY <2>2, <2>3 DEF ListBalanced
  <2>4. CASE replicas' = Append(q, [rp EXCEPT !.count = @ - 1,
                                             !.vids = Append(@, v)])
    <3>1. PICK np : np = [rp EXCEPT !.count = @ - 1, !.vids = Append(@, v)]
      OBVIOUS
    <3>2. /\ rp.vids \in Seq(VolumeIDs)
          /\ Append(rp.vids, v) \in Seq(VolumeIDs)
          /\ Len(Append(rp.vids, v)) = Len(rp.vids) + 1
      BY <1>3 DEF Replica
    <3>3. rp.count + Len(rp.vids) = rp.original
      BY <1>1, <2>0 DEF IInv, ListBalanced
    <3>4. np \in Replica
      <4>1. PICK vs \in Seq(VolumeIDs) : vs = Append(rp.vids, v)
        BY <3>2
      <4>2. np = [rp EXCEPT !.count = rp.count - 1, !.vids = vs]
        BY <3>1, <4>1 DEF Replica
      <4>3. rp.count - 1 \in Int
        BY DEF Replica
      <4> QED BY <4>2, <4>3 DEF Replica
    <3>5. np.count + Len(np.vids) = np.original
      BY <3>1, <3>2, <3>3 DEF Replica
    <3> QED BY <2>2, <2>4, <3>1, <3>4, <3>5 DEF ListBalanced
  <2> QED BY <1>1, <2>1, <2>3, <2>4 DEF UpdateReplica
<1>9. TypeOK'
  <2>1. idxvolumes' \in SUBSET (VolumeIDs \X Sigs)
    BY <1>3 DEF IInv, TypeOK
  <2>2. UNCHANGED <<up, started, tmps, id, retired, now, idxkeys, idxttls, used,
                    total, blobs, pending>>
    BY DEF UpdateReplica
  <2> QED BY <1>7, <1>8, <2>1, <2>2 DEF IInv, TypeOK
<1>10. IndexConsistent'
  BY <1>3, <1>7 DEF IInv, IndexConsistent
<1>11. SelfListed'
  BY <1>3, <1>5, <1>6, <1>7 DEF IInv, SelfListed
<1>12. VolumesIndexed'
  <2>1. \A t \in DOMAIN files :
          \A x \in ElemsOf(files[t].vids) \ {id} : <<x, t>> \in idxvolumes
    BY DEF IInv, VolumesIndexed
  <2>2. /\ id' = id /\ idxvolumes \subseteq idxvolumes'
        /\ <<v, s>> \in idxvolumes'
    BY <1>3
  <2>3. \A x \in ElemsOf(files'[s].vids) : x = v \/ x \in ElemsOf(files[s].vids)
    BY <1>5, <1>6, <1>7
  <2> QED BY <1>3, <1>7, <2>1, <2>2, <2>3 DEF VolumesIndexed
<1> QED BY <1>8, <1>9, <1>10, <1>11, <1>12 DEF IInv

LEMMA UpdateFileReplicaIInv ==
  ASSUME IInv, NEW k \in Keys, NEW vids \in VidLists, NEW n \in Reps,
         UpdateFileReplica(k, vids, n)
  PROVE  IInv'
<1>1. PICK s : s = idxkeys[k]
  OBVIOUS
<1>2. /\ s \in DOMAIN files /\ s \in Sigs
      /\ files' = [files EXCEPT ![s].vids = vids, ![s].replica = n]
      /\ idxvolumes' = idxvolumes \cup (Holders(vids) \X {s})
      /\ id \in ElemsOf(vids)
      /\ UNCHANGED <<id, idxkeys, replicas>>
      /\ vids \in Seq(VolumeIDs) /\ n \in Int
  BY <1>1, InputsAssumption DEF UpdateFileReplica, IInv, TypeOK, IsTable
<1>3. IsTable(files, Sigs, Row)
  BY DEF IInv, TypeOK
<1>4. /\ IsTable(files', Sigs, Row) /\ DOMAIN files' = DOMAIN files
      /\ \A y \in DOMAIN files : files'[y].keys = files[y].keys
      /\ \A y \in DOMAIN files : y # s => files'[y].vids = files[y].vids
      /\ files'[s].vids = vids
  <2>1. PICK f \in Row : f = files[s]
    BY <1>2, <1>3 DEF IsTable
  <2>2. PICK g : g = [f EXCEPT !.vids = vids, !.replica = n]
    OBVIOUS
  <2>3. g \in Row /\ g.keys = f.keys /\ g.vids = vids
    BY <1>2, <2>2 DEF Row
  <2>4. files' = [files EXCEPT ![s] = g]
    BY <1>2, <1>3, <2>1, <2>2 DEF IsTable
  <2> QED BY <1>2, <1>3, <2>1, <2>3, <2>4 DEF IsTable
<1>5. idxvolumes' \in SUBSET (VolumeIDs \X Sigs)
  BY <1>2 DEF IInv, TypeOK, Holders, ElemsOf
<1>6. TypeOK'
  BY <1>2, <1>4, <1>5 DEF UpdateFileReplica, IInv, TypeOK
<1>7. IndexConsistent'
  BY <1>2, <1>4 DEF IInv, IndexConsistent
<1>8. SelfListed' /\ ListBalanced'
  BY <1>2, <1>4 DEF IInv, SelfListed, ListBalanced
<1>9. VolumesIndexed'
  BY <1>2, <1>4 DEF IInv, VolumesIndexed, Holders
<1> QED BY <1>6, <1>7, <1>8, <1>9 DEF IInv

(* A replica queued for a lost volume is one, and asks for what is missing. *)
LEMMA ReplicaWithoutBalanced ==
  ASSUME IInv, NEW s \in DOMAIN files, NEW k \in Keys, NEW v
  PROVE  /\ ReplicaWithout(s, k, v) \in Replica
         /\ ReplicaWithout(s, k, v).count + Len(ReplicaWithout(s, k, v).vids)
              = ReplicaWithout(s, k, v).original
<1>1. s \in Sigs /\ files[s] \in Row
  BY DEF IInv, TypeOK, IsTable
<1>2. files[s].vids \in Seq(VolumeIDs) /\ files[s].replica \in Int
  BY <1>1 DEF Row
<1>3. PICK l \in Seq(VolumeIDs) : l = DeleteVolumeID(files[s].vids, v)
  BY <1>2, DeleteVolumeIDType
<1>4. Len(l) \in Nat
  BY LenProperties
<1>5. ReplicaWithout(s, k, v)
        = [key |-> k, sig |-> s, count |-> files[s].replica - Len(l),
           original |-> files[s].replica, vids |-> l, ttl |-> NoTTL,
           created |-> 0]
  BY <1>3 DEF ReplicaWithout
<1> QED BY <1>1, <1>2, <1>4, <1>5 DEF Replica, NoTTL

LEMMA SynchronizeReplicasIInv ==
  ASSUME IInv, NEW v \in Peers, SynchronizeReplicas(v) PROVE IInv'
<1>1. /\ Inherited(v) \subseteq Sigs
      /\ Inherited(v) \subseteq DOMAIN files
  BY DEF SynchronizeReplicas, Inherited, SignaturesOf, IInv, TypeOK, IsTable
<1>2. PICK n \in Nat : n = Cardinality(Inherited(v))
  BY <1>1, SigsAssumption, FS_Subset, FS_CardinalityType
<1>3. PICK o \in Orders(Inherited(v)), name \in [Inherited(v) -> Keys] :
        replicas' = replicas \o [i \in 1..n |->
                                   ReplicaWithout(o[i], name[o[i]], v)]
  BY <1>2 DEF SynchronizeReplicas
<1>4. PICK new : new = [i \in 1..n |-> ReplicaWithout(o[i], name[o[i]], v)]
  OBVIOUS
<1>5. ASSUME NEW i \in 1..n
      PROVE  new[i] \in Replica
             /\ new[i].count + Len(new[i].vids) = new[i].original
  <2>1. o[i] \in Inherited(v)
    BY <1>2 DEF Orders
  <2>2. o[i] \in DOMAIN files /\ name[o[i]] \in Keys
    BY <1>1, <2>1
  <2>3. new[i] = ReplicaWithout(o[i], name[o[i]], v)
    BY <1>4
  <2> QED BY <2>2, <2>3, ReplicaWithoutBalanced
<1>6. new \in Seq(Replica) /\ Len(new) = n
  BY <1>4, <1>5
<1>7. replicas \in Seq(Replica)
  BY DEF IInv, TypeOK
<1>8. /\ replicas' \in Seq(Replica)
      /\ Len(replicas') = Len(replicas) + n
      /\ \A i \in 1..Len(replicas) + n :
           replicas'[i] = IF i <= Len(replicas) THEN replicas[i]
                          ELSE new[i - Len(replicas)]
  BY <1>3, <1>4, <1>6, <1>7, ConcatProperties
<1>9. ListBalanced'
  <2>1. ASSUME NEW i \in DOMAIN replicas'
        PROVE  replicas'[i].count + Len(replicas'[i].vids) = replicas'[i].original
    <3>1. Len(replicas) \in Nat /\ i \in 1..Len(replicas) + n
      BY <1>7, <1>8, LenProperties
    <3>2. CASE i <= Len(replicas)
      BY <1>7, <1>8, <3>1, <3>2, LenProperties DEF IInv, ListBalanced
    <3>3. CASE ~(i <= Len(replicas))
      <4>1. PICK j \in 1..n : j = i - Len(replicas)
        BY <3>1, <3>3
      <4>2. replicas'[i] = new[j]
        BY <1>8, <3>1, <3>3, <4>1
      <4> QED BY <1>5, <4>2
    <3> QED BY <3>2, <3>3
  <2> QED BY <2>1 DEF ListBalanced
<1>10. TypeOK'
  BY <1>8 DEF SynchronizeReplicas, IInv, TypeOK
<1> QED
  BY <1>9, <1>10 DEF SynchronizeReplicas, IInv, IndexConsistent, SelfListed,
                     VolumesIndexed

-----------------------------------------------------------------------------
LEMMA NextIInv == IInv /\ [Next]_vars => IInv'
<1> SUFFICES ASSUME IInv, [Next]_vars PROVE IInv'
  OBVIOUS
<1>1. CASE \E t \in Totals : Start(t) \/ StartInterrupted(t) \/ StartReset(t)
  BY <1>1, StartIInv, StartInterruptedIInv, StartResetIInv
<1>2. CASE Crash
  BY <1>2, CrashIInv
<1>3. CASE Tick
  BY <1>3, TickIInv
<1>4. CASE BeginCreateFile
  BY <1>4, RenameIInv DEF BeginCreateFile
<1>5. CASE FinishCreateFile
  BY <1>5, UploadEndsIInv, CommitIInv DEF FinishCreateFile
<1>6. CASE \E k \in Keys : DeleteFile(k)
  BY <1>6, DeleteFileIInv
<1>7. CASE \E v \in Peers : UpdateReplica(v) \/ SynchronizeReplicas(v)
  BY <1>7, UpdateReplicaIInv, SynchronizeReplicasIInv
<1>8. CASE \E k \in Keys, vids \in VidLists, n \in Reps :
             UpdateFileReplica(k, vids, n)
  BY <1>8, UpdateFileReplicaIInv
<1>9. CASE UNCHANGED vars
  <2>1. TypeOK'
    BY <1>9 DEF IInv, TypeOK, vars
  <2> QED BY <1>9, <2>1, TablesKept DEF vars
<1> QED
  BY <1>1, <1>2, <1>3, <1>4, <1>5, <1>6, <1>7, <1>8, <1>9 DEF Next

(* The inductive invariant holds in every state a volume can reach, for    *)
(* every set of keys, contents, IDs and callers and every bound.           *)
THEOREM Inductive == Spec => []IInv
<1>1. Init => IInv
  BY InitIInv
<1>2. IInv /\ [Next]_vars => IInv'
  BY NextIInv
<1> QED BY <1>1, <1>2, PTL DEF Spec

(* Every variable keeps its type, and no row is ever left without a key.   *)
THEOREM TypeCorrect == Spec => []TypeOK
<1>1. IInv => TypeOK
  BY DEF IInv
<1> QED BY <1>1, Inductive, PTL

(* idxkeys and files always say the same of a key, whatever the calls that *)
(* interleave: the dbf that CreateFile and deleteFile use is never nil.    *)
THEOREM IndexAlwaysConsistent == Spec => []IndexConsistent
<1>1. IInv => IndexConsistent
  BY DEF IInv
<1> QED BY <1>1, Inductive, PTL

(* A row always lists this volume, so SynchronizeReplicas always finds a   *)
(* first volume in it, whichever peer left.                                *)
THEOREM SelfAlwaysListed == Spec => []SelfListed
<1>1. IInv => SelfListed
  BY DEF IInv
<1> QED BY <1>1, Inductive, PTL

(* A peer in a row is always in the index that is walked when it leaves.   *)
THEOREM HoldersAlwaysIndexed == Spec => []VolumesIndexed
<1>1. IInv => VolumesIndexed
  BY DEF IInv
<1> QED BY <1>1, Inductive, PTL

(* A queued replica never asks for more copies than the distinct volumes   *)
(* of its list lack: a list has no more volumes than entries.              *)
THEOREM QueueNeverAsksTooMuch == Spec => []NeverAsksTooMany
<1>1. IInv => NeverAsksTooMany
  <2> SUFFICES ASSUME IInv, NEW i \in DOMAIN replicas
               PROVE  replicas[i].count + Listed(replicas[i])
                        <= replicas[i].original
    BY DEF NeverAsksTooMany
  <2>1. replicas[i] \in Replica
    BY ElementOfSeq DEF IInv, TypeOK
  <2>2. /\ replicas[i].vids \in Seq(VolumeIDs)
        /\ replicas[i].count \in Int /\ replicas[i].original \in Int
    BY <2>1 DEF Replica
  <2>3. replicas[i].count + Len(replicas[i].vids) = replicas[i].original
    BY DEF IInv, ListBalanced
  <2>4. /\ Listed(replicas[i]) \in Nat
        /\ Listed(replicas[i]) <= Len(replicas[i].vids)
    BY <2>2, ElemsBound DEF Listed
  <2>5. Len(replicas[i].vids) \in Nat
    BY <2>2, LenProperties
  <2> QED BY <2>2, <2>3, <2>4, <2>5
<1> QED BY <1>1, Inductive, PTL

-----------------------------------------------------------------------------
(* The size of the volume. *)
Sum(S) == SumFunctionOnSet(Size, S)

LEMMA SumOfSigs ==
  /\ \A A \in SUBSET Sigs : Sum(A) \in Int
  /\ Sum({}) = 0
  /\ \A A \in SUBSET Sigs : \A s \in A : Sum(A) = Size[s] + Sum(A \ {s})
  /\ \A A \in SUBSET Sigs : \A B \in SUBSET A : Sum(B) <= Sum(A)
<1>1. /\ IsFiniteSet(Sigs)
      /\ \A s \in Sigs : Size[s] \in Nat /\ Size[s] \in Int
  BY SigsAssumption
<1>2. \A A \in SUBSET Sigs : \A B \in SUBSET A : Sum(B) <= Sum(A)
  BY <1>1, SumGrows DEF Sum
<1>3. /\ \A A \in SUBSET Sigs : Sum(A) \in Int
      /\ Sum({}) = 0
      /\ \A A \in SUBSET Sigs : \A s \in A : Sum(A) = Size[s] + Sum(A \ {s})
  BY <1>1, SumRemove DEF Sum
<1> QED BY <1>2, <1>3

LEMMA SumSplits ==
  ASSUME NEW A \in SUBSET Sigs, NEW B \in SUBSET A
  PROVE  Sum(A) = Sum(B) + Sum(A \ B)
<1> DEFINE T == {C \in SUBSET B : Sum(A) = Sum(C) + Sum(A \ C)}
<1>1. ASSUME NEW C \in SUBSET B, \A x \in C : C \ {x} \in T PROVE C \in T
  <2>1. CASE C = {}
    <3>1. A \ {} = A /\ Sum(A) \in Int /\ Sum({}) = 0
      BY SumOfSigs
    <3> HIDE DEF Sum
    <3> QED BY <2>1, <3>1
  <2>2. CASE C # {}
    <3>1. PICK x : x \in C
      BY <2>2
    <3>2. PICK E : E = C \ {x}
      OBVIOUS
    <3>3. Sum(A) = Sum(E) + Sum(A \ E)
      BY <1>1, <3>1, <3>2
    <3>4. Sum(C) = Size[x] + Sum(E)
      BY <3>1, <3>2, SumOfSigs
    <3>5. Sum(A \ E) = Size[x] + Sum(A \ C)
      <4>1. x \in A \ E /\ (A \ E) \ {x} = A \ C
        BY <3>1, <3>2
      <4> QED BY <4>1, SumOfSigs
    <3>6. Sum(E) \in Int /\ Sum(A \ C) \in Int /\ Size[x] \in Int
      BY <3>1, <3>2, SumOfSigs, SigsAssumption
    <3> HIDE DEF Sum
    <3>7. Sum(A) = Sum(C) + Sum(A \ C)
      BY <3>3, <3>4, <3>5, <3>6
    <3> QED BY <3>7
  <2> QED BY <2>1, <2>2
<1>2. SUBSET B \subseteq T
  <2>1. IsFiniteSet(B)
    BY SigsAssumption, FS_Subset
  <2> HIDE DEF T
  <2> QED BY <1>1, <2>1, FiniteSubsetInduction
<1> QED BY <1>2

(* A step that keeps the count and adds no row. *)
LEMMA CountKept ==
  ASSUME IInv, NeverUndercounts, used' = used, DOMAIN files' \subseteq DOMAIN files
  PROVE  NeverUndercounts'
<1>1. DOMAIN files \in SUBSET Sigs /\ used \in Int /\ Sum(DOMAIN files) <= used
  BY DEF IInv, TypeOK, IsTable, NeverUndercounts, StoredBytes, Sum
<1>2. Sum(DOMAIN files') <= Sum(DOMAIN files)
  BY <1>1, SumOfSigs
<1>3. Sum(DOMAIN files') \in Int /\ Sum(DOMAIN files) \in Int
  BY <1>1, SumOfSigs
<1>4. Sum(DOMAIN files') <= used'
  BY <1>1, <1>2, <1>3
<1> QED BY <1>4 DEF NeverUndercounts, StoredBytes, Sum

(* The row a commit adds is counted, the row it may drop stays counted. *)
LEMMA CommitCounts ==
  ASSUME IInv, NeverUndercounts, NEW c \in Clients, CreateFileCommits(c)
  PROVE  NeverUndercounts'
<1>1. PICK u : u = pending[c]
  OBVIOUS
<1>2. PICK row : row = RowFor(u)
  OBVIOUS
<1>3. u \in Upload /\ CommitRows(u, row)
  BY <1>1, <1>2, CommitEffect
<1>4. u.sig \in Sigs /\ DOMAIN files' \subseteq DOMAIN files \cup {u.sig}
  BY <1>3 DEF CommitRows, Upload
<1>5. used' = used + Taken(u)
  BY <1>1 DEF CreateFileCommits
<1>6. CASE u.sig \in DOMAIN files
  <2>1. used \in Int
    BY DEF IInv, TypeOK
  <2>2. used' = used
    BY <1>5, <1>6, <2>1 DEF Taken, Known
  <2> QED BY <1>4, <1>6, <2>2, CountKept
<1>7. CASE u.sig \notin DOMAIN files
  <2>1. /\ DOMAIN files \in SUBSET Sigs /\ used \in Int
        /\ Sum(DOMAIN files) <= used
    BY DEF IInv, TypeOK, IsTable, NeverUndercounts, StoredBytes, Sum
  <2>2. PICK D : D = DOMAIN files \cup {u.sig}
    OBVIOUS
  <2>3. D \in SUBSET Sigs /\ u.sig \in D /\ D \ {u.sig} = DOMAIN files
    BY <1>4, <1>7, <2>1, <2>2
  <2>4. Sum(D) = Size[u.sig] + Sum(DOMAIN files)
    BY <2>3, SumOfSigs
  <2>5. Sum(DOMAIN files') <= Sum(D)
    BY <1>4, <2>2, <2>3, SumOfSigs
  <2>6. /\ Sum(DOMAIN files') \in Int /\ Sum(DOMAIN files) \in Int
        /\ Size[u.sig] \in Int
    BY <1>4, <2>1, <2>2, <2>3, SumOfSigs, SigsAssumption
  <2>7. used' = used + Size[u.sig]
    BY <1>5, <1>7 DEF Taken, Known
  <2>8. Sum(DOMAIN files') <= used'
    BY <2>1, <2>4, <2>5, <2>6, <2>7
  <2> QED BY <2>8 DEF NeverUndercounts, StoredBytes, Sum
<1> QED BY <1>6, <1>7

(* What DeleteFile gives back is the size of the row it drops. *)
LEMMA DeleteCounts ==
  ASSUME IInv, NeverUndercounts, NEW k \in Keys, DeleteFile(k)
  PROVE  NeverUndercounts'
<1>1. PICK s : s = idxkeys[k]
  OBVIOUS
<1>2. /\ k \in DOMAIN idxkeys /\ files' = Unlink(files, s, k)
      /\ used' = used - Freed(k)
  BY <1>1 DEF DeleteFile
<1>3. /\ s \in Sigs /\ IsTable(files, Sigs, Row) /\ used \in Int
      /\ DOMAIN files \in SUBSET Sigs
  BY <1>1, <1>2 DEF IInv, TypeOK, IsTable
<1>4. s \in DOMAIN files
  BY <1>1, <1>2, <1>3 DEF IInv, IndexConsistent
<1>5. CASE files[s].keys \ {k} # {}
  <2>1. DOMAIN files' = DOMAIN files
    BY <1>2, <1>3, <1>4, <1>5, UnlinkDomain
  <2>2. LastNameOf(k) = {}
    BY <1>1, <1>5 DEF LastNameOf
  <2>3. used' = used
    BY <1>2, <1>3, <2>2 DEF Freed
  <2> QED BY <2>1, <2>3, CountKept
<1>6. CASE files[s].keys \ {k} = {}
  <2>1. DOMAIN files' = DOMAIN files \ {s}
    BY <1>2, <1>3, <1>4, <1>6, UnlinkDomain
  <2>2. s \in LastNameOf(k)
    BY <1>1, <1>2, <1>4, <1>6 DEF LastNameOf
  <2>3. used' = used - Size[s]
    BY <1>1, <1>2, <2>2 DEF Freed
  <2>4. Sum(DOMAIN files) = Size[s] + Sum(DOMAIN files')
    BY <1>3, <1>4, <2>1, SumOfSigs
  <2>5. /\ Sum(DOMAIN files) <= used /\ Sum(DOMAIN files) \in Int
        /\ Sum(DOMAIN files') \in Int /\ Size[s] \in Int
    BY <1>3, <2>1, SumOfSigs, SigsAssumption
    DEF NeverUndercounts, StoredBytes, Sum
  <2>6. Sum(DOMAIN files') <= used'
    BY <1>3, <2>3, <2>4, <2>5
  <2> QED BY <2>6 DEF NeverUndercounts, StoredBytes, Sum
<1> QED BY <1>5, <1>6

LEMMA NextCounts ==
  IInv /\ NeverUndercounts /\ [Next]_vars => NeverUndercounts'
<1> SUFFICES ASSUME IInv, NeverUndercounts, [Next]_vars PROVE NeverUndercounts'
  OBVIOUS
<1>1. CASE \E t \in Totals : StartReset(t)
  <2>1. DOMAIN files' = {} /\ used' = 0
    BY <1>1 DEF StartReset, Empty
  <2>2. Sum(DOMAIN files') <= used'
    BY <2>1, SumOfSigs
  <2> QED BY <2>2 DEF NeverUndercounts, StoredBytes, Sum
<1>2. CASE FinishCreateFile
  <2>1. PICK c \in Clients : \/ CreateFileUnchanged(c) \/ CreateFileFails(c)
                             \/ CreateFileCommits(c)
    BY <1>2 DEF FinishCreateFile
  <2>2. CASE CreateFileUnchanged(c) \/ CreateFileFails(c)
    BY <2>2, CountKept DEF CreateFileUnchanged, CreateFileFails, durable
  <2> QED BY <2>1, <2>2, CommitCounts
<1>3. CASE \E k \in Keys : DeleteFile(k)
  BY <1>3, DeleteCounts
<1>4. CASE \E v \in Peers : UpdateReplica(v)
  <2>1. DOMAIN files' = DOMAIN files /\ used' = used
    BY <1>4 DEF UpdateReplica
  <2> QED BY <2>1, CountKept
<1>5. CASE \E k \in Keys, vids \in VidLists, n \in Reps :
             UpdateFileReplica(k, vids, n)
  <2>1. DOMAIN files' = DOMAIN files /\ used' = used
    BY <1>5 DEF UpdateFileReplica
  <2> QED BY <2>1, CountKept
<1>6. CASE UNCHANGED <<files, used>>
  BY <1>6, CountKept
<1> QED
  BY <1>1, <1>2, <1>3, <1>4, <1>5, <1>6
  DEF Next, vars, durable, Start, StartInterrupted, Crash, Tick,
      BeginCreateFile, CreateFileRename, SynchronizeReplicas

(* The volume never counts less than its rows hold, whatever contents are  *)
(* shared, overwritten, deleted or uploaded at the same time: only a whole *)
(* row is taken off the count, and only once.                              *)
THEOREM NeverCountsLess == Spec => []NeverUndercounts
<1>1. Init => NeverUndercounts
  <2>1. ASSUME Init PROVE DOMAIN files = {} /\ used = 0
    BY <2>1 DEF Init, Empty
  <2> QED
    BY <2>1, SumOfSigs DEF NeverUndercounts, StoredBytes, Sum
<1> QED BY <1>1, NextCounts, Inductive, PTL DEF Spec

(* No start is given less room than the start before it. *)
NeverShrinks == [][total <= total']_vars

(* Then the count stays within the room: CanStore is asked for every new   *)
(* content.                                                                *)
Fits == used <= total

LEMMA InitFits == Init => Fits
BY InputsAssumption DEF Init, Fits

LEMMA NextFits ==
  ASSUME IInv, Fits, [Next]_vars, total <= total' PROVE Fits'
<1>1. used \in Int /\ total \in Nat /\ used <= total
  BY DEF IInv, TypeOK, Fits
<1>2. total' \in Nat
  BY NextIInv DEF IInv, TypeOK
<1>3. CASE \E t \in Totals : StartReset(t)
  BY <1>2, <1>3 DEF StartReset, Fits
<1>4. CASE \E c \in Clients : CreateFileCommits(c)
  <2>1. PICK c \in Clients : CreateFileCommits(c)
    BY <1>4
  <2>2. PICK u : u = pending[c]
    OBVIOUS
  <2>3. /\ used' = used + Taken(u) /\ total' = total
        /\ Known(u) \/ CanStore(Taken(u))
    BY <2>1, <2>2 DEF CreateFileCommits
  <2>4. used' <= total
    BY <1>1, <2>3 DEF Taken, CanStore
  <2> QED BY <2>3, <2>4 DEF Fits
<1>5. CASE \E k \in Keys : DeleteFile(k)
  <2>1. PICK k \in Keys : DeleteFile(k)
    BY <1>5
  <2>2. Freed(k) \in Nat
    BY <2>1, SigsAssumption DEF Freed, DeleteFile, IInv, TypeOK, IsTable
  <2>3. used' = used - Freed(k) /\ total' = total
    BY <2>1 DEF DeleteFile
  <2> QED BY <1>1, <2>2, <2>3 DEF Fits
<1>6. CASE UNCHANGED used
  BY <1>1, <1>2, <1>6 DEF Fits
<1> QED
  BY <1>3, <1>4, <1>5, <1>6
  DEF Next, vars, durable, Start, StartInterrupted, Crash, Tick,
      BeginCreateFile, CreateFileRename, FinishCreateFile, CreateFileUnchanged,
      CreateFileFails, UpdateReplica, SynchronizeReplicas, UpdateFileReplica

(* So a volume never stores more than its dedicated size while no start is *)
(* given less room than the one before: nothing is taken off the count     *)
(* that is still stored.                                                   *)
THEOREM RoomNeverExceeded == Spec /\ NeverShrinks => [](StoredBytes <= total)
<1>1. IInv /\ Fits /\ [Next]_vars /\ [total <= total']_vars => Fits'
  <2>1. SUFFICES ASSUME IInv, Fits, [Next]_vars, [total <= total']_vars
                 PROVE  Fits'
    OBVIOUS
  <2>2. total <= total'
    BY <2>1 DEF vars, IInv, TypeOK
  <2> QED BY <2>1, <2>2, NextFits
<1>2. IInv /\ Fits /\ NeverUndercounts => StoredBytes <= total
  <2>1. SUFFICES ASSUME IInv, Fits, NeverUndercounts PROVE StoredBytes <= total
    OBVIOUS
  <2>2. used \in Int /\ total \in Nat /\ DOMAIN files \in SUBSET Sigs
    BY <2>1 DEF IInv, TypeOK, IsTable
  <2>3. StoredBytes \in Int
    BY <2>2, SumOfSigs DEF StoredBytes, Sum
  <2> QED BY <2>1, <2>2, <2>3 DEF NeverUndercounts, Fits
<1> QED
  BY <1>1, <1>2, InitFits, Inductive, NeverCountsLess, PTL DEF Spec, NeverShrinks

-----------------------------------------------------------------------------
(* VolumeSerial. *)

PendingPresent == \A c \in DOMAIN pending : pending[c].sig \in blobs

(* The inductive invariant.  ContentPresent alone is not inductive: the    *)
(* transaction of CreateFile writes a row for a content that an earlier    *)
(* step put on disk, so the contents of the waiting uploads count too.     *)
SerialInv == IInv /\ ContentPresent /\ PendingPresent

LEMMA InitSerialInv == Init => SerialInv
<1> SUFFICES ASSUME Init PROVE SerialInv
  OBVIOUS
<1>1. DOMAIN files = {} /\ DOMAIN pending = {}
  BY DEF Init, Empty
<1> QED
  BY <1>1, InitIInv DEF SerialInv, ContentPresent, PendingPresent

(* The content a commit drops is no row's any more. *)
LEMMA CommitContentPresent ==
  ASSUME SerialInv, NEW c \in Clients, CreateFileCommits(c)
  PROVE  ContentPresent'
<1>1. IInv /\ DOMAIN files \subseteq blobs
  BY DEF SerialInv, ContentPresent
<1>2. PICK u : u = pending[c]
  OBVIOUS
<1>3. PICK row : row = RowFor(u)
  OBVIOUS
<1>4. u \in Upload /\ CommitRows(u, row)
  BY <1>1, <1>2, <1>3, CommitEffect
<1>5. /\ blobs' = blobs \ LastNameOf(u.key)
      /\ ~Stored(u)
      /\ c \in DOMAIN pending
  BY <1>2 DEF CreateFileCommits
<1>6. u.sig \in blobs
  BY <1>2, <1>5 DEF SerialInv, PendingPresent
<1>7. u.sig \notin LastNameOf(u.key)
  <2>1. u.key \in Keys /\ u.sig \in Sigs
    BY <1>4 DEF Upload
  <2>2. SUFFICES ASSUME u.sig \in DOMAIN files, u.key \in DOMAIN idxkeys,
                        idxkeys[u.key] = u.sig
                 PROVE  FALSE
    BY DEF LastNameOf
  <2>3. u.key \in files[u.sig].keys
    BY <1>1, <2>1, <2>2 DEF IInv, IndexConsistent
  <2> QED BY <1>5, <2>2, <2>3 DEF Stored, Known
<1>8. ASSUME NEW s \in DOMAIN files', s # u.sig
      PROVE  s \in blobs /\ s \notin LastNameOf(u.key)
  <2>1. /\ s \in DOMAIN files
        /\ files'[s].keys = files[s].keys \ {u.key}
        /\ files'[s] \in Row
    BY <1>4, <1>8 DEF CommitRows, IsTable
  <2>2. files[s].keys \ {u.key} # {}
    BY <2>1 DEF Row
  <2> QED BY <1>1, <2>1, <2>2 DEF LastNameOf
<1> QED BY <1>5, <1>6, <1>7, <1>8 DEF ContentPresent

LEMMA DeleteContentPresent ==
  ASSUME SerialInv, NEW k \in Keys, DeleteFile(k)
  PROVE  ContentPresent'
<1>1. /\ IInv /\ IInv' /\ DOMAIN files \subseteq blobs
      /\ IsTable(files, Sigs, Row)
  BY DeleteFileIInv DEF SerialInv, ContentPresent, IInv, TypeOK
<1>2. /\ k \in DOMAIN idxkeys
      /\ files' = Unlink(files, idxkeys[k], k)
      /\ blobs' = blobs \ LastNameOf(k)
  BY DEF DeleteFile
<1>3. ASSUME NEW s \in DOMAIN files'
      PROVE  s \in DOMAIN files /\ s \notin LastNameOf(k)
  <2>1. CASE files[idxkeys[k]].keys \ {k} = {}
    <3>1. files' = Drop(files, idxkeys[k])
      BY <1>2, <2>1 DEF Unlink
    <3>2. s \in DOMAIN files /\ s # idxkeys[k]
      BY <1>3, <3>1 DEF Drop
    <3> QED BY <3>2 DEF LastNameOf
  <2>2. CASE files[idxkeys[k]].keys \ {k} # {}
    <3>1. DOMAIN files' = DOMAIN files
      BY <1>2, <2>2 DEF Unlink
    <3> QED BY <1>3, <2>2, <3>1 DEF LastNameOf
  <2> QED BY <2>1, <2>2
<1> QED BY <1>1, <1>2, <1>3 DEF ContentPresent

LEMMA NextSerialInv == SerialInv /\ [SerialNext]_vars => SerialInv'
<1> SUFFICES ASSUME SerialInv, [SerialNext]_vars PROVE SerialInv'
  OBVIOUS
<1>1. IInv'
  BY NextIInv DEF SerialInv, SerialNext
<1>2. PendingPresent'
  BY DEF SerialInv, SerialNext, KeepsUploads, PendingPresent, vars
<1>3. ContentPresent'
  <2>0. ContentPresent
    BY DEF SerialInv
  <2>1. CASE \E t \in Totals : Start(t) \/ StartInterrupted(t)
    BY <2>0, <2>1 DEF Start, StartInterrupted, durable, ContentPresent
  <2>2. CASE \E t \in Totals : StartReset(t)
    BY <2>2 DEF StartReset, Empty, ContentPresent
  <2>3. CASE Crash \/ Tick
    BY <2>0, <2>3 DEF Crash, Tick, durable, ContentPresent
  <2>4. CASE BeginCreateFile
    BY <2>0, <2>4 DEF BeginCreateFile, CreateFileRename, durable, ContentPresent
  <2>5. CASE FinishCreateFile
    <3>1. PICK c \in Clients : \/ CreateFileUnchanged(c) \/ CreateFileFails(c)
                               \/ CreateFileCommits(c)
      BY <2>5 DEF FinishCreateFile
    <3>2. CASE CreateFileUnchanged(c) \/ CreateFileFails(c)
      BY <2>0, <3>2
      DEF CreateFileUnchanged, CreateFileFails, durable, ContentPresent
    <3> QED BY <3>1, <3>2, CommitContentPresent
  <2>6. CASE \E k \in Keys : DeleteFile(k)
    BY <2>6, DeleteContentPresent
  <2>7. CASE \E v \in Peers : UpdateReplica(v)
    BY <2>0, <2>7 DEF UpdateReplica, ContentPresent
  <2>8. CASE \E v \in Peers : SynchronizeReplicas(v)
    BY <2>0, <2>8 DEF SynchronizeReplicas, ContentPresent
  <2>9. CASE \E k \in Keys, vids \in VidLists, n \in Reps :
               UpdateFileReplica(k, vids, n)
    BY <2>0, <2>9 DEF UpdateFileReplica, ContentPresent
  <2>10. CASE UNCHANGED vars
    BY <2>0, <2>10 DEF vars, ContentPresent
  <2> QED
    BY <2>1, <2>2, <2>3, <2>4, <2>5, <2>6, <2>7, <2>8, <2>9, <2>10
    DEF SerialNext, Next
<1> QED BY <1>1, <1>2, <1>3 DEF SerialInv

THEOREM SerialInductive == SerialSpec => []SerialInv
<1> QED BY InitSerialInv, NextSerialInv, PTL DEF SerialSpec

(* Every content a row names stays at its path while uploads are not       *)
(* disturbed: Rename, collision branch and deleteFile agree on which       *)
(* contents are on disk.                                                   *)
THEOREM ContentStaysPresent == SerialSpec => []ContentPresent
<1>1. SerialInv => ContentPresent
  BY DEF SerialInv
<1> QED BY <1>1, SerialInductive, PTL

-----------------------------------------------------------------------------
(* While the invariant holds GetFile answers by the index alone. *)
Answer(k) == IF k \in DOMAIN idxkeys THEN idxkeys[k] ELSE None
Answers == [k \in Keys |-> GetFile(k)]

LEMMA GetFileAnswers ==
  ASSUME SerialInv PROVE \A k \in Keys : GetFile(k) = Answer(k)
<1> SUFFICES ASSUME NEW k \in Keys PROVE GetFile(k) = Answer(k)
  OBVIOUS
<1>1. CASE k \in DOMAIN idxkeys
  <2>1. idxkeys[k] \in Sigs
    BY <1>1 DEF SerialInv, IInv, TypeOK, IsTable
  <2>2. idxkeys[k] \in blobs
    BY <1>1, <2>1 DEF SerialInv, IInv, IndexConsistent, ContentPresent
  <2> QED BY <1>1, <2>2 DEF GetFile, Readable, HasFile, Answer
<1>2. CASE k \notin DOMAIN idxkeys
  BY <1>2 DEF GetFile, Readable, HasFile, Answer
<1> QED BY <1>1, <1>2

LEMMA GetFileAnswersNext ==
  ASSUME SerialInv' PROVE \A k \in Keys : GetFile(k)' = Answer(k)'
<1> SUFFICES ASSUME NEW k \in Keys PROVE GetFile(k)' = Answer(k)'
  OBVIOUS
<1>1. CASE k \in DOMAIN idxkeys'
  <2>1. idxkeys'[k] \in Sigs
    BY <1>1 DEF SerialInv, IInv, TypeOK, IsTable
  <2>2. idxkeys'[k] \in blobs'
    BY <1>1, <2>1 DEF SerialInv, IInv, IndexConsistent, ContentPresent
  <2> QED BY <1>1, <2>2 DEF GetFile, Readable, HasFile, Answer
<1>2. CASE k \notin DOMAIN idxkeys'
  BY <1>2 DEF GetFile, Readable, HasFile, Answer
<1> QED BY <1>1, <1>2

(* A step that keeps the index keeps every answer. *)
LEMMA IndexKept ==
  ASSUME SerialInv, SerialInv', UNCHANGED idxkeys PROVE UNCHANGED Answers
<1>1. \A k \in Keys : Answer(k)' = Answer(k)
  BY DEF Answer
<1> QED BY <1>1, GetFileAnswers, GetFileAnswersNext DEF Answers

LEMMA StepKeepsPromise ==
  ASSUME SerialInv, SerialInv', [SerialNext]_vars
  PROVE  [Promise!Next]_Answers
<1>0. /\ \A k \in Keys : GetFile(k) = Answer(k)
      /\ \A k \in Keys : GetFile(k)' = Answer(k)'
  BY GetFileAnswers, GetFileAnswersNext
<1>1. CASE UNCHANGED idxkeys
  BY <1>1, IndexKept
<1>2. CASE \E t \in Totals : StartReset(t)
  <2>1. \A k \in Keys : GetFile(k)' = None
    BY <1>0, <1>2 DEF StartReset, Empty, Answer
  <2>2. Promise!Reset
    BY <2>1 DEF Promise!Reset, Answers
  <2> QED BY <2>2 DEF Promise!Next
<1>3. CASE \E c \in Clients : CreateFileCommits(c)
  <2>1. PICK c \in Clients : CreateFileCommits(c)
    BY <1>3
  <2>2. PICK u : u = pending[c]
    OBVIOUS
  <2>3. PICK row : row = RowFor(u)
    OBVIOUS
  <2>4. u.key \in Keys /\ u.sig \in Sigs /\ CommitKeys(u)
    BY <2>1, <2>2, <2>3, CommitEffect DEF SerialInv, Upload
  <2>5. \A k \in Keys : GetFile(k)' = IF k = u.key THEN u.sig ELSE GetFile(k)
    BY <1>0, <2>4 DEF CommitKeys, Answer
  <2>6. Promise!CreateFile(u.key, u.sig)
    BY <2>4, <2>5 DEF Promise!CreateFile
  <2> QED BY <2>4, <2>6 DEF Promise!Next
<1>4. CASE \E k \in Keys : DeleteFile(k)
  <2>1. PICK d \in Keys : DeleteFile(d)
    BY <1>4
  <2>2. \A k \in Keys : GetFile(k)' = IF k = d THEN None ELSE GetFile(k)
    BY <1>0, <2>1 DEF DeleteFile, Drop, Answer
  <2>3. Promise!DeleteFile(d)
    BY <2>2 DEF Promise!DeleteFile
  <2> QED BY <2>3 DEF Promise!Next
<1> QED
  BY <1>1, <1>2, <1>3, <1>4
  DEF SerialNext, Next, vars, durable, Start, StartInterrupted, Crash, Tick,
      BeginCreateFile, CreateFileRename, FinishCreateFile, CreateFileUnchanged,
      CreateFileFails, UpdateReplica, SynchronizeReplicas, UpdateFileReplica

(* A volume whose uploads are not disturbed implements KeyStore: GetFile   *)
(* answers as a map from keys to contents, and no write of one key, no     *)
(* shared content and no crash changes what another key answers.           *)
THEOREM PromiseKept == SerialSpec => KeepsPromise
<1>1. Init => Promise!Init
  <2>1. ASSUME Init PROVE \A k \in Keys : GetFile(k) = None
    BY <2>1 DEF Init, Empty, GetFile, Readable, HasFile
  <2> QED BY <2>1 DEF Promise!Init
<1>2. SerialInv /\ SerialInv' /\ [SerialNext]_vars => [Promise!Next]_Answers
  BY StepKeepsPromise
<1> QED
  BY <1>1, <1>2, SerialInductive, PTL
  DEF SerialSpec, KeepsPromise, Promise!Spec, Answers

(* A CreateFile that answers success leaves its key readable with its      *)
(* content, whether it wrote a row, joined one, or found nothing to do.    *)
THEOREM PutAlwaysRead == SerialSpec => PutIsRead
<1>1. ASSUME SerialInv, SerialInv', NEW c \in DOMAIN pending,
             NEW k \in Keys, k = pending[c].key,
             CreateFileUnchanged(c) \/ CreateFileCommits(c)
      PROVE  GetFile(k)' = pending[c].sig
  <2>0. c \in Clients /\ pending[c] \in Upload
    BY <1>1 DEF SerialInv, IInv, TypeOK, IsTable
  <2>1. CASE CreateFileUnchanged(c)
    <3>1. k \in DOMAIN idxkeys /\ idxkeys[k] = pending[c].sig
      BY <1>1, <2>0, <2>1 DEF CreateFileUnchanged, Stored, Known, SerialInv,
                              IInv, IndexConsistent, Upload
    <3> QED
      BY <1>1, <2>1, <3>1, GetFileAnswersNext
      DEF CreateFileUnchanged, durable, Answer
  <2>2. CASE CreateFileCommits(c)
    <3>1. PICK u : u = pending[c]
      OBVIOUS
    <3>2. PICK row : row = RowFor(u)
      OBVIOUS
    <3>3. CommitKeys(u)
      BY <2>0, <2>2, <3>1, <3>2, CommitEffect, <1>1 DEF SerialInv
    <3> QED
      BY <1>1, <3>1, <3>3, GetFileAnswersNext DEF CommitKeys, Answer
  <2> QED BY <1>1, <2>1, <2>2
<1>2. SerialInv /\ SerialInv' /\ [SerialNext]_vars
        => [\A c \in DOMAIN pending, k \in Keys :
              /\ k = pending[c].key
              /\ CreateFileUnchanged(c) \/ CreateFileCommits(c)
              => GetFile(k)' = pending[c].sig]_vars
  BY <1>1
<1> QED
  BY <1>2, SerialInductive, PTL DEF SerialSpec, PutIsRead

-----------------------------------------------------------------------------
(* Every key can be deleted and overwritten while uploads are not          *)
(* disturbed and no start is given less room than the one before: what the *)
(* key is the last name of is at its path, and giving its size back is     *)
(* never refused.                                                          *)
THEOREM KeysStayDeletable == SerialSpec /\ NeverShrinks => []KeysDeletable
<1>1. Init => Fits
  BY InitFits
<1>2. SerialInv /\ Fits /\ [SerialNext]_vars /\ [total <= total']_vars => Fits'
  <2>1. SUFFICES ASSUME SerialInv, Fits, [SerialNext]_vars, [total <= total']_vars
                 PROVE  Fits'
    OBVIOUS
  <2>2. IInv /\ [Next]_vars /\ total \in Nat
    BY <2>1 DEF SerialInv, SerialNext, IInv, TypeOK
  <2>3. total <= total'
    BY <2>1, <2>2 DEF vars
  <2> QED BY <2>1, <2>2, <2>3, NextFits
<1>3. SerialInv /\ Fits => KeysDeletable
  <2>1. SUFFICES ASSUME SerialInv, Fits, NEW k \in DOMAIN idxkeys,
                        NEW s \in LastNameOf(k)
                 PROVE  s \in blobs /\ CanStore(-Size[s])
    BY DEF KeysDeletable
  <2>2. s \in DOMAIN files /\ s \in blobs
    BY <2>1 DEF SerialInv, ContentPresent, LastNameOf
  <2>3. s \in Sigs /\ used \in Int /\ total \in Nat
    BY <2>1, <2>2 DEF SerialInv, IInv, TypeOK, IsTable
  <2>4. Size[s] \in Nat
    BY <2>3, SigsAssumption
  <2>5. used + (-Size[s]) <= total
    BY <2>1, <2>3, <2>4 DEF Fits
  <2> QED BY <2>2, <2>5 DEF CanStore
<1> QED
  BY <1>1, <1>2, <1>3, SerialInductive, PTL DEF SerialSpec, NeverShrinks
=============================================================================
