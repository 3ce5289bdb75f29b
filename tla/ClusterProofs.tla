---------------------------- MODULE ClusterProofs ----------------------------
(***************************************************************************)
(* No node of a cluster counts a copy that was not made, for any number of *)
(* nodes, keys, contents, crashes, lost answers and resets.                *)
(***************************************************************************)
EXTENDS Cluster, ListProofs, FiniteSetTheorems

(* The parts of IInv. *)
Resting ==
  /\ \A n \in Nodes \ up : loop[n] = Idle
  /\ \A n \in Nodes : loop[n] # Idle => replicas[n] # <<>>
Origin ==
  \A x \in stored : \E y \in stored : y[2] = x[2] /\ y[3] # Cut
VolumesCounted == \A n \in Nodes : VolumeCounted(n)
LoopsCounted == \A n \in Nodes : LoopCounted(n)
AllHeld == \A n \in Nodes : HeldStored(n)

LEMMA InitInv == Init => IInv
<1> SUFFICES ASSUME Init PROVE IInv
  OBVIOUS
<1>1. \A n \in Nodes : idxkeys[n] = Empty /\ files[n] = Empty
  BY DEF Init
<1>2. \A D, R : IsTable(Empty, D, R) /\ DOMAIN Empty = {}
  BY EmptyTable
<1>3. \A n \in Nodes : IsTable(nodes[n], Nodes, IDs)
  BY DEF Init, IsTable, IDs
<1>4. TypeOK
  <2>1. loop \in [Nodes -> Place]
    BY DEF Init, Place
  <2>2. /\ DOMAIN idxkeys = Nodes /\ DOMAIN files = Nodes /\ DOMAIN nodes = Nodes
        /\ replicas \in [Nodes -> Seq(Replica)]
        /\ idxvolumes \in [Nodes -> SUBSET (IDs \X Signatures)]
        /\ removed \in [Nodes -> SUBSET IDs]
    BY DEF Init
  <2>3. \A n \in Nodes : /\ IsTable(idxkeys[n], Keys, DOMAIN files[n])
                         /\ IsTable(files[n], Signatures, Row)
    BY <1>1, <1>2, Zenon
  <2>4. QED
    BY <1>3, <2>1, <2>2, <2>3 DEF Init, TypeOK
<1>5. \A n \in Nodes : HeldStored(n) /\ VolumeCounted(n) /\ LoopCounted(n)
  <2>1. ASSUME NEW n \in Nodes PROVE HeldStored(n) /\ VolumeCounted(n)
    <3>1. DOMAIN idxkeys[n] = {} /\ DOMAIN files[n] = {}
      BY <1>1, EmptyTable
    <3>2. ElemsOf(replicas[n]) = {} /\ idxvolumes[n] = {}
      BY DEF Init, ElemsOf
    <3>3. QED
      BY <3>1, <3>2 DEF Init, HeldStored, VolumeCounted, Idle
  <2>2. \A n \in Nodes : loop[n].at = "idle"
    BY DEF Init, Idle
  <2>3. QED
    BY <2>1, <2>2 DEF LoopCounted
<1>6. QED
  BY <1>4, <1>5 DEF Init, IInv

-----------------------------------------------------------------------------
(* What was stored stays stored. *)

LEMMA SettledBack ==
  ASSUME stored \subseteq stored', Settled'
  PROVE  Settled
BY DEF Settled

LEMMA Grows ==
  ASSUME stored \subseteq stored', UNCHANGED epoch
  PROVE  /\ \A v, s : Has(v, s) => Has(v, s)'
         /\ \A n, rp : Counted(n, rp) => Counted(n, rp)'
BY DEF Has, Counted, ID

(* A loop that stays where it is stays sound. *)
LEMMA LoopStays ==
  ASSUME stored \subseteq stored', UNCHANGED epoch,
         NEW n \in Nodes, LoopCounted(n), loop'[n] = loop[n]
  PROVE  LoopCounted(n)'
BY Grows DEF LoopCounted

(* So does a volume whose tables and queue stay as they are. *)
LEMMA VolumeStays ==
  ASSUME stored \subseteq stored', UNCHANGED epoch,
         NEW n \in Nodes, VolumeCounted(n),
         files'[n] = files[n], idxvolumes'[n] = idxvolumes[n],
         replicas'[n] = replicas[n]
  PROVE  VolumeCounted(n)'
BY Grows DEF VolumeCounted

LEMMA PlaceParts ==
  ASSUME TypeOK, NEW n \in Nodes
  PROVE  /\ loop[n].at \in {"idle", "ask", "send", "tell"}
         /\ loop[n].at = "idle" => loop[n] = Idle
         /\ loop[n].at # "idle" => loop[n].rp \in Replica /\ loop[n].left \in SUBSET Nodes
         /\ loop[n].at = "send" => loop[n].to \in Nodes /\ loop[n].sig \in Signatures
         /\ loop[n].at = "tell" => loop[n].vid \in IDs /\ loop[n].tell \in Seq(IDs)
<1>1. loop[n] \in Place
  BY DEF TypeOK
<1>2. QED
  BY <1>1 DEF Place, Idle

LEMMA IDType ==
  ASSUME TypeOK, NEW n \in Nodes
  PROVE  ID(n) \in IDs
BY DEF TypeOK, ID, IDs

-----------------------------------------------------------------------------
(* CreateFile writes one row; the other rows it leaves or drops. *)
LEMMA CreateFileEffect ==
  ASSUME TypeOK, NEW m \in Nodes, NEW k \in Keys, NEW s \in Signatures,
         NEW rep \in Nat, CreateFile(m, k, s, rep),
         ~(k \in DOMAIN idxkeys[m] /\ idxkeys[m][k] = s)
  PROVE  \E rows, row :
           /\ row \in Row
           /\ files' = [files EXCEPT ![m] = Put(rows, s, row)]
           /\ IsTable(rows, Signatures, Row)
           /\ \A x \in DOMAIN rows : x \in DOMAIN files[m] /\ rows[x] = files[m][x]
           /\ \A j \in DOMAIN idxkeys[m] \ {k} : idxkeys[m][j] \in DOMAIN rows
           /\ \A v \in ElemsOf(row.vids) :
                v = ID(m) \/ (s \in DOMAIN files[m] /\ v \in ElemsOf(files[m][s].vids))
<1> DEFINE rows == Unlink(idxkeys[m], files[m], k)
           row == IF s \in DOMAIN files[m]
                  THEN [files[m][s] EXCEPT !.vids = Append(@, ID(m))]
                  ELSE [vids |-> <<ID(m)>>, replica |-> rep]
<1>1. /\ IsTable(idxkeys[m], Keys, DOMAIN files[m])
      /\ IsTable(files[m], Signatures, Row)
  BY DEF TypeOK
<1>2. files' = [files EXCEPT ![m] = Put(rows, s, row)]
  BY DEF CreateFile
<1>3. ID(m) \in IDs
  BY IDType
<1>4. /\ row \in Row
      /\ \A v \in ElemsOf(row.vids) :
           v = ID(m) \/ (s \in DOMAIN files[m] /\ v \in ElemsOf(files[m][s].vids))
  <2>1. CASE s \in DOMAIN files[m]
    <3>1. files[m][s] \in Row /\ files[m][s].vids \in Seq(IDs)
      BY <1>1, <2>1 DEF IsTable, Row
    <3>2. /\ Append(files[m][s].vids, ID(m)) \in Seq(IDs)
          /\ ElemsOf(Append(files[m][s].vids, ID(m)))
               = ElemsOf(files[m][s].vids) \cup {ID(m)}
      BY <1>3, <3>1, AppendElems
    <3>3. row = [vids |-> Append(files[m][s].vids, ID(m)),
                 replica |-> files[m][s].replica]
      BY <2>1, <3>1 DEF Row
    <3>4. QED
      BY <2>1, <3>1, <3>2, <3>3 DEF Row
  <2>2. CASE s \notin DOMAIN files[m]
    BY <1>3, <2>2 DEF Row, ElemsOf
  <2>3. QED
    BY <2>1, <2>2
<1>5. /\ IsTable(rows, Signatures, Row)
      /\ \A x \in DOMAIN rows : x \in DOMAIN files[m] /\ rows[x] = files[m][x]
  <2>1. /\ IsTable(Drop(files[m], idxkeys[m][k]), Signatures, Row)
        /\ DOMAIN Drop(files[m], idxkeys[m][k]) = DOMAIN files[m] \ {idxkeys[m][k]}
        /\ \A y \in DOMAIN files[m] \ {idxkeys[m][k]} :
             Drop(files[m], idxkeys[m][k])[y] = files[m][y]
    BY <1>1 DEF Drop, IsTable
  <2>2. QED
    BY <1>1, <2>1 DEF Unlink
<1>6. \A j \in DOMAIN idxkeys[m] \ {k} : idxkeys[m][j] \in DOMAIN rows
  BY <1>1 DEF Unlink, Drop, IsTable
<1> HIDE DEF rows, row
<1>7. QED
  BY <1>2, <1>4, <1>5, <1>6

LEMMA CreateFileType ==
  ASSUME TypeOK, NEW m \in Nodes, NEW k \in Keys, NEW s \in Signatures,
         NEW rep \in Nat, CreateFile(m, k, s, rep)
  PROVE  /\ DOMAIN idxkeys' = Nodes /\ DOMAIN files' = Nodes
         /\ \A n \in Nodes : /\ IsTable(idxkeys'[n], Keys, DOMAIN files'[n])
                             /\ IsTable(files'[n], Signatures, Row)
         /\ replicas' \in [Nodes -> Seq(Replica)]
         /\ \A n \in Nodes : replicas[n] # <<>> => replicas'[n] # <<>>
         /\ stored' \subseteq IDs \X Keys \X Signatures
<1>1. stored' \subseteq IDs \X Keys \X Signatures
  <2>1. ID(m) \in IDs
    BY IDType
  <2>2. stored' = stored \cup {<<ID(m), k, s>>}
    BY DEF CreateFile
  <2>3. stored \subseteq IDs \X Keys \X Signatures
    BY DEF TypeOK
  <2>4. QED
    BY <2>1, <2>2, <2>3
<1>2. CASE k \in DOMAIN idxkeys[m] /\ idxkeys[m][k] = s
  <2>1. UNCHANGED <<idxkeys, files, replicas>>
    BY <1>2 DEF CreateFile
  <2>2. QED
    BY <1>1, <2>1 DEF TypeOK
<1>3. CASE ~(k \in DOMAIN idxkeys[m] /\ idxkeys[m][k] = s)
  <2>1. PICK rows, row :
          /\ row \in Row
          /\ files' = [files EXCEPT ![m] = Put(rows, s, row)]
          /\ IsTable(rows, Signatures, Row)
          /\ \A x \in DOMAIN rows : x \in DOMAIN files[m] /\ rows[x] = files[m][x]
          /\ \A j \in DOMAIN idxkeys[m] \ {k} : idxkeys[m][j] \in DOMAIN rows
          /\ \A v \in ElemsOf(row.vids) :
               v = ID(m) \/ (s \in DOMAIN files[m] /\ v \in ElemsOf(files[m][s].vids))
    BY <1>3, CreateFileEffect, Zenon
  <2>2. /\ IsTable(Put(rows, s, row), Signatures, Row)
        /\ DOMAIN Put(rows, s, row) = DOMAIN rows \cup {s}
    <3>1. row \in Row /\ IsTable(rows, Signatures, Row)
      BY <2>1, Zenon
    <3>2. QED
      BY <3>1 DEF IsTable, Put
  <2>3. idxkeys' = [idxkeys EXCEPT ![m] = Put(@, k, s)]
    BY <1>3 DEF CreateFile
  <2>4. /\ DOMAIN idxkeys' = Nodes /\ DOMAIN files' = Nodes
        /\ idxkeys'[m] = Put(idxkeys[m], k, s) /\ files'[m] = Put(rows, s, row)
        /\ \A n \in Nodes \ {m} : idxkeys'[n] = idxkeys[n] /\ files'[n] = files[n]
    BY <2>1, <2>3 DEF TypeOK
  <2>5. IsTable(Put(idxkeys[m], k, s), Keys, DOMAIN rows \cup {s})
    BY <2>1 DEF TypeOK, IsTable, Put
  <2>6. /\ replicas' \in [Nodes -> Seq(Replica)]
        /\ \A n \in Nodes : replicas[n] # <<>> => replicas'[n] # <<>>
    <3> DEFINE rp == [key |-> k, sig |-> s, count |-> rep - 1,
                      original |-> rep, vids |-> <<ID(m)>>]
    <3>1. replicas' = [replicas EXCEPT ![m] =
                         IF rep > 1 THEN Append(@, rp) ELSE @]
      BY <1>3 DEF CreateFile
    <3>2. rp \in Replica
      BY IDType DEF Replica
    <3> HIDE DEF rp
    <3>3. replicas \in [Nodes -> Seq(Replica)]
      BY DEF TypeOK
    <3>4. /\ Append(replicas[m], rp) \in Seq(Replica)
          /\ Append(replicas[m], rp) # <<>>
      BY <3>2, <3>3
    <3>5. QED
      BY <3>1, <3>3, <3>4
  <2>7. QED
    BY <1>1, <2>2, <2>4, <2>5, <2>6 DEF TypeOK
<1>4. QED
  BY <1>2, <1>3

(* The volume that stores a content is the one that may list it. *)
LEMMA CreateFileCounted ==
  ASSUME TypeOK, NEW m \in Nodes, NEW k \in Keys, NEW s \in Signatures,
         NEW rep \in Nat, CreateFile(m, k, s, rep), rep > 1 => s # Cut,
         UNCHANGED epoch, VolumesCounted
  PROVE  VolumesCounted'
<1>1. stored \subseteq stored' /\ <<ID(m), k, s>> \in stored'
  BY DEF CreateFile
<1>2. (\A v : v = ID(m) => Has(v, s)') /\ UNCHANGED idxvolumes
  BY <1>1 DEF Has, CreateFile, ID
<1>3. CASE k \in DOMAIN idxkeys[m] /\ idxkeys[m][k] = s
  <2>1. UNCHANGED <<idxkeys, files, replicas>>
    BY <1>3 DEF CreateFile
  <2>2. QED
    BY <1>1, <1>2, <2>1, VolumeStays DEF VolumesCounted
<1>4. CASE ~(k \in DOMAIN idxkeys[m] /\ idxkeys[m][k] = s)
  <2>1. PICK rows, row :
          /\ row \in Row
          /\ files' = [files EXCEPT ![m] = Put(rows, s, row)]
          /\ IsTable(rows, Signatures, Row)
          /\ \A x \in DOMAIN rows : x \in DOMAIN files[m] /\ rows[x] = files[m][x]
          /\ \A j \in DOMAIN idxkeys[m] \ {k} : idxkeys[m][j] \in DOMAIN rows
          /\ \A v \in ElemsOf(row.vids) :
               v = ID(m) \/ (s \in DOMAIN files[m] /\ v \in ElemsOf(files[m][s].vids))
    BY <1>4, CreateFileEffect, Zenon
  <2>2. /\ idxkeys' = [idxkeys EXCEPT ![m] = Put(@, k, s)]
        /\ replicas' = [replicas EXCEPT ![m] = 
             IF rep > 1
             THEN Append(@, [key |-> k, sig |-> s, count |-> rep - 1,
                             original |-> rep, vids |-> <<ID(m)>>])
             ELSE @]
    BY <1>4 DEF CreateFile
  <2>3. \A n \in Nodes \ {m} :
          /\ idxkeys'[n] = idxkeys[n] /\ files'[n] = files[n]
          /\ idxvolumes'[n] = idxvolumes[n] /\ replicas'[n] = replicas[n]
    BY <1>2, <2>1, <2>2 DEF TypeOK
  <2>4. VolumeCounted(m)'
    <3>1. \A x \in DOMAIN files'[m] \ {Cut} :
            \A v \in ElemsOf(files'[m][x].vids) : Has(v, x)'
      <4>1. files'[m] = Put(rows, s, row)
        BY <2>1 DEF TypeOK
      <4>2. /\ DOMAIN files'[m] = DOMAIN rows \cup {s} /\ files'[m][s] = row
            /\ \A x \in DOMAIN rows : x # s => files'[m][x] = rows[x]
        BY <2>1, <4>1 DEF Put
      <4>3. \A x \in DOMAIN files[m] \ {Cut} :
              \A v \in ElemsOf(files[m][x].vids) : Has(v, x)'
        BY <1>1, Grows DEF VolumesCounted, VolumeCounted
      <4>4. QED
        BY <1>2, <2>1, <4>2, <4>3
    <3>2. \A q \in ElemsOf(replicas'[m]) : Counted(m, q)'
      <4>1. \A q \in ElemsOf(replicas[m]) : Counted(m, q)'
        BY <1>1, Grows DEF VolumesCounted, VolumeCounted
      <4>2. CASE rep > 1
        <5>1. PICK rp : rp = [key |-> k, sig |-> s, count |-> rep - 1,
                              original |-> rep, vids |-> <<ID(m)>>]
          OBVIOUS
        <5>2. Counted(m, rp)'
          <6>1. rp.key = k /\ rp.sig = s /\ ElemsOf(rp.vids) = {ID(m)}
            BY <5>1 DEF ElemsOf
          <6>2. QED
            BY <1>1, <1>2, <4>2, <6>1 DEF Counted, ID
        <5>3. rp \in Replica
          BY <5>1, IDType DEF Replica
        <5>4. replicas'[m] = Append(replicas[m], rp) /\ replicas[m] \in Seq(Replica)
          BY <2>2, <4>2, <5>1 DEF TypeOK
        <5>5. ElemsOf(replicas'[m]) = ElemsOf(replicas[m]) \cup {rp}
          BY <5>3, <5>4, AppendElems
        <5>6. QED
          BY <4>1, <5>2, <5>5
      <4>3. CASE ~(rep > 1)
        BY <2>2, <4>1, <4>3 DEF TypeOK
      <4>4. QED
        BY <4>2, <4>3
    <3>3. \A p \in idxvolumes'[m] : p[2] # Cut
      BY <1>2 DEF VolumesCounted, VolumeCounted
    <3>4. QED
      BY <3>1, <3>2, <3>3 DEF VolumeCounted
  <2>5. QED
    BY <1>1, <2>3, <2>4, VolumeStays DEF VolumesCounted
<1>5. QED
  BY <1>3, <1>4

LEMMA CreateFileHeld ==
  ASSUME TypeOK, NEW m \in Nodes, NEW k \in Keys, NEW s \in Signatures,
         NEW rep \in Nat, CreateFile(m, k, s, rep), UNCHANGED epoch
  PROVE  \A n \in Nodes :
           (\A j \in DOMAIN idxkeys[n] : <<ID(n), j, idxkeys[n][j]>> \in stored)
           => \A j \in DOMAIN idxkeys'[n] : <<ID(n), j, idxkeys'[n][j]>> \in stored'
<1>1. stored' = stored \cup {<<ID(m), k, s>>}
  BY DEF CreateFile
<1>2. \/ UNCHANGED idxkeys
      \/ idxkeys' = [idxkeys EXCEPT ![m] = Put(@, k, s)]
  BY DEF CreateFile
<1>3. DOMAIN idxkeys = Nodes
  BY DEF TypeOK
<1>4. QED
  BY <1>1, <1>2, <1>3 DEF Put

LEMMA CreateFileOrigin ==
  ASSUME Origin, NEW m \in Nodes, NEW k \in Keys, NEW s, NEW rep,
         CreateFile(m, k, s, rep),
         s # Cut \/ \E y \in stored : y[2] = k /\ y[3] # Cut
  PROVE  Origin'
BY DEF Origin, CreateFile

LEMMA SpendType ==
  ASSUME TypeOK, NEW what \in {"puts", "deletes", "upsets"}, NEW bound,
         Spend(what, bound)
  PROVE  spent' \in [puts : Nat, deletes : Nat, upsets : Nat]
<1>1. spent \in [puts : Nat, deletes : Nat, upsets : Nat]
  BY DEF TypeOK
<1>2. spent' = [spent EXCEPT ![what] = @ + 1]
  BY DEF Spend
<1>3. CASE what = "puts"
  BY <1>1, <1>2, <1>3
<1>4. CASE what = "deletes"
  BY <1>1, <1>2, <1>4
<1>5. CASE what = "upsets"
  BY <1>1, <1>2, <1>5
<1>6. QED
  BY <1>3, <1>4, <1>5

(* A step that has volume m store a content, with what it does to the      *)
(* loops and to the nodes.                                                 *)
LEMMA StoreInv ==
  ASSUME IInv, NEW m \in Nodes, NEW k \in Keys, NEW s \in Signatures,
         NEW rep \in Nat, CreateFile(m, k, s, rep), UNCHANGED <<epoch, gone>>,
         rep > 1 => s # Cut,
         s # Cut \/ \E y \in stored : y[2] = k /\ y[3] # Cut,
         up' \subseteq Nodes, tmps' \subseteq Nodes, removed' \in [Nodes -> SUBSET IDs],
         DOMAIN nodes' = Nodes, \A n \in Nodes : IsTable(nodes'[n], Nodes, IDs),
         spent' \in [puts : Nat, deletes : Nat, upsets : Nat],
         loop' \in [Nodes -> Place],
         \A n \in Nodes \ up' : loop'[n] = Idle,
         \A n \in Nodes : loop'[n] # Idle => loop[n] # Idle,
         \A n \in Nodes : loop'[n].at = "send" => loop'[n] = loop[n],
         Settled' => LoopsCounted'
  PROVE  IInv'
<1>1. stored \subseteq stored' /\ UNCHANGED idxvolumes
  BY DEF CreateFile
<1>2. TypeOK
  BY DEF IInv
<1>3. TypeOK'
  BY <1>1, <1>2, CreateFileType DEF TypeOK
<1>4. Resting'
  BY <1>2, CreateFileType DEF IInv, Resting
<1>5. Origin'
  BY CreateFileOrigin DEF IInv, Origin
<1>6. AllHeld'
  <2>1. SUFFICES ASSUME NEW n \in Nodes PROVE HeldStored(n)'
    BY DEF AllHeld
  <2>2. HeldStored(n) /\ ID(n)' = ID(n)
    BY DEF IInv, ID
  <2>3. (\A j \in DOMAIN idxkeys[n] : <<ID(n), j, idxkeys[n][j]>> \in stored)'
    BY <1>2, <2>2, CreateFileHeld DEF HeldStored
  <2>4. (loop[n].at = "send" => <<ID(n), loop[n].rp.key, loop[n].sig>> \in stored)'
    BY <1>1, <2>2 DEF HeldStored
  <2>5. QED
    BY <2>3, <2>4 DEF HeldStored
<1>7. Settled' => VolumesCounted'
  BY <1>1, <1>2, SettledBack, CreateFileCounted DEF IInv, VolumesCounted
<1>8. QED
  BY <1>3, <1>4, <1>5, <1>6, <1>7
  DEF IInv, Resting, Origin, AllHeld, VolumesCounted, LoopsCounted

LEMMA SpentStays ==
  ASSUME IInv, UNCHANGED spent
  PROVE  spent' \in [puts : Nat, deletes : Nat, upsets : Nat]
BY DEF IInv, TypeOK

(* A step that only moves the loop of n, to l. *)
LEMMA LoopInv ==
  ASSUME IInv, NEW n \in Nodes, n \in up, NEW l \in Place, Goes(n, l),
         UNCHANGED <<up, tmps, epoch, volumes, members, stored>>,
         spent' \in [puts : Nat, deletes : Nat, upsets : Nat],
         replicas[n] # <<>>,
         l.at = "send" => <<ID(n), l.rp.key, l.sig>> \in stored,
         Settled => (l.at # "idle" =>
                       Counted(n, l.rp) /\ (l.at = "tell" => Has(l.vid, l.rp.sig)))
  PROVE  IInv'
<1>1. /\ loop' = [loop EXCEPT ![n] = l] /\ loop \in [Nodes -> Place]
      /\ UNCHANGED <<idxkeys, files, idxvolumes, replicas, nodes, removed, gone>>
      /\ UNCHANGED <<up, tmps, epoch, stored>>
  BY DEF Goes, IInv, TypeOK, volumes, members
<1>2. TypeOK'
  BY <1>1 DEF IInv, TypeOK
<1>3. Resting'
  BY <1>1 DEF IInv, Resting
<1>4. Origin'
  BY <1>1 DEF IInv, Origin
<1>5. AllHeld'
  BY <1>1 DEF IInv, AllHeld, HeldStored, ID
<1>6. Settled' => VolumesCounted' /\ LoopsCounted'
  <2>1. SUFFICES ASSUME Settled' PROVE VolumesCounted' /\ LoopsCounted'
    OBVIOUS
  <2>2. Settled /\ stored \subseteq stored' /\ UNCHANGED epoch
    BY <1>1, <2>1, SettledBack
  <2>3. VolumesCounted'
    BY <1>1, <2>2, VolumeStays DEF IInv, VolumesCounted
  <2>4. \A x \in Nodes \ {n} : LoopCounted(x)'
    BY <1>1, <2>2, LoopStays DEF IInv
  <2>5. LoopCounted(n)'
    BY <1>1, <2>2, Grows DEF LoopCounted
  <2>6. QED
    BY <2>3, <2>4, <2>5 DEF LoopsCounted
<1>7. QED
  BY <1>2, <1>3, <1>4, <1>5, <1>6
  DEF IInv, Resting, Origin, AllHeld, VolumesCounted, LoopsCounted

-----------------------------------------------------------------------------
(* The steps of the clients and of the loop. *)

LEMMA ClientPutInv ==
  ASSUME IInv, NEW p \in Puts, ClientPut(p[1], p[2], p[3]) PROVE IInv'
<1>1. p[1] \in Nodes /\ p[2] \in Keys /\ p[3] \in Contents
  BY PutsAssumption
<1>2. p[3] \in Signatures /\ p[3] # Cut /\ Factor \in Nat
  BY <1>1, ContentsAssumption, NumbersAssumption DEF Signatures
<1>3. /\ CreateFile(p[1], p[2], p[3], Factor)
      /\ UNCHANGED <<up, tmps, epoch, nodes, removed, gone, loop>>
      /\ spent' \in [puts : Nat, deletes : Nat, upsets : Nat]
  BY SpendType DEF ClientPut, members, IInv
<1>4. Settled' => LoopsCounted'
  <2>1. stored \subseteq stored'
    BY <1>3 DEF CreateFile
  <2>2. QED
    BY <1>3, <2>1, SettledBack, LoopStays DEF IInv, LoopsCounted
<1>5. /\ up' \subseteq Nodes /\ tmps' \subseteq Nodes /\ removed' \in [Nodes -> SUBSET IDs]
      /\ DOMAIN nodes' = Nodes /\ loop' \in [Nodes -> Place]
      /\ \A n \in Nodes : IsTable(nodes'[n], Nodes, IDs)
      /\ \A n \in Nodes \ up' : loop'[n] = Idle
  BY <1>3 DEF IInv, TypeOK
<1>6. QED
  BY <1>1, <1>2, <1>3, <1>4, <1>5, StoreInv

LEMMA ClientDeleteInv ==
  ASSUME IInv, NEW n \in Nodes, NEW k \in Keys, ClientDelete(n, k) PROVE IInv'
<1>1. /\ files' = [files EXCEPT ![n] = Unlink(idxkeys[n], @, k)]
      /\ idxkeys' = [idxkeys EXCEPT ![n] = Drop(@, k)]
      /\ UNCHANGED <<up, tmps, epoch, idxvolumes, replicas, nodes, removed, gone,
                     loop, stored>>
      /\ spent' \in [puts : Nat, deletes : Nat, upsets : Nat]
  BY SpendType DEF ClientDelete, members, IInv
<1>2. /\ DOMAIN idxkeys = Nodes /\ DOMAIN files = Nodes
      /\ IsTable(idxkeys[n], Keys, DOMAIN files[n])
      /\ IsTable(files[n], Signatures, Row)
  BY DEF IInv, TypeOK
<1>3. /\ IsTable(files'[n], Signatures, Row)
      /\ DOMAIN files'[n] \subseteq DOMAIN files[n]
      /\ \A s \in DOMAIN files'[n] : files'[n][s] = files[n][s]
  BY <1>1, <1>2 DEF Unlink, Drop, IsTable
<1>4. /\ IsTable(idxkeys'[n], Keys, DOMAIN files'[n])
      /\ DOMAIN idxkeys'[n] \subseteq DOMAIN idxkeys[n]
      /\ \A j \in DOMAIN idxkeys'[n] : idxkeys'[n][j] = idxkeys[n][j]
  BY <1>1, <1>2 DEF Unlink, Drop, IsTable
<1>5. \A x \in Nodes \ {n} : idxkeys'[x] = idxkeys[x] /\ files'[x] = files[x]
  BY <1>1, <1>2
<1>6. TypeOK'
  <2>1. \A x \in Nodes : /\ IsTable(idxkeys'[x], Keys, DOMAIN files'[x])
                         /\ IsTable(files'[x], Signatures, Row)
    BY <1>3, <1>4, <1>5 DEF IInv, TypeOK
  <2>2. QED
    BY <1>1, <2>1 DEF IInv, TypeOK
<1>7. Resting' /\ Origin'
  BY <1>1 DEF IInv, Resting, Origin
<1>8. AllHeld'
  BY <1>1, <1>4, <1>5 DEF IInv, AllHeld, HeldStored, ID
<1>9. Settled' => VolumesCounted' /\ LoopsCounted'
  <2>1. SUFFICES ASSUME Settled' PROVE VolumesCounted' /\ LoopsCounted'
    OBVIOUS
  <2>2. Settled /\ stored \subseteq stored' /\ UNCHANGED epoch
    BY <1>1, <2>1, SettledBack
  <2>3. \A x \in Nodes \ {n} : VolumeCounted(x)'
    BY <1>1, <1>5, <2>2, VolumeStays DEF IInv
  <2>4. VolumeCounted(n)'
    BY <1>1, <1>3, <2>2, Grows DEF IInv, VolumeCounted
  <2>5. LoopsCounted'
    BY <1>1, <2>2, LoopStays DEF IInv, LoopsCounted
  <2>6. QED
    BY <2>3, <2>4, <2>5 DEF VolumesCounted
<1>10. QED
  BY <1>6, <1>7, <1>8, <1>9
  DEF IInv, Resting, Origin, AllHeld, VolumesCounted, LoopsCounted

LEMMA NextReplicaInv ==
  ASSUME IInv, NEW n \in Nodes, NextReplica(n) PROVE IInv'
<1>1. /\ n \in up /\ replicas[n] # <<>> /\ replicas[n] \in Seq(Replica)
      /\ UNCHANGED <<up, tmps, epoch, volumes, members, spent, stored>>
  BY DEF NextReplica, At, IInv, TypeOK
<1>2. PICK rp, left :
        /\ rp = Head(replicas[n]) /\ left \in SUBSET Nodes
        /\ Goes(n, [at |-> "ask", rp |-> rp, left |-> left])
  BY DEF NextReplica, NodesWithout, IInv, TypeOK, IsTable
<1>3. rp \in Replica /\ rp \in ElemsOf(replicas[n])
  <2>1. 1 \in DOMAIN replicas[n] /\ rp = replicas[n][1] /\ rp \in Replica
    BY <1>1, <1>2
  <2>2. QED
    BY <2>1 DEF ElemsOf
<1>4. [at |-> "ask", rp |-> rp, left |-> left] \in Place
  BY <1>2, <1>3 DEF Place
<1>5. Settled => Counted(n, rp)
  BY <1>3 DEF IInv, VolumeCounted
<1>6. QED
  BY <1>1, <1>2, <1>4, <1>5, SpentStays, LoopInv

LEMMA AskWantsInv ==
  ASSUME IInv, NEW n \in Nodes, NEW m \in Nodes, AskWants(n, m) PROVE IInv'
<1> DEFINE l == [at |-> "send", rp |-> loop[n].rp, left |-> loop[n].left \ {m},
                 to |-> m, sig |-> idxkeys[n][loop[n].rp.key]]
<1>1. /\ n \in up /\ loop[n].at = "ask" /\ Goes(n, l)
      /\ loop[n].rp.key \in DOMAIN idxkeys[n]
      /\ UNCHANGED <<up, tmps, epoch, volumes, members, spent, stored>>
  BY DEF AskWants, At
<1>2. /\ loop[n].rp \in Replica /\ loop[n].left \in SUBSET Nodes
  BY <1>1, PlaceParts DEF IInv
<1>3. l \in Place
  <2>1. idxkeys[n][loop[n].rp.key] \in Signatures
    BY <1>1 DEF IInv, TypeOK, IsTable
  <2>2. QED
    BY <1>2, <2>1 DEF Place
<1>4. replicas[n] # <<>>
  BY <1>1 DEF IInv, Idle
<1>5. <<ID(n), l.rp.key, l.sig>> \in stored
  BY <1>1 DEF IInv, HeldStored
<1>6. Settled => Counted(n, l.rp)
  BY <1>1 DEF IInv, LoopCounted
<1>7. l.at = "send"
  OBVIOUS
<1> HIDE DEF l
<1>8. QED
  BY <1>1, <1>3, <1>4, <1>5, <1>6, <1>7, SpentStays, LoopInv

(* On to the next node: the replica stays. *)
LEMMA ContinueInv ==
  ASSUME IInv, NEW n \in Nodes, n \in up, NEW l, l.rp \in Replica,
         l.left \in SUBSET Nodes, Continue(n, l), replicas[n] # <<>>,
         UNCHANGED <<up, tmps, epoch, volumes, members, stored>>,
         spent' \in [puts : Nat, deletes : Nat, upsets : Nat],
         Settled => Counted(n, l.rp)
  PROVE  IInv'
<1>1. CASE l.left = {}
  <2>1. Goes(n, Idle) /\ Idle \in Place /\ Idle.at = "idle"
    BY <1>1 DEF Continue, Place, Idle
  <2>2. QED
    BY <2>1, LoopInv
<1>2. CASE l.left # {}
  <2>1. PICK q : q = [at |-> "ask", rp |-> l.rp, left |-> l.left]
    OBVIOUS
  <2>2. q \in Place /\ q.at = "ask" /\ q.rp = l.rp /\ Goes(n, q)
    BY <1>2, <2>1 DEF Continue, Place
  <2>3. QED
    BY <2>2, LoopInv
<1>3. QED
  BY <1>1, <1>2

LEMMA StaysCounted ==
  ASSUME IInv, NEW n \in Nodes, loop[n].at # "idle"
  PROVE  /\ replicas[n] # <<>>
         /\ Settled => Counted(n, loop[n].rp)
BY DEF IInv, LoopCounted, Idle

LEMMA AskSkipsInv ==
  ASSUME IInv, NEW n \in Nodes, NEW m \in Nodes, AskSkips(n, m) PROVE IInv'
<1>1. PICK l : /\ l = [loop[n] EXCEPT !.left = @ \ {m}]
               /\ Continue(n, l)
  BY DEF AskSkips
<1>2. /\ n \in up /\ loop[n].at = "ask"
      /\ UNCHANGED <<up, tmps, epoch, volumes, members, spent, stored>>
  BY DEF AskSkips, At
<1>3. loop[n] \in [at : {"ask"}, rp : Replica, left : SUBSET Nodes]
  <2>1. loop[n] \in Place
    BY DEF IInv, TypeOK
  <2>2. QED
    BY <1>2, <2>1 DEF Place, Idle
<1>4. l.rp = loop[n].rp /\ l.rp \in Replica /\ l.left \in SUBSET Nodes
  BY <1>1, <1>3
<1>5. QED
  BY <1>1, <1>2, <1>4, SpentStays, StaysCounted, ContinueInv

LEMMA SendFailsInv ==
  ASSUME IInv, NEW n \in Nodes, SendFails(n) PROVE IInv'
<1>1. /\ n \in up /\ loop[n].at = "send" /\ Continue(n, loop[n])
      /\ UNCHANGED <<up, tmps, epoch, volumes, members, stored>>
  BY DEF SendFails, At
<1>2. loop[n].rp \in Replica /\ loop[n].left \in SUBSET Nodes
  BY <1>1, PlaceParts DEF IInv
<1>3. spent' \in [puts : Nat, deletes : Nat, upsets : Nat]
  BY SpentStays, SpendType DEF SendFails, IInv
<1>4. QED
  BY <1>1, <1>2, <1>3, StaysCounted, ContinueInv

LEMMA UpdateReplicaFailsInv ==
  ASSUME IInv, NEW n \in Nodes, UpdateReplicaFails(n) PROVE IInv'
<1>1. /\ n \in up /\ loop[n].at = "tell" /\ Continue(n, loop[n])
      /\ UNCHANGED <<up, tmps, epoch, volumes, members, spent, stored>>
  BY DEF UpdateReplicaFails, At
<1>2. loop[n].rp \in Replica /\ loop[n].left \in SUBSET Nodes
  BY <1>1, PlaceParts DEF IInv
<1>3. QED
  BY <1>1, <1>2, SpentStays, StaysCounted, ContinueInv

(* A whole content was stored under the key of what the loop sends.        *)
LEMMA SentOrigin ==
  ASSUME IInv, NEW n \in Nodes, loop[n].at = "send"
  PROVE  \E y \in stored : y[2] = loop[n].rp.key /\ y[3] # Cut
<1>1. <<ID(n), loop[n].rp.key, loop[n].sig>> \in stored
  BY DEF IInv, HeldStored
<1>2. QED
  BY <1>1 DEF IInv

LEMMA SendInv ==
  ASSUME IInv, NEW n \in Nodes, Send(n) PROVE IInv'
<1>1. PICK l, vids, q :
        /\ l = loop[n] /\ vids = Append(l.rp.vids, ID(l.to))
        /\ q = [at |-> "tell", rp |-> [l.rp EXCEPT !.vids = vids],
                left |-> l.left, vid |-> ID(l.to), tell |-> vids]
        /\ CreateFile(l.to, l.rp.key, l.sig, 1)
        /\ Goes(n, q)
  BY DEF Send
<1>2. /\ n \in up /\ l.at = "send"
      /\ UNCHANGED <<up, tmps, epoch, nodes, removed, gone, spent>>
  BY <1>1 DEF Send, At, members
<1>3. /\ l.rp \in Replica /\ l.left \in SUBSET Nodes
      /\ l.to \in Nodes /\ l.sig \in Signatures
  BY <1>1, <1>2, PlaceParts DEF IInv
<1>4. l.rp.key \in Keys /\ l.rp.vids \in Seq(IDs) /\ ID(l.to) \in IDs
  BY <1>3, IDType DEF Replica, IInv
<1>5. vids \in Seq(IDs) /\ ElemsOf(vids) = ElemsOf(l.rp.vids) \cup {ID(l.to)}
  <2>1. \A r \in Seq(IDs), w \in IDs :
          Append(r, w) \in Seq(IDs) /\ ElemsOf(Append(r, w)) = ElemsOf(r) \cup {w}
    BY AppendElems
  <2>2. vids = Append(l.rp.vids, ID(l.to))
    BY <1>1
  <2>3. QED
    BY <1>4, <2>1, <2>2
<1>6. /\ q.at = "tell" /\ q.vid = ID(l.to) /\ q.rp \in Replica
      /\ q.rp.key = l.rp.key /\ q.rp.sig = l.rp.sig /\ q.rp.vids = vids
  BY <1>1, <1>3, <1>5 DEF Replica
<1>7. q \in Place
  BY <1>1, <1>3, <1>4, <1>5, <1>6 DEF Place
<1>8. loop' = [loop EXCEPT ![n] = q] /\ loop \in [Nodes -> Place]
  BY <1>1 DEF Goes, IInv, TypeOK
<1>9. Settled' => LoopsCounted'
  <2>1. SUFFICES ASSUME Settled' PROVE LoopsCounted'
    OBVIOUS
  <2>2. /\ Settled /\ stored \subseteq stored' /\ UNCHANGED epoch
        /\ stored' = stored \cup {<<ID(l.to), l.rp.key, l.sig>>}
    BY <1>1, <1>2, <2>1, SettledBack DEF CreateFile
  <2>3. \A x \in Nodes \ {n} : LoopCounted(x)'
    BY <1>8, <2>2, LoopStays DEF IInv
  <2>4. Counted(n, l.rp) /\ l.sig = l.rp.sig
    <3>1. Counted(n, l.rp) /\ <<ID(n), l.rp.key, l.sig>> \in stored
      BY <1>1, <1>2, <2>2 DEF IInv, LoopCounted, HeldStored
    <3>2. QED
      BY <2>2, <3>1 DEF Counted, Settled
  <2>5. \A v : v = ID(l.to) => Has(v, l.rp.sig)'
    BY <1>4, <2>2, <2>4 DEF Has
  <2>6. Counted(n, q.rp)'
    <3>1. Counted(n, l.rp)'
      BY <2>2, <2>4, Grows
    <3>2. \A v \in ElemsOf(q.rp.vids) : Has(v, q.rp.sig)'
      BY <1>5, <1>6, <2>5, <3>1 DEF Counted
    <3>3. QED
      BY <1>6, <3>1, <3>2 DEF Counted
  <2>7. loop'[n] = q
    BY <1>8
  <2>8. LoopCounted(n)'
    BY <1>6, <2>5, <2>6, <2>7 DEF LoopCounted
  <2>9. QED
    BY <2>3, <2>8 DEF LoopsCounted
<1>10. /\ up' \subseteq Nodes /\ tmps' \subseteq Nodes /\ removed' \in [Nodes -> SUBSET IDs]
       /\ DOMAIN nodes' = Nodes /\ loop' \in [Nodes -> Place]
       /\ \A x \in Nodes : IsTable(nodes'[x], Nodes, IDs)
       /\ spent' \in [puts : Nat, deletes : Nat, upsets : Nat]
  BY <1>2, <1>7, <1>8 DEF IInv, TypeOK
<1>11. /\ \A x \in Nodes \ up' : loop'[x] = Idle
       /\ \A x \in Nodes : loop'[x] # Idle => loop[x] # Idle
       /\ \A x \in Nodes : loop'[x].at = "send" => loop'[x] = loop[x]
  <2>1. loop'[n] = q /\ \A x \in Nodes \ {n} : loop'[x] = loop[x]
    BY <1>8
  <2>2. n \in up' /\ loop[n] # Idle /\ q.at # "send"
    <3>1. n \in up' /\ loop[n].at = "send"
      BY <1>1, <1>2
    <3>2. Idle.at = "idle"
      BY DEF Idle
    <3>3. QED
      BY <1>6, <3>1, <3>2
  <2>3. \A x \in Nodes \ up' : loop[x] = Idle
    BY <1>2 DEF IInv
  <2>4. QED
    BY <2>1, <2>2, <2>3
<1>12. \E y \in stored : y[2] = l.rp.key /\ y[3] # Cut
  BY <1>1, <1>2, SentOrigin
<1>13. CreateFile(l.to, l.rp.key, l.sig, 1) /\ UNCHANGED <<epoch, gone>>
  BY <1>1, <1>2
<1>14. QED
  BY <1>3, <1>4, <1>9, <1>10, <1>11, <1>12, <1>13, StoreInv

LEMMA SendUnansweredInv ==
  ASSUME IInv, NEW n \in Nodes, SendUnanswered(n) PROVE IInv'
<1>1. PICK l : /\ l = loop[n] /\ CreateFile(l.to, l.rp.key, l.sig, 1)
               /\ Continue(n, l)
  BY DEF SendUnanswered
<1>2. /\ n \in up /\ l.at = "send"
      /\ UNCHANGED <<up, tmps, epoch, nodes, removed, gone>>
      /\ spent' \in [puts : Nat, deletes : Nat, upsets : Nat]
  BY <1>1, SpendType DEF SendUnanswered, At, members, IInv
<1>3. /\ l.rp \in Replica /\ l.left \in SUBSET Nodes
      /\ l.to \in Nodes /\ l.sig \in Signatures
  BY <1>1, <1>2, PlaceParts DEF IInv
<1>4. PICK q \in Place :
        /\ loop' = [loop EXCEPT ![n] = q]
        /\ q.at # "idle" => q.at = "ask" /\ q.rp = l.rp
  <2>1. CASE l.left = {}
    <3>1. Goes(n, Idle) /\ Idle \in Place /\ Idle.at = "idle"
      BY <1>1, <2>1 DEF Continue, Place, Idle
    <3>2. QED
      BY <3>1 DEF Goes
  <2>2. CASE l.left # {}
    <3>1. PICK q : q = [at |-> "ask", rp |-> l.rp, left |-> l.left]
      OBVIOUS
    <3>2. q \in Place /\ q.at = "ask" /\ q.rp = l.rp /\ Goes(n, q)
      BY <1>1, <1>3, <2>2, <3>1 DEF Continue, Place
    <3>3. QED
      BY <3>2 DEF Goes
  <2>3. QED
    BY <2>1, <2>2
<1>5. loop \in [Nodes -> Place]
  BY DEF IInv, TypeOK
<1>6. Settled' => LoopsCounted'
  <2>1. SUFFICES ASSUME Settled' PROVE LoopsCounted'
    OBVIOUS
  <2>2. Settled /\ stored \subseteq stored' /\ UNCHANGED epoch
    BY <1>1, <1>2, <2>1, SettledBack DEF CreateFile
  <2>3. \A x \in Nodes \ {n} : LoopCounted(x)'
    BY <1>4, <1>5, <2>2, LoopStays DEF IInv
  <2>4. Counted(n, l.rp)'
    BY <1>1, <1>2, <2>2, Grows DEF IInv, LoopCounted
  <2>5. loop'[n] = q
    BY <1>4, <1>5
  <2>6. LoopCounted(n)'
    BY <1>4, <2>4, <2>5 DEF LoopCounted
  <2>7. QED
    BY <2>3, <2>6 DEF LoopsCounted
<1>7. /\ up' \subseteq Nodes /\ tmps' \subseteq Nodes /\ removed' \in [Nodes -> SUBSET IDs]
      /\ DOMAIN nodes' = Nodes /\ loop' \in [Nodes -> Place]
      /\ \A x \in Nodes : IsTable(nodes'[x], Nodes, IDs)
  BY <1>2, <1>4, <1>5 DEF IInv, TypeOK
<1>8. /\ \A x \in Nodes \ up' : loop'[x] = Idle
      /\ \A x \in Nodes : loop'[x] # Idle => loop[x] # Idle
      /\ \A x \in Nodes : loop'[x].at = "send" => loop'[x] = loop[x]
  BY <1>1, <1>2, <1>4, <1>5 DEF IInv, Idle
<1>9. \E y \in stored : y[2] = l.rp.key /\ y[3] # Cut
  BY <1>1, <1>2, SentOrigin
<1>10. l.rp.key \in Keys
  BY <1>3 DEF Replica
<1>11. QED
  BY <1>1, <1>2, <1>3, <1>6, <1>7, <1>8, <1>9, <1>10, StoreInv

LEMMA CrashInv ==
  ASSUME IInv, NEW n \in Nodes, Crash(n) PROVE IInv'
<1>1. /\ up' = up \ {n} /\ nodes' = [nodes EXCEPT ![n] = Empty]
      /\ removed' = [removed EXCEPT ![n] = {}]
      /\ loop' = [loop EXCEPT ![n] = Idle]
      /\ UNCHANGED <<tmps, epoch, gone>>
      /\ spent' \in [puts : Nat, deletes : Nat, upsets : Nat]
  BY SpendType DEF Crash, IInv
<1>2. loop \in [Nodes -> Place] /\ Idle \in Place /\ Idle.at = "idle"
  BY DEF IInv, TypeOK, Place, Idle
<1>3. /\ up' \subseteq Nodes /\ tmps' \subseteq Nodes /\ removed' \in [Nodes -> SUBSET IDs]
      /\ DOMAIN nodes' = Nodes /\ loop' \in [Nodes -> Place]
      /\ \A x \in Nodes : IsTable(nodes'[x], Nodes, IDs)
  BY <1>1, <1>2, EmptyTable DEF IInv, TypeOK
<1>4. /\ \A x \in Nodes \ up' : loop'[x] = Idle
      /\ \A x \in Nodes : loop'[x] # Idle => loop'[x] = loop[x]
      /\ \A x \in Nodes : loop'[x].at # "idle" => loop'[x] = loop[x]
  BY <1>1, <1>2 DEF IInv
<1>5. stored \subseteq stored' /\ Settled' => LoopsCounted'
  <2>1. SUFFICES ASSUME stored \subseteq stored', Settled' PROVE LoopsCounted'
    OBVIOUS
  <2>2. Settled /\ UNCHANGED epoch
    BY <1>1, <2>1, SettledBack
  <2>3. ASSUME NEW x \in Nodes PROVE LoopCounted(x)'
    <3>1. CASE loop'[x].at = "idle"
      BY <3>1 DEF LoopCounted
    <3>2. CASE loop'[x].at # "idle"
      BY <1>4, <2>1, <2>2, <3>2, LoopStays DEF IInv
    <3>3. QED
      BY <3>1, <3>2
  <2>4. QED
    BY <2>3 DEF LoopsCounted
<1>6. CASE UNCHANGED <<volumes, stored>>
  <2>1. UNCHANGED <<idxkeys, files, idxvolumes, replicas, stored>>
    BY <1>6 DEF volumes
  <2>2. TypeOK'
    BY <1>1, <1>3, <2>1 DEF IInv, TypeOK
  <2>3. Resting' /\ Origin'
    BY <1>4, <2>1 DEF IInv, Resting, Origin
  <2>4. AllHeld'
    <3>1. SUFFICES ASSUME NEW x \in Nodes PROVE HeldStored(x)'
      BY DEF AllHeld
    <3>2. HeldStored(x) /\ ID(x)' = ID(x)
      BY <1>1 DEF IInv, ID
    <3>3. loop'[x].at = "send" => loop'[x] = loop[x]
      BY <1>4
    <3>4. QED
      BY <2>1, <3>2, <3>3 DEF HeldStored
  <2>5. Settled' => VolumesCounted'
    BY <1>1, <2>1, SettledBack, VolumeStays DEF IInv, VolumesCounted
  <2>6. QED
    BY <1>5, <2>1, <2>2, <2>3, <2>4, <2>5
    DEF IInv, Resting, Origin, AllHeld, VolumesCounted, LoopsCounted
<1>7. CASE /\ loop[n].at = "send" /\ loop[n].to \in up \cap tmps
           /\ CreateFile(loop[n].to, loop[n].rp.key, Cut, 1)
  <2>1. loop[n].to \in Nodes /\ loop[n].rp.key \in Keys /\ Cut \in Signatures
    BY <1>7, PlaceParts DEF IInv, Replica, Signatures
  <2>2. stored \subseteq stored'
    BY <1>7 DEF CreateFile
  <2>3. /\ \A x \in Nodes : loop'[x] # Idle => loop[x] # Idle
        /\ \A x \in Nodes : loop'[x].at = "send" => loop'[x] = loop[x]
    BY <1>4
  <2>4. \E y \in stored : y[2] = loop[n].rp.key /\ y[3] # Cut
    BY <1>7, SentOrigin
  <2>5. QED
    BY <1>1, <1>3, <1>4, <1>5, <1>7, <2>1, <2>2, <2>3, <2>4, StoreInv
<1>8. QED
  BY <1>6, <1>7 DEF Crash

(* Telling a volume what its row lists: the row of the key is the row of   *)
(* the content, since the volume stored that content under that key.       *)
LEMMA TellInv ==
  ASSUME IInv, NEW n \in Nodes, Tell(n) PROVE IInv'
<1>1. PICK l, q : l = loop[n] /\ q = [l EXCEPT !.tell = Tail(@)] /\ Goes(n, q)
  BY DEF Tell
<1>2. /\ n \in up /\ l.at = "tell" /\ l.tell # <<>>
      /\ UNCHANGED <<up, tmps, epoch, idxkeys, replicas, nodes, removed, gone, spent, stored>>
  BY <1>1 DEF Tell, At, members
<1>3. /\ l \in [at : {"tell"}, rp : Replica, left : SUBSET Nodes, vid : IDs,
                tell : Seq(IDs)]
      /\ loop \in [Nodes -> Place]
  <2>1. loop \in [Nodes -> Place]
    BY DEF IInv, TypeOK
  <2>2. l \in Place
    BY <1>1, <2>1
  <2>3. QED
    BY <1>2, <2>1, <2>2 DEF Place, Idle
<1>4. Tail(l.tell) \in Seq(IDs)
  BY <1>2, <1>3
<1>5. /\ q \in Place /\ q.at = "tell" /\ q.rp = l.rp /\ q.vid = l.vid
      /\ loop' = [loop EXCEPT ![n] = q]
  BY <1>1, <1>3, <1>4 DEF Place, Goes
<1>6. Resting' /\ Origin'
  BY <1>1, <1>2, <1>3, <1>5 DEF IInv, Resting, Origin, Idle
<1>7. AllHeld'
  <2>1. SUFFICES ASSUME NEW x \in Nodes PROVE HeldStored(x)'
    BY DEF AllHeld
  <2>2. HeldStored(x) /\ ID(x)' = ID(x)
    BY <1>2 DEF IInv, ID
  <2>3. loop'[x].at = "send" => loop'[x] = loop[x]
    BY <1>3, <1>5
  <2>4. QED
    BY <1>2, <2>2, <2>3 DEF HeldStored
<1>8. Settled' => LoopsCounted'
  <2>1. SUFFICES ASSUME Settled' PROVE LoopsCounted'
    OBVIOUS
  <2>2. Settled /\ stored \subseteq stored' /\ UNCHANGED epoch
    BY <1>2, <2>1, SettledBack
  <2>3. \A x \in Nodes \ {n} : LoopCounted(x)'
    BY <1>3, <1>5, <2>2, LoopStays DEF IInv
  <2>4. Counted(n, l.rp)' /\ Has(l.vid, l.rp.sig)'
    BY <1>1, <1>2, <2>2, Grows DEF IInv, LoopCounted
  <2>5. loop'[n] = q
    BY <1>3, <1>5
  <2>6. LoopCounted(n)'
    BY <1>5, <2>4, <2>5 DEF LoopCounted
  <2>7. QED
    BY <2>3, <2>6 DEF LoopsCounted
<1>9. ASSUME UNCHANGED <<files, idxvolumes>> PROVE TypeOK' /\ (Settled' => VolumesCounted')
  <2>1. TypeOK'
    BY <1>2, <1>3, <1>5, <1>9 DEF IInv, TypeOK
  <2>2. Settled' => VolumesCounted'
    BY <1>2, <1>9, SettledBack, VolumeStays DEF IInv, VolumesCounted
  <2>3. QED
    BY <2>1, <2>2
<1>10. ASSUME NEW m \in Nodes, Updates(m, l.rp.key, l.rp.vids),
              UpdateFileReplica(m, l.rp.key, l.rp.vids, l.rp.original)
       PROVE  TypeOK' /\ (Settled' => VolumesCounted')
  <2>1. PICK s, row :
          /\ s = idxkeys[m][l.rp.key]
          /\ row = [vids |-> l.rp.vids, replica |-> l.rp.original]
          /\ files' = [files EXCEPT ![m][s] = row]
          /\ idxvolumes' = [idxvolumes EXCEPT ![m] =
                              @ \cup ((ElemsOf(l.rp.vids) \ {ID(m)}) \X {s})]
    BY <1>10 DEF UpdateFileReplica
  <2>2. /\ l.rp.vids \in Seq(IDs) /\ row \in Row /\ row.vids = l.rp.vids
        /\ ElemsOf(l.rp.vids) \subseteq IDs
    <3>1. l.rp.vids \in Seq(IDs) /\ l.rp.original \in Nat
      BY <1>3 DEF Replica
    <3>2. QED
      BY <2>1, <3>1 DEF Row, ElemsOf
  <2>3. /\ s \in DOMAIN files[m] /\ s \in Signatures
        /\ l.rp.key \in DOMAIN idxkeys[m] /\ ID(m) \in ElemsOf(l.rp.vids)
        /\ DOMAIN files = Nodes /\ IsTable(files[m], Signatures, Row)
    BY <1>10, <2>1 DEF Updates, IInv, TypeOK, IsTable
  <2>4. /\ DOMAIN files' = Nodes
        /\ files'[m] = [files[m] EXCEPT ![s] = row]
        /\ \A x \in Nodes \ {m} : files'[x] = files[x]
    BY <2>1, <2>3
  <2>5. /\ DOMAIN files'[m] = DOMAIN files[m] /\ files'[m][s] = row
        /\ \A t \in DOMAIN files[m] \ {s} : files'[m][t] = files[m][t]
    BY <2>3, <2>4
  <2>6. IsTable(files'[m], Signatures, Row)
    BY <2>2, <2>3, <2>4 DEF IsTable
  <2>7. idxvolumes' \in [Nodes -> SUBSET (IDs \X Signatures)]
    <3>1. idxvolumes \in [Nodes -> SUBSET (IDs \X Signatures)]
      BY DEF IInv, TypeOK
    <3>2. QED
      BY <2>1, <2>2, <2>3, <3>1
  <2>8. TypeOK'
    <3>1. \A x \in Nodes : /\ IsTable(idxkeys'[x], Keys, DOMAIN files'[x])
                           /\ IsTable(files'[x], Signatures, Row)
      BY <1>2, <2>4, <2>5, <2>6 DEF IInv, TypeOK
    <3>2. loop' \in [Nodes -> Place]
      BY <1>3, <1>5
    <3>3. QED
      BY <1>2, <2>4, <2>7, <3>1, <3>2 DEF IInv, TypeOK
  <2>9. ASSUME Settled' PROVE VolumesCounted'
    <3>1. Settled /\ stored \subseteq stored' /\ UNCHANGED epoch
      BY <1>2, <2>9, SettledBack
    <3>2. Counted(n, l.rp)
      BY <1>1, <1>2, <3>1 DEF IInv, LoopCounted
    <3>3. s = l.rp.sig /\ s # Cut
      <4>1. <<ID(m), l.rp.key, s>> \in stored
        BY <2>1, <2>3 DEF IInv, HeldStored
      <4>2. QED
        BY <3>1, <3>2, <4>1 DEF Settled, Counted
    <3>4. \A x \in Nodes \ {m} : VolumeCounted(x)'
      <4>1. \A x \in Nodes \ {m} : idxvolumes'[x] = idxvolumes[x]
        BY <2>1 DEF IInv, TypeOK
      <4>2. QED
        BY <1>2, <2>4, <3>1, <4>1, VolumeStays DEF IInv
    <3>5. VolumeCounted(m)'
      <4>1. VolumeCounted(m)
        BY <3>1 DEF IInv
      <4>2. \A t \in DOMAIN files'[m] \ {Cut} :
              \A v \in ElemsOf(files'[m][t].vids) : Has(v, t)'
        <5>1. \A t \in DOMAIN files[m] \ {Cut} :
                \A v \in ElemsOf(files[m][t].vids) : Has(v, t)'
          BY <3>1, <4>1, Grows DEF VolumeCounted
        <5>2. \A v \in ElemsOf(row.vids) : Has(v, s)'
          BY <2>2, <3>1, <3>2, <3>3, Grows DEF Counted
        <5>3. QED
          BY <2>5, <5>1, <5>2
      <4>3. \A rp \in ElemsOf(replicas'[m]) : Counted(m, rp)'
        BY <1>2, <3>1, <4>1, Grows DEF VolumeCounted
      <4>4. \A p \in idxvolumes'[m] : p[2] # Cut
        <5>1. idxvolumes'[m]
                = idxvolumes[m] \cup ((ElemsOf(l.rp.vids) \ {ID(m)}) \X {s})
          BY <2>1 DEF IInv, TypeOK
        <5>2. QED
          BY <3>3, <4>1, <5>1 DEF VolumeCounted
      <4>5. QED
        BY <4>2, <4>3, <4>4 DEF VolumeCounted
    <3>6. QED
      BY <3>4, <3>5 DEF VolumesCounted
  <2>10. QED
    BY <2>8, <2>9
<1>11. TypeOK' /\ (Settled' => VolumesCounted')
  <2>1. \/ UNCHANGED <<files, idxvolumes>>
        \/ \E m \in Nodes : /\ Updates(m, l.rp.key, l.rp.vids)
                            /\ UpdateFileReplica(m, l.rp.key, l.rp.vids, l.rp.original)
    BY <1>1 DEF Tell, NodesWith, IInv, TypeOK, IsTable
  <2>2. QED
    BY <1>9, <1>10, <2>1
<1>12. QED
  BY <1>6, <1>7, <1>8, <1>11
  DEF IInv, Resting, Origin, AllHeld, VolumesCounted, LoopsCounted

(* The replica that was made, with the new volume in the row of the master. *)
LEMMA UpdateReplicaInv ==
  ASSUME IInv, NEW n \in Nodes, UpdateReplica(n) PROVE IInv'
<1>1. PICK rp, v, row :
        /\ rp = loop[n].rp /\ v = loop[n].vid /\ rp.sig \in DOMAIN files[n]
        /\ row = [vids |-> Append(files[n][rp.sig].vids, v), replica |-> rp.original]
        /\ files' = [files EXCEPT ![n][rp.sig] = row]
        /\ idxvolumes' = [idxvolumes EXCEPT ![n] = @ \cup {<<v, rp.sig>>}]
        /\ replicas' = [replicas EXCEPT ![n] =
                          IF rp.count - 1 > 0
                          THEN Append(Tail(@), [rp EXCEPT !.count = @ - 1])
                          ELSE Tail(@)]
  BY DEF UpdateReplica
<1>2. /\ n \in up /\ loop[n].at = "tell" /\ loop' = [loop EXCEPT ![n] = Idle]
      /\ UNCHANGED <<up, tmps, epoch, idxkeys, nodes, removed, gone, spent, stored>>
  BY DEF UpdateReplica, At, Goes, members
<1>3. /\ rp \in Replica /\ v \in IDs
      /\ rp.sig \in Signatures /\ rp.original \in Nat /\ rp.count \in Int
  BY <1>1, <1>2, PlaceParts DEF IInv, Replica
<1>4. /\ DOMAIN files = Nodes /\ IsTable(files[n], Signatures, Row)
      /\ loop \in [Nodes -> Place] /\ Idle \in Place /\ Idle.at = "idle"
      /\ idxvolumes \in [Nodes -> SUBSET (IDs \X Signatures)]
      /\ replicas \in [Nodes -> Seq(Replica)] /\ replicas[n] # <<>>
  BY <1>2 DEF IInv, TypeOK, Place, Idle
<1>5. files[n][rp.sig].vids \in Seq(IDs)
  BY <1>1, <1>4 DEF IsTable, Row
<1>6. /\ Append(files[n][rp.sig].vids, v) \in Seq(IDs)
      /\ ElemsOf(Append(files[n][rp.sig].vids, v))
           = ElemsOf(files[n][rp.sig].vids) \cup {v}
  BY <1>3, <1>5, AppendElems
<1>7. row \in Row /\ ElemsOf(row.vids) = ElemsOf(files[n][rp.sig].vids) \cup {v}
  BY <1>1, <1>3, <1>6 DEF Row
<1>8. /\ DOMAIN files' = Nodes
      /\ files'[n] = [files[n] EXCEPT ![rp.sig] = row]
      /\ \A x \in Nodes \ {n} : files'[x] = files[x]
  BY <1>1, <1>4
<1>9. /\ DOMAIN files'[n] = DOMAIN files[n] /\ files'[n][rp.sig] = row
      /\ \A t \in DOMAIN files[n] \ {rp.sig} : files'[n][t] = files[n][t]
      /\ IsTable(files'[n], Signatures, Row)
  BY <1>1, <1>4, <1>7, <1>8 DEF IsTable
<1>10. PICK less : /\ less = [rp EXCEPT !.count = @ - 1] /\ less \in Replica
                   /\ less.key = rp.key /\ less.sig = rp.sig /\ less.vids = rp.vids
  <2>1. PICK less : less = [rp EXCEPT !.count = @ - 1]
    OBVIOUS
  <2>2. /\ less \in Replica
        /\ less.key = rp.key /\ less.sig = rp.sig /\ less.vids = rp.vids
    BY <1>3, <2>1 DEF Replica
  <2>3. QED
    BY <2>1, <2>2
<1>11. /\ replicas' \in [Nodes -> Seq(Replica)]
       /\ \A x \in Nodes \ {n} : replicas'[x] = replicas[x]
       /\ ElemsOf(replicas'[n]) \subseteq ElemsOf(replicas[n]) \cup {less}
  <2>1. PICK rest : rest = Tail(replicas[n])
    OBVIOUS
  <2>2. rest \in Seq(Replica) /\ ElemsOf(rest) \subseteq ElemsOf(replicas[n])
    <3>1. replicas[n] \in Seq(Replica)
      BY <1>4
    <3>2. /\ rest \in Seq(Replica)
          /\ \A i \in DOMAIN rest : i + 1 \in DOMAIN replicas[n] /\ rest[i] = replicas[n][i + 1]
      BY <1>4, <2>1, <3>1
    <3>3. QED
      BY <3>2 DEF ElemsOf
  <2>3. /\ Append(rest, less) \in Seq(Replica)
        /\ ElemsOf(Append(rest, less)) = ElemsOf(rest) \cup {less}
    BY <1>10, <2>2, AppendElems
  <2>4. replicas' = [replicas EXCEPT ![n] =
                       IF rp.count - 1 > 0 THEN Append(rest, less) ELSE rest]
    BY <1>1, <1>10, <2>1
  <2>5. QED
    BY <1>4, <2>2, <2>3, <2>4
<1>12. TypeOK'
  <2>1. \A x \in Nodes : /\ IsTable(idxkeys'[x], Keys, DOMAIN files'[x])
                         /\ IsTable(files'[x], Signatures, Row)
    BY <1>2, <1>8, <1>9 DEF IInv, TypeOK
  <2>2. loop' \in [Nodes -> Place]
    BY <1>2, <1>4
  <2>3. idxvolumes' \in [Nodes -> SUBSET (IDs \X Signatures)]
    <3>1. PICK ix : ix = idxvolumes[n] \cup {<<v, rp.sig>>}
      OBVIOUS
    <3>2. ix \in SUBSET (IDs \X Signatures)
      BY <1>3, <1>4, <3>1
    <3>3. idxvolumes' = [idxvolumes EXCEPT ![n] = ix]
      BY <1>1, <3>1
    <3>4. QED
      BY <1>4, <3>2, <3>3
  <2>4. QED
    BY <1>2, <1>8, <1>11, <2>1, <2>2, <2>3 DEF IInv, TypeOK
<1>13. Resting' /\ Origin'
  BY <1>2, <1>4, <1>11 DEF IInv, Resting, Origin
<1>14. AllHeld'
  <2>1. SUFFICES ASSUME NEW x \in Nodes PROVE HeldStored(x)'
    BY DEF AllHeld
  <2>2. HeldStored(x) /\ ID(x)' = ID(x)
    BY <1>2 DEF IInv, ID
  <2>3. loop'[x].at = "send" => loop'[x] = loop[x]
    BY <1>2, <1>4
  <2>4. QED
    BY <1>2, <2>2, <2>3 DEF HeldStored
<1>15. Settled' => VolumesCounted' /\ LoopsCounted'
  <2>1. SUFFICES ASSUME Settled' PROVE VolumesCounted' /\ LoopsCounted'
    OBVIOUS
  <2>2. Settled /\ stored \subseteq stored' /\ UNCHANGED epoch
    BY <1>2, <2>1, SettledBack
  <2>3. \A x \in Nodes \ {n} : LoopCounted(x)'
    BY <1>2, <1>4, <2>2, LoopStays DEF IInv
  <2>4. LoopCounted(n)'
    BY <1>2, <1>4 DEF LoopCounted
  <2>5. \A x \in Nodes \ {n} : VolumeCounted(x)'
    <3>1. \A x \in Nodes \ {n} : idxvolumes'[x] = idxvolumes[x]
      BY <1>1, <1>4
    <3>2. QED
      BY <1>8, <1>11, <2>2, <3>1, VolumeStays DEF IInv
  <2>6. VolumeCounted(n)'
    <3>1. /\ VolumeCounted(n) /\ Counted(n, rp) /\ Has(v, rp.sig)
      BY <1>1, <1>2, <2>2 DEF IInv, LoopCounted
    <3>2. \A t \in DOMAIN files'[n] \ {Cut} :
            \A w \in ElemsOf(files'[n][t].vids) : Has(w, t)'
      <4>1. \A t \in DOMAIN files[n] \ {Cut} :
              \A w \in ElemsOf(files[n][t].vids) : Has(w, t)'
        BY <2>2, <3>1, Grows DEF VolumeCounted
      <4>2. Has(v, rp.sig)'
        BY <2>2, <3>1, Grows
      <4>3. \A w \in ElemsOf(files'[n][rp.sig].vids) : Has(w, rp.sig)' \/ rp.sig = Cut
        <5>1. ElemsOf(files'[n][rp.sig].vids)
                = ElemsOf(files[n][rp.sig].vids) \cup {v}
          BY <1>7, <1>9
        <5>2. QED
          BY <1>1, <4>1, <4>2, <5>1
      <4>4. QED
        BY <1>9, <4>1, <4>3
    <3>3. \A q \in ElemsOf(replicas'[n]) : Counted(n, q)'
      <4>1. Counted(n, less)
        BY <1>10, <3>1 DEF Counted
      <4>2. QED
        BY <1>11, <2>2, <3>1, <4>1, Grows DEF VolumeCounted
    <3>4. \A p \in idxvolumes'[n] : p[2] # Cut
      <4>1. idxvolumes'[n] = idxvolumes[n] \cup {<<v, rp.sig>>}
        BY <1>1, <1>4
      <4>2. QED
        BY <3>1, <4>1 DEF VolumeCounted, Counted
    <3>5. QED
      BY <3>2, <3>3, <3>4 DEF VolumeCounted
  <2>7. QED
    BY <2>3, <2>4, <2>5, <2>6 DEF VolumesCounted, LoopsCounted
<1>16. QED
  BY <1>12, <1>13, <1>14, <1>15
  DEF IInv, Resting, Origin, AllHeld, VolumesCounted, LoopsCounted

-----------------------------------------------------------------------------
(* The steps of the nodes. *)

(* A step that changes nothing of the volumes and of the loops. *)
LEMMA MembersInv ==
  ASSUME IInv, UNCHANGED <<epoch, volumes, loop, spent, stored>>,
         up \subseteq up', up' \subseteq Nodes, tmps' \subseteq Nodes, DOMAIN nodes' = Nodes,
         \A n \in Nodes : IsTable(nodes'[n], Nodes, IDs),
         removed' \in [Nodes -> SUBSET IDs], gone' \subseteq Nodes \X IDs
  PROVE  IInv'
<1>1. UNCHANGED <<epoch, idxkeys, files, idxvolumes, replicas, loop, spent, stored>>
  BY DEF volumes
<1>2. TypeOK'
  BY <1>1 DEF IInv, TypeOK
<1>3. Resting' /\ Origin'
  BY <1>1 DEF IInv, Resting, Origin
<1>4. AllHeld'
  BY <1>1 DEF IInv, AllHeld, HeldStored, ID
<1>5. Settled' => VolumesCounted' /\ LoopsCounted'
  BY <1>1, SettledBack, VolumeStays, LoopStays DEF IInv, VolumesCounted, LoopsCounted
<1>6. QED
  BY <1>2, <1>3, <1>4, <1>5
  DEF IInv, Resting, Origin, AllHeld, VolumesCounted, LoopsCounted

LEMMA NotifyJoinInv ==
  ASSUME IInv, NEW n \in Nodes, NEW m \in Nodes, NotifyJoin(n, m) PROVE IInv'
<1>1. /\ nodes' = [nodes EXCEPT ![n] = Put(@, m, ID(m))]
      /\ removed' = [removed EXCEPT ![n] = @ \ {ID(m)}]
      /\ UNCHANGED <<up, tmps, epoch, volumes, loop, spent, stored, gone>>
  BY DEF NotifyJoin
<1>2. IsTable(Put(nodes[n], m, ID(m)), Nodes, IDs)
  BY IDType, PutTable DEF IInv, TypeOK
<1>3. /\ DOMAIN nodes' = Nodes /\ removed' \in [Nodes -> SUBSET IDs]
      /\ \A x \in Nodes : IsTable(nodes'[x], Nodes, IDs)
  BY <1>1, <1>2 DEF IInv, TypeOK
<1>4. up \subseteq up' /\ up' \subseteq Nodes /\ tmps' \subseteq Nodes /\ gone' \subseteq Nodes \X IDs
  BY <1>1 DEF IInv, TypeOK
<1>5. QED
  BY <1>1, <1>3, <1>4, MembersInv

LEMMA NotifyLeaveInv ==
  ASSUME IInv, NEW n \in Nodes, NEW m \in Nodes, NotifyLeave(n, m) PROVE IInv'
<1>1. /\ nodes' = [nodes EXCEPT ![n] = Drop(@, m)]
      /\ removed' = [removed EXCEPT ![n] = @ \cup {nodes[n][m]}]
      /\ m \in DOMAIN nodes[n]
      /\ UNCHANGED <<up, tmps, epoch, volumes, loop, spent, stored, gone>>
  BY DEF NotifyLeave
<1>2. IsTable(nodes[n], Nodes, IDs)
  BY DEF IInv, TypeOK
<1>3. IsTable(Drop(nodes[n], m), Nodes, IDs) /\ nodes[n][m] \in IDs
  BY <1>1, <1>2 DEF IsTable, Drop
<1>4. /\ DOMAIN nodes' = Nodes /\ removed' \in [Nodes -> SUBSET IDs]
      /\ \A x \in Nodes : IsTable(nodes'[x], Nodes, IDs)
  BY <1>1, <1>3 DEF IInv, TypeOK
<1>5. up \subseteq up' /\ up' \subseteq Nodes /\ tmps' \subseteq Nodes /\ gone' \subseteq Nodes \X IDs
  BY <1>1 DEF IInv, TypeOK
<1>6. QED
  BY <1>1, <1>4, <1>5, MembersInv

LEMMA StartInv ==
  ASSUME IInv, NEW n \in Nodes, Start(n) PROVE IInv'
<1>1. /\ UNCHANGED <<epoch, volumes, loop, spent, stored>>
      /\ UNCHANGED <<nodes, removed, gone>> /\ up' = up \cup {n} /\ tmps' = tmps \cup {n}
  BY DEF Start
<1>2. /\ up \subseteq up' /\ up' \subseteq Nodes /\ tmps' \subseteq Nodes /\ DOMAIN nodes' = Nodes
      /\ \A x \in Nodes : IsTable(nodes'[x], Nodes, IDs)
      /\ removed' \in [Nodes -> SUBSET IDs] /\ gone' \subseteq Nodes \X IDs
  BY <1>1 DEF IInv, TypeOK
<1>3. QED
  BY <1>1, <1>2, MembersInv

(* A volume that is reset lists nothing, and the others keep their ID. *)
LEMMA StartResetInv ==
  ASSUME IInv, NEW n \in Nodes, StartReset(n) PROVE IInv'
<1>1. /\ n \notin up /\ up' = up \cup {n} /\ tmps' = tmps \ {n} /\ epoch' = [epoch EXCEPT ![n] = @ + 1]
      /\ idxkeys' = [idxkeys EXCEPT ![n] = Empty]
      /\ files' = [files EXCEPT ![n] = Empty]
      /\ idxvolumes' = [idxvolumes EXCEPT ![n] = {}]
      /\ replicas' = [replicas EXCEPT ![n] = <<>>]
      /\ UNCHANGED <<nodes, removed, gone, loop, spent, stored>>
  BY DEF StartReset, members
<1>2. /\ epoch \in [Nodes -> Nat] /\ DOMAIN idxkeys = Nodes /\ DOMAIN files = Nodes
      /\ idxvolumes \in [Nodes -> SUBSET (IDs \X Signatures)]
      /\ replicas \in [Nodes -> Seq(Replica)]
      /\ loop[n] = Idle
  BY <1>1 DEF IInv, TypeOK
<1>3. /\ idxkeys'[n] = Empty /\ files'[n] = Empty /\ idxvolumes'[n] = {}
      /\ replicas'[n] = <<>> /\ loop'[n] = Idle
      /\ \A x \in Nodes \ {n} :
           /\ idxkeys'[x] = idxkeys[x] /\ files'[x] = files[x]
           /\ idxvolumes'[x] = idxvolumes[x] /\ replicas'[x] = replicas[x]
           /\ ID(x)' = ID(x) /\ loop'[x] = loop[x]
  BY <1>1, <1>2 DEF ID
<1>4. TypeOK'
  <2>1. /\ DOMAIN idxkeys' = Nodes /\ DOMAIN files' = Nodes /\ epoch' \in [Nodes -> Nat]
        /\ idxvolumes' \in [Nodes -> SUBSET (IDs \X Signatures)]
        /\ replicas' \in [Nodes -> Seq(Replica)]
    BY <1>1, <1>2
  <2>2. \A x \in Nodes : /\ IsTable(idxkeys'[x], Keys, DOMAIN files'[x])
                         /\ IsTable(files'[x], Signatures, Row)
    <3>1. \A D, R : IsTable(Empty, D, R)
      BY EmptyTable
    <3>2. \A x \in Nodes : /\ IsTable(idxkeys[x], Keys, DOMAIN files[x])
                           /\ IsTable(files[x], Signatures, Row)
      BY DEF IInv, TypeOK
    <3>3. QED
      BY <1>3, <3>1, <3>2, Zenon
  <2>3. QED
    BY <1>1, <2>1, <2>2 DEF IInv, TypeOK
<1>5. Resting' /\ Origin'
  BY <1>1, <1>2, <1>3 DEF IInv, Resting, Origin
<1>6. AllHeld'
  <2>1. \A x \in Nodes \ {n} : HeldStored(x)'
    BY <1>1, <1>3 DEF IInv, HeldStored
  <2>2. DOMAIN idxkeys'[n] = {} /\ loop'[n].at = "idle"
    BY <1>3, EmptyTable DEF Idle
  <2>3. HeldStored(n)'
    BY <2>2 DEF HeldStored
  <2>4. QED
    BY <2>1, <2>3 DEF AllHeld
<1>7. Settled' => VolumesCounted' /\ LoopsCounted'
  <2>1. SUFFICES ASSUME Settled' PROVE VolumesCounted' /\ LoopsCounted'
    OBVIOUS
  <2>2. Settled
    BY <1>1, <2>1, SettledBack
  <2>3. \A v, s : Has(v, s) => Has(v, s)'
    BY <1>1 DEF Has
  <2>4. \A x \in Nodes \ {n} : \A rp : Counted(x, rp) => Counted(x, rp)'
    <3>1. SUFFICES ASSUME NEW x \in Nodes \ {n}, NEW rp, Counted(x, rp)
                   PROVE  Counted(x, rp)'
      OBVIOUS
    <3>2. ID(x)' = ID(x)
      BY <1>3
    <3>3. QED
      BY <1>1, <2>3, <3>1, <3>2 DEF Counted
  <2>5. ASSUME NEW x \in Nodes \ {n} PROVE VolumeCounted(x)' /\ LoopCounted(x)'
    <3>1. VolumeCounted(x) /\ LoopCounted(x)
      BY <2>2 DEF IInv
    <3>2. QED
      BY <1>3, <2>3, <2>4, <3>1 DEF VolumeCounted, LoopCounted
  <2>6. VolumeCounted(n)'
    <3>1. DOMAIN files'[n] = {} /\ ElemsOf(replicas'[n]) = {}
      BY <1>3, EmptyTable DEF ElemsOf
    <3>2. QED
      BY <1>3, <3>1 DEF VolumeCounted
  <2>7. LoopCounted(n)'
    BY <1>3 DEF LoopCounted, Idle
  <2>8. QED
    BY <2>5, <2>6, <2>7 DEF VolumesCounted, LoopsCounted
<1>8. QED
  BY <1>4, <1>5, <1>6, <1>7
  DEF IInv, Resting, Origin, AllHeld, VolumesCounted, LoopsCounted

(* The replicas queued for a volume that went list volumes of the row. *)
LEMMA GiveUpInv ==
  ASSUME IInv, NEW n \in Nodes, NEW v \in removed[n], GiveUp(n, v) PROVE IInv'
<1>1. /\ removed' = [removed EXCEPT ![n] = @ \ {v}]
      /\ gone' = gone \cup {<<n, v>>}
      /\ UNCHANGED <<up, tmps, epoch, idxkeys, files, idxvolumes, nodes, loop, spent, stored>>
  BY DEF GiveUp
<1>2. /\ removed' \in [Nodes -> SUBSET IDs] /\ gone' \subseteq Nodes \X IDs
      /\ up \subseteq up' /\ up' \subseteq Nodes /\ tmps' \subseteq Nodes /\ DOMAIN nodes' = Nodes
      /\ \A x \in Nodes : IsTable(nodes'[x], Nodes, IDs)
  BY <1>1 DEF IInv, TypeOK
<1>3. CASE UNCHANGED replicas
  <2>1. UNCHANGED volumes
    BY <1>1, <1>3 DEF volumes
  <2>2. QED
    BY <1>1, <1>2, <2>1, MembersInv
<1>4. CASE SignaturesOf(n, v) \subseteq DOMAIN files[n]
  <2> DEFINE S == Inherited(n, v)
             Entry(s, k) ==
               [key |-> k, sig |-> s,
                count |-> files[n][s].replica - Len(DeleteVolumeID(files[n][s].vids, v)),
                original |-> files[n][s].replica,
                vids |-> DeleteVolumeID(files[n][s].vids, v)]
  <2>1. PICK order \in Orders(S), name \in [S -> DOMAIN idxkeys[n]] :
          /\ \A s \in S : idxkeys[n][name[s]] = s
          /\ replicas' = [replicas EXCEPT ![n] = @ \o
               [i \in 1..Len(order) |-> Entry(order[i], name[order[i]])]]
    BY <1>4 DEF GiveUp
  <2>2. /\ S \subseteq SignaturesOf(n, v) /\ S \subseteq DOMAIN files[n]
        /\ S \subseteq Signatures /\ IsFiniteSet(S)
    <3>1. IsFiniteSet(Signatures)
      <4>1. Signatures = Contents \cup {Cut}
        BY DEF Signatures
      <4>2. QED
        BY <4>1, ContentsAssumption, FS_AddElement
    <3>2. S \subseteq SignaturesOf(n, v) /\ S \subseteq DOMAIN files[n]
      BY DEF Inherited
    <3>3. S \subseteq Signatures
      BY <3>2 DEF IInv, TypeOK, IsTable
    <3>4. QED
      BY <3>1, <3>2, <3>3, FS_Subset
  <2>3. order \in Seq(S) /\ Len(order) \in Nat /\ \A i \in 1..Len(order) : order[i] \in S
    <3>1. PICK c \in Nat : c = Cardinality(S)
      BY <2>2, FS_CardinalityType
    <3>2. order \in [1..c -> S]
      BY <3>1 DEF Orders
    <3>3. order \in Seq(S) /\ Len(order) = c
      BY <3>1, <3>2
    <3>4. QED
      BY <3>1, <3>2, <3>3
  <2>4. ASSUME NEW s \in S
        PROVE  /\ Entry(s, name[s]) \in Replica
               /\ Settled => Counted(n, Entry(s, name[s]))
    <3>1. /\ s \in DOMAIN files[n] /\ s \in Signatures
          /\ files[n][s].vids \in Seq(IDs) /\ files[n][s].replica \in Nat
      BY <2>2 DEF IInv, TypeOK, IsTable, Row
    <3>2. PICK l \in Seq(IDs) :
            /\ l = DeleteVolumeID(files[n][s].vids, v)
            /\ ElemsOf(l) \subseteq ElemsOf(files[n][s].vids)
      BY <3>1, DeleteVolumeIDType, DeleteVolumeIDElems
    <3>3. name[s] \in DOMAIN idxkeys[n] /\ name[s] \in Keys /\ idxkeys[n][name[s]] = s
      BY <2>1 DEF IInv, TypeOK, IsTable
    <3>4. PICK rp : rp = [key |-> name[s], sig |-> s,
                          count |-> files[n][s].replica - Len(l),
                          original |-> files[n][s].replica, vids |-> l]
      OBVIOUS
    <3>5. Entry(s, name[s]) = rp
      BY <3>2, <3>4
    <3>6. rp \in Replica
      <4>1. Len(l) \in Nat
        BY LenProperties
      <4>2. QED
        BY <3>1, <3>3, <3>4, <4>1 DEF Replica
    <3>7. ASSUME Settled PROVE Counted(n, rp)
      <4>1. VolumeCounted(n) /\ HeldStored(n)
        BY <3>7 DEF IInv
      <4>2. s # Cut
        <5>1. PICK p \in idxvolumes[n] : p[2] = s
          BY <2>2 DEF SignaturesOf
        <5>2. QED
          BY <4>1, <5>1 DEF VolumeCounted
      <4>3. <<ID(n), name[s], s>> \in stored
        BY <3>3, <4>1 DEF HeldStored
      <4>4. \A w \in ElemsOf(l) : Has(w, s)
        BY <3>1, <3>2, <4>1, <4>2 DEF VolumeCounted
      <4>5. rp.key = name[s] /\ rp.sig = s /\ rp.vids = l
        BY <3>4
      <4>6. QED
        BY <4>2, <4>3, <4>4, <4>5 DEF Counted
    <3>8. QED
      BY <3>5, <3>6, <3>7
  <2>5. PICK new : new = [i \in 1..Len(order) |-> Entry(order[i], name[order[i]])]
    OBVIOUS
  <2>6. \A i \in 1..Len(order) : /\ new[i] \in Replica
                                 /\ Settled => Counted(n, new[i])
    <3>1. SUFFICES ASSUME NEW i \in 1..Len(order)
                   PROVE  new[i] \in Replica /\ (Settled => Counted(n, new[i]))
      OBVIOUS
    <3>2. new[i] = Entry(order[i], name[order[i]]) /\ order[i] \in S
      BY <2>3, <2>5
    <3> HIDE DEF Entry, S
    <3>3. QED
      BY <2>4, <3>2
  <2>7. new \in Seq(Replica) /\ DOMAIN new = 1..Len(order)
    <3>1. Len(order) \in Nat
      BY <2>3
    <3>2. DOMAIN new = 1..Len(order)
      BY <2>5
    <3> HIDE DEF Entry, S
    <3>3. new \in [1..Len(order) -> Replica]
      BY <2>5, <2>6
    <3>4. QED
      BY <3>1, <3>2, <3>3
  <2>8. /\ replicas \in [Nodes -> Seq(Replica)]
        /\ replicas' = [replicas EXCEPT ![n] = @ \o new]
    BY <2>1, <2>5 DEF IInv, TypeOK
  <2> HIDE DEF Entry, S
  <2>9. /\ replicas[n] \o new \in Seq(Replica)
        /\ replicas[n] # <<>> => replicas[n] \o new # <<>>
        /\ ElemsOf(replicas[n] \o new) \subseteq ElemsOf(replicas[n]) \cup ElemsOf(new)
    BY <2>7, <2>8, ConcatElems
  <2>10. /\ replicas' \in [Nodes -> Seq(Replica)]
         /\ \A x \in Nodes : replicas[x] # <<>> => replicas'[x] # <<>>
         /\ \A x \in Nodes \ {n} : replicas'[x] = replicas[x]
         /\ ElemsOf(replicas'[n]) \subseteq ElemsOf(replicas[n]) \cup ElemsOf(new)
    BY <2>8, <2>9
  <2>11. TypeOK'
    BY <1>1, <1>2, <2>10 DEF IInv, TypeOK
  <2>12. Resting' /\ Origin'
    BY <1>1, <2>10 DEF IInv, Resting, Origin
  <2>13. AllHeld'
    BY <1>1 DEF IInv, AllHeld, HeldStored, ID
  <2>14. Settled' => VolumesCounted' /\ LoopsCounted'
    <3>1. SUFFICES ASSUME Settled' PROVE VolumesCounted' /\ LoopsCounted'
      OBVIOUS
    <3>2. Settled /\ stored \subseteq stored' /\ UNCHANGED epoch
      BY <1>1, <3>1, SettledBack
    <3>3. LoopsCounted'
      BY <1>1, <3>2, LoopStays DEF IInv, LoopsCounted
    <3>4. \A x \in Nodes \ {n} : VolumeCounted(x)'
      BY <1>1, <2>10, <3>2, VolumeStays DEF IInv
    <3>5. \A q \in ElemsOf(replicas'[n]) : Counted(n, q)'
      <4>1. \A q \in ElemsOf(new) : Counted(n, q)
        BY <2>6, <2>7, <3>2 DEF ElemsOf
      <4>2. QED
        BY <2>10, <3>2, <4>1, Grows DEF IInv, VolumeCounted
    <3>6. VolumeCounted(n)'
      BY <1>1, <3>2, <3>5, Grows DEF IInv, VolumeCounted
    <3>7. QED
      BY <3>3, <3>4, <3>6 DEF VolumesCounted
  <2>15. QED
    BY <2>11, <2>12, <2>13, <2>14
    DEF IInv, Resting, Origin, AllHeld, VolumesCounted, LoopsCounted
<1>5. QED
  BY <1>3, <1>4 DEF GiveUp

-----------------------------------------------------------------------------
LEMMA LoopStepInv ==
  ASSUME IInv, NEW n \in Nodes, LoopStep(n) PROVE IInv'
BY NextReplicaInv, AskWantsInv, AskSkipsInv, SendInv, SendUnansweredInv,
   SendFailsInv, TellInv, UpdateReplicaInv, UpdateReplicaFailsInv DEF LoopStep

LEMMA NextInv == IInv /\ [Next]_vars => IInv'
<1> SUFFICES ASSUME IInv, [Next]_vars PROVE IInv'
  OBVIOUS
<1>1. CASE UNCHANGED vars
  <2>1. /\ UNCHANGED <<epoch, volumes, loop, spent, stored>>
        /\ UNCHANGED <<up, tmps, nodes, removed, gone>>
    BY <1>1 DEF vars, members
  <2>2. /\ up \subseteq up' /\ up' \subseteq Nodes /\ tmps' \subseteq Nodes /\ DOMAIN nodes' = Nodes
        /\ \A x \in Nodes : IsTable(nodes'[x], Nodes, IDs)
        /\ removed' \in [Nodes -> SUBSET IDs] /\ gone' \subseteq Nodes \X IDs
    BY <2>1 DEF IInv, TypeOK
  <2>3. QED
    BY <2>1, <2>2, MembersInv
<1>2. QED
  BY <1>1, ClientPutInv, ClientDeleteInv, LoopStepInv, NotifyJoinInv,
     NotifyLeaveInv, GiveUpInv, CrashInv, StartInv, StartResetInv DEF Next

(* The invariant the next theorem follows from: what is queued, sent, told *)
(* and listed was stored where it is said to be.                           *)
THEOREM ClusterInductive == Spec => []IInv
<1>1. Init => IInv
  BY InitInv
<1>2. IInv /\ [Next]_vars => IInv'
  BY NextInv
<1>3. QED
  BY <1>1, <1>2, PTL DEF Spec

(* While every key keeps its content, no row of any volume lists a volume  *)
(* that did not store the content of the row, whatever keys share it,      *)
(* whatever calls fail, are refused or lose their answer, whatever is      *)
(* deleted, and whoever crashes or is reset (the loop of replica.go).      *)
THEOREM ListedAlwaysStored == Spec => []ListedStored
<1>1. IInv => ListedStored
  BY DEF IInv, ListedStored, AllListedStored, VolumeCounted
<1>2. QED
  BY <1>1, ClusterInductive, PTL
=============================================================================
