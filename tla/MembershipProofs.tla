-------------------------- MODULE MembershipProofs --------------------------
(***************************************************************************)
(* Proofs about Membership.  The volumes a NotifyJoin brings back are      *)
(* taken out of the marks before another Notify method can change the      *)
(* nodes; a volume is marked again only by the node that leaves with it.   *)
(***************************************************************************)
EXTENDS Membership, TLAPS

(* Nodes announce volumes of their own, and the volumes a NotifyJoin is    *)
(* bringing back are listed: no NotifyLeave comes in between.              *)
Announced ==
  /\ \A n \in DOMAIN nodes : nodes[n] \in Metas[n]
  /\ joining \subseteq Listed

IInv == TypeOK /\ Announced

(* A NotifyJoin puts the announced volumes in the table of nodes, and they *)
(* are listed from then on.                                                *)
LEMMA PutListed ==
  ASSUME NEW n, NEW volumes
  PROVE  LET t == Put(nodes, n, volumes)
         IN  /\ UNION {t[m] : m \in DOMAIN t} \subseteq Listed \cup volumes
             /\ volumes \subseteq UNION {t[m] : m \in DOMAIN t}
  BY DEF Put, Listed

(* The types hold, and a NotifyJoin stays consistent with the table it     *)
(* wrote, whatever comes between its halves.                               *)
THEOREM Inductive == Spec => []IInv
<1> USE MetasAssumption, TimesAssumption
<1>1. Init => IInv
  <2> SUFFICES ASSUME Init PROVE IInv
    OBVIOUS
  <2>1. DOMAIN nodes = {} /\ DOMAIN members = {} /\ DOMAIN removed = {}
    BY DEF Init, Empty
  <2>2. TypeOK
    BY <2>1 DEF Init, TypeOK, IsTable, Empty
  <2>3. Announced
    BY <2>1 DEF Init, Announced
  <2> QED BY <2>2, <2>3 DEF IInv
<1>2. IInv /\ [Next]_vars => IInv'
  <2> SUFFICES ASSUME IInv, [Next]_vars PROVE IInv'
    OBVIOUS
  <2> USE DEF IInv, TypeOK, Announced, IsTable
  <2>1. CASE Create \/ SetMembers \/ Tick
    <3>1. UNCHANGED <<members, nodes, removed, joining, lost, beside>>
      BY <2>1 DEF Create, SetMembers, Tick
    <3>2. up' \in BOOLEAN /\ ready' \in BOOLEAN /\ (ready' => up')
      <4>1. CASE Create
        BY <4>1 DEF Create
      <4>2. CASE SetMembers
        BY <4>2 DEF SetMembers
      <4>3. CASE Tick
        BY <4>3 DEF Tick
      <4> QED BY <2>1, <4>1, <4>2, <4>3
    <3>3. now' \in Nat
      BY <2>1 DEF Create, SetMembers, Tick
    <3>4. ~ready' => DOMAIN nodes' = {} /\ DOMAIN removed' = {}
      <4>1. CASE Create
        BY <4>1 DEF Create
      <4>2. CASE SetMembers
        BY <4>2 DEF SetMembers
      <4>3. CASE Tick
        BY <4>3 DEF Tick
      <4> QED BY <2>1, <4>1, <4>2, <4>3
    <3>5. TypeOK'
      BY <3>1, <3>2, <3>3, <3>4
    <3>6. Announced'
      BY <3>1 DEF Listed
    <3> QED BY <3>5, <3>6
  <2>2. CASE Crash
    BY <2>2 DEF Crash, Empty, Listed
  <2>3. ASSUME NEW n \in Nodes, NEW volumes \in Metas[n],
               JoinIgnored(n, volumes)
        PROVE  IInv'
    BY <2>3 DEF JoinIgnored, Put, Listed
  <2>4. ASSUME NEW n \in Nodes, NEW volumes \in Metas[n],
               JoinListed(n, volumes)
        PROVE  IInv'
    <3>1. volumes \subseteq VolumeIDs
      OBVIOUS
    <3>2. TypeOK'
      BY <2>4, <3>1 DEF JoinListed, Put
    <3>3. joining' \subseteq Listed'
      BY <2>4, PutListed DEF JoinListed, Listed
    <3>4. \A m \in DOMAIN nodes' : nodes'[m] \in Metas[m]
      BY <2>4 DEF JoinListed, Put
    <3> QED BY <3>2, <3>3, <3>4
  <2>5. CASE JoinBack
    BY <2>5 DEF JoinBack, Back, Without, Listed
  <2>6. ASSUME NEW n \in Nodes, NotifyLeave(n)
        PROVE  IInv'
    <3>1. TypeOK'
      BY <2>6 DEF NotifyLeave, Notifiable, Without
    <3>2. Announced'
      BY <2>6 DEF NotifyLeave, Notifiable, Without, Listed
    <3> QED BY <3>1, <3>2
  <2>7. CASE RemovedVolumeIDs
    BY <2>7 DEF RemovedVolumeIDs, GivenUp, Without, Listed
  <2>8. ASSUME NEW v \in VolumeIDs, Synchronize(v)
        PROVE  IInv'
    BY <2>8 DEF Synchronize, Listed
  <2>9. CASE UNCHANGED vars
    BY <2>9 DEF vars, Listed
  <2> QED
    BY <2>1, <2>2, <2>3, <2>4, <2>5, <2>6, <2>7, <2>8, <2>9 DEF Next
<1> QED
  BY <1>1, <1>2, PTL DEF Spec

(* Every table keeps its type, and no node is listed before New is past    *)
(* Create.                                                                 *)
THEOREM TypeCorrect == Spec => []TypeOK
<1>1. IInv => TypeOK
  BY DEF IInv
<1> QED
  BY <1>1, Inductive, PTL

(* A volume that waits to be given up has not come back: every node listed *)
(* with it had it when it was marked, but while NotifyJoin is between its  *)
(* two locks.                                                              *)
THEOREM WaitersAreAway == Spec => []RemovedAreAway
<1>1. Init => RemovedAreAway
  BY DEF Init, RemovedAreAway, Empty
<1>2. IInv /\ RemovedAreAway /\ [Next]_vars => RemovedAreAway'
  <2> SUFFICES ASSUME IInv, RemovedAreAway, [Next]_vars
               PROVE  RemovedAreAway'
    OBVIOUS
  <2> USE DEF RemovedAreAway
  <2>1. CASE Create \/ SetMembers \/ Tick
    BY <2>1 DEF Create, SetMembers, Tick
  <2>2. CASE Crash
    BY <2>2 DEF Crash, Empty
  <2>3. ASSUME NEW n \in Nodes, NEW volumes \in Metas[n],
               JoinIgnored(n, volumes) \/ JoinListed(n, volumes)
        PROVE  RemovedAreAway'
    <3>1. CASE JoinIgnored(n, volumes)
      BY <3>1 DEF JoinIgnored
    <3>2. CASE JoinListed(n, volumes)
      BY <3>2 DEF JoinListed, Notifiable, Put
    <3> QED BY <2>3, <3>1, <3>2
  <2>4. CASE JoinBack
    BY <2>4 DEF JoinBack, Back, Without
  <2>5. ASSUME NEW n \in Nodes, NotifyLeave(n)
        PROVE  RemovedAreAway'
    <3> DEFINE gone == IF n \in DOMAIN nodes THEN nodes[n] ELSE {}
    <3>1. DOMAIN removed' = DOMAIN removed \cup gone
      BY <2>5 DEF NotifyLeave
    <3>2. SUFFICES ASSUME NEW m \in DOMAIN nodes',
                          NEW v \in (nodes'[m] \cap DOMAIN removed') \ joining'
                   PROVE  m \in beside'[v]
      OBVIOUS
    <3>3. m \in DOMAIN nodes \ {n} /\ nodes'[m] = nodes[m]
      BY <2>5 DEF NotifyLeave, Without
    <3>4. v \in VolumeIDs /\ v \in nodes[m] /\ v \notin joining
      BY <2>5, <3>3 DEF NotifyLeave, IInv, TypeOK, IsTable
    <3>5. CASE v \in gone
      <4>1. beside'[v] = {x \in DOMAIN nodes \ {n} : v \in nodes[x]}
        BY <2>5, <3>4, <3>5 DEF NotifyLeave
      <4> QED BY <3>3, <3>4, <4>1
    <3>6. CASE v \notin gone
      <4>1. beside'[v] = beside[v]
        BY <2>5, <3>4, <3>6 DEF NotifyLeave
      <4>2. v \in DOMAIN removed
        BY <3>1, <3>6
      <4> QED BY <3>3, <3>4, <4>1, <4>2
    <3> QED BY <3>5, <3>6
  <2>6. CASE RemovedVolumeIDs
    BY <2>6 DEF RemovedVolumeIDs, Without
  <2>7. ASSUME NEW v \in VolumeIDs, Synchronize(v)
        PROVE  RemovedAreAway'
    BY <2>7 DEF Synchronize
  <2>8. CASE UNCHANGED vars
    BY <2>8 DEF vars
  <2> QED
    BY <2>1, <2>2, <2>3, <2>4, <2>5, <2>6, <2>7, <2>8 DEF Next
<1> QED
  BY <1>1, <1>2, Inductive, PTL DEF Spec

(* No volume the node knew of goes out of sight before it was passed to    *)
(* the local volumes, unless its node replaces it without leaving.         *)
THEOREM NoneForgotten == Spec => NotForgotten
<1> DEFINE Kept ==
      up' => \A v \in InSight \ InSight' : Synchronize(v) \/ Replaced(v)
<1>1. IInv /\ [Next]_vars => [Kept]_vars
  <2> SUFFICES ASSUME IInv, Next, up', NEW v \in InSight \ InSight'
               PROVE  Synchronize(v) \/ Replaced(v)
    BY DEF InSight
  <2> USE DEF InSight
  <2>1. CASE Create \/ SetMembers \/ Tick
    BY <2>1 DEF Create, SetMembers, Tick, Listed
  <2>2. CASE Crash
    BY <2>2 DEF Crash
  <2>3. ASSUME NEW n \in Nodes, NEW volumes \in Metas[n],
               JoinIgnored(n, volumes)
        PROVE  FALSE
    BY <2>3 DEF JoinIgnored, Listed
  <2>4. ASSUME NEW n \in Nodes, NEW volumes \in Metas[n],
               JoinListed(n, volumes)
        PROVE  Replaced(v)
    <3>1. v \in Listed \ Listed'
      BY <2>4 DEF JoinListed
    <3>2. PICK m \in DOMAIN nodes : v \in nodes[m]
      BY <3>1 DEF Listed
    <3>3. m \in DOMAIN nodes' /\ v \notin nodes'[m]
      BY <2>4, <3>1, <3>2 DEF JoinListed, Put, Listed
    <3> QED BY <3>2, <3>3 DEF Replaced
  <2>5. CASE JoinBack
    <3>1. Listed' = Listed /\ joining \subseteq Listed
      BY <2>5 DEF JoinBack, Listed, IInv, Announced
    <3> QED BY <2>5, <3>1 DEF JoinBack, Back, Without
  <2>6. ASSUME NEW n \in Nodes, NotifyLeave(n)
        PROVE  FALSE
    <3>1. v \notin DOMAIN removed' /\ lost' = lost
      BY <2>6 DEF NotifyLeave
    <3>2. v \in Listed
      BY <2>6, <3>1 DEF NotifyLeave
    <3>3. PICK m \in DOMAIN nodes : v \in nodes[m]
      BY <3>2 DEF Listed
    <3>4. m # n
      BY <2>6, <3>1, <3>3 DEF NotifyLeave
    <3> QED
      BY <2>6, <3>3, <3>4 DEF NotifyLeave, Without, Listed
  <2>7. CASE RemovedVolumeIDs
    BY <2>7 DEF RemovedVolumeIDs, Without, Listed
  <2>8. ASSUME NEW u \in VolumeIDs, Synchronize(u)
        PROVE  Synchronize(v)
    BY <2>8 DEF Synchronize, Listed
  <2> QED
    BY <2>1, <2>2, <2>3, <2>4, <2>5, <2>6, <2>7, <2>8 DEF Next
<1> QED
  BY <1>1, Inductive, PTL DEF Spec, NotForgotten
=============================================================================
