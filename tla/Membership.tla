----------------------------- MODULE Membership -----------------------------
(***************************************************************************)
(* One node's view of the cluster (membership/) and the loop that gives up *)
(* the volumes of the nodes that left (loopRemovedVolumeDIs of             *)
(* storing/replica.go).                                                    *)
(*                                                                         *)
(* The memberlist library tells the node who joins, changes and leaves.    *)
(* It calls one Notify method at a time, under a lock of its own; the loop *)
(* runs beside it.  NotifyLeave holds nodesLock and removedVolumeIDsLock   *)
(* together and is one step.  NotifyJoin takes them one after the other,   *)
(* and is two.                                                             *)
(***************************************************************************)
EXTENDS Integers, FiniteSets

CONSTANTS
  Nodes,     \* the names of the other nodes
  VolumeIDs, \* the IDs of their volumes
  Metas,     \* Metas[n] are the sets of volumes node n may announce
  Downtime,  \* Config.VolumeDowntime, in ticks of the clock
  MaxNow     \* bound on the clock

ASSUME MetasAssumption == Metas \in [Nodes -> SUBSET ((SUBSET VolumeIDs) \ {{}})]
ASSUME TimesAssumption == Downtime \in Nat /\ MaxNow \in Nat

VARIABLES
  up,       \* memberlist.Create was called: events may come
  ready,    \* m.members is set: New is past Create
  members,  \* memberlist's list: name -> the volumes the node announced
  nodes,    \* m.nodes: name -> the volumes of its meta
  removed,  \* m.removedVolumeIDs: volume ID -> when its node left
  joining,  \* the volumes a NotifyJoin has yet to take out of removed
  lost,     \* rvids: what the loop has yet to pass to the local volumes
  now,      \* the clock
  beside    \* history: the other nodes that had a volume when it was marked

vars == <<up, ready, members, nodes, removed, joining, lost, now, beside>>

Empty == [x \in {} |-> x]
Put(t, x, v) == [y \in DOMAIN t \cup {x} |-> IF y = x THEN v ELSE t[y]]
Without(t, S) == [y \in DOMAIN t \ S |-> t[y]]

(* The volumes GetNodeWithVolumeByID finds a node for. *)
Listed == UNION {nodes[n] : n \in DOMAIN nodes}

-----------------------------------------------------------------------------
Init ==
  /\ up = FALSE /\ ready = FALSE
  /\ members = Empty /\ nodes = Empty /\ removed = Empty
  /\ joining = {} /\ lost = {}
  /\ now = 0
  /\ beside = [v \in VolumeIDs |-> {}]

(* New calls memberlist.Create, which listens from then on. *)
Create ==
  /\ ~up
  /\ up' = TRUE
  /\ UNCHANGED <<ready, members, nodes, removed, joining, lost, now, beside>>

(* New stores what Create returned. *)
SetMembers ==
  /\ up /\ ~ready
  /\ ready' = TRUE
  /\ UNCHANGED <<up, members, nodes, removed, joining, lost, now, beside>>

(* The process ends: all of this is in memory. *)
Crash ==
  /\ up
  /\ up' = FALSE /\ ready' = FALSE
  /\ members' = Empty /\ nodes' = Empty /\ removed' = Empty
  /\ joining' = {} /\ lost' = {}
  /\ beside' = [v \in VolumeIDs |-> {}]
  /\ UNCHANGED now

Tick ==
  /\ now < MaxNow
  /\ now' = now + 1
  /\ UNCHANGED <<up, ready, members, nodes, removed, joining, lost, beside>>

(* A Notify method may be called. *)
Notifiable == up /\ joining = {}

(* memberlist announces n, new or with other volumes, before New is past   *)
(* Create: NotifyJoin returns.                                             *)
JoinIgnored(n, volumes) ==
  /\ Notifiable /\ ~ready
  /\ members' = Put(members, n, volumes)
  /\ UNCHANGED <<up, ready, nodes, removed, joining, lost, now, beside>>

\* faulty: does not look whether m.members is set
JoinListedUnready(n, volumes) ==
  /\ Notifiable
  /\ members' = Put(members, n, volumes)
  /\ nodes' = Put(nodes, n, volumes)
  /\ joining' = volumes
  /\ UNCHANGED <<up, ready, removed, lost, now, beside>>
(* NotifyJoin, and NotifyUpdate of a node whose volumes changed, up to the *)
(* release of nodesLock.                                                   *)
JoinListed(n, volumes) ==
  /\ Notifiable /\ ready
  /\ n \in DOMAIN members => members[n] # volumes
  /\ members' = Put(members, n, volumes)
  /\ nodes' = Put(nodes, n, volumes)
  /\ joining' = volumes
  /\ UNCHANGED <<up, ready, removed, lost, now, beside>>

\* faulty: forgets all who left
BackForgetsAll == removed' = Empty
\* faulty: leaves the volumes of the node that came back marked
BackKeepsMarks == removed' = removed
(* The volumes that came back are no longer to be given up. *)
Back == removed' = Without(removed, joining)

(* The second half of NotifyJoin. *)
JoinBack ==
  /\ joining # {}
  /\ Back
  /\ joining' = {}
  /\ UNCHANGED <<up, ready, members, nodes, lost, now, beside>>

NotifyLeave(n) ==
  /\ Notifiable /\ n \in DOMAIN members
  /\ LET gone == IF n \in DOMAIN nodes THEN nodes[n] ELSE {}
     IN  /\ removed' = [v \in DOMAIN removed \cup gone |->
                          IF v \in gone THEN now ELSE removed[v]]
         /\ beside' = [v \in VolumeIDs |->
                         IF v \in gone THEN {m \in DOMAIN nodes \ {n} :
                                               v \in nodes[m]}
                         ELSE beside[v]]
  /\ members' = Without(members, {n})
  /\ nodes' = Without(nodes, {n})
  /\ UNCHANGED <<up, ready, joining, lost, now>>

-----------------------------------------------------------------------------
\* faulty: the comparison is turned round
GivenUpEarly == {v \in DOMAIN removed : removed[v] + Downtime > now}
(* The volumes away for longer than VolumeDowntime. *)
GivenUp == {v \in DOMAIN removed : removed[v] + Downtime < now}

(* The loop takes what RemovedVolumeIDs returns, which forgets it. *)
RemovedVolumeIDs ==
  /\ ready /\ lost = {}
  /\ GivenUp # {}
  /\ lost' = GivenUp
  /\ removed' = Without(removed, GivenUp)
  /\ UNCHANGED <<up, ready, members, nodes, joining, now, beside>>

(* The loop calls SynchronizeReplicas(v) of every local volume, and goes   *)
(* on when one fails.                                                      *)
Synchronize(v) ==
  /\ v \in lost
  /\ lost' = lost \ {v}
  /\ UNCHANGED <<up, ready, members, nodes, removed, joining, now, beside>>

Next ==
  \/ Create \/ SetMembers \/ Crash \/ Tick
  \/ \E n \in Nodes : \E volumes \in Metas[n] :
       JoinIgnored(n, volumes) \/ JoinListed(n, volumes)
  \/ JoinBack
  \/ \E n \in Nodes : NotifyLeave(n)
  \/ RemovedVolumeIDs
  \/ \E v \in VolumeIDs : Synchronize(v)

(* Time passes, a Notify method that began ends, and the loop of a running *)
(* node goes on: its locks are held by steps that end.                     *)
Spec ==
  /\ Init
  /\ [][Next]_vars
  /\ WF_vars(Tick)
  /\ WF_vars(JoinBack)
  /\ WF_vars(RemovedVolumeIDs)
  /\ WF_vars(\E v \in VolumeIDs : Synchronize(v))

-----------------------------------------------------------------------------
IsTable(t, D, R) == DOMAIN t \in SUBSET D /\ t \in [DOMAIN t -> R]

(* The tables have their types, and no node is listed, this one included,  *)
(* before New is past Create.                                              *)
TypeOK ==
  /\ up \in BOOLEAN /\ ready \in BOOLEAN /\ (ready => up)
  /\ ~ready => DOMAIN nodes = {} /\ DOMAIN removed = {}
  /\ IsTable(members, Nodes, SUBSET VolumeIDs)
  /\ IsTable(nodes, Nodes, SUBSET VolumeIDs)
  /\ IsTable(removed, VolumeIDs, Nat)
  /\ joining \subseteq VolumeIDs /\ lost \subseteq VolumeIDs
  /\ now \in Nat
  /\ beside \in [VolumeIDs -> SUBSET Nodes]

(* A volume that waits to be given up has not come back: no node that is  *)
(* listed with it joined, under whatever name, after the one that left     *)
(* with it, but for the instant NotifyJoin is between its two locks.       *)
RemovedAreAway ==
  \A n \in DOMAIN nodes :
    \A v \in (nodes[n] \cap DOMAIN removed) \ joining : n \in beside[v]

(* A volume the node knew of is listed, waits to be given up or is on its  *)
(* way to the local volumes, until it was passed to them: through leaves   *)
(* and rejoins, and whatever other volumes a node comes back with.  Only a *)
(* node that changes its volumes without leaving takes one out of sight.   *)
InSight == Listed \cup DOMAIN removed \cup lost
Replaced(v) ==
  \E n \in DOMAIN nodes \cap DOMAIN nodes' : v \in nodes[n] \ nodes'[n]
NotForgotten ==
  [][up' => \A v \in InSight \ InSight' : Synchronize(v) \/ Replaced(v)]_vars

(* A volume whose node stays away is passed to the local volumes in the    *)
(* end, if the clock of the model goes far enough.                         *)
Departed(v) ==
  \/ v \in lost
  \/ v \in DOMAIN removed /\ removed[v] + Downtime < MaxNow
DepartedGoes == \A v \in VolumeIDs : Departed(v) ~> ~Departed(v)
=============================================================================
