------------------------------ MODULE Cluster -------------------------------
(***************************************************************************)
(* A cluster of nodes with one volume each: the replication loop of every  *)
(* node (storing/replica.go), what its calls do to the volumes of the      *)
(* others (storing/service.go, volume/volume.go), the list of nodes each   *)
(* node keeps (membership/), crashes, returns and resets.                  *)
(*                                                                         *)
(* A call of another node is a step of its own, and a transaction of a     *)
(* volume is one step.  Of a volume Cluster keeps what replication reads:  *)
(* Volume has the contents on disk, the room and the expiries.             *)
(***************************************************************************)
EXTENDS Integers, Sequences, FiniteSets, Lists

CONSTANTS
  Nodes,      \* the nodes
  Keys,       \* the names objects are stored under
  Contents,   \* the signatures of the contents clients put
  Cut,        \* the signature of a content that arrived in part
  Puts,       \* what clients put: triples of a node, a key and a content
  Factor,     \* Config.Replica, the copies asked for
  MaxPuts,    \* bound on the puts
  MaxDeletes, \* bound on the deletes
  MaxUpsets,  \* bound on crashes, lost answers and refusals, taken together
  MaxResets   \* bound on the resets of a volume

ASSUME ContentsAssumption == IsFiniteSet(Contents) /\ Cut \notin Contents
ASSUME PutsAssumption == Puts \subseteq Nodes \X Keys \X Contents
ASSUME NumbersAssumption ==
  {Factor, MaxPuts, MaxDeletes, MaxUpsets, MaxResets} \subseteq Nat

VARIABLES
  up,       \* the nodes that run
  tmps,     \* those whose directory for uploads exists
  epoch,    \* how often the volume of each node was reset
  idxkeys,  \* of each volume, its bucket idxkeys: key -> signature
  files,    \* of each volume, its bucket files: signature -> row
  idxvolumes, \* of each volume: pairs <<volume ID, signature>>
  replicas, \* of each volume, the queue of replicas to be made
  nodes,    \* m.nodes of each node: the other nodes and their volume
  removed,  \* m.removedVolumeIDs of each node
  loop,     \* where the replication loop of each node is
  spent,    \* how many puts, deletes and upsets there were
  stored,   \* history: each <<volume ID, key, signature>> ever stored
  gone,     \* history: each <<node, volume ID>> given up
  back,     \* history: the volume IDs given up that run again
  torn      \* history: the volumes whose loop ended between a copy and their row

volumes == <<idxkeys, files, idxvolumes, replicas>>
members == <<nodes, removed, gone, back, torn>>
vars == <<up, tmps, epoch, volumes, members, loop, spent, stored>>

ID(n) == <<n, epoch[n]>>
Idle == [at |-> "idle"]

-----------------------------------------------------------------------------
(* The nodes know each other, and the volumes are empty; each was started  *)
(* once more since its first start, which leaves it without the directory. *)
Init ==
  /\ up = Nodes /\ tmps = Nodes
  /\ epoch = [n \in Nodes |-> 0]
  /\ idxkeys = [n \in Nodes |-> Empty] /\ files = [n \in Nodes |-> Empty]
  /\ idxvolumes = [n \in Nodes |-> {}]
  /\ replicas = [n \in Nodes |-> <<>>]
  /\ nodes = [n \in Nodes |-> [m \in Nodes \ {n} |-> <<m, 0>>]]
  /\ removed = [n \in Nodes |-> {}]
  /\ loop = [n \in Nodes |-> Idle]
  /\ spent = [puts |-> 0, deletes |-> 0, upsets |-> 0]
  /\ stored = {} /\ gone = {} /\ back = {} /\ torn = {}

Spend(what, bound) ==
  /\ spent[what] < bound
  /\ spent' = [spent EXCEPT ![what] = @ + 1]

-----------------------------------------------------------------------------
(* The volumes. *)

(* rows without the row of s, when k was the last key of s. *)
Unlink(keys, rows, k) ==
  IF k \in DOMAIN keys /\ \A j \in DOMAIN keys : keys[j] = keys[k] => j = k
  THEN Drop(rows, keys[k])
  ELSE rows

(* local.CreateFile of volume m: key k gets content s.  A content that has *)
(* the key already stays as it is, and a known one lists m once more.  A   *)
(* copy asks for none, rep = 1.                                            *)
CreateFile(m, k, s, rep) ==
  /\ stored' = stored \cup {<<ID(m), k, s>>}
  /\ IF k \in DOMAIN idxkeys[m] /\ idxkeys[m][k] = s
     THEN UNCHANGED <<idxkeys, files, replicas>>
     ELSE LET row == IF s \in DOMAIN files[m]
                     THEN [files[m][s] EXCEPT !.vids = Append(@, ID(m))]
                     ELSE [vids |-> <<ID(m)>>, replica |-> rep]
              rp == [key |-> k, sig |-> s, count |-> rep - 1,
                     original |-> rep, vids |-> <<ID(m)>>]
          IN  /\ files' = [files EXCEPT ![m] =
                             Put(Unlink(idxkeys[m], @, k), s, row)]
              /\ idxkeys' = [idxkeys EXCEPT ![m] = Put(@, k, s)]
              /\ replicas' = [replicas EXCEPT ![m] =
                                IF rep > 1 THEN Append(@, rp) ELSE @]
  /\ UNCHANGED idxvolumes

(* A client puts content s under k on node n. *)
ClientPut(n, k, s) ==
  /\ n \in up \cap tmps /\ Spend("puts", MaxPuts)
  /\ CreateFile(n, k, s, Factor)
  /\ UNCHANGED <<up, tmps, epoch, members, loop>>

(* A client deletes k on node n; what is queued for it stays. *)
ClientDelete(n, k) ==
  /\ n \in up /\ k \in DOMAIN idxkeys[n] /\ Spend("deletes", MaxDeletes)
  /\ files' = [files EXCEPT ![n] = Unlink(idxkeys[n], @, k)]
  /\ idxkeys' = [idxkeys EXCEPT ![n] = Drop(@, k)]
  /\ UNCHANGED <<up, tmps, epoch, idxvolumes, replicas, members, loop, stored>>

-----------------------------------------------------------------------------
(* The replication loop of node n. *)

At(n, step) == n \in up /\ loop[n].at = step
Goes(n, l) == loop' = [loop EXCEPT ![n] = l]
(* On to the next of the nodes left, or to the next lap. *)
Continue(n, l) ==
  Goes(n, IF l.left = {} THEN Idle
          ELSE [at |-> "ask", rp |-> l.rp, left |-> l.left])

(* NodesWithoutVolumeIDs. *)
NodesWithout(n, vids) ==
  {m \in DOMAIN nodes[n] : nodes[n][m] \notin ElemsOf(vids)}

(* NextReplica gives the head of the queue, which nothing but UpdateReplica *)
(* takes from it, and NodesWithoutVolumeIDs the nodes to try.              *)
NextReplica(n) ==
  /\ At(n, "idle") /\ replicas[n] # <<>>
  /\ LET rp == Head(replicas[n])
         left == NodesWithout(n, rp.vids)
     IN  /\ left # {}
         /\ Goes(n, [at |-> "ask", rp |-> rp, left |-> left])
  /\ UNCHANGED <<up, tmps, epoch, volumes, members, spent, stored>>

(* m does not have the key, and the own volume gives its present content.  *)
AskWants(n, m) ==
  /\ At(n, "ask") /\ m \in loop[n].left \cap up
  /\ LET l == loop[n] IN
       /\ l.rp.key \notin DOMAIN idxkeys[m]
       /\ l.rp.key \in DOMAIN idxkeys[n]
       /\ Goes(n, [at |-> "send", rp |-> l.rp, left |-> l.left \ {m},
                   to |-> m, sig |-> idxkeys[n][l.rp.key]])
  /\ UNCHANGED <<up, tmps, epoch, volumes, members, spent, stored>>

(* m has the key, or does not answer, or the key is gone from n. *)
AskSkips(n, m) ==
  /\ At(n, "ask") /\ m \in loop[n].left
  /\ LET l == loop[n] IN
       /\ \/ m \notin up
          \/ l.rp.key \in DOMAIN idxkeys[m]
          \/ l.rp.key \notin DOMAIN idxkeys[n]
       /\ Continue(n, [l EXCEPT !.left = @ \ {m}])
  /\ UNCHANGED <<up, tmps, epoch, volumes, members, spent, stored>>

\* faulty: the volume is counted before it is asked to store
SendCountsFirst(n) ==
  /\ At(n, "send")
  /\ LET l == loop[n]
         vids == Append(l.rp.vids, ID(l.to))
     IN  IF l.to \in up \cap tmps
         THEN /\ CreateFile(l.to, l.rp.key, l.sig, 1)
              /\ Goes(n, [at |-> "tell", rp |-> [l.rp EXCEPT !.vids = vids],
                          left |-> l.left, vid |-> ID(l.to), tell |-> vids])
         ELSE /\ Goes(n, [at |-> "tell", rp |-> [l.rp EXCEPT !.vids = vids],
                          left |-> l.left, vid |-> ID(l.to), tell |-> vids])
              /\ UNCHANGED <<volumes, stored>>
  /\ UNCHANGED <<up, tmps, epoch, members, spent>>
(* CreateReplica, as storing/service.go of the other node does it, with    *)
(* the answer: the ID of the volume that has the copy.                     *)
Send(n) ==
  /\ At(n, "send") /\ loop[n].to \in up \cap tmps
  /\ LET l == loop[n]
         vids == Append(l.rp.vids, ID(l.to))
     IN  /\ CreateFile(l.to, l.rp.key, l.sig, 1)
         /\ Goes(n, [at |-> "tell", rp |-> [l.rp EXCEPT !.vids = vids],
                     left |-> l.left, vid |-> ID(l.to), tell |-> vids])
  /\ UNCHANGED <<up, tmps, epoch, members, spent>>

(* The copy is made and the answer lost. *)
SendUnanswered(n) ==
  /\ At(n, "send") /\ loop[n].to \in up \cap tmps /\ Spend("upsets", MaxUpsets)
  /\ CreateFile(loop[n].to, loop[n].rp.key, loop[n].sig, 1)
  /\ Continue(n, loop[n])
  /\ UNCHANGED <<up, tmps, epoch, members>>

\* faulty: the same node is tried until it answers
SendRetries(n) ==
  /\ At(n, "send") /\ loop[n].to \notin up \cap tmps
  /\ UNCHANGED vars
(* The call fails: the other node is down, or its volume has no directory  *)
(* for uploads or no room.  The next node is tried.                        *)
SendFails(n) ==
  /\ At(n, "send")
  /\ \/ loop[n].to \notin up \cap tmps /\ UNCHANGED spent
     \/ loop[n].to \in up \cap tmps /\ Spend("upsets", MaxUpsets)
  /\ Continue(n, loop[n])
  /\ UNCHANGED <<up, tmps, epoch, volumes, members, stored>>

(* The nodes GetNodeWithVolumeByID finds for volume ID v. *)
NodesWith(n, v) == {m \in DOMAIN nodes[n] : nodes[n][m] = v}

(* UpdateFileReplica of volume m: the row of what it has under key k now   *)
(* gets the list, and idxvolumes the other volumes of it.                  *)
Updates(m, k, vids) == m \in up /\ ID(m) \in ElemsOf(vids) /\ k \in DOMAIN idxkeys[m]
UpdateFileReplica(m, k, vids, rep) ==
  LET s == idxkeys[m][k] IN
    /\ files' = [files EXCEPT ![m][s] = [vids |-> vids, replica |-> rep]]
    /\ idxvolumes' = [idxvolumes EXCEPT ![m] =
                        @ \cup ((ElemsOf(vids) \ {ID(m)}) \X {s})]

(* The next volume of the list is told of it, unless it is the own one.    *)
(* An error is logged.                                                     *)
Tell(n) ==
  /\ At(n, "tell") /\ loop[n].tell # <<>>
  /\ LET rp == loop[n].rp
         v == Head(loop[n].tell)
         told == {m \in NodesWith(n, v) : Updates(m, rp.key, rp.vids)}
     IN  \/ \E m \in told : UpdateFileReplica(m, rp.key, rp.vids, rp.original)
         \/ /\ v = ID(n) \/ told = {}
            /\ UNCHANGED <<files, idxvolumes>>
  /\ Goes(n, [loop[n] EXCEPT !.tell = Tail(@)])
  /\ UNCHANGED <<up, tmps, epoch, idxkeys, replicas, members, spent, stored>>

(* UpdateReplica on the own volume: the row gets the new holder, and the   *)
(* replica goes to the end of the queue while copies are missing.          *)
UpdateReplica(n) ==
  /\ At(n, "tell") /\ loop[n].tell = <<>>
  /\ LET rp == loop[n].rp
         v == loop[n].vid
     IN  /\ rp.sig \in DOMAIN files[n]
         /\ files' = [files EXCEPT ![n][rp.sig] =
                        [vids |-> Append(@.vids, v), replica |-> rp.original]]
         /\ idxvolumes' = [idxvolumes EXCEPT ![n] = @ \cup {<<v, rp.sig>>}]
         /\ replicas' = [replicas EXCEPT ![n] =
                           IF rp.count - 1 > 0
                           THEN Append(Tail(@), [rp EXCEPT !.count = @ - 1])
                           ELSE Tail(@)]
  /\ Goes(n, Idle)
  /\ UNCHANGED <<up, tmps, epoch, idxkeys, members, spent, stored>>

(* The content was deleted meanwhile: UpdateReplica fails, and the next    *)
(* node is tried with the longer list.                                     *)
UpdateReplicaFails(n) ==
  /\ At(n, "tell") /\ loop[n].tell = <<>>
  /\ loop[n].rp.sig \notin DOMAIN files[n]
  /\ Continue(n, loop[n])
  /\ UNCHANGED <<up, tmps, epoch, volumes, members, spent, stored>>

-----------------------------------------------------------------------------
(* The nodes of the cluster, as memberlist tells of them. *)

(* NotifyJoin: m is new to n, is back, or has another volume ID. *)
NotifyJoin(n, m) ==
  /\ {n, m} \subseteq up /\ n # m
  /\ m \in DOMAIN nodes[n] => nodes[n][m] # ID(m)
  /\ nodes' = [nodes EXCEPT ![n] = Put(@, m, ID(m))]
  /\ removed' = [removed EXCEPT ![n] = @ \ {ID(m)}]
  /\ UNCHANGED <<up, tmps, epoch, volumes, loop, spent, stored, gone, back, torn>>

NotifyLeave(n, m) ==
  /\ n \in up /\ m \in DOMAIN nodes[n] \ up
  /\ removed' = [removed EXCEPT ![n] = @ \cup {nodes[n][m]}]
  /\ nodes' = [nodes EXCEPT ![n] = Drop(@, m)]
  /\ UNCHANGED <<up, tmps, epoch, volumes, loop, spent, stored, gone, back, torn>>

SignaturesOf(n, v) == {p[2] : p \in {q \in idxvolumes[n] : q[1] = v}}

\* faulty: whoever lists the volume takes over
InheritedByAll(n, v) == SignaturesOf(n, v)
(* The contents node n answers for once v is gone. *)
Inherited(n, v) ==
  {s \in SignaturesOf(n, v) \cap DOMAIN files[n] :
     DeleteVolumeID(files[n][s].vids, v)[1] = ID(n)}

Orders(S) ==
  {o \in [1..Cardinality(S) -> S] :
     \A i, j \in DOMAIN o : o[i] = o[j] => i = j}

(* v was away from n for longer than VolumeDowntime: SynchronizeReplicas   *)
(* queues a replica of every content n inherits, and fails when one that   *)
(* v had is gone.  The rows keep v.                                        *)
GiveUp(n, v) ==
  /\ n \in up /\ v \in removed[n]
  /\ removed' = [removed EXCEPT ![n] = @ \ {v}]
  /\ gone' = gone \cup {<<n, v>>}
  /\ back' = back \cup ({v} \cap {ID(m) : m \in up})
  /\ IF SignaturesOf(n, v) \subseteq DOMAIN files[n]
     THEN \E order \in Orders(Inherited(n, v)) :
            \E name \in [Inherited(n, v) -> DOMAIN idxkeys[n]] :
              /\ \A s \in Inherited(n, v) : idxkeys[n][name[s]] = s
              /\ replicas' = [replicas EXCEPT ![n] = @ \o
                   [i \in 1..Len(order) |->
                      LET s == order[i]
                          vids == DeleteVolumeID(files[n][s].vids, v)
                      IN  [key |-> name[s], sig |-> s,
                           count |-> files[n][s].replica - Len(vids),
                           original |-> files[n][s].replica, vids |-> vids]]]
     ELSE UNCHANGED replicas
  /\ UNCHANGED <<up, tmps, epoch, idxkeys, files, idxvolumes, nodes, loop, spent,
                 stored, torn>>

(* The process of n ends.  A copy it was sending may arrive in part, and   *)
(* is stored as if it were whole: io.Copy's error is dropped.              *)
Crash(n) ==
  /\ n \in up /\ Spend("upsets", MaxUpsets)
  /\ up' = up \ {n}
  /\ nodes' = [nodes EXCEPT ![n] = Empty]
  /\ removed' = [removed EXCEPT ![n] = {}]
  /\ loop' = [loop EXCEPT ![n] = Idle]
  /\ torn' = IF loop[n].at = "tell" THEN torn \cup {ID(n)} ELSE torn
  /\ \/ UNCHANGED <<volumes, stored>>
     \/ /\ loop[n].at = "send" /\ loop[n].to \in up \cap tmps
        /\ CreateFile(loop[n].to, loop[n].rp.key, Cut, 1)
  /\ UNCHANGED <<tmps, epoch, gone, back>>

(* n is back with its volume. *)
Start(n) ==
  /\ n \notin up
  /\ up' = up \cup {n} /\ tmps' = tmps \cup {n}
  /\ back' = back \cup ({ID(n)} \cap {p[2] : p \in gone})
  /\ UNCHANGED <<epoch, volumes, nodes, removed, gone, torn, loop, spent, stored>>

(* n is back after too long: its volume is reset, has another ID, and can  *)
(* store nothing before the next start: the Reset removes the directory    *)
(* uploads are first written to.                                           *)
StartReset(n) ==
  /\ n \notin up /\ epoch[n] < MaxResets
  /\ up' = up \cup {n} /\ tmps' = tmps \ {n}
  /\ epoch' = [epoch EXCEPT ![n] = @ + 1]
  /\ idxkeys' = [idxkeys EXCEPT ![n] = Empty]
  /\ files' = [files EXCEPT ![n] = Empty]
  /\ idxvolumes' = [idxvolumes EXCEPT ![n] = {}]
  /\ replicas' = [replicas EXCEPT ![n] = <<>>]
  /\ UNCHANGED <<members, loop, spent, stored>>

-----------------------------------------------------------------------------
LoopStep(n) ==
  \/ NextReplica(n)
  \/ \E m \in Nodes : AskWants(n, m) \/ AskSkips(n, m)
  \/ Send(n) \/ SendUnanswered(n) \/ SendFails(n)
  \/ Tell(n) \/ UpdateReplica(n) \/ UpdateReplicaFails(n)

Next ==
  \/ \E p \in Puts : ClientPut(p[1], p[2], p[3])
  \/ \E n \in Nodes, k \in Keys : ClientDelete(n, k)
  \/ \E n \in Nodes : LoopStep(n)
  \/ \E n, m \in Nodes : NotifyJoin(n, m) \/ NotifyLeave(n, m)
  \/ \E n \in Nodes : \E v \in removed[n] : GiveUp(n, v)
  \/ \E n \in Nodes : Crash(n) \/ Start(n) \/ StartReset(n)

(* The loop of a node that runs goes on. *)
Spec == Init /\ [][Next]_vars /\ \A n \in Nodes : WF_vars(LoopStep(n))

-----------------------------------------------------------------------------
IDs == Nodes \X Nat
Signatures == Contents \cup {Cut}
Row == [vids : Seq(IDs), replica : Nat]
Replica == [key : Keys, sig : Signatures, count : Int, original : Nat,
            vids : Seq(IDs)]
Place ==
  {Idle}
  \cup [at : {"ask"}, rp : Replica, left : SUBSET Nodes]
  \cup [at : {"send"}, rp : Replica, left : SUBSET Nodes, to : Nodes,
        sig : Signatures]
  \cup [at : {"tell"}, rp : Replica, left : SUBSET Nodes, vid : IDs,
        tell : Seq(IDs)]

(* The variables have their types. *)
TypeOK ==
  /\ up \subseteq Nodes /\ tmps \subseteq Nodes /\ epoch \in [Nodes -> Nat]
  /\ DOMAIN idxkeys = Nodes /\ DOMAIN files = Nodes
  /\ idxvolumes \in [Nodes -> SUBSET (IDs \X Signatures)]
  /\ replicas \in [Nodes -> Seq(Replica)]
  /\ DOMAIN nodes = Nodes
  /\ removed \in [Nodes -> SUBSET IDs]
  /\ loop \in [Nodes -> Place]
  /\ \A n \in Nodes :
       /\ IsTable(idxkeys[n], Keys, DOMAIN files[n])
       /\ IsTable(files[n], Signatures, Row)
       /\ IsTable(nodes[n], Nodes, IDs)
  /\ spent \in [puts : Nat, deletes : Nat, upsets : Nat]
  /\ stored \subseteq IDs \X Keys \X Signatures
  /\ gone \subseteq Nodes \X IDs

-----------------------------------------------------------------------------
Has(v, s) == \E k \in Keys : <<v, k, s>> \in stored

(* Every volume that a row lists stored the content of that row: no copy   *)
(* is counted that was not made.                                           *)
AllListedStored ==
  \A n \in Nodes : \A s \in DOMAIN files[n] \ {Cut} :
    \A v \in ElemsOf(files[n][s].vids) : Has(v, s)

(* A key only ever named one content, wherever it was stored: no client    *)
(* gave it two, and no copy of it arrived in part.                         *)
Settled == \A x, y \in stored : x[2] = y[2] => x[3] = y[3]

(* While keys keep their content no copy is counted that was not made,     *)
(* whatever contents keys share, whatever calls fail or lose their answer, *)
(* and whoever crashes, is deleted from or is reset.                       *)
ListedStored == Settled => AllListedStored

(* Why it is so, when all is settled: what a volume holds it stored, a     *)
(* replica is of what its volume and all of its list stored, and only what *)
(* arrived whole is sent on or listed.                                     *)
Counted(n, rp) ==
  /\ rp.sig # Cut
  /\ <<ID(n), rp.key, rp.sig>> \in stored
  /\ \A v \in ElemsOf(rp.vids) : Has(v, rp.sig)
HeldStored(n) ==
  /\ \A k \in DOMAIN idxkeys[n] : <<ID(n), k, idxkeys[n][k]>> \in stored
  /\ loop[n].at = "send" => <<ID(n), loop[n].rp.key, loop[n].sig>> \in stored
LoopCounted(n) ==
  loop[n].at # "idle" =>
    /\ Counted(n, loop[n].rp)
    /\ loop[n].at = "tell" => Has(loop[n].vid, loop[n].rp.sig)
VolumeCounted(n) ==
  /\ \A s \in DOMAIN files[n] \ {Cut} :
       \A v \in ElemsOf(files[n][s].vids) : Has(v, s)
  /\ \A rp \in ElemsOf(replicas[n]) : Counted(n, rp)
  /\ \A p \in idxvolumes[n] : p[2] # Cut
IInv ==
  /\ TypeOK
  /\ \A n \in Nodes \ up : loop[n] = Idle
  /\ \A n \in Nodes : loop[n] # Idle => replicas[n] # <<>>
  /\ \A x \in stored : \E y \in stored : y[2] = x[2] /\ y[3] # Cut
  /\ \A n \in Nodes : HeldStored(n)
  /\ Settled => \A n \in Nodes : VolumeCounted(n) /\ LoopCounted(n)

AtMostOneHeir ==
  \A v \in {ID(n) : n \in Nodes} : \A s \in Contents :
    Cardinality({n \in up : s \in Inherited(n, v)}) <= 1
PutOnce == spent.puts <= 1 /\ spent.deletes = 0 /\ back = {}

(* At most one node answers for a content when a volume goes: "this volume *)
(* is the responsible (next after the removed ID on the files)".  So it is *)
(* for a content put once, unless a master stopped between a copy and its  *)
(* own row, the content was deleted, or a volume given up came back.       *)
OneSuccessor == PutOnce /\ torn = {} => AtMostOneHeir

(* So it is even when a master stopped between a copy and its own row.     *)
OneResponsible == PutOnce => AtMostOneHeir

(* A replica that can be made: a listed node that runs and takes uploads   *)
(* lacks the key, and its volume is not counted.                           *)
CanCopy(n, rp) ==
  /\ rp.key \in DOMAIN idxkeys[n]
  /\ \E m \in NodesWithout(n, rp.vids) \cap up \cap tmps :
       rp.key \notin DOMAIN idxkeys[m]

(* When the nodes and the clients are quiet, the replica at the head of    *)
(* each queue is made wherever it can be.                                  *)
HeadServed ==
  <>[](\A n \in up : replicas[n] # <<>> => ~CanCopy(n, Head(replicas[n])))

(* A node that gave up every other volume of a row answers for the content *)
(* and makes copies of it again: "it has to recover a lost replica".       *)
SurvivorRecovers ==
  back = {} => \A n \in up : \A s \in DOMAIN files[n] :
    LET others == ElemsOf(files[n][s].vids) \ {ID(n)}
    IN  others # {} /\ (\A v \in others : <<n, v>> \in gone)
          => \E i \in DOMAIN replicas[n] : replicas[n][i].sig = s
=============================================================================
