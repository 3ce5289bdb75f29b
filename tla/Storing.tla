------------------------------ MODULE Storing -------------------------------
(***************************************************************************)
(* How the nodes of a cluster route a request for a key (GetFile,          *)
(* DeleteFile, HasFile, getVolume and the cache of storing/service.go).    *)
(* A node that does not have the key calls, through a client, the same     *)
(* operation of a node that has or had it, and that node routes it anew.   *)
(*                                                                         *)
(* Each read of a cache, of a volume or of the list of nodes is a step:    *)
(* puts, deletes, copies, crashes, resets and changes of the membership    *)
(* come in between.  A search asks the nodes in any order; FindVolume has  *)
(* the race behind it.                                                     *)
(***************************************************************************)
EXTENDS Naturals, FiniteSets

CONSTANTS
  Nodes,      \* the nodes
  Volumes,    \* their volumes
  Home,       \* Home[v] is the node of volume v
  Keys,       \* the names objects are stored under
  Requests,   \* the requests clients make
  Silent,     \* the nodes that may take a call and never answer it
  MaxResets,  \* bound on the resets of a volume
  MaxUpsets   \* bound on the crashes and the evictions, taken together

ASSUME HomeAssumption == Home \in [Volumes -> Nodes]
ASSUME SilentAssumption == Silent \subseteq Nodes
ASSUME BoundsAssumption == MaxResets \in Nat /\ MaxUpsets \in Nat

VolumesOf(n) == {v \in Volumes : Home[v] = n}

VARIABLES
  up,       \* the nodes that run
  upsets,   \* how often a node crashed or a cache lost an entry for room
  resets,   \* how often each volume was reset: its ID is <<v, resets[v]>>
  has,      \* the keys of each volume
  nodes,    \* m.nodes of each node: the other nodes and their volume IDs
  cache,    \* s.cache of each node: key -> volume ID
  req       \* the requests under way

vars == <<up, upsets, resets, has, nodes, cache, req>>

ID(v) == <<v, resets[v]>>
Metadata(n) == {ID(v) : v \in VolumesOf(n)}

Empty == [x \in {} |-> x]
Put(t, x, y) == [z \in DOMAIN t \cup {x} |-> IF z = x THEN y ELSE t[z]]
Drop(t, x) == [z \in DOMAIN t \ {x} |-> t[z]]

-----------------------------------------------------------------------------
(* The nodes know each other, and the volumes are empty. *)
Init ==
  /\ up = Nodes /\ upsets = 0
  /\ resets = [v \in Volumes |-> 0]
  /\ has = [v \in Volumes |-> {}]
  /\ nodes = [n \in Nodes |->
                [m \in Nodes \ {n} |-> {<<v, 0>> : v \in VolumesOf(m)}]]
  /\ cache = [n \in Nodes |-> Empty]
  /\ req = Empty

(* A volume gets key k: a client puts it, or another node copies it. *)
CreateFile(v, k) ==
  /\ Home[v] \in up /\ k \notin has[v]
  /\ has' = [has EXCEPT ![v] = @ \cup {k}]
  /\ UNCHANGED <<up, upsets, resets, nodes, cache, req>>

(* memberlist tells n of m: new, back, or with other volumes. *)
NotifyJoin(n, m) ==
  /\ {n, m} \subseteq up /\ n # m
  /\ m \in DOMAIN nodes[n] => nodes[n][m] # Metadata(m)
  /\ nodes' = [nodes EXCEPT ![n] = Put(@, m, Metadata(m))]
  /\ UNCHANGED <<up, upsets, resets, has, cache, req>>

(* memberlist takes m for dead, or m left. *)
NotifyLeave(n, m) ==
  /\ n \in up /\ m \in DOMAIN nodes[n] /\ m \notin up
  /\ nodes' = [nodes EXCEPT ![n] = Drop(@, m)]
  /\ UNCHANGED <<up, upsets, resets, has, cache, req>>

(* The process of n ends, and the cache with it.  The requests it was      *)
(* handling end in an error; what it had passed on, the other node goes on *)
(* with, and nobody waits for the answer.                                  *)
Crash(n) ==
  /\ n \in up /\ upsets < MaxUpsets
  /\ up' = up \ {n} /\ upsets' = upsets + 1
  /\ cache' = [cache EXCEPT ![n] = Empty]
  /\ nodes' = [nodes EXCEPT ![n] = Empty]
  /\ req' = [r \in {x \in DOMAIN req : req[x].at # n} |-> req[r]]
  /\ UNCHANGED <<resets, has>>

(* n starts again.  A volume that was away for too long is reset: it is    *)
(* empty and has another ID.                                               *)
Start(n) ==
  /\ n \notin up
  /\ up' = up \cup {n}
  /\ \E away \in SUBSET {v \in VolumesOf(n) : resets[v] < MaxResets} :
       /\ resets' = [v \in Volumes |->
                       IF v \in away THEN resets[v] + 1 ELSE resets[v]]
       /\ has' = [v \in Volumes |-> IF v \in away THEN {} ELSE has[v]]
       /\ req' = [r \in DOMAIN req |-> [req[r] EXCEPT !.kept = @ \ away]]
  /\ UNCHANGED <<upsets, nodes, cache>>

(* The ARC cache needs the room of k for another key. *)
Evict(n, k) ==
  /\ k \in DOMAIN cache[n] /\ upsets < MaxUpsets
  /\ cache' = [cache EXCEPT ![n] = Drop(@, k)]
  /\ upsets' = upsets + 1
  /\ UNCHANGED <<up, resets, has, nodes, req>>

-----------------------------------------------------------------------------
(* A client asks node n for key k: to get it or to delete it, which is     *)
(* routed alike.  through has the silent nodes among those whose answers   *)
(* it waits for; kept records, for the properties, the volumes that have   *)
(* the key all along while the nodes are searched.                         *)
Issue(r, n, k) ==
  /\ r \notin DOMAIN req /\ n \in up
  /\ req' = Put(req, r,
       [key |-> k, stage |-> "route", at |-> n, through |-> {n} \cap Silent,
        to |-> n, vol |-> {}, left |-> {}, asked |-> {},
        kept |-> {}])
  /\ UNCHANGED <<up, upsets, resets, has, nodes, cache>>

At(r, stage) == r \in DOMAIN req /\ req[r].stage = stage
Becomes(r, q) ==
  /\ req' = [req EXCEPT ![r] = q]
  /\ UNCHANGED <<up, upsets, resets, has, nodes>>
(* The handler answers, and so does every node that waits for it. *)
Ends(r) ==
  /\ req' = Drop(req, r)
  /\ UNCHANGED <<up, upsets, resets, has, nodes>>

(* GetNodeWithVolumeByID: the nodes n lists with volume ID id. *)
NodesWith(n, id) == {m \in DOMAIN nodes[n] : id \in nodes[n][m]}
(* The volumes of node n that have key k. *)
Holding(n, k) == {v \in VolumesOf(n) : k \in has[v]}

(* getVolume finds the key in the cache: the node it names is called, and  *)
(* when no listed node has that volume the answer is "not found".          *)
RouteByCache(r) ==
  /\ At(r, "route")
  /\ LET q == req[r] IN
       /\ q.key \in DOMAIN cache[q.at]
       /\ LET found == NodesWith(q.at, cache[q.at][q.key])
          IN  \/ \E m \in found :
                   Becomes(r, [q EXCEPT !.stage = "call", !.to = m])
              \/ found = {} /\ Ends(r)
  /\ UNCHANGED cache

(* A search of the nodes that are listed at that moment begins.            *)
Searching(q) ==
  [q EXCEPT !.stage = "ask", !.left = DOMAIN nodes[q.at],
            !.kept = {v \in Volumes : q.key \in has[v]}]
\* faulty: the local volumes are not searched
RouteAway(r) ==
  /\ At(r, "route")
  /\ LET q == req[r] IN
       /\ q.key \notin DOMAIN cache[q.at]
       /\ Becomes(r, Searching(q))
  /\ UNCHANGED cache
(* getVolume without the cache: the local volumes are searched, and then   *)
(* the nodes listed at that moment.                                        *)
RouteLocally(r) ==
  /\ At(r, "route")
  /\ LET q == req[r] IN
       /\ q.key \notin DOMAIN cache[q.at]
       /\ \/ \E v \in Holding(q.at, q.key) :
               Becomes(r, [q EXCEPT !.stage = "serve", !.vol = {v}])
          \/ /\ Holding(q.at, q.key) = {}
             /\ Becomes(r, Searching(q))
  /\ UNCHANGED cache

\* faulty: what the node asked has in its cache is a find too
AnswerFromCache(m, k) ==
  {ID(v) : v \in Holding(m, k)}
  \cup (IF k \in DOMAIN cache[m] THEN {cache[m][k]} ELSE {})
(* HasFile of node m: its own volumes that have the key.  The ID it may    *)
(* have in its cache comes with FALSE and is no find.                      *)
Answer(m, k) == {ID(v) : v \in Holding(m, k)}

(* A node that is asked has the key: the cache keeps the volume's ID. *)
AskFinds(r, m) ==
  /\ At(r, "ask") /\ m \in req[r].left \cap up
  /\ LET q == req[r] IN
       \E id \in Answer(m, q.key) :
         /\ cache' = [cache EXCEPT ![q.at] = Put(@, q.key, id)]
         /\ Becomes(r, [q EXCEPT !.stage = "call", !.to = m, !.left = {},
                                   !.asked = {}, !.kept = {}])

AskMisses(r, m) ==
  /\ At(r, "ask") /\ m \in req[r].left \cap up
  /\ Answer(m, req[r].key) = {}
  /\ Becomes(r, [req[r] EXCEPT !.left = @ \ {m}, !.asked = @ \cup {m}])
  /\ UNCHANGED cache

(* A node that does not run is left out of the search. *)
AskFails(r, m) ==
  /\ At(r, "ask") /\ m \in req[r].left \ up
  /\ Becomes(r, [req[r] EXCEPT !.left = @ \ {m}])
  /\ UNCHANGED cache

\* faulty: waits for the answer of every node
NotFoundByAll(r) ==
  /\ At(r, "ask") /\ req[r].asked = DOMAIN nodes[req[r].at]
  /\ Ends(r)
  /\ UNCHANGED cache
(* Nobody has the key: the answer is "not found". *)
NotFound(r) ==
  /\ At(r, "ask") /\ req[r].left = {}
  /\ Ends(r)
  /\ UNCHANGED cache

(* The client's call arrives at the other node, which routes the request,  *)
(* or fails.                                                               *)
Call(r) ==
  /\ At(r, "call")
  /\ LET q == req[r] IN
       \/ /\ q.to \in up
          /\ Becomes(r, [q EXCEPT !.stage = "route", !.at = q.to,
                                   !.through = @ \cup ({q.to} \cap Silent)])
       \/ q.to \notin up /\ Ends(r)
  /\ UNCHANGED cache

(* The operation, GetFile or DeleteFile, on the local volume that had the  *)
(* key, which answers "not found" when it is gone.  DeleteFile takes the   *)
(* key from that volume alone.                                             *)
Serve(r) ==
  /\ At(r, "serve")
  /\ LET k == req[r].key IN
       \E gone \in SUBSET (req[r].vol \cap Holding(req[r].at, k)) :
         /\ has' = [v \in Volumes |-> IF v \in gone THEN has[v] \ {k} ELSE has[v]]
         /\ req' = [x \in DOMAIN req \ {r} |->
                      IF req[x].key = k THEN [req[x] EXCEPT !.kept = @ \ gone]
                      ELSE req[x]]
  /\ UNCHANGED <<up, upsets, resets, nodes, cache>>

RequestStep(r) ==
  \/ RouteByCache(r) \/ RouteLocally(r)
  \/ \E m \in Nodes : AskFinds(r, m) \/ AskMisses(r, m) \/ AskFails(r, m)
  \/ NotFound(r) \/ Call(r) \/ Serve(r)

Next ==
  \/ \E v \in Volumes, k \in Keys : CreateFile(v, k)
  \/ \E n, m \in Nodes : NotifyJoin(n, m) \/ NotifyLeave(n, m)
  \/ \E n \in Nodes : Crash(n) \/ Start(n)
  \/ \E n \in Nodes, k \in Keys : Evict(n, k)
  \/ \E r \in Requests, n \in Nodes, k \in Keys : Issue(r, n, k)
  \/ \E r \in Requests : RequestStep(r)

(* The request waits for the answer of a node that may never give one: no  *)
(* call of a client has a time limit.  A search goes on as long as another *)
(* node is left to ask; a node that does not run refuses the connection.   *)
Waits(r) ==
  /\ r \in DOMAIN req
  /\ \/ req[r].through # {}
     \/ At(r, "call") /\ req[r].to \in Silent \cap up
     \/ /\ At(r, "ask") /\ req[r].left # {}
        /\ req[r].left \subseteq Silent \cap up

(* A request under way goes on, but for the answers that may never come.   *)
Spec ==
  /\ Init
  /\ [][Next]_vars
  /\ \A r \in Requests : WF_vars(~Waits(r) /\ RequestStep(r))

-----------------------------------------------------------------------------
Request ==
  [key : Keys, stage : {"route", "ask", "call", "serve"}, at : Nodes,
   through : SUBSET Silent, to : Nodes, vol : SUBSET Volumes, left : SUBSET Nodes,
   asked : SUBSET Nodes, kept : SUBSET Volumes]
IDs == Volumes \X Nat

(* The variables have their types. *)
TypeOK ==
  /\ up \subseteq Nodes /\ upsets \in Nat
  /\ resets \in [Volumes -> Nat]
  /\ has \in [Volumes -> SUBSET Keys]
  /\ DOMAIN nodes = Nodes /\ DOMAIN cache = Nodes
  /\ \A n \in Nodes :
       /\ DOMAIN nodes[n] \subseteq Nodes
       /\ \A m \in DOMAIN nodes[n] : nodes[n][m] \subseteq IDs
       /\ DOMAIN cache[n] \subseteq Keys
       /\ \A k \in DOMAIN cache[n] : cache[n][k] \in IDs
  /\ DOMAIN req \subseteq Requests
  /\ \A r \in DOMAIN req : req[r] \in Request

(* The cache of a node never names a volume of its own, for which there is *)
(* no node to call: not even when two nodes fill their caches with one     *)
(* another's volumes, whatever keys move and volumes are reset.            *)
CacheSound ==
  \A n \in Nodes : \A k \in DOMAIN cache[n] :
    \E v \in Volumes \ VolumesOf(n) :
      \E e \in 0..resets[v] : cache[n][k] = <<v, e>>

(* A search that ends with nothing asked the local volumes and the nodes   *)
(* in vain: no volume of a node that answered had the key all along.  What *)
(* is left to a false "not found" is a cache entry, and a delete between   *)
(* find and use.                                                           *)
NotFoundIsTrue ==
  [][\A r \in DOMAIN req :
       NotFound(r) =>
         \A v \in req[r].kept : Home[v] \notin req[r].asked \cup {req[r].at}]_vars

(* Why both hold: a node never lists itself, so it never asks itself for a *)
(* key, and what it has asked did not have the key at that moment.         *)
AsksOthers(q) ==
  /\ q.at \notin q.left
  /\ q.stage # "ask" => q.left = {} /\ q.asked = {} /\ q.kept = {}
AskedInVain(q) ==
  \A v \in q.kept : q.key \in has[v] /\ Home[v] \notin q.asked \cup {q.at}
IInv ==
  /\ TypeOK
  /\ \A n \in Nodes : n \notin DOMAIN nodes[n]
  /\ \A r \in DOMAIN req : AsksOthers(req[r]) /\ AskedInVain(req[r])
  /\ CacheSound

(* The caches send requests for k round in a circle. *)
Hops(n, k) ==
  IF k \in DOMAIN cache[n] THEN NodesWith(n, cache[n][k]) ELSE {}
Circle(k) ==
  \E S \in SUBSET Nodes :
    S # {} /\ \A n \in S : Hops(n, k) \cap S # {}

(* Every request ends, unless the caches form a circle or it comes to wait *)
(* for a node that stays silent.                                           *)
EndsUnlessStuck ==
  \A r \in Requests :
    r \in DOMAIN req ~> (r \notin DOMAIN req \/ Circle(req[r].key) \/ Waits(r))
=============================================================================
