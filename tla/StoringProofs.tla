---------------------------- MODULE StoringProofs ----------------------------
(***************************************************************************)
(* The cache of a node never names a volume of that node, and a search     *)
(* that finds nothing asked in vain, for any number of nodes, volumes,     *)
(* keys, requests, crashes and resets.                                     *)
(***************************************************************************)
EXTENDS Storing, TLAPS

(* The parts of IInv. *)
NoSelf == \A n \in Nodes : n \notin DOMAIN nodes[n]
Honest(q) == AsksOthers(q) /\ AskedInVain(q)
AllHonest == \A r \in DOMAIN req : Honest(req[r])

LEMMA InitInv == Init => IInv
BY HomeAssumption
DEF Init, IInv, TypeOK, CacheSound, Empty, IDs, VolumesOf

(* The caches stay sound when they and the IDs stay as they are. *)
LEMMA CacheStays ==
  ASSUME IInv, UNCHANGED <<resets, cache>>
  PROVE  CacheSound'
BY DEF IInv, CacheSound, VolumesOf

(* A step of a request that only moves the request, to a record q that is  *)
(* honest.                                                                 *)
LEMMA MoveInv ==
  ASSUME IInv, NEW r \in DOMAIN req, NEW q \in Request, Honest(q),
         Becomes(r, q), UNCHANGED cache
  PROVE  IInv'
<1>1. UNCHANGED <<up, upsets, resets, has, nodes, cache>>
      /\ req' = [req EXCEPT ![r] = q]
  BY DEF Becomes
<1>2. TypeOK'
  BY <1>1 DEF IInv, TypeOK
<1>3. AllHonest'
  BY <1>1 DEF IInv, AllHonest, Honest, AsksOthers, AskedInVain
<1>4. QED
  BY <1>1, <1>2, <1>3, CacheStays DEF IInv, AllHonest, Honest

(* A request that ends. *)
LEMMA EndInv ==
  ASSUME IInv, NEW r, Ends(r), UNCHANGED cache
  PROVE  IInv'
<1>1. UNCHANGED <<up, upsets, resets, has, nodes, cache>>
      /\ req' = Drop(req, r)
  BY DEF Ends
<1>2. TypeOK'
  BY <1>1 DEF IInv, TypeOK, Drop
<1>3. AllHonest'
  BY <1>1 DEF IInv, AllHonest, Honest, AsksOthers, AskedInVain, Drop
<1>4. QED
  BY <1>1, <1>2, <1>3, CacheStays DEF IInv, AllHonest, Honest

(* The volumes a node says it has are its own, under their present IDs. *)
LEMMA AnswerOwn ==
  ASSUME NEW m, NEW k, NEW id \in Answer(m, k)
  PROVE  \E v \in VolumesOf(m) : id = <<v, resets[v]>>
BY DEF Answer, Holding, ID

LEMMA CreateFileInv ==
  ASSUME IInv, NEW v \in Volumes, NEW k \in Keys, CreateFile(v, k)
  PROVE  IInv'
<1>1. UNCHANGED <<up, upsets, resets, nodes, cache, req>>
      /\ has' = [has EXCEPT ![v] = @ \cup {k}]
  BY DEF CreateFile
<1>2. TypeOK'
  BY <1>1 DEF IInv, TypeOK
<1>3. AllHonest'
  BY <1>1 DEF IInv, TypeOK, Request, AllHonest, Honest, AsksOthers, AskedInVain
<1>4. QED
  BY <1>1, <1>2, <1>3, CacheStays DEF IInv, AllHonest, Honest

LEMMA MembershipInv ==
  ASSUME IInv, NEW n \in Nodes, NEW m \in Nodes,
         NotifyJoin(n, m) \/ NotifyLeave(n, m)
  PROVE  IInv'
<1>1. UNCHANGED <<up, upsets, resets, has, cache, req>>
  BY DEF NotifyJoin, NotifyLeave
<1>2. TypeOK'
  <2>1. Metadata(m) \subseteq IDs
    BY DEF Metadata, ID, IDs, VolumesOf, IInv, TypeOK
  <2>2. QED
    BY <1>1, <2>1 DEF NotifyJoin, NotifyLeave, Put, Drop, IInv, TypeOK
<1>3. NoSelf'
  BY DEF NotifyJoin, NotifyLeave, Put, Drop, IInv, TypeOK, NoSelf
<1>4. AllHonest'
  BY <1>1 DEF IInv, AllHonest, Honest, AsksOthers, AskedInVain
<1>5. QED
  BY <1>1, <1>2, <1>3, <1>4, CacheStays DEF IInv, NoSelf, AllHonest, Honest

LEMMA CrashInv ==
  ASSUME IInv, NEW n \in Nodes, Crash(n)
  PROVE  IInv'
<1>1. TypeOK'
  BY DEF Crash, Empty, IInv, TypeOK
<1>2. NoSelf' /\ CacheSound'
  BY DEF Crash, Empty, IInv, TypeOK, NoSelf, CacheSound, VolumesOf
<1>3. AllHonest'
  BY DEF Crash, IInv, AllHonest, Honest, AsksOthers, AskedInVain
<1>4. QED
  BY <1>1, <1>2, <1>3 DEF IInv, NoSelf, AllHonest, Honest

LEMMA StartInv ==
  ASSUME IInv, NEW n \in Nodes, Start(n)
  PROVE  IInv'
<1>1. PICK away \in SUBSET Volumes :
        /\ resets' = [v \in Volumes |->
                        IF v \in away THEN resets[v] + 1 ELSE resets[v]]
        /\ has' = [v \in Volumes |-> IF v \in away THEN {} ELSE has[v]]
        /\ req' = [r \in DOMAIN req |-> [req[r] EXCEPT !.kept = @ \ away]]
  BY DEF Start, VolumesOf
<1>2. UNCHANGED <<upsets, nodes, cache>> /\ up' = up \cup {n}
  BY DEF Start
<1>3. \A v \in Volumes : resets'[v] \in Nat /\ resets[v] <= resets'[v]
  BY <1>1 DEF IInv, TypeOK
<1>4. CacheSound'
  <2>1. SUFFICES ASSUME NEW o \in Nodes, NEW k \in DOMAIN cache'[o]
                 PROVE  \E v \in Volumes \ VolumesOf(o) :
                          \E e \in 0..resets'[v] : cache'[o][k] = <<v, e>>
    BY DEF CacheSound, VolumesOf
  <2>2. PICK v \in Volumes \ VolumesOf(o) :
          \E e \in 0..resets[v] : cache[o][k] = <<v, e>>
    BY <1>2 DEF IInv, CacheSound
  <2>3. resets[v] \in Nat /\ resets'[v] \in Nat /\ resets[v] <= resets'[v]
    BY <1>3 DEF IInv, TypeOK
  <2>4. QED
    BY <1>2, <2>2, <2>3
<1>5. \A r \in DOMAIN req : [req[r] EXCEPT !.kept = @ \ away] \in Request
  BY DEF Request, IInv, TypeOK
<1>6. TypeOK'
  BY <1>1, <1>2, <1>3, <1>5 DEF IInv, TypeOK
<1>7. AllHonest'
  <2>1. SUFFICES ASSUME NEW r \in DOMAIN req PROVE Honest(req[r])'
    BY <1>1 DEF AllHonest
  <2>2. req[r] \in Request /\ Honest(req[r])
    BY DEF IInv, TypeOK, Honest
  <2>3. req'[r] = [req[r] EXCEPT !.kept = @ \ away]
    BY <1>1
  <2>4. \A v \in req'[r].kept : v \in Volumes /\ has'[v] = has[v]
    BY <1>1, <2>2, <2>3 DEF Request
  <2>5. QED
    BY <2>2, <2>3, <2>4 DEF Honest, AsksOthers, AskedInVain, Request
<1>8. QED
  BY <1>2, <1>4, <1>6, <1>7 DEF IInv, AllHonest, Honest

LEMMA EvictInv ==
  ASSUME IInv, NEW n \in Nodes, NEW k \in Keys, Evict(n, k)
  PROVE  IInv'
<1>1. UNCHANGED <<up, resets, has, nodes, req>> /\ upsets' = upsets + 1
      /\ cache' = [cache EXCEPT ![n] = Drop(@, k)]
  BY DEF Evict
<1>2. TypeOK'
  BY <1>1 DEF IInv, TypeOK, Drop
<1>3. CacheSound'
  <2>1. \A o \in Nodes : \A x \in DOMAIN cache'[o] :
          x \in DOMAIN cache[o] /\ cache'[o][x] = cache[o][x]
    BY <1>1 DEF IInv, TypeOK, Drop
  <2>2. QED
    BY <1>1, <2>1 DEF IInv, CacheSound, VolumesOf
<1>4. AllHonest'
  BY <1>1 DEF IInv, AllHonest, Honest, AsksOthers, AskedInVain
<1>5. NoSelf'
  BY <1>1 DEF IInv, NoSelf
<1>6. QED
  BY <1>2, <1>3, <1>4, <1>5 DEF IInv, NoSelf, AllHonest, Honest

LEMMA IssueInv ==
  ASSUME IInv, NEW r \in Requests, NEW n \in Nodes, NEW k \in Keys,
         Issue(r, n, k)
  PROVE  IInv'
<1> DEFINE q == [key |-> k, stage |-> "route", at |-> n,
                 through |-> {n} \cap Silent, to |-> n, vol |-> {},
                 left |-> {}, asked |-> {}, kept |-> {}]
<1>1. q \in Request /\ Honest(q)
  BY DEF Request, Honest, AsksOthers, AskedInVain
<1>2. req' = Put(req, r, q) /\ UNCHANGED <<up, upsets, resets, has, nodes, cache>>
  BY DEF Issue
<1> HIDE DEF q
<1>3. TypeOK'
  BY <1>1, <1>2 DEF IInv, TypeOK, Put
<1>4. AllHonest'
  BY <1>1, <1>2 DEF IInv, AllHonest, Honest, AsksOthers, AskedInVain, Put
<1>5. QED
  BY <1>2, <1>3, <1>4, CacheStays DEF IInv, AllHonest, Honest

LEMMA RouteByCacheInv ==
  ASSUME IInv, NEW r, RouteByCache(r)
  PROVE  IInv'
<1> DEFINE q == req[r]
<1>1. r \in DOMAIN req /\ q \in Request /\ Honest(q) /\ q.stage = "route"
      /\ UNCHANGED cache
  BY DEF RouteByCache, At, IInv, TypeOK, Honest
<1>2. CASE Ends(r)
  BY <1>1, <1>2, EndInv
<1>3. ASSUME NEW m \in NodesWith(q.at, cache[q.at][q.key]),
             Becomes(r, [q EXCEPT !.stage = "call", !.to = m])
      PROVE  IInv'
  <2>1. m \in Nodes
    BY <1>1 DEF NodesWith, IInv, TypeOK, Request
  <2>2. [q EXCEPT !.stage = "call", !.to = m] \in Request
    BY <1>1, <2>1 DEF Request
  <2>3. Honest([q EXCEPT !.stage = "call", !.to = m])
    BY <1>1 DEF Request, Honest, AsksOthers, AskedInVain
  <2>4. QED
    BY <1>1, <1>3, <2>2, <2>3, MoveInv
<1>4. QED
  BY <1>2, <1>3 DEF RouteByCache

LEMMA RouteLocallyInv ==
  ASSUME IInv, NEW r, RouteLocally(r)
  PROVE  IInv'
<1> DEFINE q == req[r]
<1>1. r \in DOMAIN req /\ q \in Request /\ Honest(q) /\ q.stage = "route"
      /\ UNCHANGED cache
  BY DEF RouteLocally, At, IInv, TypeOK, Honest
<1>2. ASSUME NEW v \in Holding(q.at, q.key),
             Becomes(r, [q EXCEPT !.stage = "serve", !.vol = {v}])
      PROVE  IInv'
  <2>1. [q EXCEPT !.stage = "serve", !.vol = {v}] \in Request
    BY <1>1 DEF Request, Holding, VolumesOf
  <2>2. Honest([q EXCEPT !.stage = "serve", !.vol = {v}])
    BY <1>1 DEF Request, Honest, AsksOthers, AskedInVain
  <2>3. QED
    BY <1>1, <1>2, <2>1, <2>2, MoveInv
<1>3. ASSUME Holding(q.at, q.key) = {}, Becomes(r, Searching(q))
      PROVE  IInv'
  <2> DEFINE p == Searching(q)
  <2>1. q.at \in Nodes /\ q.at \notin DOMAIN nodes[q.at]
        /\ DOMAIN nodes[q.at] \subseteq Nodes
    BY <1>1 DEF IInv, TypeOK, Request
  <2>2. p \in Request
    BY <1>1, <2>1 DEF Request, Searching
  <2>3. \A v \in p.kept : q.key \in has[v] /\ Home[v] # q.at
    BY <1>1, <1>3 DEF Request, Searching, Holding, VolumesOf
  <2>4. q.asked = {}
    BY <1>1 DEF Honest, AsksOthers
  <2>5. Honest(p)
    BY <1>1, <2>1, <2>3, <2>4
    DEF Request, Searching, Honest, AsksOthers, AskedInVain
  <2>6. QED
    BY <1>1, <1>3, <2>2, <2>5, MoveInv
<1>4. QED
  BY <1>2, <1>3 DEF RouteLocally

LEMMA AskFindsInv ==
  ASSUME IInv, NEW r, NEW m \in Nodes, AskFinds(r, m)
  PROVE  IInv'
<1> DEFINE q == req[r]
           p == [q EXCEPT !.stage = "call", !.to = m, !.left = {}, !.asked = {},
                          !.kept = {}]
<1>1. r \in DOMAIN req /\ q \in Request /\ Honest(q) /\ q.stage = "ask"
      /\ m \in q.left
  BY DEF AskFinds, At, IInv, TypeOK, Honest
<1>2. PICK id \in Answer(m, q.key) :
        /\ cache' = [cache EXCEPT ![q.at] = Put(@, q.key, id)]
        /\ Becomes(r, p)
  BY DEF AskFinds
<1>3. PICK v \in VolumesOf(m) : id = <<v, resets[v]>>
  BY AnswerOwn
<1>4. q.at \in Nodes /\ m # q.at /\ q.key \in Keys
  BY <1>1 DEF Honest, AsksOthers, Request
<1>5. v \in Volumes \ VolumesOf(q.at) /\ resets[v] \in Nat /\ id \in IDs
  BY <1>3, <1>4 DEF VolumesOf, IInv, TypeOK, IDs
<1>6. UNCHANGED <<up, upsets, resets, has, nodes>>
      /\ req' = [req EXCEPT ![r] = p]
  BY <1>2 DEF Becomes
<1>7. p \in Request
  BY <1>1 DEF Request
<1>8. Honest(p)
  BY <1>1 DEF Honest, AsksOthers, AskedInVain, Request
<1> HIDE DEF p
<1>9. CacheSound'
  <2>1. SUFFICES ASSUME NEW n \in Nodes, NEW k \in DOMAIN cache'[n]
                 PROVE  \E w \in Volumes \ VolumesOf(n) :
                          \E e \in 0..resets[w] : cache'[n][k] = <<w, e>>
    BY <1>6 DEF CacheSound, VolumesOf
  <2>2. CASE n = q.at /\ k = q.key
    <3>1. cache'[n][k] = <<v, resets[v]>>
      BY <1>2, <1>3, <1>4, <2>2 DEF Put, IInv, TypeOK
    <3>2. QED
      BY <1>5, <2>2, <3>1
  <2>3. CASE ~(n = q.at /\ k = q.key)
    <3>1. k \in DOMAIN cache[n] /\ cache'[n][k] = cache[n][k]
      BY <1>2, <1>4, <2>3 DEF Put, IInv, TypeOK
    <3>2. QED
      BY <3>1 DEF IInv, CacheSound
  <2>4. QED
    BY <2>2, <2>3
<1>10. TypeOK'
  BY <1>1, <1>2, <1>4, <1>5, <1>6, <1>7 DEF IInv, TypeOK, Put
<1>11. AllHonest'
  BY <1>1, <1>6, <1>8 DEF IInv, AllHonest, Honest, AsksOthers, AskedInVain
<1>12. QED
  BY <1>6, <1>9, <1>10, <1>11 DEF IInv, AllHonest, Honest

LEMMA AskMissesInv ==
  ASSUME IInv, NEW r, NEW m \in Nodes, AskMisses(r, m)
  PROVE  IInv'
<1> DEFINE q == req[r]
           p == [q EXCEPT !.left = @ \ {m}, !.asked = @ \cup {m}]
<1>1. r \in DOMAIN req /\ q \in Request /\ Honest(q) /\ q.stage = "ask"
      /\ m \in q.left /\ Becomes(r, p) /\ UNCHANGED cache
  BY DEF AskMisses, At, IInv, TypeOK, Honest
<1>2. \A v \in Volumes : Home[v] = m => q.key \notin has[v]
  BY DEF AskMisses, Answer, Holding, VolumesOf
<1>3. p \in Request
  BY <1>1 DEF Request
<1>4. Honest(p)
  BY <1>1, <1>2 DEF Honest, AsksOthers, AskedInVain, Request
<1>5. QED
  BY <1>1, <1>3, <1>4, MoveInv

LEMMA AskFailsInv ==
  ASSUME IInv, NEW r, NEW m \in Nodes, AskFails(r, m)
  PROVE  IInv'
<1> DEFINE q == req[r]
           p == [q EXCEPT !.left = @ \ {m}]
<1>1. r \in DOMAIN req /\ q \in Request /\ Honest(q) /\ q.stage = "ask"
      /\ Becomes(r, p) /\ UNCHANGED cache
  BY DEF AskFails, At, IInv, TypeOK, Honest
<1>2. p \in Request /\ Honest(p)
  BY <1>1 DEF Honest, AsksOthers, AskedInVain, Request
<1>3. QED
  BY <1>1, <1>2, MoveInv

LEMMA CallInv ==
  ASSUME IInv, NEW r, Call(r)
  PROVE  IInv'
<1> DEFINE q == req[r]
           p == [q EXCEPT !.stage = "route", !.at = q.to,
                          !.through = @ \cup ({q.to} \cap Silent)]
<1>1. r \in DOMAIN req /\ q \in Request /\ Honest(q) /\ q.stage = "call"
      /\ (Becomes(r, p) \/ Ends(r)) /\ UNCHANGED cache
  BY DEF Call, At, IInv, TypeOK, Honest
<1>2. p \in Request /\ Honest(p)
  BY <1>1 DEF Honest, AsksOthers, AskedInVain, Request
<1>3. QED
  BY <1>1, <1>2, MoveInv, EndInv

(* A delete takes its key from a volume, and the volume from what the      *)
(* other requests for that key may count on.                               *)
LEMMA ServeInv ==
  ASSUME IInv, NEW r, Serve(r)
  PROVE  IInv'
<1> DEFINE k == req[r].key
<1>1. PICK gone \in SUBSET Volumes :
        /\ has' = [v \in Volumes |-> IF v \in gone THEN has[v] \ {k} ELSE has[v]]
        /\ req' = [x \in DOMAIN req \ {r} |->
                     IF req[x].key = k THEN [req[x] EXCEPT !.kept = @ \ gone]
                     ELSE req[x]]
  BY DEF Serve, Holding, VolumesOf
<1>2. UNCHANGED <<up, upsets, resets, nodes, cache>>
  BY DEF Serve
<1>3. \A x \in DOMAIN req : [req[x] EXCEPT !.kept = @ \ gone] \in Request
  BY DEF IInv, TypeOK, Request
<1>4. TypeOK'
  BY <1>1, <1>2, <1>3 DEF IInv, TypeOK
<1>5. AllHonest'
  <2>1. SUFFICES ASSUME NEW x \in DOMAIN req, x # r PROVE Honest(req[x])'
    BY <1>1 DEF AllHonest
  <2>2. req[x] \in Request /\ Honest(req[x])
    BY DEF IInv, TypeOK, Honest
  <2>3. CASE req[x].key = k
    <3>1. req'[x] = [req[x] EXCEPT !.kept = @ \ gone]
      BY <1>1, <2>1, <2>3
    <3>2. \A v \in req'[x].kept : v \in req[x].kept /\ has'[v] = has[v]
      BY <1>1, <2>2, <3>1 DEF Request
    <3>3. QED
      BY <2>2, <3>1, <3>2 DEF Honest, AsksOthers, AskedInVain, Request
  <2>4. CASE req[x].key # k
    <3>1. req'[x] = req[x]
      BY <1>1, <2>1, <2>4
    <3>2. \A v \in req[x].kept : req[x].key \in has[v] => req[x].key \in has'[v]
      BY <1>1, <2>2, <2>4 DEF Request
    <3>3. QED
      BY <2>2, <3>1, <3>2 DEF Honest, AsksOthers, AskedInVain
  <2>5. QED
    BY <2>3, <2>4
<1>6. QED
  BY <1>2, <1>4, <1>5, CacheStays DEF IInv, AllHonest, Honest

LEMMA StepInv == IInv /\ [Next]_vars => IInv'
<1> SUFFICES ASSUME IInv, [Next]_vars PROVE IInv'
  OBVIOUS
<1>1. CASE UNCHANGED vars
  <2>1. TypeOK' /\ NoSelf' /\ AllHonest'
    BY <1>1 DEF vars, IInv, TypeOK, NoSelf, AllHonest, Honest, AsksOthers,
                AskedInVain
  <2>2. QED
    BY <1>1, <2>1, CacheStays DEF vars, IInv, NoSelf, AllHonest, Honest
<1>2. ASSUME NEW r \in Requests, RequestStep(r) PROVE IInv'
  <2>1. NotFound(r) => Ends(r) /\ UNCHANGED cache
    BY DEF NotFound
  <2>2. QED
    BY <1>2, <2>1, RouteByCacheInv, RouteLocallyInv, AskFindsInv, AskMissesInv,
       AskFailsInv, EndInv, CallInv, ServeInv DEF RequestStep
<1>3. QED
  BY <1>1, <1>2, CreateFileInv, MembershipInv, CrashInv, StartInv, EvictInv,
     IssueInv DEF Next

(* The invariant the next theorems follow from: a node asks others only,   *)
(* and what it asked had nothing.                                          *)
THEOREM StoringInductive == Spec => []IInv
BY InitInv, StepInv, PTL DEF Spec

(* getVolume never finds in its cache a volume of its own node, which      *)
(* GetNodeWithVolumeByID could not find (the comment of getVolume).        *)
THEOREM CacheAlwaysSound == Spec => []CacheSound
<1>1. IInv => CacheSound
  BY DEF IInv
<1>2. QED
  BY <1>1, StoringInductive, PTL

(* When getVolume's search finds nothing, no local volume and no volume of *)
(* a node that answered had the key all along.                             *)
THEOREM NotFoundAlwaysTrue == Spec => NotFoundIsTrue
<1>1. IInv /\ [Next]_vars =>
        [\A r \in DOMAIN req :
           NotFound(r) =>
             \A v \in req[r].kept :
               Home[v] \notin req[r].asked \cup {req[r].at}]_vars
  BY DEF IInv, AskedInVain, NotFound, At
<1>2. QED
  BY <1>1, StoringInductive, PTL DEF Spec, NotFoundIsTrue
=============================================================================
