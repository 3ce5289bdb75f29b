----------------------------- MODULE Succession ------------------------------
(***************************************************************************)
(* Why at most one node takes over for a volume that left: what holds of   *)
(* the rows and the queues of all nodes while OneSuccessor's conditions    *)
(* do, for content s, put once, under key k, on volume o.                  *)
(***************************************************************************)
EXTENDS Cluster

Alive(v) == \A p \in gone : p[2] # v
Known(v) == v[2] <= epoch[v[1]]

(* Nodes are known under a volume ID they have or had, a volume is listed, *)
(* waits to be given up or was, and one that was given up does not run.    *)
MembersSound ==
  /\ \A n \in Nodes : \A m \in DOMAIN nodes[n] :
       m # n /\ nodes[n][m][1] = m /\ Known(nodes[n][m])
  /\ \A n \in Nodes : \A v \in removed[n] :
       Known(v) /\ \A m \in DOMAIN nodes[n] : nodes[n][m] # v
  /\ \A p \in gone : Known(p[2])
  /\ \A n \in up : ID(n) \in back \/ Alive(ID(n))
  /\ back = {} => \A p \in gone :
       p[2] \notin removed[p[1]] /\ \A m \in DOMAIN nodes[p[1]] : nodes[p[1]][m] # p[2]

(* Nothing was put yet. *)
Nothing ==
  \A n \in Nodes : /\ DOMAIN idxkeys[n] = {} /\ DOMAIN files[n] = {}
                   /\ idxvolumes[n] = {} /\ replicas[n] = <<>> /\ loop[n] = Idle

-----------------------------------------------------------------------------
(* What each node keeps. *)

Holds(n, s) == s \in DOMAIN files[n]
Vids(n, s) == files[n][s].vids
Distinct(l) == \A i, j \in DOMAIN l : l[i] = l[j] => i = j

(* A listed volume has the content, unless it was reset. *)
Backed(v, k, s) ==
  Known(v) /\ (v = ID(v[1]) => k \in DOMAIN idxkeys[v[1]] /\ idxkeys[v[1]][k] = s)
Sound(l, k, s) == l # <<>> /\ Distinct(l) /\ \A v \in ElemsOf(l) : Backed(v, k, s)

Tables(n, k, s) ==
  /\ DOMAIN idxkeys[n] \subseteq {k}
  /\ DOMAIN files[n] = {idxkeys[n][j] : j \in DOMAIN idxkeys[n]}
  /\ \A p \in idxvolumes[n] : p[2] = s /\ p[1] # ID(n) /\ Holds(n, s)
  /\ Holds(n, s) => Sound(Vids(n, s), k, s)

Queue(n, k, s) ==
  /\ replicas[n] # <<>> => Holds(n, s)
  /\ \A i \in DOMAIN replicas[n] :
       LET rp == replicas[n][i] IN
         rp.key = k /\ rp.sig = s /\ Sound(rp.vids, k, s) /\ rp.vids[1] = ID(n)

(* The loop has the head of the queue in hand.  At "tell" its list has one *)
(* volume more, which the own row does not list yet.                       *)
Running(n, k, s) ==
  LET l == loop[n] rp == replicas[n][1] IN
    /\ l.at # "idle" => n \notin l.left
    /\ l.at \in {"ask", "send"} => l.rp = rp
    /\ l.at = "send" => l.to # n /\ l.sig = s /\ k \notin DOMAIN idxkeys[l.to]
    /\ l.at = "tell" =>
         /\ l.rp = [rp EXCEPT !.vids = Append(@, l.vid)]
         /\ l.vid[1] # n /\ Backed(l.vid, k, s)
         /\ l.vid \notin ElemsOf(rp.vids) \cup ElemsOf(Vids(n, s))

Kept(k, s) == \A n \in Nodes : Tables(n, k, s) /\ Queue(n, k, s) /\ Running(n, k, s)

-----------------------------------------------------------------------------
(* Who leads: the volume of the put, who has copies to make, and who is    *)
(* first in the row of another.                                            *)

Long(n, s) == Holds(n, s) /\ Len(Vids(n, s)) > 1
First(n, s) == Vids(n, s)[1]
(* n takes over when First(n, s) goes. *)
Heir(n, s) == Long(n, s) /\ Vids(n, s)[2] = ID(n)
Leading(o, s) ==
  {o} \cup {ID(n) : n \in {m \in Nodes : replicas[m] # <<>>}}
      \cup {First(n, s) : n \in {m \in Nodes : Long(m, s)}}

(* A row that begins with its own volume is the one of o, and has all the  *)
(* index has, or is a copy nobody was told of.                             *)
Rows(o, s) == \A n \in Nodes : Holds(n, s) =>
  /\ First(n, s) # ID(n) => Long(n, s)
  /\ First(n, s) = ID(n) =>
       /\ \A p \in idxvolumes[n] : p[1] \in ElemsOf(Vids(n, s))
       /\ ID(n) # o => ~Long(n, s) /\ replicas[n] = <<>>

(* Who leads after o is the heir of a volume it gave up. *)
Leaders(o, s) == \A n \in Nodes : ID(n) \in Leading(o, s) =>
  /\ Holds(n, s)
  /\ ID(n) = o => First(n, s) = o
  /\ ID(n) # o => /\ Heir(n, s) /\ <<n, First(n, s)>> \in gone
                  /\ Len(replicas[n]) <= 1

OneLeader(o, s) ==
  \A x, y \in Leading(o, s) : Alive(x) /\ Alive(y) => x = y

(* An heir that lives is the leader, or the leader is before it.           *)
HeirsFollow(o, s) == \A n \in Nodes : Heir(n, s) /\ Alive(ID(n)) =>
  \A x \in Leading(o, s) : Alive(x) => x \in {First(n, s), ID(n)}

(* Of two heirs that live, one comes before the other.                     *)
HeirsApart(s) == \A n, m \in Nodes :
  n # m /\ Heir(n, s) /\ Heir(m, s) /\ Alive(ID(n)) /\ Alive(ID(m)) =>
    First(n, s) # First(m, s) /\ (First(n, s) = ID(m) \/ First(m, s) = ID(n))

-----------------------------------------------------------------------------
(* The list at place i of the queue, as the loop has it. *)
Entry(n, i) ==
  IF i = 1 /\ loop[n].at = "tell" THEN loop[n].rp.vids ELSE replicas[n][i].vids
(* The volumes that are, or may become, second after n: in a list of its   *)
(* queue, or by their own row.                                             *)
Seconds(n, s) ==
  {Entry(n, i)[2] : i \in {j \in DOMAIN replicas[n] : Len(Entry(n, j)) > 1}}
  \cup {ID(m) : m \in {q \in Nodes : Heir(q, s) /\ First(q, s) = ID(n)}}
(* The places in the queue whose next copy becomes second. *)
Singles(n) == {i \in DOMAIN replicas[n] : Len(Entry(n, i)) = 1}

(* n has one second that lives, and makes another only when none does.     *)
OneSecond(n, s) ==
  /\ \A a, b \in Seconds(n, s) : Alive(a) /\ Alive(b) => a = b
  /\ \A i \in Singles(n) : /\ \A a \in Seconds(n, s) : ~Alive(a)
                           /\ \A j \in Singles(n) : i = j

(* The seconds of o are the one of its row, until it gave that up.         *)
SecondsOf(n, o, s) ==
  LET row == Vids(n, s) IN
  ID(n) = o /\ Holds(n, s) =>
    /\ Len(row) = 1 => /\ Len(replicas[n]) <= 1
                       /\ \A a \in Seconds(n, s) : loop[n].at = "tell" /\ a = loop[n].vid
    /\ Len(row) > 1 => /\ \A a \in Seconds(n, s) : a = row[2] \/ <<n, row[2]>> \in gone
                       /\ Singles(n) # {} => <<n, row[2]>> \in gone

-----------------------------------------------------------------------------
Family(o, k, s) ==
  /\ Kept(k, s)
  /\ Rows(o, s) /\ Leaders(o, s) /\ OneLeader(o, s)
  /\ HeirsFollow(o, s) /\ HeirsApart(s)
  /\ \A n \in Nodes : OneSecond(n, s) /\ SecondsOf(n, o, s)

Calm == spent.puts <= 1 /\ spent.deletes = 0 /\ back = {} /\ torn = {}
(* The inductive invariant of OneSuccessor. *)
Succession ==
  /\ MembersSound
  /\ Calm => \/ spent.puts = 0 /\ Nothing
             \/ /\ spent.puts = 1
                /\ \E p \in Puts : \E e \in 0..epoch[p[1]] :
                     Family(<<p[1], e>>, p[2], p[3])
=============================================================================
