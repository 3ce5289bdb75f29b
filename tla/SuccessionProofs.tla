-------------------------- MODULE SuccessionProofs ---------------------------
(***************************************************************************)
(* At most one node takes over for a volume that left, for any number of   *)
(* nodes, crashes, lost answers and resets (SynchronizeReplicas).          *)
(***************************************************************************)
EXTENDS Succession, ClusterProofs

-----------------------------------------------------------------------------
(* Types. *)

LEMMA Types ==
  ASSUME TypeOK, NEW n \in Nodes
  PROVE  /\ epoch[n] \in Nat /\ ID(n) \in IDs /\ ID(n)[1] = n /\ ID(n)[2] = epoch[n]
         /\ \A x \in DOMAIN files[n] : files[n][x] \in Row /\ files[n][x].vids \in Seq(IDs)
         /\ replicas[n] \in Seq(Replica) /\ DOMAIN replicas[n] = 1..Len(replicas[n])
         /\ \A i \in DOMAIN replicas[n] :
              replicas[n][i] \in Replica /\ replicas[n][i].vids \in Seq(IDs)
         /\ loop[n].at \in {"idle", "ask", "send", "tell"}
         /\ loop[n].at = "idle" => loop[n] = Idle
         /\ loop[n].at # "idle" =>
              /\ loop[n].rp \in Replica /\ loop[n].rp.vids \in Seq(IDs)
              /\ loop[n].left \subseteq Nodes
         /\ loop[n].at = "send" => loop[n].to \in Nodes /\ loop[n].sig \in Signatures
         /\ loop[n].at = "tell" => loop[n].vid \in IDs /\ loop[n].tell \in Seq(IDs)
<1>1. epoch[n] \in Nat /\ ID(n) \in IDs /\ ID(n)[1] = n /\ ID(n)[2] = epoch[n]
  BY DEF TypeOK, ID, IDs
<1>2. \A x \in DOMAIN files[n] : files[n][x] \in Row /\ files[n][x].vids \in Seq(IDs)
  BY DEF TypeOK, IsTable, Row
<1>3. replicas[n] \in Seq(Replica)
  BY DEF TypeOK
<1>4. DOMAIN replicas[n] = 1..Len(replicas[n])
  BY <1>3, LenProperties
<1>5. \A i \in DOMAIN replicas[n] :
        replicas[n][i] \in Replica /\ replicas[n][i].vids \in Seq(IDs)
  <2>1. \A i \in DOMAIN replicas[n] : replicas[n][i] \in Replica
    BY <1>3, <1>4, ElementOfSeq
  <2> QED BY <2>1 DEF Replica
<1>6. loop[n].at # "idle" => loop[n].rp \in Replica /\ loop[n].rp.vids \in Seq(IDs)
  BY PlaceParts DEF Replica
<1> QED BY <1>1, <1>2, <1>3, <1>4, <1>5, <1>6, PlaceParts

LEMMA IDParts ==
  ASSUME NEW v \in IDs
  PROVE  v[1] \in Nodes /\ v[2] \in Nat /\ v = <<v[1], v[2]>>
BY DEF IDs

LEMMA SameID ==
  ASSUME NEW n \in Nodes, NEW m \in Nodes, ID(n) = ID(m)
  PROVE  n = m
BY DEF ID

-----------------------------------------------------------------------------
(* No volume loses the content, but by a reset. *)
KeysStay(k) ==
  \A n \in Nodes :
    \/ /\ epoch'[n] = epoch[n]
       /\ k \in DOMAIN idxkeys[n] => k \in DOMAIN idxkeys'[n] /\ idxkeys'[n][k] = idxkeys[n][k]
    \/ epoch'[n] > epoch[n]

LEMMA BackedStays ==
  ASSUME TypeOK, TypeOK', NEW k, NEW s, KeysStay(k), NEW v \in IDs, Backed(v, k, s)
  PROVE  Backed(v, k, s)'
<1>1. PICK n \in Nodes, e \in Nat : v = <<n, e>> /\ v[1] = n /\ v[2] = e
  BY IDParts
<1>2. epoch[n] \in Nat /\ epoch'[n] \in Nat
  BY DEF TypeOK
<1>3. e <= epoch[n] /\ (e = epoch[n] => k \in DOMAIN idxkeys[n] /\ idxkeys[n][k] = s)
  BY <1>1 DEF Backed, Known, ID
<1>4. e <= epoch'[n] /\ (e = epoch'[n] => k \in DOMAIN idxkeys'[n] /\ idxkeys'[n][k] = s)
  BY <1>2, <1>3 DEF KeysStay
<1> QED BY <1>1, <1>4 DEF Backed, Known, ID

LEMMA SoundStays ==
  ASSUME TypeOK, TypeOK', NEW k, NEW s, KeysStay(k), NEW l \in Seq(IDs), Sound(l, k, s)
  PROVE  Sound(l, k, s)'
<1>1. \A v \in ElemsOf(l) : v \in IDs
  BY ElementOfSeq, LenProperties DEF ElemsOf
<1> QED BY <1>1, BackedStays DEF Sound

LEMMA TablesStay ==
  ASSUME TypeOK, TypeOK', NEW k, NEW s, KeysStay(k), NEW n \in Nodes, Tables(n, k, s),
         epoch'[n] = epoch[n], idxkeys'[n] = idxkeys[n], files'[n] = files[n],
         idxvolumes'[n] = idxvolumes[n]
  PROVE  Tables(n, k, s)'
<1>1. Holds(n, s) => Vids(n, s) \in Seq(IDs)
  BY Types DEF Holds, Vids
<1>2. (Holds(n, s)' <=> Holds(n, s)) /\ Vids(n, s)' = Vids(n, s) /\ ID(n)' = ID(n)
  BY DEF Holds, Vids, ID
<1>3. Holds(n, s)' => Sound(Vids(n, s), k, s)'
  BY <1>1, <1>2, SoundStays DEF Tables
<1> QED BY <1>2, <1>3 DEF Tables

LEMMA QueueStays ==
  ASSUME TypeOK, TypeOK', NEW k, NEW s, KeysStay(k), NEW n \in Nodes, Queue(n, k, s),
         epoch'[n] = epoch[n], replicas'[n] = replicas[n], Holds(n, s) => Holds(n, s)'
  PROVE  Queue(n, k, s)'
<1>1. \A i \in DOMAIN replicas[n] : replicas[n][i].vids \in Seq(IDs)
  BY Types
<1>2. \A i \in DOMAIN replicas[n] : Sound(replicas[n][i].vids, k, s)'
  BY <1>1, SoundStays DEF Queue
<1> QED BY <1>2 DEF Queue, ID

(* A loop that stays where it is. *)
LEMMA RunningStays ==
  ASSUME TypeOK, TypeOK', NEW k, NEW s, KeysStay(k), NEW n \in Nodes, Running(n, k, s),
         loop'[n] = loop[n], replicas'[n] = replicas[n], files'[n] = files[n],
         loop[n].at = "send" => k \notin DOMAIN idxkeys'[loop[n].to]
  PROVE  Running(n, k, s)'
<1>1. loop[n].at = "tell" => Backed(loop[n].vid, k, s)'
  BY Types, BackedStays DEF Running
<1> QED BY <1>1 DEF Running, Vids

LEMMA IdleRuns ==
  ASSUME NEW k, NEW s, NEW n \in Nodes, loop[n] = Idle
  PROVE  Running(n, k, s)
BY DEF Running, Idle

-----------------------------------------------------------------------------
(* Leaders. *)

LEMMA LeadingIs ==
  ASSUME NEW o, NEW s, NEW x
  PROVE  x \in Leading(o, s) <=>
           \/ x = o
           \/ \E n \in Nodes : ID(n) = x /\ replicas[n] # <<>>
           \/ \E n \in Nodes : Long(n, s) /\ First(n, s) = x
BY DEF Leading

LEMMA SecondsAre ==
  ASSUME NEW n, NEW s, NEW a
  PROVE  a \in Seconds(n, s) <=>
           \/ \E i \in DOMAIN replicas[n] : Len(Entry(n, i)) > 1 /\ Entry(n, i)[2] = a
           \/ \E m \in Nodes : Heir(m, s) /\ First(m, s) = ID(n) /\ ID(m) = a
BY DEF Seconds

(* Fewer alive, fewer leaders and fewer heirs disturb nothing. *)
LEMMA FewerLead ==
  ASSUME NEW o, NEW s, OneLeader(o, s), HeirsFollow(o, s), HeirsApart(s),
         \A x : Alive(x)' => Alive(x),
         \A x \in Leading(o, s)' : Alive(x)' => x \in Leading(o, s),
         \A n \in Nodes : Heir(n, s)' =>
           Heir(n, s) /\ ID(n)' = ID(n) /\ First(n, s)' = First(n, s)
  PROVE  OneLeader(o, s)' /\ HeirsFollow(o, s)' /\ HeirsApart(s)'
<1>1. OneLeader(o, s)'
  BY DEF OneLeader
<1>2. HeirsFollow(o, s)'
  BY DEF HeirsFollow
<1>3. HeirsApart(s)'
  <2>1. SUFFICES ASSUME NEW n \in Nodes, NEW m \in Nodes, n # m,
                        Heir(n, s)', Heir(m, s)', Alive(ID(n))', Alive(ID(m))'
                 PROVE  (First(n, s) # First(m, s) /\ (First(n, s) = ID(m) \/ First(m, s) = ID(n)))'
    BY DEF HeirsApart
  <2>2. /\ Heir(n, s) /\ ID(n)' = ID(n) /\ First(n, s)' = First(n, s)
        /\ Heir(m, s) /\ ID(m)' = ID(m) /\ First(m, s)' = First(m, s)
    BY <2>1
  <2>3. Alive(ID(n)) /\ Alive(ID(m))
    BY <2>1, <2>2
  <2>4. First(n, s) # First(m, s) /\ (First(n, s) = ID(m) \/ First(m, s) = ID(n))
    BY <2>1, <2>2, <2>3 DEF HeirsApart
  <2> QED BY <2>2, <2>4
<1> QED BY <1>1, <1>2, <1>3

-----------------------------------------------------------------------------
(* Steps that leave every row and queue, or add a row nobody was told of.  *)

Heads(o, s) ==
  /\ Rows(o, s) /\ Leaders(o, s) /\ OneLeader(o, s)
  /\ HeirsFollow(o, s) /\ HeirsApart(s)
SameRow(n, s) ==
  (Holds(n, s)' <=> Holds(n, s)) /\ (Holds(n, s) => Vids(n, s)' = Vids(n, s))
NewRow(n, s) ==
  /\ ~Holds(n, s) /\ Holds(n, s)' /\ Vids(n, s)' = <<ID(n)>>
  /\ idxvolumes[n] = {} /\ replicas[n] = <<>>

LEMMA RowStays ==
  ASSUME NEW s, NEW n \in Nodes, epoch'[n] = epoch[n], SameRow(n, s) \/ NewRow(n, s)
  PROVE  /\ ID(n)' = ID(n) /\ (Long(n, s)' <=> Long(n, s)) /\ (Heir(n, s)' <=> Heir(n, s))
         /\ Long(n, s) => First(n, s)' = First(n, s)
<1>1. ID(n)' = ID(n)
  BY DEF ID
<1>2. CASE SameRow(n, s)
  BY <1>1, <1>2 DEF SameRow, Long, Heir, First
<1>3. CASE NewRow(n, s)
  BY <1>1, <1>3 DEF NewRow, Long, Heir, First
<1> QED BY <1>2, <1>3

LEMMA LeadingStays ==
  ASSUME NEW o, NEW s, UNCHANGED <<epoch, replicas>>,
         \A n \in Nodes : SameRow(n, s) \/ NewRow(n, s)
  PROVE  Leading(o, s)' = Leading(o, s)
<1>1. \A n \in Nodes : /\ ID(n)' = ID(n) /\ (Long(n, s)' <=> Long(n, s))
                       /\ Long(n, s) => First(n, s)' = First(n, s)
  BY RowStays
<1>2. \A x : x \in Leading(o, s)' <=> x \in Leading(o, s)
  <2>1. SUFFICES ASSUME NEW x PROVE x \in Leading(o, s)' <=> x \in Leading(o, s)
    OBVIOUS
  <2>2. x \in Leading(o, s) <=>
           \/ x = o
           \/ \E n \in Nodes : ID(n) = x /\ replicas[n] # <<>>
           \/ \E n \in Nodes : Long(n, s) /\ First(n, s) = x
    BY LeadingIs
  <2>3. x \in Leading(o, s)' <=>
           \/ x = o
           \/ \E n \in Nodes : ID(n)' = x /\ replicas'[n] # <<>>
           \/ \E n \in Nodes : Long(n, s)' /\ First(n, s)' = x
    BY DEF Leading
  <2> QED BY <1>1, <2>2, <2>3
<1> QED BY <1>2

LEMMA HeadsStay ==
  ASSUME NEW o, NEW s, Heads(o, s), UNCHANGED <<epoch, idxvolumes, replicas>>,
         gone \subseteq gone', \A n \in Nodes : SameRow(n, s) \/ NewRow(n, s)
  PROVE  Heads(o, s)'
<1>1. \A n \in Nodes : /\ ID(n)' = ID(n) /\ (Long(n, s)' <=> Long(n, s))
                       /\ (Heir(n, s)' <=> Heir(n, s))
                       /\ Long(n, s) => First(n, s)' = First(n, s)
  BY RowStays
<1>2. Leading(o, s)' = Leading(o, s)
  BY LeadingStays
<1>3. \A x : Alive(x)' => Alive(x)
  BY DEF Alive
<1>4. OneLeader(o, s)' /\ HeirsFollow(o, s)' /\ HeirsApart(s)'
  <2>1. \A n \in Nodes : Heir(n, s)' =>
          Heir(n, s) /\ ID(n)' = ID(n) /\ First(n, s)' = First(n, s)
    BY <1>1 DEF Heir
  <2> QED BY <1>2, <1>3, <2>1, FewerLead DEF Heads
<1>5. Rows(o, s)'
  <2>1. SUFFICES ASSUME NEW n \in Nodes, Holds(n, s)'
                 PROVE  (/\ First(n, s) # ID(n) => Long(n, s)
                         /\ First(n, s) = ID(n) =>
                              /\ \A p \in idxvolumes[n] : p[1] \in ElemsOf(Vids(n, s))
                              /\ ID(n) # o => ~Long(n, s) /\ replicas[n] = <<>>)'
    BY DEF Rows
  <2>2. CASE SameRow(n, s)
    <3>1. Holds(n, s) /\ First(n, s)' = First(n, s) /\ Vids(n, s)' = Vids(n, s)
      BY <2>1, <2>2 DEF SameRow, First
    <3> QED BY <1>1, <3>1 DEF Heads, Rows
  <2>3. CASE NewRow(n, s)
    <3>1. First(n, s)' = ID(n) /\ ~Long(n, s)'
      BY <2>3 DEF NewRow, First, Long
    <3> QED BY <1>1, <2>3, <3>1 DEF NewRow
  <2> QED BY <2>2, <2>3
<1>6. Leaders(o, s)'
  <2>1. SUFFICES ASSUME NEW n \in Nodes, ID(n) \in Leading(o, s)
                 PROVE  (/\ Holds(n, s)
                         /\ ID(n) = o => First(n, s) = o
                         /\ ID(n) # o => /\ Heir(n, s) /\ <<n, First(n, s)>> \in gone
                                         /\ Len(replicas[n]) <= 1)'
    BY <1>1, <1>2 DEF Leaders
  <2>2. /\ Holds(n, s)
        /\ ID(n) = o => First(n, s) = o
        /\ ID(n) # o => /\ Heir(n, s) /\ <<n, First(n, s)>> \in gone
                        /\ Len(replicas[n]) <= 1
    BY <2>1 DEF Heads, Leaders
  <2>3. SameRow(n, s)
    BY <2>2 DEF NewRow
  <2>4. Holds(n, s)' /\ First(n, s)' = First(n, s)
    BY <2>2, <2>3 DEF SameRow, First
  <2> QED BY <1>1, <2>2, <2>4
<1> QED BY <1>4, <1>5, <1>6 DEF Heads

(* The entries stay too. *)
SameEntries(n) ==
  /\ loop'[n].at = "tell" <=> loop[n].at = "tell"
  /\ loop[n].at = "tell" => loop'[n].rp = loop[n].rp /\ loop'[n].vid = loop[n].vid

LEMMA EntryStays ==
  ASSUME NEW n \in Nodes, replicas'[n] = replicas[n], SameEntries(n)
  PROVE  (\A i : Entry(n, i)' = Entry(n, i)) /\ Singles(n)' = Singles(n)
BY DEF SameEntries, Entry, Singles

LEMMA SecondsStay ==
  ASSUME NEW s, NEW n \in Nodes, replicas'[n] = replicas[n], SameEntries(n),
         UNCHANGED epoch, \A m \in Nodes : SameRow(m, s) \/ NewRow(m, s)
  PROVE  Seconds(n, s)' = Seconds(n, s)
<1>1. \A m \in Nodes : /\ ID(m)' = ID(m) /\ (Heir(m, s)' <=> Heir(m, s))
                       /\ Heir(m, s) => First(m, s)' = First(m, s)
  BY RowStays DEF Heir
<1>2. \A i : Entry(n, i)' = Entry(n, i)
  BY EntryStays
<1>3. \A a : a \in Seconds(n, s)' <=> a \in Seconds(n, s)
  <2>1. SUFFICES ASSUME NEW a PROVE a \in Seconds(n, s)' <=> a \in Seconds(n, s)
    OBVIOUS
  <2>2. a \in Seconds(n, s) <=>
           \/ \E i \in DOMAIN replicas[n] : Len(Entry(n, i)) > 1 /\ Entry(n, i)[2] = a
           \/ \E m \in Nodes : Heir(m, s) /\ First(m, s) = ID(n) /\ ID(m) = a
    BY SecondsAre
  <2>3. a \in Seconds(n, s)' <=>
           \/ \E i \in DOMAIN replicas'[n] : Len(Entry(n, i)') > 1 /\ Entry(n, i)'[2] = a
           \/ \E m \in Nodes : Heir(m, s)' /\ First(m, s)' = ID(n)' /\ ID(m)' = a
    BY DEF Seconds
  <2> QED BY <1>1, <1>2, <2>2, <2>3
<1> QED BY <1>3

LEMMA OneSecondStays ==
  ASSUME NEW o, NEW k, NEW s, Family(o, k, s), NEW n \in Nodes, replicas'[n] = replicas[n],
         SameEntries(n), UNCHANGED epoch, gone \subseteq gone',
         \A m \in Nodes : SameRow(m, s) \/ NewRow(m, s)
  PROVE  OneSecond(n, s)' /\ SecondsOf(n, o, s)'
<1>1. Seconds(n, s)' = Seconds(n, s) /\ Singles(n)' = Singles(n)
  BY SecondsStay, EntryStays
<1>2. \A x : Alive(x)' => Alive(x)
  BY DEF Alive
<1>3. OneSecond(n, s)'
  BY <1>1, <1>2 DEF Family, OneSecond
<1>4. SecondsOf(n, o, s)'
  <2>1. CASE ID(n) = o
    <3>1. Holds(n, s) /\ SecondsOf(n, o, s)
      BY <2>1, LeadingIs DEF Family, Leaders
    <3>2. SameRow(n, s)
      BY <3>1 DEF NewRow
    <3>3. Vids(n, s)' = Vids(n, s)
      BY <3>1, <3>2 DEF SameRow
    <3> QED BY <1>1, <2>1, <3>1, <3>3 DEF SecondsOf, SameEntries
  <2>2. CASE ID(n) # o
    BY <2>2 DEF SecondsOf, ID
  <2> QED BY <2>1, <2>2
<1> QED BY <1>3, <1>4

LEMMA FamilyStays ==
  ASSUME NEW o, NEW k, NEW s, Family(o, k, s), Kept(k, s)',
         UNCHANGED <<epoch, idxvolumes, replicas>>, gone \subseteq gone',
         \A n \in Nodes : SameRow(n, s) \/ NewRow(n, s),
         \A n \in Nodes : SameEntries(n)
  PROVE  Family(o, k, s)'
<1>1. Heads(o, s)'
  BY HeadsStay DEF Family, Heads
<1>2. \A n \in Nodes : OneSecond(n, s)' /\ SecondsOf(n, o, s)'
  BY OneSecondStays
<1> QED BY <1>1, <1>2 DEF Family, Heads

-----------------------------------------------------------------------------
(* A node that has copies to make and runs leads, and no other loop is     *)
(* under way.                                                              *)
LEMMA Alone ==
  ASSUME IInv, MembersSound, back = {}, NEW o, NEW k, NEW s, Family(o, k, s),
         NEW n \in Nodes, n \in up, replicas[n] # <<>>
  PROVE  /\ ID(n) \in Leading(o, s) /\ Alive(ID(n)) /\ Holds(n, s)
         /\ \A m \in Nodes \ {n} : /\ ID(m) \in Leading(o, s) => ~Alive(ID(m))
                                   /\ loop[m] = Idle
<1>1. ID(n) \in Leading(o, s)
  BY DEF Leading
<1>2. \A m \in up : Alive(ID(m))
  BY DEF MembersSound
<1>3. \A m \in Nodes \ {n} : ID(m) \in Leading(o, s) => ~Alive(ID(m))
  BY <1>1, <1>2, SameID DEF Family, OneLeader
<1>4. ASSUME NEW m \in Nodes \ {n} PROVE loop[m] = Idle
  <2>1. SUFFICES ASSUME loop[m] # Idle PROVE FALSE
    OBVIOUS
  <2>2. m \in up /\ replicas[m] # <<>>
    BY <2>1 DEF IInv
  <2>3. ID(m) \in Leading(o, s)
    BY <2>2 DEF Leading
  <2> QED BY <1>2, <1>3, <2>2, <2>3
<1> QED BY <1>1, <1>2, <1>3, <1>4 DEF Family, Leaders

(* A step that only moves the loop of n, before its copy is made. *)
LEMMA LoopMoves ==
  ASSUME IInv, IInv', NEW o, NEW k, NEW s, Family(o, k, s), NEW n \in Nodes, NEW l,
         Goes(n, l), loop[n].at # "tell", l.at # "tell",
         UNCHANGED <<epoch, volumes, gone>>, Running(n, k, s)'
  PROVE  Family(o, k, s)'
<1>1. UNCHANGED <<idxkeys, files, idxvolumes, replicas>>
  BY DEF volumes
<1>2. TypeOK /\ TypeOK' /\ KeysStay(k)
  BY <1>1 DEF IInv, KeysStay
<1>3. loop'[n] = l /\ \A m \in Nodes \ {n} : loop'[m] = loop[m]
  BY <1>2 DEF Goes, TypeOK
<1>4. Kept(k, s)
  BY DEF Family
<1>5. \A m \in Nodes : Holds(m, s)' <=> Holds(m, s)
  BY <1>1 DEF Holds
<1>6. \A m \in Nodes : Tables(m, k, s)' /\ Queue(m, k, s)'
  BY <1>1, <1>2, <1>4, <1>5, TablesStay, QueueStays DEF Kept
<1>7. \A m \in Nodes \ {n} : Running(m, k, s)'
  <2>1. SUFFICES ASSUME NEW m \in Nodes \ {n} PROVE Running(m, k, s)'
    OBVIOUS
  <2>2. loop[m].at = "send" => k \notin DOMAIN idxkeys'[loop[m].to]
    BY <1>1, <1>4 DEF Kept, Running
  <2> QED BY <1>1, <1>2, <1>3, <1>4, <2>2, RunningStays DEF Kept
<1>8. Kept(k, s)'
  BY <1>6, <1>7 DEF Kept
<1>9. \A m \in Nodes : SameRow(m, s) /\ SameEntries(m)
  BY <1>1, <1>3 DEF SameRow, SameEntries, Holds, Vids
<1> QED BY <1>1, <1>8, <1>9, FamilyStays

(* On to the next node, or to the next lap. *)
LEMMA ContinueRuns ==
  ASSUME IInv, IInv', NEW k, NEW s, NEW n \in Nodes, NEW l, Continue(n, l),
         n \notin l.left, l.rp = replicas'[n][1]
  PROVE  /\ Running(n, k, s)' /\ loop'[n].at # "tell"
         /\ \A m \in Nodes \ {n} : loop'[m] = loop[m]
         /\ \E q : Goes(n, q) /\ q.at # "tell"
<1>1. PICK q : /\ Goes(n, q)
               /\ q = IF l.left = {} THEN Idle
                      ELSE [at |-> "ask", rp |-> l.rp, left |-> l.left]
  BY DEF Continue
<1>2. loop'[n] = q /\ \A m \in Nodes \ {n} : loop'[m] = loop[m]
  BY <1>1 DEF Goes, IInv, TypeOK
<1>3. q.at # "tell"
  BY <1>1 DEF Idle
<1>4. Running(n, k, s)'
  <2>1. CASE l.left = {}
    BY <1>1, <1>2, <2>1 DEF Running, Idle
  <2>2. CASE l.left # {}
    <3>1. loop'[n].at = "ask" /\ loop'[n].rp = l.rp /\ loop'[n].left = l.left
      BY <1>1, <1>2, <2>2
    <3> QED BY <3>1 DEF Running
  <2> QED BY <2>1, <2>2
<1> QED BY <1>1, <1>2, <1>3, <1>4

LEMMA NextReplicaFamily ==
  ASSUME IInv, IInv', MembersSound, NEW o, NEW k, NEW s, Family(o, k, s),
         NEW n \in Nodes, NextReplica(n)
  PROVE  Family(o, k, s)'
<1>1. PICK l : /\ Goes(n, l) /\ l.at = "ask" /\ l.rp = replicas[n][1]
               /\ l.left = NodesWithout(n, replicas[n][1].vids)
               /\ replicas[n] # <<>>
  <2>1. PICK rp, left : /\ rp = Head(replicas[n]) /\ left = NodesWithout(n, rp.vids)
                        /\ Goes(n, [at |-> "ask", rp |-> rp, left |-> left])
    BY DEF NextReplica
  <2>2. rp = replicas[n][1] /\ replicas[n] # <<>>
    BY <2>1 DEF NextReplica, IInv, TypeOK
  <2> QED BY <2>1, <2>2
<1>2. /\ loop[n].at = "idle" /\ UNCHANGED <<epoch, volumes, gone, replicas>>
  BY DEF NextReplica, At, volumes, members
<1>3. n \notin l.left
  BY <1>1 DEF NodesWithout, MembersSound
<1>4. loop'[n] = l
  BY <1>1 DEF Goes, IInv, TypeOK
<1>5. Running(n, k, s)'
  BY <1>1, <1>2, <1>3, <1>4 DEF Running
<1> QED BY <1>1, <1>2, <1>5, LoopMoves

LEMMA AskWantsFamily ==
  ASSUME IInv, IInv', NEW o, NEW k, NEW s, Family(o, k, s),
         NEW n \in Nodes, NEW m \in Nodes, AskWants(n, m)
  PROVE  Family(o, k, s)'
<1>1. PICK l, q : /\ l = loop[n] /\ Goes(n, q) /\ l.rp.key \notin DOMAIN idxkeys[m]
                  /\ l.rp.key \in DOMAIN idxkeys[n]
                  /\ q = [at |-> "send", rp |-> l.rp, left |-> l.left \ {m}, to |-> m,
                          sig |-> idxkeys[n][l.rp.key]]
  BY DEF AskWants
<1>2. /\ l.at = "ask" /\ m \in l.left /\ UNCHANGED <<epoch, volumes, gone>>
      /\ UNCHANGED <<idxkeys, replicas>>
  BY <1>1 DEF AskWants, At, members, volumes
<1>3. l.rp = replicas[n][1] /\ n \notin l.left /\ replicas[n] # <<>>
  <2>1. Running(n, k, s) /\ loop[n] # Idle
    BY <1>1, <1>2 DEF Family, Kept, Idle
  <2>2. replicas[n] # <<>>
    BY <2>1 DEF IInv
  <2> QED BY <1>1, <1>2, <2>1, <2>2 DEF Running
<1>4. l.rp.key = k /\ Holds(n, s)
  <2>1. 1 \in DOMAIN replicas[n]
    BY <1>3 DEF IInv, TypeOK
  <2> QED BY <1>3, <2>1 DEF Family, Kept, Queue
<1>5. idxkeys[n][k] = s
  BY <1>1, <1>4 DEF Family, Kept, Tables, Holds
<1>6. loop'[n] = q
  BY <1>1 DEF Goes, IInv, TypeOK
<1>7. /\ q.at = "send" /\ q.rp = l.rp /\ q.left = l.left \ {m} /\ q.to = m /\ q.sig = s
  BY <1>1, <1>4, <1>5
<1>8. Running(n, k, s)'
  BY <1>1, <1>2, <1>3, <1>4, <1>6, <1>7 DEF Running
<1> QED BY <1>1, <1>2, <1>7, <1>8, LoopMoves

LEMMA AskSkipsFamily ==
  ASSUME IInv, IInv', NEW o, NEW k, NEW s, Family(o, k, s),
         NEW n \in Nodes, NEW m \in Nodes, AskSkips(n, m)
  PROVE  Family(o, k, s)'
<1>1. PICK l : /\ l = [loop[n] EXCEPT !.left = @ \ {m}] /\ Continue(n, l)
  BY DEF AskSkips
<1>2. loop[n].at = "ask" /\ UNCHANGED <<epoch, volumes, gone, replicas>>
  BY DEF AskSkips, At, members, volumes
<1>3. loop[n].rp = replicas[n][1] /\ n \notin loop[n].left
  BY <1>2 DEF Family, Kept, Running
<1>4. l.rp = loop[n].rp /\ l.left = loop[n].left \ {m}
  <2>1. loop[n] \in Place
    BY DEF IInv, TypeOK
  <2>2. loop[n] \in [at : {"ask"}, rp : Replica, left : SUBSET Nodes]
    BY <1>2, <2>1 DEF Place, Idle
  <2> QED BY <1>1, <2>2
<1>5. Running(n, k, s)' /\ \E q : Goes(n, q) /\ q.at # "tell"
  BY <1>1, <1>2, <1>3, <1>4, ContinueRuns
<1> QED BY <1>2, <1>5, LoopMoves

LEMMA SendFailsFamily ==
  ASSUME IInv, IInv', NEW o, NEW k, NEW s, Family(o, k, s),
         NEW n \in Nodes, SendFails(n)
  PROVE  Family(o, k, s)'
<1>1. Continue(n, loop[n])
  BY DEF SendFails
<1>2. loop[n].at = "send" /\ UNCHANGED <<epoch, volumes, gone, replicas>>
  BY DEF SendFails, At, members, volumes
<1>3. Running(n, k, s)' /\ \E q : Goes(n, q) /\ q.at # "tell"
  <2>1. Running(n, k, s)
    BY DEF Family, Kept
  <2>2. n \notin loop[n].left
    BY <1>2, <2>1 DEF Running
  <2>3. loop[n].rp = replicas[n][1]
    BY <1>2, <2>1 DEF Running
  <2> QED BY <1>1, <1>2, <2>2, <2>3, ContinueRuns
<1> QED BY <1>2, <1>3, LoopMoves

-----------------------------------------------------------------------------
(* A copy. *)

(* Volume m stores x, which is s or a part of it, under the key it lacks.  *)
LEMMA CopyKept ==
  ASSUME IInv, IInv', NEW o, NEW k, NEW s, s # Cut, Family(o, k, s), NEW m \in Nodes,
         NEW x \in {s, Cut}, k \notin DOMAIN idxkeys[m], CreateFile(m, k, x, 1),
         UNCHANGED epoch
  PROVE  /\ UNCHANGED <<idxvolumes, replicas>> /\ KeysStay(k)
         /\ \A n \in Nodes : Tables(n, k, s)' /\ Queue(n, k, s)'
         /\ \A n \in Nodes \ {m} : idxkeys'[n] = idxkeys[n] /\ files'[n] = files[n]
         /\ \A n \in Nodes : SameRow(n, s) \/ NewRow(n, s)
         /\ ~Holds(m, s) /\ replicas[m] = <<>> /\ ID(m) # o
         /\ x = s => Backed(ID(m), k, s)'
<1>1. TypeOK /\ TypeOK' /\ DOMAIN idxkeys = Nodes /\ DOMAIN files = Nodes
  BY DEF IInv, TypeOK
<1>2. Tables(m, k, s) /\ Queue(m, k, s)
  BY DEF Family, Kept
<1>3. DOMAIN idxkeys[m] = {} /\ DOMAIN files[m] = {} /\ ~Holds(m, s)
  <2>1. DOMAIN idxkeys[m] = {}
    BY <1>2 DEF Tables
  <2>2. DOMAIN files[m] = {}
    BY <1>2, <2>1 DEF Tables
  <2> QED BY <2>1, <2>2 DEF Holds
<1>4. idxvolumes[m] = {} /\ replicas[m] = <<>>
  BY <1>2, <1>3 DEF Tables, Queue
<1>5. PICK row : /\ row = [vids |-> <<ID(m)>>, replica |-> 1]
                 /\ files' = [files EXCEPT ![m] = Put(files[m], x, row)]
                 /\ idxkeys' = [idxkeys EXCEPT ![m] = Put(@, k, x)]
                 /\ UNCHANGED <<replicas, idxvolumes>>
  <2>1. Unlink(idxkeys[m], files[m], k) = files[m]
    BY <1>3 DEF Unlink
  <2>2. /\ files' = [files EXCEPT ![m] =
                       Put(Unlink(idxkeys[m], @, k), x, [vids |-> <<ID(m)>>, replica |-> 1])]
        /\ idxkeys' = [idxkeys EXCEPT ![m] = Put(@, k, x)]
        /\ replicas' = [replicas EXCEPT ![m] = @]
        /\ UNCHANGED idxvolumes
    BY <1>3 DEF CreateFile
  <2>3. UNCHANGED replicas
    BY <2>2 DEF IInv, TypeOK
  <2> QED BY <1>1, <2>1, <2>2, <2>3
<1>6. /\ DOMAIN idxkeys'[m] = {k} /\ idxkeys'[m][k] = x
      /\ DOMAIN files'[m] = {x} /\ files'[m][x] = row
      /\ \A n \in Nodes \ {m} : idxkeys'[n] = idxkeys[n] /\ files'[n] = files[n]
  BY <1>1, <1>3, <1>5 DEF Put
<1>7. KeysStay(k)
  BY <1>3, <1>6 DEF KeysStay
<1>8. \A n \in Nodes : SameRow(n, s) \/ NewRow(n, s)
  <2>1. \A n \in Nodes \ {m} : SameRow(n, s)
    BY <1>6 DEF SameRow, Holds, Vids
  <2>2. x = s => NewRow(m, s)
    BY <1>3, <1>4, <1>5, <1>6 DEF NewRow, Holds, Vids
  <2>3. x = Cut => SameRow(m, s)
    BY <1>3, <1>6 DEF SameRow, Holds, Vids
  <2> QED BY <2>1, <2>2, <2>3
<1>9. x = s => Backed(ID(m), k, s)'
  <2>1. PICK e \in Nat : e = epoch[m] /\ e = epoch'[m]
    BY <1>1, Types
  <2>2. ID(m) = <<m, e>> /\ ID(m)' = <<m, e>>
    BY <2>1 DEF ID
  <2> QED BY <1>6, <2>1, <2>2 DEF Backed, Known, ID
<1>10. Tables(m, k, s)'
  <2>1. x = s => Sound(<<ID(m)>>, k, s)'
    BY <1>9 DEF Sound, Distinct, ElemsOf, ID
  <2>2. x = s => Holds(m, s)' /\ Vids(m, s)' = <<ID(m)>>
    BY <1>5, <1>6 DEF Holds, Vids
  <2>3. x = Cut => ~Holds(m, s)'
    BY <1>6 DEF Holds
  <2>4. Holds(m, s)' => Sound(Vids(m, s), k, s)'
    BY <2>1, <2>2, <2>3 DEF ID
  <2> QED BY <1>4, <1>5, <1>6, <2>4 DEF Tables
<1>11. \A n \in Nodes \ {m} : Tables(n, k, s)'
  BY <1>1, <1>5, <1>6, <1>7, TablesStay DEF Family, Kept
<1>12. \A n \in Nodes : Queue(n, k, s)'
  <2>1. \A n \in Nodes : Holds(n, s) => Holds(n, s)'
    BY <1>8 DEF SameRow, NewRow
  <2> QED BY <1>1, <1>5, <1>7, <2>1, QueueStays DEF Family, Kept
<1>13. ID(m) # o
  <2>1. ID(m) \in Leading(o, s) => Holds(m, s)
    BY DEF Family, Leaders
  <2> QED BY <1>3, <2>1, LeadingIs
<1> QED
  BY <1>3, <1>4, <1>5, <1>6, <1>7, <1>8, <1>9, <1>10, <1>11, <1>12, <1>13

(* What the loop of n sends, and to whom. *)
LEMMA Sends ==
  ASSUME IInv, NEW o, NEW k, NEW s, Family(o, k, s), NEW n \in Nodes, At(n, "send")
  PROVE  LET l == loop[n] IN
         /\ n \in up /\ l.to \in Nodes \ {n} /\ k \notin DOMAIN idxkeys[l.to]
         /\ l.rp = replicas[n][1] /\ l.rp.key = k /\ l.sig = s /\ n \notin l.left
         /\ replicas[n] # <<>> /\ 1 \in DOMAIN replicas[n]
<1>1. n \in up /\ loop[n].at = "send" /\ loop[n].to \in Nodes
  BY PlaceParts DEF At, IInv
<1>2. Running(n, k, s) /\ Queue(n, k, s)
  BY DEF Family, Kept
<1>3. replicas[n] # <<>>
  BY <1>1 DEF IInv, Idle
<1>4. 1 \in DOMAIN replicas[n]
  BY <1>3 DEF IInv, TypeOK
<1>5. /\ loop[n].rp = replicas[n][1] /\ loop[n].sig = s /\ n \notin loop[n].left
      /\ loop[n].to # n /\ k \notin DOMAIN idxkeys[loop[n].to]
  BY <1>1, <1>2 DEF Running
<1>6. loop[n].rp.key = k
  BY <1>2, <1>4, <1>5 DEF Queue
<1> QED BY <1>1, <1>3, <1>4, <1>5, <1>6

(* The answer is lost: the copy has a row nobody was told of. *)
LEMMA SendUnansweredFamily ==
  ASSUME IInv, IInv', MembersSound, back = {}, NEW o, NEW k, NEW s, s # Cut,
         Family(o, k, s), NEW n \in Nodes, SendUnanswered(n)
  PROVE  Family(o, k, s)'
<1>1. /\ At(n, "send") /\ Continue(n, loop[n]) /\ UNCHANGED <<up, epoch, gone>>
      /\ CreateFile(loop[n].to, loop[n].rp.key, loop[n].sig, 1)
  BY DEF SendUnanswered, At, members
<1>2. PICK m \in Nodes \ {n} :
        /\ m = loop[n].to /\ k \notin DOMAIN idxkeys[m] /\ CreateFile(m, k, s, 1)
  BY <1>1, Sends
<1>3. /\ n \in up /\ replicas[n] # <<>> /\ loop[n].rp = replicas[n][1]
      /\ n \notin loop[n].left /\ loop[n].at = "send"
  BY <1>1, Sends DEF At
<1>4. /\ UNCHANGED <<idxvolumes, replicas>>
      /\ \A x \in Nodes : Tables(x, k, s)' /\ Queue(x, k, s)'
      /\ \A x \in Nodes : SameRow(x, s) \/ NewRow(x, s)
  BY <1>1, <1>2, CopyKept
<1>5. /\ Running(n, k, s)' /\ loop'[n].at # "tell"
      /\ \A x \in Nodes \ {n} : loop'[x] = loop[x]
  BY <1>1, <1>3, <1>4, ContinueRuns
<1>6. \A x \in Nodes \ {n} : loop[x] = Idle
  BY <1>3, Alone
<1>7. Kept(k, s)'
  <2>1. \A x \in Nodes \ {n} : Running(x, k, s)'
    BY <1>5, <1>6 DEF Running, Idle
  <2> QED BY <1>4, <1>5, <2>1 DEF Kept
<1>8. \A x \in Nodes : SameEntries(x)
  BY <1>3, <1>5 DEF SameEntries
<1> QED BY <1>1, <1>4, <1>7, <1>8, FamilyStays

-----------------------------------------------------------------------------
(* Steps of the nodes that leave the volumes and the loops. *)
LEMMA QuietFamily ==
  ASSUME IInv, IInv', NEW o, NEW k, NEW s, Family(o, k, s),
         UNCHANGED <<epoch, volumes, loop>>, gone \subseteq gone'
  PROVE  Family(o, k, s)'
<1>1. UNCHANGED <<idxkeys, files, idxvolumes, replicas>>
  BY DEF volumes
<1>2. TypeOK /\ TypeOK' /\ KeysStay(k)
  BY <1>1 DEF IInv, KeysStay
<1>3. \A m \in Nodes : Holds(m, s)' <=> Holds(m, s)
  BY <1>1 DEF Holds
<1>4. Kept(k, s)
  BY DEF Family
<1>5. \A m \in Nodes : Tables(m, k, s)' /\ Queue(m, k, s)'
  BY <1>1, <1>2, <1>3, <1>4, TablesStay, QueueStays DEF Kept
<1>6. ASSUME NEW m \in Nodes PROVE Running(m, k, s)'
  <2>1. loop[m].at = "send" => k \notin DOMAIN idxkeys'[loop[m].to]
    BY <1>1, <1>4 DEF Kept, Running
  <2> QED BY <1>1, <1>2, <1>4, <2>1, RunningStays DEF Kept
<1>7. Kept(k, s)'
  BY <1>5, <1>6 DEF Kept
<1>8. \A m \in Nodes : SameRow(m, s) /\ SameEntries(m)
  BY <1>1 DEF SameRow, SameEntries, Holds, Vids
<1> QED BY <1>1, <1>7, <1>8, FamilyStays

(* A node that ends before its copy is made, or while it sends it. *)
LEMMA CrashFamily ==
  ASSUME IInv, IInv', MembersSound, back = {}, torn' = {},
         NEW o, NEW k, NEW s, s # Cut, Family(o, k, s), NEW n \in Nodes, Crash(n)
  PROVE  Family(o, k, s)'
<1>1. /\ n \in up /\ loop' = [loop EXCEPT ![n] = Idle] /\ UNCHANGED <<epoch, gone>>
      /\ loop[n].at # "tell"
  BY DEF Crash
<1>2. loop'[n] = Idle /\ \A m \in Nodes \ {n} : loop'[m] = loop[m]
  BY <1>1 DEF IInv, TypeOK
<1>3. \A m \in Nodes : SameEntries(m)
  BY <1>1, <1>2 DEF SameEntries, Idle
<1>4. TypeOK /\ TypeOK' /\ Kept(k, s)
  BY DEF IInv, Family
<1>5. CASE UNCHANGED <<volumes, stored>>
  <2>1. UNCHANGED <<idxkeys, files, idxvolumes, replicas>> /\ KeysStay(k)
    BY <1>1, <1>5 DEF volumes, KeysStay
  <2>2. \A m \in Nodes : SameRow(m, s)
    BY <2>1 DEF SameRow, Holds, Vids
  <2>3. \A m \in Nodes : Tables(m, k, s)' /\ Queue(m, k, s)'
    BY <1>1, <1>4, <2>1, <2>2, TablesStay, QueueStays DEF Kept, SameRow
  <2>4. ASSUME NEW m \in Nodes \ {n} PROVE Running(m, k, s)'
    <3>1. loop[m].at = "send" => k \notin DOMAIN idxkeys'[loop[m].to]
      BY <1>4, <2>1 DEF Kept, Running
    <3> QED BY <1>2, <1>4, <2>1, <3>1, RunningStays DEF Kept
  <2>5. Running(n, k, s)'
    BY <1>2 DEF Running, Idle
  <2>6. Kept(k, s)'
    BY <2>3, <2>4, <2>5 DEF Kept
  <2> QED BY <1>1, <1>3, <2>1, <2>2, <2>6, FamilyStays
<1>6. CASE /\ loop[n].at = "send" /\ loop[n].to \in up
           /\ CreateFile(loop[n].to, loop[n].rp.key, Cut, 1)
  <2>1. PICK m \in Nodes \ {n} : k \notin DOMAIN idxkeys[m] /\ CreateFile(m, k, Cut, 1)
    BY <1>1, <1>6, Sends DEF At
  <2>2. /\ UNCHANGED <<idxvolumes, replicas>>
        /\ \A x \in Nodes : Tables(x, k, s)' /\ Queue(x, k, s)'
        /\ \A x \in Nodes : SameRow(x, s) \/ NewRow(x, s)
    BY <1>1, <2>1, CopyKept
  <2>3. \A x \in Nodes \ {n} : loop[x] = Idle
    BY <1>1, <1>6, Sends, Alone DEF At
  <2>4. \A x \in Nodes : Running(x, k, s)'
    BY <1>2, <2>3 DEF Running, Idle
  <2>5. Kept(k, s)'
    BY <2>2, <2>4 DEF Kept
  <2> QED BY <1>1, <1>3, <2>2, <2>5, FamilyStays
<1> QED BY <1>5, <1>6 DEF Crash

-----------------------------------------------------------------------------
(* The places of a queue whose list the loop made longer. *)
LEMMA Distinctness ==
  ASSUME NEW l PROVE Distinct(l) <=> IsInjective(l)
BY DEF Distinct, IsInjective

LEMMA LongerSound ==
  ASSUME NEW k, NEW s, NEW l \in Seq(IDs), Sound(l, k, s), NEW v \in IDs,
         Backed(v, k, s), v \notin ElemsOf(l)
  PROVE  /\ Append(l, v) \in Seq(IDs) /\ Sound(Append(l, v), k, s)
         /\ Len(l) \in Nat /\ Len(l) > 0 /\ Len(Append(l, v)) = Len(l) + 1
         /\ Append(l, v)[Len(l) + 1] = v
         /\ \A i \in 1..Len(l) : Append(l, v)[i] = l[i]
         /\ ElemsOf(Append(l, v)) = ElemsOf(l) \cup {v}
<1>1. /\ Append(l, v) \in Seq(IDs) /\ IsInjective(Append(l, v))
      /\ Len(Append(l, v)) = Len(l) + 1 /\ Append(l, v)[Len(l) + 1] = v
      /\ \A i \in 1..Len(l) : Append(l, v)[i] = l[i]
  BY AppendFront, Distinctness DEF Sound
<1>2. ElemsOf(Append(l, v)) = ElemsOf(l) \cup {v}
  BY AppendElems
<1>3. Len(l) \in Nat /\ Len(l) > 0
  BY DEF Sound
<1>4. Append(l, v) # <<>>
  <2>1. Len(Append(l, v)) # 0 /\ Len(<<>>) = 0
    BY <1>1, <1>3
  <2> QED BY <2>1
<1> QED BY <1>1, <1>2, <1>3, <1>4, Distinctness DEF Sound

-----------------------------------------------------------------------------
(* A volume without the content is in no list. *)
LEMMA NotListed ==
  ASSUME TypeOK, NEW k, NEW s, NEW l, Sound(l, k, s), NEW m \in Nodes,
         k \notin DOMAIN idxkeys[m]
  PROVE  ID(m) \notin ElemsOf(l)
BY DEF Sound, Backed, ID

(* The copy is made: it becomes second only when the list was single.      *)
LEMMA SendFamily ==
  ASSUME IInv, IInv', MembersSound, back = {}, NEW o, NEW k, NEW s, s # Cut,
         Family(o, k, s), NEW n \in Nodes, Send(n)
  PROVE  Family(o, k, s)'
<1>1. PICK m, h, q :
        /\ m = loop[n].to /\ h = loop[n].rp /\ Goes(n, q)
        /\ q = [at |-> "tell", rp |-> [h EXCEPT !.vids = Append(h.vids, ID(m))],
                left |-> loop[n].left, vid |-> ID(m), tell |-> Append(h.vids, ID(m))]
        /\ CreateFile(m, h.key, loop[n].sig, 1)
        /\ At(n, "send") /\ UNCHANGED <<up, epoch, gone>>
  BY DEF Send, members
<1>2. /\ m \in Nodes \ {n} /\ k \notin DOMAIN idxkeys[m] /\ CreateFile(m, k, s, 1)
      /\ n \in up /\ h = replicas[n][1] /\ n \notin loop[n].left
      /\ replicas[n] # <<>> /\ 1 \in DOMAIN replicas[n] /\ loop[n].at = "send"
  BY <1>1, Sends DEF At
<1>3. /\ UNCHANGED <<idxvolumes, replicas>> /\ KeysStay(k)
      /\ \A x \in Nodes : Tables(x, k, s)' /\ Queue(x, k, s)'
      /\ \A x \in Nodes \ {m} : files'[x] = files[x]
      /\ \A x \in Nodes : SameRow(x, s) \/ NewRow(x, s)
      /\ Backed(ID(m), k, s)' /\ ID(m)' = ID(m)
  BY <1>1, <1>2, CopyKept DEF ID
<1>4. TypeOK /\ TypeOK' /\ h \in Replica /\ h.vids \in Seq(IDs) /\ ID(m) \in IDs
  BY <1>2, Types DEF IInv
<1>5. /\ loop'[n] = q /\ q.at = "tell" /\ q.vid = ID(m) /\ q.left = loop[n].left
      /\ q.rp = [h EXCEPT !.vids = Append(h.vids, ID(m))]
      /\ q.rp.vids = Append(h.vids, ID(m))
      /\ \A x \in Nodes \ {n} : loop'[x] = loop[x] /\ loop[x] = Idle
  <2>1. loop'[n] = q /\ \A x \in Nodes \ {n} : loop'[x] = loop[x]
    BY <1>1, <1>4 DEF Goes, TypeOK
  <2>2. \A x \in Nodes \ {n} : loop[x] = Idle
    BY <1>2, Alone
  <2>3. q.rp.vids = Append(h.vids, ID(m))
    BY <1>1, <1>4 DEF Replica
  <2>4. /\ q.at = "tell" /\ q.vid = ID(m) /\ q.left = loop[n].left
        /\ q.rp = [h EXCEPT !.vids = Append(h.vids, ID(m))]
    BY <1>1
  <2> QED BY <2>1, <2>2, <2>3, <2>4
<1>6. /\ Sound(h.vids, k, s) /\ ID(m) \notin ElemsOf(h.vids)
      /\ Holds(n, s) /\ ID(m) \notin ElemsOf(Vids(n, s))
  <2>1. Queue(n, k, s) /\ Tables(n, k, s)
    BY DEF Family, Kept
  <2>2. Sound(h.vids, k, s) /\ Holds(n, s)
    BY <1>2, <2>1 DEF Queue
  <2>3. Sound(Vids(n, s), k, s)
    BY <2>1, <2>2 DEF Tables
  <2> QED BY <1>2, <1>4, <2>2, <2>3, NotListed
<1>7. Kept(k, s)'
  <2>1. Running(n, k, s)'
    <3>1. replicas'[n][1] = h /\ Vids(n, s)' = Vids(n, s) /\ ID(m)[1] = m
      BY <1>2, <1>3 DEF Vids, ID
    <3> QED BY <1>2, <1>3, <1>5, <1>6, <3>1 DEF Running
  <2>2. \A x \in Nodes \ {n} : Running(x, k, s)'
    BY <1>5 DEF Running, Idle
  <2> QED BY <1>3, <2>1, <2>2 DEF Kept
<1>8. Heads(o, s)'
  BY <1>1, <1>3, HeadsStay DEF Family, Heads
<1>9. \A x \in Nodes \ {n} : OneSecond(x, s)' /\ SecondsOf(x, o, s)'
  <2>1. \A x \in Nodes \ {n} : SameEntries(x)
    BY <1>5 DEF SameEntries
  <2> QED BY <1>1, <1>3, <2>1, OneSecondStays
<1>10. /\ Entry(n, 1) = h.vids /\ Entry(n, 1)' = Append(h.vids, ID(m))
       /\ \A i : i # 1 => Entry(n, i)' = Entry(n, i)
  BY <1>2, <1>3, <1>5 DEF Entry
<1>11. PICK N \in Nat : /\ N = Len(h.vids) /\ (N = 1 \/ N > 1) /\ Len(Append(h.vids, ID(m))) = N + 1
                        /\ Append(h.vids, ID(m))[N + 1] = ID(m)
                        /\ \A i \in 1..N : Append(h.vids, ID(m))[i] = h.vids[i]
  <2>1. h.vids # <<>>
    BY <1>6 DEF Sound
  <2> QED BY <1>4, <2>1
<1>12. Singles(n)' \subseteq Singles(n) \ {1}
  BY <1>3, <1>10, <1>11 DEF Singles
<1>13. \A a \in Seconds(n, s)' : a \in Seconds(n, s) \/ (a = ID(m) /\ 1 \in Singles(n))
  <2>1. SUFFICES ASSUME NEW a \in Seconds(n, s)'
                 PROVE  a \in Seconds(n, s) \/ (a = ID(m) /\ 1 \in Singles(n))
    OBVIOUS
  <2>2. \/ \E i \in DOMAIN replicas'[n] : Len(Entry(n, i)') > 1 /\ Entry(n, i)'[2] = a
        \/ \E x \in Nodes : Heir(x, s)' /\ First(x, s)' = ID(n)' /\ ID(x)' = a
    BY <2>1 DEF Seconds
  <2>3. CASE \E x \in Nodes : Heir(x, s)' /\ First(x, s)' = ID(n)' /\ ID(x)' = a
    <3>1. \A x \in Nodes : /\ ID(x)' = ID(x) /\ (Heir(x, s)' <=> Heir(x, s))
                           /\ Heir(x, s) => First(x, s)' = First(x, s)
      BY <1>1, <1>3, RowStays DEF Heir
    <3> QED BY <2>3, <3>1, SecondsAre
  <2>4. CASE Len(Entry(n, 1)') > 1 /\ Entry(n, 1)'[2] = a
    <3>1. CASE N = 1
      <4>1. Entry(n, 1)'[2] = ID(m)
        BY <1>10, <1>11, <3>1
      <4>2. 1 \in Singles(n)
        BY <1>2, <1>10, <1>11, <3>1 DEF Singles
      <4> QED BY <2>4, <4>1, <4>2
    <3>2. CASE N > 1
      <4>1. Entry(n, 1)[2] = a /\ Len(Entry(n, 1)) > 1
        BY <1>10, <1>11, <2>4, <3>2
      <4> QED BY <1>2, <4>1, SecondsAre
    <3>3. N = 1 \/ N > 1
      BY <1>11
    <3> QED BY <3>1, <3>2, <3>3
  <2>5. CASE \E i \in DOMAIN replicas'[n] : i # 1 /\ Len(Entry(n, i)') > 1 /\ Entry(n, i)'[2] = a
    BY <1>3, <1>10, <2>5, SecondsAre
  <2> QED BY <2>2, <2>3, <2>4, <2>5
<1>14. \A x : Alive(x)' <=> Alive(x)
  BY <1>1 DEF Alive
<1>15. OneSecond(n, s) /\ SecondsOf(n, o, s)
  BY DEF Family
<1>16. OneSecond(n, s)'
  <2>1. CASE 1 \in Singles(n)
    <3>1. Singles(n)' = {}
      BY <1>12, <1>15, <2>1 DEF OneSecond
    <3>2. \A a \in Seconds(n, s)' : Alive(a)' => a = ID(m)
      BY <1>13, <1>14, <1>15, <2>1 DEF OneSecond
    <3> QED BY <3>1, <3>2 DEF OneSecond
  <2>2. CASE 1 \notin Singles(n)
    BY <1>12, <1>13, <1>14, <1>15, <2>2 DEF OneSecond
  <2> QED BY <2>1, <2>2
<1>17. SecondsOf(n, o, s)'
  <2>1. Vids(n, s)' = Vids(n, s)
    BY <1>2, <1>3 DEF Vids
  <2>2. SUFFICES ASSUME ID(n) = o
                 PROVE  LET row == Vids(n, s) IN
                        /\ Len(row) = 1 =>
                             /\ Len(replicas'[n]) <= 1
                             /\ \A a \in Seconds(n, s)' : loop'[n].at = "tell" /\ a = loop'[n].vid
                        /\ Len(row) > 1 =>
                             /\ \A a \in Seconds(n, s)' : a = row[2] \/ <<n, row[2]>> \in gone'
                             /\ Singles(n)' # {} => <<n, row[2]>> \in gone'
    <3>1. ID(n)' = ID(n)
      BY <1>1 DEF ID
    <3> QED BY <2>1, <3>1 DEF SecondsOf
  <2>3. Len(Vids(n, s)) = 1 => Len(replicas[n]) <= 1 /\ Seconds(n, s) = {}
    BY <1>2, <1>6, <1>15, <2>2 DEF SecondsOf
  <2>4. Len(Vids(n, s)) > 1 =>
          /\ \A a \in Seconds(n, s) : a = Vids(n, s)[2] \/ <<n, Vids(n, s)[2]>> \in gone
          /\ Singles(n) # {} => <<n, Vids(n, s)[2]>> \in gone
    BY <1>6, <1>15, <2>2 DEF SecondsOf
  <2>5. Len(Vids(n, s)) = 1 =>
          /\ Len(replicas'[n]) <= 1
          /\ \A a \in Seconds(n, s)' : loop'[n].at = "tell" /\ a = loop'[n].vid
    BY <1>3, <1>5, <1>13, <2>3
  <2>6. Len(Vids(n, s)) > 1 =>
          /\ \A a \in Seconds(n, s)' : a = Vids(n, s)[2] \/ <<n, Vids(n, s)[2]>> \in gone'
          /\ Singles(n)' # {} => <<n, Vids(n, s)[2]>> \in gone'
    BY <1>1, <1>12, <1>13, <2>4
  <2> QED BY <2>5, <2>6
<1> QED BY <1>7, <1>8, <1>9, <1>16, <1>17 DEF Family, Heads

-----------------------------------------------------------------------------
(* The list the loop has at "tell". *)
LEMMA Tells ==
  ASSUME IInv, NEW o, NEW k, NEW s, Family(o, k, s), NEW n \in Nodes, At(n, "tell")
  PROVE  /\ loop[n].rp.key = k /\ loop[n].rp.sig = s /\ loop[n].rp.vids \in Seq(IDs)
         /\ Sound(loop[n].rp.vids, k, s) /\ loop[n].rp.vids[1] = ID(n)
         /\ Len(loop[n].rp.vids) > 1 /\ Entry(n, 1) = loop[n].rp.vids
         /\ n \in up /\ replicas[n] # <<>> /\ 1 \in DOMAIN replicas[n]
         /\ loop[n].vid \in IDs /\ loop[n].vid # ID(n) /\ Holds(n, s)
         /\ Backed(loop[n].vid, k, s) /\ loop[n].vid \notin ElemsOf(Vids(n, s))
<1> DEFINE l == loop[n]
           h == replicas[n][1]
<1>1. n \in up /\ l.at = "tell" /\ replicas[n] # <<>> /\ 1 \in DOMAIN replicas[n]
  BY DEF At, IInv, TypeOK, Idle
<1>2. TypeOK /\ Queue(n, k, s) /\ Running(n, k, s)
  BY DEF IInv, Family, Kept
<1>3. h \in Replica /\ h.vids \in Seq(IDs) /\ l.vid \in IDs
  BY <1>1, <1>2, Types
<1>4. /\ h.key = k /\ h.sig = s /\ Sound(h.vids, k, s) /\ h.vids[1] = ID(n) /\ Holds(n, s)
  BY <1>1, <1>2 DEF Queue
<1>5. /\ l.rp = [h EXCEPT !.vids = Append(h.vids, l.vid)]
      /\ l.vid[1] # n /\ Backed(l.vid, k, s) /\ n \notin l.left
      /\ l.vid \notin ElemsOf(h.vids) /\ l.vid \notin ElemsOf(Vids(n, s))
  BY <1>1, <1>2 DEF Running
<1>6. /\ l.rp.vids = Append(h.vids, l.vid) /\ l.rp.key = k /\ l.rp.sig = s
  BY <1>3, <1>4, <1>5 DEF Replica
<1> HIDE DEF l, h
<1>7. /\ Append(h.vids, l.vid) \in Seq(IDs) /\ Sound(Append(h.vids, l.vid), k, s)
      /\ Len(h.vids) \in Nat /\ Len(h.vids) > 0
      /\ Len(Append(h.vids, l.vid)) = Len(h.vids) + 1
      /\ \A i \in 1..Len(h.vids) : Append(h.vids, l.vid)[i] = h.vids[i]
  BY <1>3, <1>4, <1>5, LongerSound
<1>8. Append(h.vids, l.vid)[1] = ID(n) /\ Len(Append(h.vids, l.vid)) > 1
  BY <1>4, <1>7
<1>9. Entry(n, 1) = l.rp.vids /\ l.vid # ID(n)
  BY <1>1, <1>5 DEF l, Entry, ID
<1>10. /\ l.rp.key = k /\ l.rp.sig = s /\ l.rp.vids \in Seq(IDs) /\ Sound(l.rp.vids, k, s)
       /\ l.rp.vids[1] = ID(n) /\ Len(l.rp.vids) > 1
  BY <1>6, <1>7, <1>8
<1>11. l.vid \in IDs /\ Holds(n, s) /\ Backed(l.vid, k, s) /\ l.vid \notin ElemsOf(Vids(n, s))
  BY <1>3, <1>4, <1>5
<1> QED BY <1>1, <1>9, <1>10, <1>11 DEF l

LEMMA FewerSeconds ==
  ASSUME NEW s, NEW n, OneSecond(n, s), \A x : Alive(x)' => Alive(x),
         Seconds(n, s)' \subseteq Seconds(n, s), Singles(n)' \subseteq Singles(n)
  PROVE  OneSecond(n, s)'
BY DEF OneSecond

(* A step of n at "tell" that leaves its list as it is leaves its loop sound. *)
LEMMA TellRuns ==
  ASSUME IInv, IInv', NEW o, NEW k, NEW s, Family(o, k, s), NEW n \in Nodes, At(n, "tell"),
         Goes(n, [loop[n] EXCEPT !.tell = Tail(@)]), UNCHANGED <<epoch, idxkeys, replicas>>,
         files'[n] = files[n]
  PROVE  /\ Running(n, k, s)' /\ SameEntries(n)
         /\ \A x \in Nodes \ {n} : loop'[x] = loop[x]
<1>1. loop[n] \in [at : {"tell"}, rp : Replica, left : SUBSET Nodes, vid : IDs,
                   tell : Seq(IDs)]
  <2>1. loop[n] \in Place /\ loop[n].at = "tell"
    BY DEF At, IInv, TypeOK
  <2> QED BY <2>1 DEF Place, Idle
<1>2. /\ loop'[n] = [loop[n] EXCEPT !.tell = Tail(@)]
      /\ \A x \in Nodes \ {n} : loop'[x] = loop[x]
  BY DEF Goes, IInv, TypeOK
<1>3. /\ loop'[n].at = "tell" /\ loop'[n].rp = loop[n].rp /\ loop'[n].vid = loop[n].vid
      /\ loop'[n].left = loop[n].left /\ loop[n].at = "tell"
  BY <1>1, <1>2
<1>4. KeysStay(k) /\ TypeOK /\ TypeOK'
  BY DEF KeysStay, IInv
<1>5. Running(n, k, s)
  BY DEF Family, Kept
<1>6. Backed(loop[n].vid, k, s)'
  BY <1>1, <1>3, <1>4, <1>5, BackedStays DEF Running
<1>7. Running(n, k, s)'
  BY <1>3, <1>5, <1>6 DEF Running, Vids
<1> QED BY <1>2, <1>3, <1>7 DEF SameEntries

(* A volume is told by the only leader that lives, so it leads no more than *)
(* before; when it becomes heir it is the second of the list it is told.    *)
LEMMA TellFamily ==
  ASSUME IInv, IInv', MembersSound, back = {}, NEW o, NEW k, NEW s,
         Family(o, k, s), NEW n \in Nodes, Tell(n)
  PROVE  Family(o, k, s)'
<1>1. /\ At(n, "tell") /\ Goes(n, [loop[n] EXCEPT !.tell = Tail(@)])
      /\ UNCHANGED <<up, epoch, idxkeys, replicas, gone>>
  BY DEF Tell, members
<1>l. PICK L : L = loop[n].rp.vids
  OBVIOUS
<1>2. /\ L = loop[n].rp.vids /\ loop[n].rp.key = k /\ L \in Seq(IDs)
      /\ Sound(L, k, s) /\ L[1] = ID(n) /\ Len(L) > 1 /\ Entry(n, 1) = L
      /\ n \in up /\ replicas[n] # <<>> /\ 1 \in DOMAIN replicas[n]
  <2>1. /\ loop[n].rp.key = k /\ loop[n].rp.vids \in Seq(IDs)
        /\ Sound(loop[n].rp.vids, k, s) /\ loop[n].rp.vids[1] = ID(n)
        /\ Len(loop[n].rp.vids) > 1 /\ Entry(n, 1) = loop[n].rp.vids
        /\ n \in up /\ replicas[n] # <<>> /\ 1 \in DOMAIN replicas[n]
    <3>1. At(n, "tell")
      BY <1>1
    <3> QED BY <3>1, Tells
  <2> QED BY <1>l, <2>1
<1>3. /\ TypeOK /\ TypeOK' /\ KeysStay(k) /\ Kept(k, s) /\ DOMAIN files = Nodes
      /\ DOMAIN idxvolumes = Nodes
  BY <1>1 DEF KeysStay, IInv, Family, TypeOK
<1>4. /\ ID(n) \in Leading(o, s) /\ Alive(ID(n))
      /\ \A x \in Nodes \ {n} : (ID(x) \in Leading(o, s) => ~Alive(ID(x))) /\ loop[x] = Idle
  BY <1>2, Alone
<1>5. \A x \in Nodes : ID(x)' = ID(x)
  BY <1>1 DEF ID
<1>6. ASSUME UNCHANGED <<files, idxvolumes>> PROVE Family(o, k, s)'
  <2>1. Running(n, k, s)' /\ SameEntries(n) /\ \A x \in Nodes \ {n} : loop'[x] = loop[x]
    BY <1>1, <1>6, TellRuns
  <2>2. \A x \in Nodes : SameRow(x, s) /\ SameEntries(x)
    BY <1>6, <2>1 DEF SameRow, SameEntries, Holds, Vids
  <2>3. \A x \in Nodes : Tables(x, k, s)' /\ Queue(x, k, s)'
    BY <1>1, <1>3, <1>6, <2>2, TablesStay, QueueStays DEF Kept, SameRow
  <2>4. \A x \in Nodes \ {n} : Running(x, k, s)'
    BY <1>4, <2>1 DEF Running, Idle
  <2>5. Kept(k, s)'
    BY <2>1, <2>3, <2>4 DEF Kept
  <2> QED BY <1>1, <1>6, <2>2, <2>5, FamilyStays
<1>7. ASSUME NEW m \in Nodes \ {n}, m \in up, ID(m) \in ElemsOf(L), k \in DOMAIN idxkeys[m],
             UpdateFileReplica(m, k, L, loop[n].rp.original)
      PROVE  Family(o, k, s)'
  <2>1. idxkeys[m][k] = s /\ s \in DOMAIN files[m]
    <3>1. Backed(ID(m), k, s) /\ ID(m)[1] = m
      BY <1>2, <1>7 DEF Sound, ID
    <3> QED BY <1>3, <1>7, <3>1 DEF Backed, Kept, Tables
  <2>2. /\ DOMAIN files'[m] = DOMAIN files[m] /\ files'[m][s].vids = L
        /\ \A x \in Nodes \ {m} : files'[x] = files[x] /\ idxvolumes'[x] = idxvolumes[x]
        /\ idxvolumes'[m] = idxvolumes[m] \cup ((ElemsOf(L) \ {ID(m)}) \X {s})
    BY <1>3, <1>7, <2>1 DEF UpdateFileReplica
  <2>3. Holds(m, s) /\ Holds(m, s)' /\ Vids(m, s)' = L
    BY <2>1, <2>2 DEF Holds, Vids
  <2>4. \A x \in Nodes \ {m} : SameRow(x, s)
    BY <2>2 DEF SameRow, Holds, Vids
  <2>5. \A x \in Nodes \ {m} : /\ (Long(x, s)' <=> Long(x, s)) /\ (Heir(x, s)' <=> Heir(x, s))
                               /\ Holds(x, s) => First(x, s)' = First(x, s)
    BY <1>5, <2>4 DEF SameRow, Long, Heir, First
  <2>6. /\ Long(m, s)' /\ First(m, s)' = ID(n) /\ (Heir(m, s)' <=> L[2] = ID(m))
        /\ ID(m) # ID(n)
    BY <1>2, <1>5, <1>7, <2>3, SameID DEF Long, First, Heir
  <2>7. Running(n, k, s)' /\ SameEntries(n) /\ \A x \in Nodes \ {n} : loop'[x] = loop[x]
    BY <1>1, <1>7, <2>2, TellRuns
  <2>8. Kept(k, s)'
    <3>1. Tables(m, k, s)'
      <4>1. Sound(L, k, s)'
        BY <1>2, <1>3, SoundStays
      <4>2. /\ DOMAIN idxkeys[m] \subseteq {k}
            /\ DOMAIN files[m] = {idxkeys[m][j] : j \in DOMAIN idxkeys[m]}
            /\ \A p \in idxvolumes[m] : p[2] = s /\ p[1] # ID(m)
        BY <1>3 DEF Kept, Tables
      <4>3. \A p \in idxvolumes'[m] : p[2] = s /\ p[1] # ID(m)
        BY <2>2, <4>2
      <4> QED BY <1>1, <1>5, <2>2, <2>3, <4>1, <4>2, <4>3 DEF Tables
    <3>2. \A x \in Nodes \ {m} : Tables(x, k, s)'
      BY <1>1, <1>3, <2>2, TablesStay DEF Kept
    <3>3. \A x \in Nodes : Queue(x, k, s)'
      BY <1>1, <1>3, <2>3, <2>4, QueueStays DEF Kept, SameRow
    <3>4. \A x \in Nodes \ {n} : Running(x, k, s)'
      BY <1>4, <2>7 DEF Running, Idle
    <3> QED BY <2>7, <3>1, <3>2, <3>3, <3>4 DEF Kept
  <2>9. \A y \in Leading(o, s)' : y \in Leading(o, s)
    <3>1. SUFFICES ASSUME NEW y \in Leading(o, s)' PROVE y \in Leading(o, s)
      OBVIOUS
    <3>2. \/ y = o
          \/ \E x \in Nodes : ID(x)' = y /\ replicas'[x] # <<>>
          \/ \E x \in Nodes : Long(x, s)' /\ First(x, s)' = y
      BY <3>1 DEF Leading
    <3>3. CASE \E x \in Nodes \ {m} : Long(x, s)' /\ First(x, s)' = y
      BY <2>5, <3>3, LeadingIs DEF Long
    <3>4. CASE Long(m, s)' /\ First(m, s)' = y
      BY <1>4, <2>6, <3>4
    <3> QED BY <1>1, <1>5, <3>2, <3>3, <3>4, LeadingIs
  <2>10. ID(m) \notin Leading(o, s)
    BY <1>4, <1>7 DEF MembersSound
  <2>11. \A x : Alive(x)' <=> Alive(x)
    BY <1>1 DEF Alive
  <2>12. Rows(o, s)'
    <3>1. SUFFICES ASSUME NEW x \in Nodes, Holds(x, s)'
                   PROVE  (/\ First(x, s) # ID(x) => Long(x, s)
                           /\ First(x, s) = ID(x) =>
                                /\ \A p \in idxvolumes[x] : p[1] \in ElemsOf(Vids(x, s))
                                /\ ID(x) # o => ~Long(x, s) /\ replicas[x] = <<>>)'
      BY DEF Rows
    <3>2. CASE x = m
      BY <1>5, <2>6, <3>2
    <3>3. CASE x # m
      <4>1. Holds(x, s) /\ Vids(x, s)' = Vids(x, s)
        BY <2>4, <3>1, <3>3 DEF SameRow
      <4> QED BY <1>1, <1>5, <2>2, <2>5, <3>3, <4>1 DEF Family, Rows
    <3> QED BY <3>2, <3>3
  <2>13. Leaders(o, s)'
    <3>1. SUFFICES ASSUME NEW x \in Nodes, ID(x)' \in Leading(o, s)'
                   PROVE  (/\ Holds(x, s)
                           /\ ID(x) = o => First(x, s) = o
                           /\ ID(x) # o => /\ Heir(x, s) /\ <<x, First(x, s)>> \in gone
                                           /\ Len(replicas[x]) <= 1)'
      BY DEF Leaders
    <3>2. ID(x) \in Leading(o, s) /\ x # m
      BY <1>5, <2>9, <2>10, <3>1
    <3>3. Holds(x, s) /\ Holds(x, s)'
      BY <2>4, <3>2 DEF Family, Leaders, SameRow
    <3> QED BY <1>1, <1>5, <2>5, <3>2, <3>3 DEF Family, Leaders
  <2>14. OneLeader(o, s)'
    BY <2>9, <2>11 DEF Family, OneLeader
  <2>15. HeirsFollow(o, s)'
    <3>1. SUFFICES ASSUME NEW x \in Nodes, Heir(x, s)', Alive(ID(x))',
                          NEW y \in Leading(o, s)', Alive(y)'
                   PROVE  y \in {First(x, s)', ID(x)'}
      BY DEF HeirsFollow
    <3>2. y \in Leading(o, s) /\ Alive(y)
      BY <2>9, <2>11, <3>1
    <3>3. CASE x = m
      BY <1>4, <2>6, <3>2, <3>3 DEF Family, OneLeader
    <3>4. CASE x # m
      BY <1>5, <2>5, <2>11, <3>1, <3>2, <3>4 DEF Family, HeirsFollow, Heir, Long
    <3> QED BY <3>3, <3>4
  <2>16. Heir(m, s)' => ID(m) \in Seconds(n, s)
    BY <1>2, <2>6, SecondsAre
  <2>17. HeirsApart(s)'
    <3>1. ASSUME NEW x \in Nodes \ {m}, Heir(m, s)', Heir(x, s)', Alive(ID(m)), Alive(ID(x))
          PROVE  First(x, s)' # ID(n) /\ (ID(n) = ID(x) \/ First(x, s)' = ID(m))
      <4>1. Heir(x, s) /\ First(x, s)' = First(x, s)
        BY <2>5, <3>1 DEF Heir, Long
      <4>2. First(x, s) # ID(n)
        <5>1. SUFFICES ASSUME First(x, s) = ID(n) PROVE FALSE
          OBVIOUS
        <5>2. ID(x) \in Seconds(n, s)
          BY <4>1, <5>1, SecondsAre
        <5>3. ID(x) = ID(m)
          BY <2>16, <3>1, <5>2 DEF Family, OneSecond
        <5> QED BY <3>1, <5>3, SameID
      <4>3. ID(n) = ID(x)
        BY <1>4, <3>1, <4>1, <4>2 DEF Family, HeirsFollow
      <4> QED BY <4>1, <4>2, <4>3
    <3>2. SUFFICES ASSUME NEW x \in Nodes, NEW y \in Nodes, x # y, Heir(x, s)', Heir(y, s)',
                          Alive(ID(x))', Alive(ID(y))'
                   PROVE  (First(x, s) # First(y, s) /\ (First(x, s) = ID(y) \/ First(y, s) = ID(x)))'
      BY DEF HeirsApart
    <3>3. Alive(ID(x)) /\ Alive(ID(y))
      BY <1>5, <2>11, <3>2
    <3>4. CASE x = m
      BY <1>5, <2>6, <3>1, <3>2, <3>3, <3>4
    <3>5. CASE y = m
      BY <1>5, <2>6, <3>1, <3>2, <3>3, <3>5
    <3>6. CASE x # m /\ y # m
      <4>1. /\ Heir(x, s) /\ First(x, s)' = First(x, s)
            /\ Heir(y, s) /\ First(y, s)' = First(y, s)
        BY <2>5, <3>2, <3>6 DEF Heir, Long
      <4> QED BY <1>5, <3>2, <3>3, <4>1 DEF Family, HeirsApart
    <3> QED BY <3>4, <3>5, <3>6
  <2>18. ASSUME NEW x \in Nodes PROVE OneSecond(x, s)' /\ SecondsOf(x, o, s)'
    <3>1. SameEntries(x)
      BY <2>7 DEF SameEntries
    <3>2. (\A i : Entry(x, i)' = Entry(x, i)) /\ Singles(x)' = Singles(x)
      BY <1>1, <3>1, EntryStays
    <3>3. Seconds(x, s)' \subseteq Seconds(x, s)
      <4>1. SUFFICES ASSUME NEW a \in Seconds(x, s)' PROVE a \in Seconds(x, s)
        OBVIOUS
      <4>2. \/ \E i \in DOMAIN replicas'[x] : Len(Entry(x, i)') > 1 /\ Entry(x, i)'[2] = a
            \/ \E y \in Nodes : Heir(y, s)' /\ First(y, s)' = ID(x)' /\ ID(y)' = a
        BY <4>1 DEF Seconds
      <4>3. CASE \E i \in DOMAIN replicas'[x] : Len(Entry(x, i)') > 1 /\ Entry(x, i)'[2] = a
        BY <1>1, <3>2, <4>3, SecondsAre
      <4>4. CASE \E y \in Nodes \ {m} : Heir(y, s)' /\ First(y, s)' = ID(x)' /\ ID(y)' = a
        BY <1>5, <2>5, <4>4, SecondsAre DEF Heir, Long
      <4>5. CASE Heir(m, s)' /\ First(m, s)' = ID(x)' /\ ID(m)' = a
        <5>1. x = n
          BY <1>5, <2>6, <4>5, SameID
        <5> QED BY <1>5, <2>16, <4>5, <5>1
      <4> QED BY <4>2, <4>3, <4>4, <4>5
    <3>4. OneSecond(x, s)'
      BY <2>11, <3>2, <3>3, FewerSeconds DEF Family
    <3>5. SecondsOf(x, o, s)'
      <4>1. CASE ID(x) = o
        <5>1. x # m /\ Holds(x, s) /\ SecondsOf(x, o, s)
          BY <2>10, <4>1, LeadingIs DEF Family, Leaders
        <5>2. Vids(x, s)' = Vids(x, s)
          BY <2>4, <5>1 DEF SameRow
        <5> QED BY <1>1, <3>1, <3>2, <3>3, <4>1, <5>1, <5>2 DEF SecondsOf, SameEntries
      <4>2. CASE ID(x) # o
        BY <1>5, <4>2 DEF SecondsOf
      <4> QED BY <4>1, <4>2
    <3> QED BY <3>4, <3>5
  <2> QED BY <2>8, <2>12, <2>13, <2>14, <2>15, <2>17, <2>18 DEF Family
<1>8. \/ UNCHANGED <<files, idxvolumes>>
      \/ \E m \in Nodes \ {n} : /\ m \in up /\ ID(m) \in ElemsOf(L) /\ k \in DOMAIN idxkeys[m]
                                /\ UpdateFileReplica(m, k, L, loop[n].rp.original)
  <2>1. DOMAIN nodes[n] \subseteq Nodes \ {n}
    BY DEF IInv, TypeOK, IsTable, MembersSound
  <2> QED BY <1>2, <2>1 DEF Tell, NodesWith, Updates
<1> QED BY <1>6, <1>7, <1>8

-----------------------------------------------------------------------------
(* The head of a queue goes, or goes to the end with the longer list. *)
LEMMA QueueTurns ==
  ASSUME NEW r \in Seq(Replica), r # <<>>, NEW e \in Replica, NEW q,
         q = Tail(r) \/ q = Append(Tail(r), e)
  PROVE  /\ \A i \in DOMAIN q : \/ i + 1 \in DOMAIN r /\ q[i] = r[i + 1] /\ i + 1 # 1
                                \/ q[i] = e
         /\ Len(q) <= Len(r) /\ DOMAIN q \subseteq Nat
<1>1. /\ Tail(r) \in Seq(Replica) /\ Len(Tail(r)) = Len(r) - 1
      /\ \A i \in 1..Len(Tail(r)) : Tail(r)[i] = r[i + 1]
      /\ Len(r) \in Nat /\ Len(r) > 0 /\ DOMAIN r = 1..Len(r)
  BY EmptySeq, HeadTailProperties, LenProperties
<1>2. PICK N \in Nat : N + 1 = Len(r) /\ Len(Tail(r)) = N
  <2>1. PICK K \in Nat : K = Len(r) /\ K > 0 /\ Len(Tail(r)) = K - 1
    BY <1>1
  <2>2. K - 1 \in Nat /\ (K - 1) + 1 = Len(r)
    BY <2>1
  <2> QED BY <2>1, <2>2
<1>3. PICK t \in Seq(Replica) : t = Tail(r)
  BY <1>1
<1>4. Len(t) = N /\ DOMAIN t = 1..N /\ \A i \in 1..N : t[i] = r[i + 1]
  BY <1>1, <1>2, <1>3, LenProperties
<1>d. DOMAIN r = 1..(N + 1) /\ Len(r) = N + 1
  BY <1>1, <1>2
<1>5. CASE q = t
  <2>1. DOMAIN q = 1..N /\ Len(q) = N /\ \A i \in 1..N : q[i] = r[i + 1]
    BY <1>4, <1>5
  <2> QED BY <1>d, <2>1
<1>6. CASE q = Append(t, e)
  <2>1. /\ q \in Seq(Replica) /\ Len(q) = N + 1 /\ q[N + 1] = e /\ \A i \in 1..N : q[i] = t[i]
    BY <1>4, <1>6, AppendProperties
  <2>2. DOMAIN q = 1..(N + 1)
    BY <2>1, LenProperties
  <2>3. \A i \in 1..N : q[i] = r[i + 1]
    BY <1>4, <2>1
  <2> QED BY <1>d, <2>1, <2>2, <2>3
<1> QED BY <1>3, <1>5, <1>6

(* What the last step of a lap changes. *)
LEMMA Updated ==
  ASSUME IInv, IInv', NEW o, NEW k, NEW s, Family(o, k, s), NEW n \in Nodes,
         UpdateReplica(n)
  PROVE  /\ At(n, "tell") /\ UNCHANGED <<up, epoch, idxkeys, gone>>
         /\ loop'[n] = Idle /\ \A x \in Nodes \ {n} : loop'[x] = loop[x]
         /\ Vids(n, s)' = Append(Vids(n, s), loop[n].vid)
         /\ DOMAIN files'[n] = DOMAIN files[n]
         /\ idxvolumes'[n] = idxvolumes[n] \cup {<<loop[n].vid, s>>}
         /\ \A x \in Nodes \ {n} : /\ files'[x] = files[x] /\ idxvolumes'[x] = idxvolumes[x]
                                   /\ replicas'[x] = replicas[x]
         /\ Len(replicas'[n]) <= Len(replicas[n]) /\ DOMAIN replicas'[n] \subseteq Nat
         /\ \A i \in DOMAIN replicas'[n] :
              \/ /\ i + 1 \in DOMAIN replicas[n] /\ i + 1 # 1
                 /\ replicas'[n][i] = replicas[n][i + 1]
              \/ /\ replicas'[n][i].key = k /\ replicas'[n][i].sig = s
                 /\ replicas'[n][i].vids = loop[n].rp.vids
<1>1. /\ At(n, "tell") /\ UNCHANGED <<up, epoch, idxkeys, gone>> /\ Goes(n, Idle)
  BY DEF UpdateReplica, members
<1>2. /\ loop[n].rp.key = k /\ loop[n].rp.sig = s /\ Holds(n, s)
      /\ replicas[n] # <<>>
  BY <1>1, Tells
<1>3. loop[n].rp \in Replica /\ replicas[n] \in Seq(Replica)
  BY <1>1, Types DEF IInv, At
<1>4. PICK e : e = [loop[n].rp EXCEPT !.count = @ - 1]
  OBVIOUS
<1>5. e \in Replica /\ e.key = k /\ e.sig = s /\ e.vids = loop[n].rp.vids
  <2>1. PICK rp \in Replica : rp = loop[n].rp
    BY <1>3
  <2>2. rp.count \in Int /\ rp.key = k /\ rp.sig = s
    BY <1>2, <2>1 DEF Replica
  <2>3. e = [rp EXCEPT !.count = @ - 1]
    BY <1>4, <2>1
  <2> QED BY <2>1, <2>2, <2>3 DEF Replica
<1>6. /\ s \in DOMAIN files[n]
      /\ files' = [files EXCEPT ![n][s] = [vids |-> Append(@.vids, loop[n].vid),
                                           replica |-> loop[n].rp.original]]
      /\ idxvolumes' = [idxvolumes EXCEPT ![n] = @ \cup {<<loop[n].vid, s>>}]
      /\ \/ replicas' = [replicas EXCEPT ![n] = Append(Tail(@), e)]
         \/ replicas' = [replicas EXCEPT ![n] = Tail(@)]
  BY <1>2, <1>4 DEF UpdateReplica
<1>7. /\ DOMAIN loop = Nodes /\ DOMAIN files = Nodes /\ DOMAIN idxvolumes = Nodes
      /\ DOMAIN replicas = Nodes
  BY DEF IInv, TypeOK
<1>8. loop'[n] = Idle /\ \A x \in Nodes \ {n} : loop'[x] = loop[x]
  BY <1>1, <1>7 DEF Goes
<1>9. /\ DOMAIN files'[n] = DOMAIN files[n]
      /\ files'[n][s].vids = Append(files[n][s].vids, loop[n].vid)
      /\ \A x \in Nodes \ {n} : files'[x] = files[x]
  BY <1>6, <1>7
<1>10. /\ idxvolumes'[n] = idxvolumes[n] \cup {<<loop[n].vid, s>>}
       /\ \A x \in Nodes \ {n} : idxvolumes'[x] = idxvolumes[x]
  BY <1>6, <1>7
<1>11. /\ \/ replicas'[n] = Tail(replicas[n])
          \/ replicas'[n] = Append(Tail(replicas[n]), e)
       /\ \A x \in Nodes \ {n} : replicas'[x] = replicas[x]
  BY <1>6, <1>7
<1>12. /\ Len(replicas'[n]) <= Len(replicas[n]) /\ DOMAIN replicas'[n] \subseteq Nat
       /\ \A i \in DOMAIN replicas'[n] :
            \/ /\ i + 1 \in DOMAIN replicas[n] /\ i + 1 # 1
               /\ replicas'[n][i] = replicas[n][i + 1]
            \/ replicas'[n][i] = e
  <2>1. PICK r, q : r \in Seq(Replica) /\ r = replicas[n] /\ q = replicas'[n]
    BY <1>3
  <2>2. /\ r \in Seq(Replica) /\ r # <<>> /\ e \in Replica
        /\ (q = Tail(r) \/ q = Append(Tail(r), e))
    BY <1>2, <1>5, <1>11, <2>1
  <2>3. /\ \A i \in DOMAIN q : \/ i + 1 \in DOMAIN r /\ q[i] = r[i + 1] /\ i + 1 # 1
                               \/ q[i] = e
        /\ Len(q) <= Len(r) /\ DOMAIN q \subseteq Nat
    BY <2>2, QueueTurns
  <2> QED BY <2>1, <2>3
<1>13. Vids(n, s)' = Append(Vids(n, s), loop[n].vid)
  BY <1>9 DEF Vids
<1>14. \A i \in DOMAIN replicas'[n] :
         \/ /\ i + 1 \in DOMAIN replicas[n] /\ i + 1 # 1
            /\ replicas'[n][i] = replicas[n][i + 1]
         \/ /\ replicas'[n][i].key = k /\ replicas'[n][i].sig = s
            /\ replicas'[n][i].vids = loop[n].rp.vids
  BY <1>5, <1>12
<1> QED BY <1>1, <1>8, <1>9, <1>10, <1>11, <1>12, <1>13, <1>14

(* The own row gets its copy: the node stays the leader or the heir it was, *)
(* and the first copy of o's row was its only second.                      *)
LEMMA UpdateReplicaFamily ==
  ASSUME IInv, IInv', MembersSound, back = {}, NEW o, NEW k, NEW s,
         Family(o, k, s), NEW n \in Nodes, UpdateReplica(n)
  PROVE  Family(o, k, s)'
<1>1. At(n, "tell") /\ UNCHANGED <<up, epoch, idxkeys, gone>>
  BY Updated
<1>2. PICK L, v, R :
        /\ L = loop[n].rp.vids /\ v = loop[n].vid /\ R = Vids(n, s)
  OBVIOUS
<1>3. /\ L \in Seq(IDs) /\ Sound(L, k, s) /\ L[1] = ID(n) /\ Len(L) > 1 /\ Entry(n, 1) = L
      /\ n \in up /\ replicas[n] # <<>> /\ 1 \in DOMAIN replicas[n]
      /\ v \in IDs /\ v # ID(n) /\ Holds(n, s) /\ Backed(v, k, s) /\ v \notin ElemsOf(R)
  BY <1>1, <1>2, Tells
<1>4. /\ loop'[n] = Idle /\ \A x \in Nodes \ {n} : loop'[x] = loop[x]
      /\ Vids(n, s)' = Append(R, v) /\ DOMAIN files'[n] = DOMAIN files[n]
      /\ idxvolumes'[n] = idxvolumes[n] \cup {<<v, s>>}
      /\ \A x \in Nodes \ {n} : /\ files'[x] = files[x] /\ idxvolumes'[x] = idxvolumes[x]
                                /\ replicas'[x] = replicas[x]
  BY <1>2, Updated
<1>5. /\ Len(replicas'[n]) <= Len(replicas[n]) /\ DOMAIN replicas'[n] \subseteq Nat
      /\ \A i \in DOMAIN replicas'[n] :
           \/ /\ i + 1 \in DOMAIN replicas[n] /\ i + 1 # 1
              /\ replicas'[n][i] = replicas[n][i + 1]
           \/ /\ replicas'[n][i].key = k /\ replicas'[n][i].sig = s
              /\ replicas'[n][i].vids = L
  BY <1>2, Updated
<1>6. TypeOK /\ TypeOK' /\ Kept(k, s) /\ KeysStay(k)
  BY <1>1 DEF IInv, Family, KeysStay
<1>7. /\ ID(n) \in Leading(o, s) /\ Alive(ID(n))
      /\ \A x \in Nodes \ {n} : loop[x] = Idle
  BY <1>3, Alone
<1>8. \A x \in Nodes : ID(x)' = ID(x)
  BY <1>1 DEF ID
<1>9. R \in Seq(IDs) /\ Sound(R, k, s)
  BY <1>2, <1>3, <1>6, Types DEF Kept, Tables, Holds, Vids
<1>10. PICK A \in Seq(IDs), N \in Nat :
         /\ A = Append(R, v) /\ N = Len(R) /\ (N = 1 \/ N > 1)
         /\ Sound(A, k, s) /\ Len(A) = N + 1 /\ A[N + 1] = v /\ \A i \in 1..N : A[i] = R[i]
         /\ ElemsOf(A) = ElemsOf(R) \cup {v}
  <2>1. PICK N \in Nat : N = Len(R) /\ (N = 1 \/ N > 1)
    BY <1>9 DEF Sound
  <2>2. /\ Append(R, v) \in Seq(IDs) /\ Sound(Append(R, v), k, s)
        /\ Len(Append(R, v)) = Len(R) + 1 /\ Append(R, v)[Len(R) + 1] = v
        /\ \A i \in 1..Len(R) : Append(R, v)[i] = R[i]
        /\ ElemsOf(Append(R, v)) = ElemsOf(R) \cup {v}
    BY <1>3, <1>9, LongerSound
  <2> QED BY <2>1, <2>2
<1>11. Vids(n, s)' = A /\ Holds(n, s)' /\ Long(n, s)' /\ Len(A) > 1 /\ A[1] = R[1]
       /\ First(n, s)' = First(n, s) /\ First(n, s) = R[1]
  <2>1. Vids(n, s)' = A /\ Holds(n, s)'
    BY <1>3, <1>4, <1>10 DEF Holds
  <2>2. Len(A) > 1 /\ A[1] = R[1]
    BY <1>10
  <2> QED BY <1>2, <2>1, <2>2 DEF Long, First
<1>12. N = 1 => A[2] = v
  BY <1>10
<1>13. N > 1 => A[2] = R[2]
  BY <1>10
<1>14. (Long(n, s) <=> N > 1) /\ (Heir(n, s)' <=> Heir(n, s))
  <2>1. Long(n, s) <=> N > 1
    BY <1>2, <1>3, <1>10 DEF Long
  <2>2. Heir(n, s)' <=> A[2] = ID(n)
    BY <1>8, <1>11 DEF Heir
  <2>3. Heir(n, s) <=> N > 1 /\ R[2] = ID(n)
    BY <1>2, <2>1 DEF Heir
  <2> QED BY <1>3, <1>10, <1>12, <1>13, <2>1, <2>2, <2>3
<1>15. \A x \in Nodes \ {n} : SameRow(x, s)
  BY <1>4 DEF SameRow, Holds, Vids
<1>16. \A x \in Nodes \ {n} : /\ (Long(x, s)' <=> Long(x, s)) /\ (Heir(x, s)' <=> Heir(x, s))
                              /\ Holds(x, s) => First(x, s)' = First(x, s)
  BY <1>8, <1>15 DEF SameRow, Long, Heir, First
<1>17. \A x \in Nodes : /\ Heir(x, s)' <=> Heir(x, s)
                        /\ Holds(x, s) => Holds(x, s)' /\ First(x, s)' = First(x, s)
  BY <1>11, <1>14, <1>15, <1>16 DEF SameRow
<1>18. Kept(k, s)'
  <2>1. Tables(n, k, s)'
    <3>1. Sound(A, k, s)'
      BY <1>6, <1>10, SoundStays
    <3>2. /\ DOMAIN idxkeys[n] \subseteq {k}
          /\ DOMAIN files[n] = {idxkeys[n][j] : j \in DOMAIN idxkeys[n]}
          /\ \A p \in idxvolumes[n] : p[2] = s /\ p[1] # ID(n)
      BY <1>6 DEF Kept, Tables
    <3>3. \A p \in idxvolumes'[n] : p[2] = s /\ p[1] # ID(n)
      BY <1>3, <1>4, <3>2
    <3> QED BY <1>1, <1>4, <1>8, <1>11, <3>1, <3>2, <3>3 DEF Tables
  <2>2. \A x \in Nodes \ {n} : Tables(x, k, s)'
    BY <1>1, <1>4, <1>6, TablesStay DEF Kept
  <2>3. \A x \in Nodes \ {n} : Queue(x, k, s)'
    BY <1>1, <1>4, <1>6, <1>17, QueueStays DEF Kept
  <2>4. Queue(n, k, s)'
    <3>1. SUFFICES ASSUME NEW i \in DOMAIN replicas'[n]
                   PROVE  (/\ replicas[n][i].key = k /\ replicas[n][i].sig = s
                           /\ Sound(replicas[n][i].vids, k, s)
                           /\ replicas[n][i].vids[1] = ID(n))'
      BY <1>11 DEF Queue
    <3>2. ASSUME NEW w \in Seq(IDs), Sound(w, k, s), w[1] = ID(n),
                 replicas'[n][i].vids = w
          PROVE  Sound(replicas[n][i].vids, k, s)' /\ replicas'[n][i].vids[1] = ID(n)'
      <4>1. Sound(w, k, s)'
        BY <1>6, <3>2, SoundStays
      <4> QED BY <1>8, <3>2, <4>1
    <3>3. CASE i + 1 \in DOMAIN replicas[n] /\ replicas'[n][i] = replicas[n][i + 1]
      <4>1. /\ replicas[n][i + 1].key = k /\ replicas[n][i + 1].sig = s
            /\ replicas[n][i + 1].vids \in Seq(IDs) /\ Sound(replicas[n][i + 1].vids, k, s)
            /\ replicas[n][i + 1].vids[1] = ID(n)
        BY <1>6, <3>3, Types DEF Kept, Queue
      <4> QED BY <3>2, <3>3, <4>1
    <3>4. CASE /\ replicas'[n][i].key = k /\ replicas'[n][i].sig = s
               /\ replicas'[n][i].vids = L
      BY <1>3, <3>2, <3>4
    <3> QED BY <1>5, <3>3, <3>4
  <2>5. \A x \in Nodes : Running(x, k, s)'
    BY <1>4, <1>7 DEF Running, Idle
  <2> QED BY <2>1, <2>2, <2>3, <2>4, <2>5 DEF Kept
<1>19. /\ ID(n) = o => R[1] = o
       /\ ID(n) # o => N > 1 /\ R[1] # ID(n)
  <2>1. /\ ID(n) = o => First(n, s) = o
        /\ ID(n) # o => Heir(n, s)
    BY <1>7 DEF Family, Leaders
  <2>2. Heir(n, s) => R[1] # ID(n)
    <3>1. SUFFICES ASSUME N > 1, R[2] = ID(n) PROVE R[1] # ID(n)
      BY <1>2, <1>14 DEF Heir
    <3>2. 1 \in DOMAIN R /\ 2 \in DOMAIN R
      BY <1>9, <1>10, <3>1
    <3> QED BY <1>9, <3>1, <3>2 DEF Sound, Distinct
  <2> QED BY <1>11, <1>14, <2>1, <2>2 DEF Heir
<1>20. Rows(o, s)'
  <2>1. SUFFICES ASSUME NEW x \in Nodes, Holds(x, s)'
                 PROVE  (/\ First(x, s) # ID(x) => Long(x, s)
                         /\ First(x, s) = ID(x) =>
                              /\ \A p \in idxvolumes[x] : p[1] \in ElemsOf(Vids(x, s))
                              /\ ID(x) # o => ~Long(x, s) /\ replicas[x] = <<>>)'
    BY DEF Rows
  <2>2. CASE x = n
    <3>1. R[1] = ID(n) => ID(n) = o /\ \A p \in idxvolumes[n] : p[1] \in ElemsOf(R)
      BY <1>2, <1>3, <1>11, <1>19 DEF Family, Rows
    <3>2. R[1] = ID(n) => \A p \in idxvolumes'[n] : p[1] \in ElemsOf(A)
      BY <1>4, <1>10, <3>1
    <3> QED BY <1>8, <1>11, <2>2, <3>1, <3>2
  <2>3. CASE x # n
    <3>1. Holds(x, s) /\ Vids(x, s)' = Vids(x, s)
      BY <1>15, <2>1, <2>3 DEF SameRow
    <3> QED BY <1>4, <1>8, <1>16, <2>3, <3>1 DEF Family, Rows
  <2> QED BY <2>2, <2>3
<1>21. \A y \in Leading(o, s)' : y \in Leading(o, s)
  <2>1. SUFFICES ASSUME NEW y \in Leading(o, s)' PROVE y \in Leading(o, s)
    OBVIOUS
  <2>2. \/ y = o
        \/ \E x \in Nodes : ID(x)' = y /\ replicas'[x] # <<>>
        \/ \E x \in Nodes : Long(x, s)' /\ First(x, s)' = y
    BY <2>1 DEF Leading
  <2>3. CASE \E x \in Nodes : ID(x)' = y /\ replicas'[x] # <<>>
    BY <1>4, <1>7, <1>8, <2>3, LeadingIs
  <2>4. CASE \E x \in Nodes \ {n} : Long(x, s)' /\ First(x, s)' = y
    BY <1>16, <2>4, LeadingIs DEF Long
  <2>5. CASE First(n, s)' = y
    BY <1>11, <1>14, <1>19, <2>5, LeadingIs
  <2> QED BY <2>2, <2>3, <2>4, <2>5, LeadingIs
<1>22. Leaders(o, s)'
  <2>1. SUFFICES ASSUME NEW x \in Nodes, ID(x)' \in Leading(o, s)'
                 PROVE  (/\ Holds(x, s)
                         /\ ID(x) = o => First(x, s) = o
                         /\ ID(x) # o => /\ Heir(x, s) /\ <<x, First(x, s)>> \in gone
                                         /\ Len(replicas[x]) <= 1)'
    BY DEF Leaders
  <2>2. ID(x) \in Leading(o, s) /\ ID(x)' = ID(x)
    BY <1>8, <1>21, <2>1
  <2>3. /\ Holds(x, s)
        /\ ID(x) = o => First(x, s) = o
        /\ ID(x) # o => /\ Heir(x, s) /\ <<x, First(x, s)>> \in gone
                        /\ Len(replicas[x]) <= 1
    BY <2>2 DEF Family, Leaders
  <2>4. Len(replicas[x]) <= 1 => Len(replicas'[x]) <= 1
    <3>1. CASE x # n
      BY <1>4, <3>1
    <3>2. CASE x = n
      <4>1. Len(replicas[n]) \in Nat /\ Len(replicas'[n]) \in Nat
        BY <1>6 DEF TypeOK
      <4> QED BY <1>5, <3>2, <4>1
    <3> QED BY <3>1, <3>2
  <2> QED BY <1>1, <1>17, <2>2, <2>3, <2>4
<1>23. \A x : Alive(x)' <=> Alive(x)
  BY <1>1 DEF Alive
<1>24. OneLeader(o, s)' /\ HeirsFollow(o, s)' /\ HeirsApart(s)'
  <2>1. \A x \in Nodes : Heir(x, s)' =>
          Heir(x, s) /\ ID(x)' = ID(x) /\ First(x, s)' = First(x, s)
    BY <1>8, <1>17 DEF Heir, Long
  <2> QED BY <1>21, <1>23, <2>1, FewerLead DEF Family
<1>25. ASSUME NEW x \in Nodes \ {n} PROVE OneSecond(x, s)' /\ SecondsOf(x, o, s)'
  <2>1. SameEntries(x) /\ replicas'[x] = replicas[x]
    BY <1>4 DEF SameEntries
  <2>2. (\A i : Entry(x, i)' = Entry(x, i)) /\ Singles(x)' = Singles(x)
    BY <2>1, EntryStays
  <2>3. Seconds(x, s)' \subseteq Seconds(x, s)
    <3>1. SUFFICES ASSUME NEW a \in Seconds(x, s)' PROVE a \in Seconds(x, s)
      OBVIOUS
    <3>2. \/ \E i \in DOMAIN replicas'[x] : Len(Entry(x, i)') > 1 /\ Entry(x, i)'[2] = a
          \/ \E y \in Nodes : Heir(y, s)' /\ First(y, s)' = ID(x)' /\ ID(y)' = a
      BY <3>1 DEF Seconds
    <3>3. CASE \E i \in DOMAIN replicas'[x] : Len(Entry(x, i)') > 1 /\ Entry(x, i)'[2] = a
      BY <2>1, <2>2, <3>3, SecondsAre
    <3>4. CASE \E y \in Nodes : Heir(y, s)' /\ First(y, s)' = ID(x)' /\ ID(y)' = a
      BY <1>8, <1>17, <3>4, SecondsAre DEF Heir, Long
    <3> QED BY <3>2, <3>3, <3>4
  <2>4. OneSecond(x, s)'
    BY <1>23, <2>2, <2>3, FewerSeconds DEF Family
  <2>5. SecondsOf(x, o, s)'
    <3>1. CASE ID(x) = o
      <4>1. Holds(x, s) /\ SecondsOf(x, o, s)
        BY <3>1, LeadingIs DEF Family, Leaders
      <4>2. Vids(x, s)' = Vids(x, s)
        BY <1>15, <4>1 DEF SameRow
      <4> QED BY <1>1, <2>1, <2>2, <2>3, <3>1, <4>1, <4>2 DEF SecondsOf, SameEntries
    <3>2. CASE ID(x) # o
      BY <1>8, <3>2 DEF SecondsOf
    <3> QED BY <3>1, <3>2
  <2> QED BY <2>4, <2>5
<1>26. ASSUME NEW i \in DOMAIN replicas'[n]
       PROVE  \/ i + 1 \in DOMAIN replicas[n] /\ i + 1 # 1 /\ Entry(n, i)' = Entry(n, i + 1)
              \/ Entry(n, i)' = Entry(n, 1)
  <2>1. Entry(n, i)' = replicas'[n][i].vids
    BY <1>4 DEF Entry, Idle
  <2>2. i + 1 # 1 => Entry(n, i + 1) = replicas[n][i + 1].vids
    BY DEF Entry
  <2> QED BY <1>3, <1>5, <2>1, <2>2
<1>27. Seconds(n, s)' \subseteq Seconds(n, s)
  <2>1. SUFFICES ASSUME NEW a \in Seconds(n, s)' PROVE a \in Seconds(n, s)
    OBVIOUS
  <2>2. \/ \E i \in DOMAIN replicas'[n] : Len(Entry(n, i)') > 1 /\ Entry(n, i)'[2] = a
        \/ \E y \in Nodes : Heir(y, s)' /\ First(y, s)' = ID(n)' /\ ID(y)' = a
    BY <2>1 DEF Seconds
  <2>3. ASSUME NEW i \in DOMAIN replicas'[n], Len(Entry(n, i)') > 1, Entry(n, i)'[2] = a
        PROVE  a \in Seconds(n, s)
    BY <1>3, <1>26, <2>3, SecondsAre
  <2>4. CASE \E y \in Nodes : Heir(y, s)' /\ First(y, s)' = ID(n)' /\ ID(y)' = a
    BY <1>8, <1>17, <2>4, SecondsAre DEF Heir, Long
  <2> QED BY <2>2, <2>3, <2>4
<1>28. \A i \in Singles(n)' : i \in Nat /\ i + 1 \in Singles(n) /\ i + 1 # 1
  <2>1. SUFFICES ASSUME NEW i \in Singles(n)' PROVE i \in Nat /\ i + 1 \in Singles(n) /\ i + 1 # 1
    OBVIOUS
  <2>2. i \in DOMAIN replicas'[n] /\ Len(Entry(n, i)') = 1 /\ i \in Nat
    BY <1>5 DEF Singles
  <2>3. Len(Entry(n, 1)) # 1
    <3>1. Len(L) \in Nat
      BY <1>3, LenProperties
    <3>2. Len(L) > 1 /\ Entry(n, 1) = L
      BY <1>3
    <3>3. PICK K \in Nat : K = Len(L)
      BY <3>1
    <3>4. K # 1
      <4>1. K > 1
        BY <3>2, <3>3
      <4> QED BY <4>1
    <3> QED BY <3>2, <3>3, <3>4
  <2>4. i + 1 \in DOMAIN replicas[n] /\ i + 1 # 1 /\ Entry(n, i)' = Entry(n, i + 1)
    BY <1>26, <2>2, <2>3
  <2>5. Len(Entry(n, i + 1)) = 1
    BY <2>2, <2>4
  <2> QED BY <2>2, <2>4, <2>5 DEF Singles
<1>29. OneSecond(n, s) /\ SecondsOf(n, o, s)
  BY DEF Family
<1>30. OneSecond(n, s)'
  <2>1. \A i \in Singles(n)', j \in Singles(n)' : i = j
    <3>1. SUFFICES ASSUME NEW i \in Singles(n)', NEW j \in Singles(n)' PROVE i = j
      OBVIOUS
    <3>2. i + 1 = j + 1
      BY <1>28, <1>29 DEF OneSecond
    <3> QED BY <1>28, <3>2
  <2>2. \A i \in Singles(n)' : \A a \in Seconds(n, s)' : ~Alive(a)'
    BY <1>23, <1>27, <1>28, <1>29 DEF OneSecond
  <2> QED BY <1>23, <1>27, <1>29, <2>1, <2>2 DEF OneSecond
<1>31. SecondsOf(n, o, s)'
  <2>1. SUFFICES ASSUME ID(n) = o
                 PROVE  /\ \A a \in Seconds(n, s)' : a = A[2] \/ <<n, A[2]>> \in gone
                        /\ Singles(n)' # {} => <<n, A[2]>> \in gone
    <3>1. (ID(n) = o)' <=> ID(n) = o
      BY <1>8
    <3>2. Vids(n, s)' = A /\ gone' = gone /\ Len(A) # 1
      BY <1>1, <1>10, <1>11
    <3> QED BY <3>1, <3>2 DEF SecondsOf
  <2>2. CASE N = 1
    <3>1. /\ Len(replicas[n]) <= 1
          /\ \A a \in Seconds(n, s) : a = v
      BY <1>2, <1>3, <1>10, <1>29, <2>1, <2>2 DEF SecondsOf
    <3>2. Singles(n)' = {}
      <4>1. \A i \in Nat : i + 1 \in DOMAIN replicas[n] => i + 1 = 1
        BY <1>6, <3>1 DEF TypeOK
      <4> QED BY <1>28, <4>1 DEF Singles
    <3> QED BY <1>12, <1>27, <2>2, <3>1, <3>2
  <2>3. CASE N > 1
    BY <1>2, <1>3, <1>10, <1>13, <1>27, <1>28, <1>29, <2>1, <2>3 DEF SecondsOf
  <2> QED BY <1>10, <2>2, <2>3
<1> QED BY <1>18, <1>20, <1>22, <1>24, <1>25, <1>30, <1>31 DEF Family

(* UpdateReplica finds its content: nothing was deleted. *)
LEMMA UpdateReplicaWorks ==
  ASSUME IInv, NEW o, NEW k, NEW s, Family(o, k, s), NEW n \in Nodes
  PROVE  ~UpdateReplicaFails(n)
<1>1. SUFFICES ASSUME UpdateReplicaFails(n) PROVE FALSE
  OBVIOUS
<1>2. At(n, "tell") /\ loop[n].rp.sig \notin DOMAIN files[n]
  BY <1>1 DEF UpdateReplicaFails
<1>3. loop[n].rp.sig = s /\ Holds(n, s)
  BY <1>2, Tells
<1> QED BY <1>2, <1>3 DEF Holds

-----------------------------------------------------------------------------
(* A volume is given up. *)

(* Who inherits nothing queues nothing. *)
LEMMA NothingInherited ==
  ASSUME TypeOK, NEW n \in Nodes, NEW v, GiveUp(n, v), Inherited(n, v) = {}
  PROVE  UNCHANGED replicas
<1> DEFINE Made(x, j) == [key |-> j, sig |-> x,
                count |-> files[n][x].replica - Len(DeleteVolumeID(files[n][x].vids, v)),
                original |-> files[n][x].replica,
                vids |-> DeleteVolumeID(files[n][x].vids, v)]
<1>1. CASE \E order \in Orders(Inherited(n, v)) :
             \E name \in [Inherited(n, v) -> DOMAIN idxkeys[n]] :
                replicas' = [replicas EXCEPT ![n] = @ \o
                  [i \in 1..Len(order) |-> Made(order[i], name[order[i]])]]
  <2>a. PICK order \in Orders(Inherited(n, v)) :
          \E name \in [Inherited(n, v) -> DOMAIN idxkeys[n]] :
             replicas' = [replicas EXCEPT ![n] = @ \o
               [i \in 1..Len(order) |-> Made(order[i], name[order[i]])]]
    BY <1>1
  <2>b. PICK name \in [Inherited(n, v) -> DOMAIN idxkeys[n]] :
          replicas' = [replicas EXCEPT ![n] = @ \o
            [i \in 1..Len(order) |-> Made(order[i], name[order[i]])]]
    BY <2>a
  <2>1. PICK q : /\ q = [i \in 1..Len(order) |-> Made(order[i], name[order[i]])]
                 /\ replicas' = [replicas EXCEPT ![n] = @ \o q]
    BY <2>b
  <2>2. order \in [1..0 -> {}]
    BY <2>a, FS_EmptySet DEF Orders
  <2>3. Len(order) = 0
    BY <2>2
  <2>4. q = <<>>
    BY <2>1, <2>3
  <2>5. replicas \in [Nodes -> Seq(Replica)]
    BY DEF TypeOK
  <2>6. replicas[n] \o q = replicas[n]
    BY <2>4, <2>5, ConcatEmptySeq
  <2>7. replicas' = [replicas EXCEPT ![n] = replicas[n]]
    BY <2>1, <2>6
  <2> QED BY <2>5, <2>7
<1> QED BY <1>1 DEF GiveUp

(* The queue gets a replica of s, or nothing. *)
LEMMA GivesUp ==
  ASSUME IInv, NEW o, NEW k, NEW s, Family(o, k, s), NEW n \in Nodes, NEW v,
         GiveUp(n, v)
  PROVE  \/ UNCHANGED replicas
         \/ /\ Holds(n, s) /\ <<v, s>> \in idxvolumes[n]
            /\ DeleteVolumeID(Vids(n, s), v)[1] = ID(n)
            /\ \E e \in Replica : /\ replicas' = [replicas EXCEPT ![n] = Append(@, e)]
                                  /\ e.key = k /\ e.sig = s
                                  /\ e.vids = DeleteVolumeID(Vids(n, s), v)
<1> DEFINE S == Inherited(n, v)
           Made(x, j) == [key |-> j, sig |-> x,
                count |-> files[n][x].replica - Len(DeleteVolumeID(files[n][x].vids, v)),
                original |-> files[n][x].replica,
                vids |-> DeleteVolumeID(files[n][x].vids, v)]
<1>1. TypeOK /\ DOMAIN replicas = Nodes /\ replicas[n] \in Seq(Replica) /\ Tables(n, k, s)
  BY DEF IInv, TypeOK, Family, Kept
<1>2. \A x \in S : /\ x = s /\ Holds(n, s) /\ <<v, s>> \in idxvolumes[n]
                   /\ DeleteVolumeID(Vids(n, s), v)[1] = ID(n)
  <2>1. SUFFICES ASSUME NEW x \in S
                 PROVE  /\ x = s /\ Holds(n, s) /\ <<v, s>> \in idxvolumes[n]
                        /\ DeleteVolumeID(Vids(n, s), v)[1] = ID(n)
    OBVIOUS
  <2>2. PICK p \in idxvolumes[n] : p[1] = v /\ p[2] = x
    BY DEF Inherited, SignaturesOf
  <2>3. p = <<v, s>> /\ x = s
    BY <1>1, <2>2 DEF Tables, TypeOK
  <2>4. x \in DOMAIN files[n] /\ DeleteVolumeID(files[n][x].vids, v)[1] = ID(n)
    BY DEF Inherited
  <2> QED BY <2>3, <2>4 DEF Holds, Vids
<1>3. \/ UNCHANGED replicas
      \/ \E order \in Orders(S) : \E name \in [S -> DOMAIN idxkeys[n]] :
           replicas' = [replicas EXCEPT ![n] = @ \o
             [i \in 1..Len(order) |-> Made(order[i], name[order[i]])]]
  BY DEF GiveUp
<1>4. S = {} => UNCHANGED replicas
  BY <1>1, NothingInherited
<1>5. ASSUME NEW order \in Orders(S), NEW name \in [S -> DOMAIN idxkeys[n]],
             replicas' = [replicas EXCEPT ![n] = @ \o
               [i \in 1..Len(order) |-> Made(order[i], name[order[i]])]],
             S = {s}
      PROVE  \E e \in Replica : /\ replicas' = [replicas EXCEPT ![n] = Append(@, e)]
                                /\ e.key = k /\ e.sig = s
                                /\ e.vids = DeleteVolumeID(Vids(n, s), v)
  <2>1. order \in [1..1 -> {s}]
    BY <1>5, FS_Singleton DEF Orders
  <2>2. Len(order) = 1 /\ order[1] = s
    <3>1. PICK c \in Nat : c = 1
      OBVIOUS
    <3>2. order \in [1..c -> {s}]
      BY <2>1, <3>1
    <3>3. Len(order) = c
      BY <3>2
    <3> QED BY <2>1, <3>1, <3>3
  <2>3. PICK j \in DOMAIN idxkeys[n] : j = name[s]
    BY <1>5
  <2>4. PICK e : e = Made(s, j)
    OBVIOUS
  <2>5. [i \in 1..Len(order) |-> Made(order[i], name[order[i]])] = <<e>>
    BY <2>2, <2>3, <2>4
  <2>6. PICK l \in Seq(IDs) : l = DeleteVolumeID(files[n][s].vids, v)
    <3>1. files[n][s].vids \in Seq(IDs)
      BY <1>1, <1>2, <1>5, Types DEF Holds
    <3> QED BY <3>1, DeleteVolumeIDType
  <2>7. e \in Replica
    <3>1. Len(l) \in Nat /\ files[n][s].replica \in Nat /\ s \in Signatures /\ j \in Keys
      <4>1. s \in DOMAIN files[n]
        BY <1>2, <1>5 DEF Holds
      <4>2. /\ IsTable(files[n], Signatures, Row)
            /\ IsTable(idxkeys[n], Keys, DOMAIN files[n])
        BY <1>1 DEF TypeOK
      <4>3. s \in Signatures /\ files[n][s] \in Row /\ j \in Keys
        BY <4>1, <4>2 DEF IsTable
      <4> QED BY <2>6, <4>3, LenProperties DEF Row
    <3> HIDE DEF S
    <3>2. e = [key |-> j, sig |-> s, count |-> files[n][s].replica - Len(l),
               original |-> files[n][s].replica, vids |-> l]
      BY <2>4, <2>6
    <3> QED BY <2>6, <3>1, <3>2 DEF Replica
  <2>8. e.key = k /\ e.sig = s /\ e.vids = DeleteVolumeID(Vids(n, s), v)
    <3>1. j = k
      BY <1>1 DEF Tables
    <3> QED BY <2>4, <3>1 DEF Vids
  <2>9. replicas[n] \o <<e>> = Append(replicas[n], e)
    BY <1>1, <2>7, AppendIsConcat
  <2> QED BY <1>1, <1>5, <2>5, <2>7, <2>8, <2>9
<1>6. S = {} \/ S = {s}
  BY <1>2
<1> QED BY <1>2, <1>3, <1>4, <1>5, <1>6

(* What a replica with list l more in the queue of n changes. *)
Adds(n, o, k, s, l) ==
  /\ Kept(k, s)' /\ UNCHANGED <<epoch, idxvolumes>>
  /\ \A x \in Nodes : SameRow(x, s) /\ SameEntries(x)
  /\ \A x \in Nodes \ {n} : replicas'[x] = replicas[x]
  /\ Len(replicas'[n]) = Len(replicas[n]) + 1
  /\ \A a \in Seconds(n, s)' : a \in Seconds(n, s) \/ (Len(l) > 1 /\ a = l[2])
  /\ \A i \in Singles(n)' : \/ i \in Singles(n)
                            \/ Len(l) = 1 /\ i = Len(replicas[n]) + 1
  /\ \A y \in Leading(o, s)' : y \in Leading(o, s) \/ y = ID(n)

LEMMA GiveUpAdds ==
  ASSUME IInv, IInv', NEW o, NEW k, NEW s, Family(o, k, s), NEW n \in Nodes,
         UNCHANGED <<epoch, idxkeys, files, idxvolumes, loop>>,
         NEW e \in Replica, replicas' = [replicas EXCEPT ![n] = Append(@, e)],
         e.key = k, e.sig = s, NEW l \in Seq(IDs), e.vids = l, Sound(l, k, s),
         l[1] = ID(n), Holds(n, s)
  PROVE  Adds(n, o, k, s, l)
<1>1. TypeOK /\ TypeOK' /\ KeysStay(k) /\ Kept(k, s) /\ replicas \in [Nodes -> Seq(Replica)]
  BY DEF IInv, KeysStay, Family, TypeOK
<1>2. \A x \in Nodes : SameRow(x, s) /\ SameEntries(x) /\ ID(x)' = ID(x)
  BY DEF SameRow, SameEntries, Holds, Vids, ID
<1>3. PICK r, q \in Seq(Replica) : r = replicas[n] /\ q = replicas'[n] /\ q = Append(r, e)
  BY <1>1 DEF TypeOK
<1>4. \A x \in Nodes \ {n} : replicas'[x] = replicas[x]
  BY <1>1
<1>5. PICK N \in Nat : /\ N = Len(r) /\ DOMAIN r = 1..N /\ Len(q) = N + 1
                       /\ DOMAIN q = 1..(N + 1) /\ q[N + 1] = e
                       /\ \A i \in 1..N : q[i] = r[i]
  <2>1. Len(r) \in Nat /\ DOMAIN r = 1..Len(r) /\ DOMAIN q = 1..Len(q)
    BY LenProperties
  <2>2. /\ Len(q) = Len(r) + 1 /\ q[Len(r) + 1] = e /\ \A i \in 1..Len(r) : q[i] = r[i]
    BY <1>3, AppendProperties
  <2> QED BY <2>1, <2>2
<1>6. \A i \in DOMAIN q : (i \in DOMAIN r /\ q[i] = r[i]) \/ (i = N + 1 /\ q[i] = e)
  BY <1>5
<1>7. Sound(l, k, s)'
  BY <1>1, SoundStays
<1>8. \A x \in Nodes : Tables(x, k, s)'
  BY <1>1, TablesStay DEF Kept
<1>9. \A x \in Nodes \ {n} : Queue(x, k, s)'
  BY <1>1, <1>2, <1>4, QueueStays DEF Kept, SameRow
<1>10. Queue(n, k, s)'
  <2>1. SUFFICES ASSUME NEW i \in DOMAIN q
                 PROVE  (/\ replicas[n][i].key = k /\ replicas[n][i].sig = s
                         /\ Sound(replicas[n][i].vids, k, s)
                         /\ replicas[n][i].vids[1] = ID(n))'
    BY <1>2, <1>3 DEF Queue, SameRow
  <2>2. CASE i \in DOMAIN r /\ q[i] = r[i]
    <3>1. PICK w \in Seq(IDs) : w = replicas[n][i].vids
      BY <1>1, <1>3, <2>2, Types
    <3>2. /\ replicas[n][i].key = k /\ replicas[n][i].sig = s
          /\ Sound(w, k, s) /\ w[1] = ID(n)
      BY <1>1, <1>3, <2>2, <3>1 DEF Kept, Queue
    <3>3. Sound(w, k, s)'
      BY <1>1, <3>2, SoundStays
    <3> QED BY <1>2, <1>3, <2>2, <3>1, <3>2, <3>3
  <2>3. CASE q[i] = e
    BY <1>2, <1>3, <1>7, <2>3
  <2> QED BY <1>6, <2>2, <2>3
<1>11. ASSUME NEW x \in Nodes PROVE Running(x, k, s)'
  <2>1. CASE replicas'[x] = replicas[x]
    <3>1. loop[x].at = "send" => k \notin DOMAIN idxkeys'[loop[x].to]
      BY <1>1 DEF Kept, Running
    <3> QED BY <1>1, <2>1, <3>1, RunningStays DEF Kept
  <2>2. CASE x = n /\ r = <<>>
    <3>1. loop'[n].at = "idle"
      <4>1. replicas[n] = <<>>
        BY <1>3, <2>2
      <4>2. loop[n] = Idle
        BY <4>1 DEF IInv
      <4> QED BY <4>2 DEF Idle
    <3> QED BY <2>2, <3>1 DEF Running
  <2>3. CASE x = n /\ r # <<>>
    <3>1. replicas'[n][1] = replicas[n][1]
      <4>1. N # 0
        BY <1>5, <2>3, EmptySeq
      <4>2. 1 \in 1..N
        BY <4>1
      <4> QED BY <1>3, <1>5, <4>2
    <3>2. Running(n, k, s)
      BY <1>1 DEF Kept
    <3>3. loop[n].at = "tell" => Backed(loop[n].vid, k, s)'
      BY <1>1, <3>2, Types, BackedStays DEF Running
    <3>4. Running(n, k, s)'
      BY <3>1, <3>2, <3>3 DEF Running, Vids
    <3> QED BY <2>3, <3>4
  <2> QED BY <1>4, <2>1, <2>2, <2>3
<1>12. Kept(k, s)'
  BY <1>8, <1>9, <1>10, <1>11 DEF Kept
<1>13. ASSUME NEW i \in DOMAIN q
       PROVE  \/ i \in DOMAIN r /\ Entry(n, i)' = Entry(n, i)
              \/ i = N + 1 /\ Entry(n, i)' = l
  <2>1. CASE i \in DOMAIN r /\ q[i] = r[i]
    BY <1>3, <2>1 DEF Entry
  <2>2. CASE i = N + 1 /\ q[i] = e
    <3>1. i = 1 => loop[n].at # "tell"
      <4>1. SUFFICES ASSUME N = 0 PROVE loop[n].at # "tell"
        BY <2>2
      <4>2. replicas[n] = <<>>
        BY <1>3, <1>5, <4>1, EmptySeq
      <4> QED BY <4>2 DEF IInv, Idle
    <3>2. Entry(n, i)' = replicas'[n][i].vids
      BY <3>1 DEF Entry
    <3> QED BY <1>3, <2>2, <3>2
  <2> QED BY <1>6, <2>1, <2>2
<1>14. \A a \in Seconds(n, s)' : a \in Seconds(n, s) \/ (Len(l) > 1 /\ a = l[2])
  <2>1. SUFFICES ASSUME NEW a \in Seconds(n, s)'
                 PROVE  a \in Seconds(n, s) \/ (Len(l) > 1 /\ a = l[2])
    OBVIOUS
  <2>2. \/ \E i \in DOMAIN replicas'[n] : Len(Entry(n, i)') > 1 /\ Entry(n, i)'[2] = a
        \/ \E y \in Nodes : Heir(y, s)' /\ First(y, s)' = ID(n)' /\ ID(y)' = a
    BY <2>1 DEF Seconds
  <2>3. ASSUME NEW i \in DOMAIN q, Len(Entry(n, i)') > 1, Entry(n, i)'[2] = a
        PROVE  a \in Seconds(n, s) \/ (Len(l) > 1 /\ a = l[2])
    BY <1>3, <1>13, <2>3, SecondsAre
  <2>4. CASE \E y \in Nodes : Heir(y, s)' /\ First(y, s)' = ID(n)' /\ ID(y)' = a
    <3>1. \A x \in Nodes : /\ (Heir(x, s)' <=> Heir(x, s))
                           /\ Heir(x, s) => First(x, s)' = First(x, s)
      BY <1>2, RowStays DEF Heir
    <3> QED BY <1>2, <2>4, <3>1, SecondsAre
  <2> QED BY <1>3, <2>2, <2>3, <2>4
<1>15. \A i \in Singles(n)' : i \in Singles(n) \/ (Len(l) = 1 /\ i = Len(replicas[n]) + 1)
  <2>1. SUFFICES ASSUME NEW i \in Singles(n)'
                 PROVE  i \in Singles(n) \/ (Len(l) = 1 /\ i = N + 1)
    BY <1>3, <1>5
  <2>2. i \in DOMAIN q /\ Len(Entry(n, i)') = 1
    BY <1>3 DEF Singles
  <2>3. \/ i \in DOMAIN r /\ Len(Entry(n, i)) = 1
        \/ i = N + 1 /\ Len(l) = 1
    BY <1>13, <2>2
  <2> QED BY <1>3, <2>3 DEF Singles
<1>16. \A y \in Leading(o, s)' : y \in Leading(o, s) \/ y = ID(n)
  <2>1. SUFFICES ASSUME NEW y \in Leading(o, s)'
                 PROVE  y \in Leading(o, s) \/ y = ID(n)
    OBVIOUS
  <2>2. \/ y = o
        \/ \E x \in Nodes : ID(x)' = y /\ replicas'[x] # <<>>
        \/ \E x \in Nodes : Long(x, s)' /\ First(x, s)' = y
    BY <2>1 DEF Leading
  <2>3. \A x \in Nodes : /\ (Long(x, s)' <=> Long(x, s))
                         /\ Long(x, s) => First(x, s)' = First(x, s)
    BY <1>2, RowStays
  <2> QED BY <1>2, <1>4, <2>2, <2>3, LeadingIs
<1> QED BY <1>2, <1>3, <1>4, <1>5, <1>12, <1>14, <1>15, <1>16 DEF Adds

(* The rows and the other nodes are as they were. *)
LEMMA AddsLeave ==
  ASSUME NEW o, NEW k, NEW s, Family(o, k, s), NEW n \in Nodes, NEW l, Adds(n, o, k, s, l),
         gone \subseteq gone', Holds(n, s), First(n, s) = ID(n) => ID(n) = o
  PROVE  /\ Rows(o, s)'
         /\ \A x \in Nodes \ {n} : OneSecond(x, s)' /\ SecondsOf(x, o, s)'
         /\ \A x \in Nodes : /\ ID(x)' = ID(x) /\ (Heir(x, s)' <=> Heir(x, s))
                             /\ (Long(x, s)' <=> Long(x, s))
                             /\ (Holds(x, s)' <=> Holds(x, s))
                             /\ Holds(x, s) => /\ First(x, s)' = First(x, s)
                                               /\ Vids(x, s)' = Vids(x, s)
<1>1. \A x \in Nodes : /\ (Holds(x, s)' <=> Holds(x, s))
                       /\ Holds(x, s) => /\ First(x, s)' = First(x, s)
                                         /\ Vids(x, s)' = Vids(x, s)
  BY DEF Adds, SameRow, First
<1>2. \A x \in Nodes : /\ ID(x)' = ID(x) /\ (Heir(x, s)' <=> Heir(x, s))
                       /\ (Long(x, s)' <=> Long(x, s))
  BY RowStays DEF Adds
<1>3. \A x \in Nodes \ {n} : OneSecond(x, s)' /\ SecondsOf(x, o, s)'
  <2>1. SUFFICES ASSUME NEW x \in Nodes \ {n} PROVE OneSecond(x, s)' /\ SecondsOf(x, o, s)'
    OBVIOUS
  <2>2. /\ replicas'[x] = replicas[x] /\ SameEntries(x) /\ UNCHANGED epoch
        /\ \A m \in Nodes : SameRow(m, s) \/ NewRow(m, s)
    BY DEF Adds
  <2> QED BY <2>2, OneSecondStays
<1>4. Rows(o, s)'
  <2>1. SUFFICES ASSUME NEW x \in Nodes, Holds(x, s)'
                 PROVE  (/\ First(x, s) # ID(x) => Long(x, s)
                         /\ First(x, s) = ID(x) =>
                              /\ \A p \in idxvolumes[x] : p[1] \in ElemsOf(Vids(x, s))
                              /\ ID(x) # o => ~Long(x, s) /\ replicas[x] = <<>>)'
    BY DEF Rows
  <2>2. /\ Holds(x, s) /\ ID(x)' = ID(x) /\ (Long(x, s)' <=> Long(x, s))
        /\ First(x, s)' = First(x, s) /\ Vids(x, s)' = Vids(x, s)
        /\ idxvolumes' = idxvolumes
    BY <1>1, <1>2, <2>1 DEF Adds
  <2>3. /\ First(x, s) # ID(x) => Long(x, s)
        /\ First(x, s) = ID(x) =>
             /\ \A p \in idxvolumes[x] : p[1] \in ElemsOf(Vids(x, s))
             /\ ID(x) # o => ~Long(x, s) /\ replicas[x] = <<>>
    BY <2>2 DEF Family, Rows
  <2>4. First(x, s) = ID(x) /\ ID(x) # o => replicas'[x] = replicas[x]
    BY DEF Adds
  <2> QED BY <2>2, <2>3, <2>4
<1> QED BY <1>1, <1>2, <1>3, <1>4

(* The volume of the put gives up another of its row: it queues a list     *)
(* whose second is the one of the row, or that one is the volume given up. *)
LEMMA OwnerGivesUp ==
  ASSUME NEW o, NEW k, NEW s, Family(o, k, s), NEW n \in Nodes, NEW l, Adds(n, o, k, s, l),
         NEW v, gone' = gone \cup {<<n, v>>}, <<n, v>> \notin gone,
         Holds(n, s), ID(n) = o, Len(Vids(n, s)) > 1, Len(l) \in Nat,
         Vids(n, s)[2] # v => Len(l) > 1 /\ l[2] = Vids(n, s)[2]
  PROVE  Family(o, k, s)'
<1>1. PICK R : R = Vids(n, s)
  OBVIOUS
<1>2. /\ Rows(o, s)'
      /\ \A x \in Nodes \ {n} : OneSecond(x, s)' /\ SecondsOf(x, o, s)'
      /\ \A x \in Nodes : /\ ID(x)' = ID(x) /\ (Heir(x, s)' <=> Heir(x, s))
                          /\ (Holds(x, s)' <=> Holds(x, s))
                          /\ Holds(x, s) => /\ First(x, s)' = First(x, s)
                                            /\ Vids(x, s)' = Vids(x, s)
  BY AddsLeave
<1>3. (\A x : Alive(x)' => Alive(x)) /\ ~Alive(v)'
  BY DEF Alive
<1>4. \A y \in Leading(o, s)' : y \in Leading(o, s)
  BY LeadingIs DEF Adds
<1>5. Leaders(o, s)'
  <2>1. SUFFICES ASSUME NEW x \in Nodes, ID(x)' \in Leading(o, s)'
                 PROVE  (/\ Holds(x, s)
                         /\ ID(x) = o => First(x, s) = o
                         /\ ID(x) # o => /\ Heir(x, s) /\ <<x, First(x, s)>> \in gone
                                         /\ Len(replicas[x]) <= 1)'
    BY DEF Leaders
  <2>2. /\ Holds(x, s)
        /\ ID(x) = o => First(x, s) = o
        /\ ID(x) # o => /\ Heir(x, s) /\ <<x, First(x, s)>> \in gone
                        /\ Len(replicas[x]) <= 1
    BY <1>2, <1>4, <2>1 DEF Family, Leaders
  <2>3. ID(x) # o => replicas'[x] = replicas[x]
    BY DEF Adds
  <2> QED BY <1>2, <2>2, <2>3
<1>6. OneLeader(o, s)' /\ HeirsFollow(o, s)' /\ HeirsApart(s)'
  <2>1. \A x \in Nodes : Heir(x, s)' =>
          Heir(x, s) /\ ID(x)' = ID(x) /\ First(x, s)' = First(x, s)
    BY <1>2 DEF Heir, Long
  <2> QED BY <1>3, <1>4, <2>1, FewerLead DEF Family
<1>7. /\ \A a \in Seconds(n, s) : a = R[2] \/ <<n, R[2]>> \in gone
      /\ Singles(n) # {} => <<n, R[2]>> \in gone
      /\ OneSecond(n, s)
  BY <1>1 DEF Family, SecondsOf
<1>8. /\ \A a \in Seconds(n, s)' : a \in Seconds(n, s) \/ (Len(l) > 1 /\ a = l[2])
      /\ \A i \in Singles(n)' : i \in Singles(n) \/ (Len(l) = 1 /\ i = Len(replicas[n]) + 1)
  BY DEF Adds
<1>9. <<n, R[2]>> \in gone => ~Alive(R[2]) /\ ~Alive(R[2])'
  BY DEF Alive
<1>10. /\ \A a \in Seconds(n, s)' : a = R[2] \/ <<n, R[2]>> \in gone'
       /\ Singles(n)' # {} => <<n, R[2]>> \in gone'
  <2>1. CASE R[2] = v
    BY <2>1
  <2>2. CASE R[2] # v
    <3>1. Len(l) > 1 /\ Len(l) # 1 /\ l[2] = R[2]
      BY <1>1, <2>2
    <3> QED BY <1>7, <1>8, <3>1
  <2> QED BY <2>1, <2>2
<1>11. SecondsOf(n, o, s)'
  <2>1. Vids(n, s)' = R /\ Len(R) > 1 /\ Len(R) # 1
    <3>1. Vids(n, s)' = R /\ Len(R) > 1
      BY <1>1, <1>2
    <3> QED BY <3>1
  <2> QED BY <1>10, <2>1 DEF SecondsOf
<1>12. OneSecond(n, s)'
  <2>1. CASE R[2] = v
    <3>1. (\A a \in Seconds(n, s) : a = v) /\ Singles(n) = {}
      BY <1>7, <2>1
    <3>2. \A a \in Seconds(n, s)' : Alive(a)' => Len(l) > 1 /\ a = l[2]
      BY <1>3, <1>8, <3>1
    <3>3. \A i \in Singles(n)' : Len(l) = 1 /\ i = Len(replicas[n]) + 1
      BY <1>8, <3>1
    <3>4. Singles(n)' # {} => \A a \in Seconds(n, s)' : ~Alive(a)'
      BY <3>2, <3>3
    <3> QED BY <3>2, <3>3, <3>4 DEF OneSecond
  <2>2. CASE R[2] # v
    <3>1. Len(l) # 1 /\ l[2] = R[2]
      BY <1>1, <2>2
    <3>2. \A a \in Seconds(n, s)' : a \in Seconds(n, s) \/ a = R[2]
      BY <1>8, <3>1
    <3>3. \A i \in Singles(n)' : i \in Singles(n)
      BY <1>8, <3>1
    <3>4. CASE <<n, R[2]>> \in gone
      <4>1. \A a \in Seconds(n, s)' : Alive(a)' => a \in Seconds(n, s) /\ Alive(a)
        BY <1>3, <1>9, <3>2, <3>4
      <4> QED BY <1>7, <3>3, <4>1 DEF OneSecond
    <3>5. CASE <<n, R[2]>> \notin gone
      BY <1>7, <3>2, <3>3, <3>5 DEF OneSecond
    <3> QED BY <3>4, <3>5
  <2> QED BY <2>1, <2>2
<1> QED BY <1>2, <1>5, <1>6, <1>11, <1>12 DEF Family, Adds

(* The heir gives up the volume before it: no other that lives leads, and  *)
(* every other heir comes after this one.                                  *)
LEMMA HeirGivesUp ==
  ASSUME TypeOK, NEW o, NEW k, NEW s, Family(o, k, s), NEW n \in Nodes, NEW l,
         Adds(n, o, k, s, l), NEW v, gone' = gone \cup {<<n, v>>}, <<n, v>> \notin gone,
         Alive(ID(n)), Heir(n, s), First(n, s) = v, v # ID(n), Len(l) \in Nat
  PROVE  Family(o, k, s)'
<1>1. Holds(n, s) /\ Long(n, s)
  BY DEF Heir, Long
<1>2. /\ Rows(o, s)'
      /\ \A x \in Nodes \ {n} : OneSecond(x, s)' /\ SecondsOf(x, o, s)'
      /\ \A x \in Nodes : /\ ID(x)' = ID(x) /\ (Heir(x, s)' <=> Heir(x, s))
                          /\ (Holds(x, s)' <=> Holds(x, s))
                          /\ Holds(x, s) => First(x, s)' = First(x, s)
  BY <1>1, AddsLeave
<1>3. (\A x : Alive(x)' => Alive(x)) /\ ~Alive(v)'
  BY DEF Alive
<1>4. ID(n) \notin Leading(o, s) /\ ID(n) # o
  <2>1. ID(n) \notin Leading(o, s)
    BY DEF Family, Leaders
  <2> QED BY <2>1, LeadingIs
<1>5. replicas[n] = <<>> /\ Len(replicas[n]) = 0 /\ Len(replicas'[n]) = 1
  <2>1. replicas[n] = <<>>
    BY <1>4, LeadingIs
  <2>2. Len(replicas[n]) = 0
    BY <2>1
  <2> QED BY <2>1, <2>2 DEF Adds
<1>6. Seconds(n, s) = {} /\ Singles(n) = {}
  <2>1. DOMAIN replicas[n] = {}
    BY <1>5
  <2>2. \A y \in Nodes : Heir(y, s) => First(y, s) # ID(n)
    BY <1>4, LeadingIs DEF Heir
  <2>3. Singles(n) = {}
    BY <2>1 DEF Singles
  <2>4. \A a : a \notin Seconds(n, s)
    BY <2>1, <2>2, SecondsAre
  <2> QED BY <2>3, <2>4
<1>7. \A y \in Leading(o, s)' : Alive(y)' => y = ID(n)
  BY <1>3 DEF Adds, Family, HeirsFollow
<1>8. OneLeader(o, s)'
  BY <1>7 DEF OneLeader
<1>9. HeirsFollow(o, s)'
  <2>1. SUFFICES ASSUME NEW x \in Nodes, Heir(x, s)', Alive(ID(x))',
                        NEW y \in Leading(o, s)', Alive(y)'
                 PROVE  y \in {First(x, s)', ID(x)'}
    BY DEF HeirsFollow
  <2>2. y = ID(n) /\ Heir(x, s) /\ Holds(x, s) /\ Alive(ID(x))
    BY <1>2, <1>3, <1>7, <2>1 DEF Heir, Long
  <2>3. x # n => First(n, s) = ID(x) \/ First(x, s) = ID(n)
    BY <2>2 DEF Family, HeirsApart
  <2>4. v # ID(x)
    BY <1>2, <1>3, <2>1
  <2> QED BY <1>2, <2>2, <2>3, <2>4
<1>10. HeirsApart(s)'
  <2>1. SUFFICES ASSUME NEW x \in Nodes, NEW y \in Nodes, x # y, Heir(x, s)', Heir(y, s)',
                        Alive(ID(x))', Alive(ID(y))'
                 PROVE  (First(x, s) # First(y, s) /\ (First(x, s) = ID(y) \/ First(y, s) = ID(x)))'
    BY DEF HeirsApart
  <2>2. /\ Heir(x, s) /\ Holds(x, s) /\ Alive(ID(x)) /\ First(x, s)' = First(x, s)
        /\ Heir(y, s) /\ Holds(y, s) /\ Alive(ID(y)) /\ First(y, s)' = First(y, s)
    BY <1>2, <1>3, <2>1 DEF Heir, Long
  <2>3. First(x, s) # First(y, s) /\ (First(x, s) = ID(y) \/ First(y, s) = ID(x))
    BY <2>1, <2>2 DEF Family, HeirsApart
  <2> QED BY <1>2, <2>2, <2>3
<1>11. Leaders(o, s)'
  <2>1. SUFFICES ASSUME NEW x \in Nodes, ID(x)' \in Leading(o, s)'
                 PROVE  (/\ Holds(x, s)
                         /\ ID(x) = o => First(x, s) = o
                         /\ ID(x) # o => /\ Heir(x, s) /\ <<x, First(x, s)>> \in gone
                                         /\ Len(replicas[x]) <= 1)'
    BY DEF Leaders
  <2>2. CASE x = n
    <3>1. Holds(n, s)' /\ ID(n)' # o /\ Heir(n, s)' /\ First(n, s)' = v
      BY <1>1, <1>2, <1>4
    <3>2. <<n, v>> \in gone' /\ Len(replicas'[n]) <= 1
      BY <1>5
    <3> QED BY <2>2, <3>1, <3>2
  <2>3. CASE x # n
    <3>1. ID(x) \in Leading(o, s)
      BY <1>2, <2>1, <2>3, SameID DEF Adds
    <3>2. /\ Holds(x, s)
          /\ ID(x) = o => First(x, s) = o
          /\ ID(x) # o => /\ Heir(x, s) /\ <<x, First(x, s)>> \in gone
                          /\ Len(replicas[x]) <= 1
      BY <3>1 DEF Family, Leaders
    <3>3. replicas'[x] = replicas[x]
      BY <2>3 DEF Adds
    <3> QED BY <1>2, <3>2, <3>3
  <2> QED BY <2>2, <2>3
<1>12. OneSecond(n, s)'
  <2>1. \A a \in Seconds(n, s)' : Len(l) > 1 /\ a = l[2]
    BY <1>6 DEF Adds
  <2>2. \A i \in Singles(n)' : Len(l) = 1 /\ i = Len(replicas[n]) + 1
    BY <1>6 DEF Adds
  <2>3. Singles(n)' # {} => Seconds(n, s)' = {}
    BY <2>1, <2>2
  <2> QED BY <2>1, <2>2, <2>3 DEF OneSecond
<1>13. SecondsOf(n, o, s)'
  <2>1. ID(n)' # o
    BY <1>2, <1>4
  <2> QED BY <2>1 DEF SecondsOf
<1> QED BY <1>2, <1>8, <1>9, <1>10, <1>11, <1>12, <1>13 DEF Family, Adds

LEMMA GiveUpFamily ==
  ASSUME IInv, IInv', MembersSound, back = {}, back' = {}, NEW o, NEW k, NEW s,
         Family(o, k, s), NEW n \in Nodes, NEW v \in removed[n], GiveUp(n, v)
  PROVE  Family(o, k, s)'
<1>1. /\ n \in up /\ gone' = gone \cup {<<n, v>>}
      /\ UNCHANGED <<epoch, idxkeys, files, idxvolumes, loop>>
  BY DEF GiveUp
<1>2. <<n, v>> \notin gone /\ Alive(ID(n))
  <2>1. \A p \in gone : p[2] \notin removed[p[1]]
    BY DEF MembersSound
  <2> QED BY <1>1, <2>1 DEF MembersSound
<1>3. CASE UNCHANGED replicas
  BY <1>1, <1>3, QuietFamily DEF volumes
<1>4. ASSUME Holds(n, s), <<v, s>> \in idxvolumes[n],
             DeleteVolumeID(Vids(n, s), v)[1] = ID(n),
             NEW e \in Replica, replicas' = [replicas EXCEPT ![n] = Append(@, e)],
             e.key = k, e.sig = s, e.vids = DeleteVolumeID(Vids(n, s), v)
      PROVE  Family(o, k, s)'
  <2>1. PICK R \in Seq(IDs) : R = Vids(n, s)
    BY <1>4, Types DEF Holds, Vids, IInv
  <2>2. Sound(R, k, s) /\ v # ID(n)
    BY <1>4, <2>1 DEF Family, Kept, Tables
  <2>3. PICK l : l = DeleteVolumeID(R, v)
    OBVIOUS
  <2>4. IsInjective(R) /\ Len(R) > 0
    BY <2>2, Distinctness DEF Sound
  <2>5. /\ l \in Seq(IDs) /\ IsInjective(l)
        /\ R[1] # v => Len(l) > 0 /\ l[1] = R[1]
        /\ R[1] # v /\ Len(R) > 1 /\ R[2] # v => Len(l) > 1 /\ l[2] = R[2]
        /\ R[1] = v /\ Len(R) > 1 => Len(l) > 0 /\ l[1] = R[2]
    BY <2>3, <2>4, DeleteVolumeIDFront
  <2>6. l[1] = ID(n) /\ e.vids = l /\ Len(l) \in Nat
    BY <1>4, <2>1, <2>3, <2>5
  <2>7. /\ R[1] # ID(n) => Len(R) > 1
        /\ R[1] = ID(n) => /\ v \in ElemsOf(R)
                           /\ ID(n) # o => ~(Len(R) > 1)
    <3>1. /\ First(n, s) # ID(n) => Long(n, s)
          /\ First(n, s) = ID(n) =>
               /\ \A p \in idxvolumes[n] : p[1] \in ElemsOf(Vids(n, s))
               /\ ID(n) # o => ~Long(n, s) /\ replicas[n] = <<>>
      BY <1>4 DEF Family, Rows
    <3> QED BY <1>4, <2>1, <3>1 DEF First, Long
  <2>8. Len(l) > 0
    BY <2>2, <2>5, <2>7
  <2>9. Sound(l, k, s)
    <3>1. ElemsOf(l) \subseteq ElemsOf(R)
      BY <2>3, DeleteVolumeIDElems
    <3>2. l # <<>>
      <4>1. SUFFICES ASSUME Len(l) = 0 PROVE FALSE
        OBVIOUS
      <4> QED BY <2>8, <4>1
    <3> QED BY <2>2, <2>5, <3>1, <3>2, Distinctness DEF Sound
  <2>10. Adds(n, o, k, s, l)
    BY <1>1, <1>4, <2>5, <2>6, <2>9, GiveUpAdds
  <2>11. CASE R[1] = v
    <3>1. Heir(n, s) /\ First(n, s) = v
      BY <1>4, <2>1, <2>2, <2>5, <2>6, <2>7, <2>11 DEF Heir, Long, First
    <3> QED BY <1>1, <1>2, <2>2, <2>6, <2>10, <3>1, HeirGivesUp DEF IInv
  <2>12. CASE R[1] # v
    <3>1. R[1] = ID(n) /\ v \in ElemsOf(R)
      BY <2>5, <2>6, <2>7, <2>12
    <3>2. Len(R) > 1
      <4>1. PICK i \in 1..Len(R) : R[i] = v
        BY <3>1 DEF ElemsOf
      <4>2. i # 1
        BY <2>12, <4>1
      <4> QED BY <4>1, <4>2
    <3>3. ID(n) = o
      BY <2>7, <3>1, <3>2
    <3>4. Vids(n, s)[2] # v => Len(l) > 1 /\ l[2] = Vids(n, s)[2]
      BY <2>1, <2>5, <2>12, <3>2
    <3> QED BY <1>1, <1>2, <1>4, <2>1, <2>6, <2>10, <3>2, <3>3, <3>4, OwnerGivesUp
  <2> QED BY <2>11, <2>12
<1> QED
  BY <1>3, <1>4, GivesUp

-----------------------------------------------------------------------------
(* A reset volume is new to every row, so it neither leads nor inherits.   *)
LEMMA StartResetFamily ==
  ASSUME IInv, IInv', NEW o, o[2] <= epoch[o[1]], NEW k, NEW s,
         Family(o, k, s), NEW n \in Nodes, StartReset(n)
  PROVE  Family(o, k, s)'
<1>1. /\ n \notin up /\ UNCHANGED <<gone, loop>>
      /\ epoch' = [epoch EXCEPT ![n] = @ + 1]
      /\ idxkeys' = [idxkeys EXCEPT ![n] = Empty] /\ files' = [files EXCEPT ![n] = Empty]
      /\ idxvolumes' = [idxvolumes EXCEPT ![n] = {}]
      /\ replicas' = [replicas EXCEPT ![n] = <<>>]
  BY DEF StartReset, members
<1>2. TypeOK /\ TypeOK' /\ Kept(k, s) /\ loop[n] = Idle
  BY <1>1 DEF IInv, Family
<1>3. /\ epoch[n] \in Nat /\ epoch'[n] = epoch[n] + 1
      /\ \A x \in Nodes \ {n} : epoch'[x] = epoch[x]
  BY <1>1, <1>2 DEF TypeOK
<1>4. /\ DOMAIN idxkeys'[n] = {} /\ DOMAIN files'[n] = {} /\ idxvolumes'[n] = {}
      /\ replicas'[n] = <<>>
      /\ \A x \in Nodes \ {n} :
           /\ idxkeys'[x] = idxkeys[x] /\ files'[x] = files[x]
           /\ idxvolumes'[x] = idxvolumes[x] /\ replicas'[x] = replicas[x]
  BY <1>1, <1>2 DEF TypeOK, Empty
<1>5. KeysStay(k)
  BY <1>3, <1>4 DEF KeysStay
<1>6. \A x \in Nodes \ {n} : SameRow(x, s) /\ SameEntries(x) /\ ID(x)' = ID(x)
  BY <1>1, <1>3, <1>4 DEF SameRow, SameEntries, Holds, Vids, ID
<1>7. \A x \in Nodes \ {n} : /\ (Long(x, s)' <=> Long(x, s)) /\ (Heir(x, s)' <=> Heir(x, s))
                             /\ (Holds(x, s)' <=> Holds(x, s))
                             /\ Holds(x, s) => /\ First(x, s)' = First(x, s)
                                               /\ Vids(x, s)' = Vids(x, s)
  BY <1>6 DEF SameRow, Long, Heir, First
<1>8. ~Holds(n, s)' /\ ~Long(n, s)' /\ ~Heir(n, s)'
  BY <1>4 DEF Holds, Long, Heir
<1>9. Kept(k, s)'
  <2>1. Tables(n, k, s)' /\ Queue(n, k, s)'
    BY <1>4, <1>8 DEF Tables, Queue
  <2>2. Running(n, k, s)'
    BY <1>1, <1>2 DEF Running, Idle
  <2>3. ASSUME NEW x \in Nodes \ {n} PROVE Tables(x, k, s)' /\ Queue(x, k, s)'
    BY <1>2, <1>3, <1>4, <1>5, <1>7, TablesStay, QueueStays DEF Kept
  <2>4. ASSUME NEW x \in Nodes \ {n} PROVE Running(x, k, s)'
    <3>1. Running(x, k, s) /\ (loop[x].at = "send" => loop[x].to \in Nodes)
      BY <1>2, Types DEF Kept
    <3>2. loop[x].at = "send" => k \notin DOMAIN idxkeys'[loop[x].to]
      BY <1>4, <3>1 DEF Running
    <3> QED BY <1>1, <1>2, <1>4, <1>5, <3>1, <3>2, RunningStays
  <2> QED BY <2>1, <2>2, <2>3, <2>4 DEF Kept
<1>10. ID(n)' # o
  <2>1. ID(n)'[1] = n /\ ID(n)'[2] = epoch[n] + 1
    BY <1>3 DEF ID
  <2> QED BY <1>3, <2>1
<1>11. \A x \in Nodes : Holds(x, s) => First(x, s) # ID(n)'
  <2>1. SUFFICES ASSUME NEW x \in Nodes, Holds(x, s) PROVE First(x, s) # ID(n)'
    OBVIOUS
  <2>2. Sound(Vids(x, s), k, s) /\ Vids(x, s) \in Seq(IDs)
    BY <1>2, <2>1, Types DEF Kept, Tables, Holds, Vids
  <2>3. First(x, s) \in ElemsOf(Vids(x, s))
    <3>1. 1 \in DOMAIN Vids(x, s)
      BY <2>2 DEF Sound
    <3> QED BY <3>1 DEF First, ElemsOf
  <2>4. Known(First(x, s))
    BY <2>2, <2>3 DEF Sound, Backed
  <2>5. ID(n)'[1] = n /\ ID(n)'[2] = epoch[n] + 1
    BY <1>3 DEF ID
  <2> QED BY <1>3, <2>4, <2>5 DEF Known
<1>12. \A y \in Leading(o, s)' : y \in Leading(o, s) /\ y # ID(n)'
  <2>1. SUFFICES ASSUME NEW y \in Leading(o, s)' PROVE y \in Leading(o, s) /\ y # ID(n)'
    OBVIOUS
  <2>2. \/ y = o
        \/ \E x \in Nodes : ID(x)' = y /\ replicas'[x] # <<>>
        \/ \E x \in Nodes : Long(x, s)' /\ First(x, s)' = y
    BY <2>1 DEF Leading
  <2>3. CASE \E x \in Nodes : ID(x)' = y /\ replicas'[x] # <<>>
    <3>1. PICK x \in Nodes \ {n} : ID(x) = y /\ replicas[x] # <<>>
      BY <1>4, <1>6, <2>3
    <3>2. y # ID(n)'
      BY <3>1 DEF ID
    <3> QED BY <3>1, <3>2, LeadingIs
  <2>4. CASE \E x \in Nodes : Long(x, s)' /\ First(x, s)' = y
    <3>1. PICK x \in Nodes \ {n} : Long(x, s) /\ First(x, s) = y
      BY <1>7, <1>8, <2>4 DEF Long
    <3> QED BY <1>11, <3>1, LeadingIs DEF Long
  <2> QED BY <1>10, <2>2, <2>3, <2>4, LeadingIs
<1>13. Rows(o, s)'
  <2>1. SUFFICES ASSUME NEW x \in Nodes, Holds(x, s)'
                 PROVE  (/\ First(x, s) # ID(x) => Long(x, s)
                         /\ First(x, s) = ID(x) =>
                              /\ \A p \in idxvolumes[x] : p[1] \in ElemsOf(Vids(x, s))
                              /\ ID(x) # o => ~Long(x, s) /\ replicas[x] = <<>>)'
    BY DEF Rows
  <2>2. x # n
    BY <1>8, <2>1
  <2>3. Holds(x, s) /\ Vids(x, s)' = Vids(x, s) /\ First(x, s)' = First(x, s)
    BY <1>7, <2>1, <2>2
  <2> QED BY <1>4, <1>6, <1>7, <2>2, <2>3 DEF Family, Rows
<1>14. Leaders(o, s)'
  <2>1. SUFFICES ASSUME NEW x \in Nodes, ID(x)' \in Leading(o, s)'
                 PROVE  (/\ Holds(x, s)
                         /\ ID(x) = o => First(x, s) = o
                         /\ ID(x) # o => /\ Heir(x, s) /\ <<x, First(x, s)>> \in gone
                                         /\ Len(replicas[x]) <= 1)'
    BY DEF Leaders
  <2>2. x # n /\ ID(x)' \in Leading(o, s)
    BY <1>12, <2>1
  <2>3. /\ Holds(x, s)
        /\ ID(x) = o => First(x, s) = o
        /\ ID(x) # o => /\ Heir(x, s) /\ <<x, First(x, s)>> \in gone
                        /\ Len(replicas[x]) <= 1
    BY <1>6, <2>2 DEF Family, Leaders
  <2> QED BY <1>1, <1>4, <1>6, <1>7, <2>2, <2>3
<1>15. \A x : Alive(x)' <=> Alive(x)
  BY <1>1 DEF Alive
<1>16. OneLeader(o, s)' /\ HeirsFollow(o, s)' /\ HeirsApart(s)'
  <2>1. \A x \in Nodes : Heir(x, s)' =>
          Heir(x, s) /\ ID(x)' = ID(x) /\ First(x, s)' = First(x, s)
    BY <1>6, <1>7, <1>8 DEF Heir, Long
  <2> QED BY <1>12, <1>15, <2>1, FewerLead DEF Family
<1>17. OneSecond(n, s)' /\ SecondsOf(n, o, s)'
  <2>1. DOMAIN replicas'[n] = {}
    BY <1>4
  <2>2. \A y \in Nodes : Heir(y, s)' => First(y, s)' # ID(n)'
    BY <1>7, <1>8, <1>11 DEF Heir, Long
  <2>3. Singles(n)' = {} /\ \A a : a \notin Seconds(n, s)'
    BY <2>1, <2>2 DEF Singles, Seconds
  <2> QED BY <1>10, <2>3 DEF OneSecond, SecondsOf
<1>18. ASSUME NEW x \in Nodes \ {n} PROVE OneSecond(x, s)' /\ SecondsOf(x, o, s)'
  <2>1. SameEntries(x) /\ replicas'[x] = replicas[x]
    BY <1>4, <1>6
  <2>2. (\A i : Entry(x, i)' = Entry(x, i)) /\ Singles(x)' = Singles(x)
    BY <2>1, EntryStays
  <2>3. Seconds(x, s)' \subseteq Seconds(x, s)
    <3>1. SUFFICES ASSUME NEW a \in Seconds(x, s)' PROVE a \in Seconds(x, s)
      OBVIOUS
    <3>2. \/ \E i \in DOMAIN replicas'[x] : Len(Entry(x, i)') > 1 /\ Entry(x, i)'[2] = a
          \/ \E y \in Nodes : Heir(y, s)' /\ First(y, s)' = ID(x)' /\ ID(y)' = a
      BY <3>1 DEF Seconds
    <3>3. CASE \E i \in DOMAIN replicas'[x] : Len(Entry(x, i)') > 1 /\ Entry(x, i)'[2] = a
      BY <2>1, <2>2, <3>3, SecondsAre
    <3>4. CASE \E y \in Nodes : Heir(y, s)' /\ First(y, s)' = ID(x)' /\ ID(y)' = a
      BY <1>6, <1>7, <1>8, <3>4, SecondsAre DEF Heir, Long
    <3> QED BY <3>2, <3>3, <3>4
  <2>4. OneSecond(x, s)'
    BY <1>15, <2>2, <2>3, FewerSeconds DEF Family
  <2>5. SecondsOf(x, o, s)'
    <3>1. CASE ID(x) = o
      <4>1. Holds(x, s) /\ SecondsOf(x, o, s)
        BY <3>1, LeadingIs DEF Family, Leaders
      <4>2. Vids(x, s)' = Vids(x, s)
        BY <1>7, <4>1
      <4> QED BY <1>1, <2>1, <2>2, <2>3, <3>1, <4>1, <4>2 DEF SecondsOf, SameEntries
    <3>2. CASE ID(x) # o
      BY <1>6, <3>2 DEF SecondsOf
    <3> QED BY <3>1, <3>2
  <2> QED BY <2>4, <2>5
<1> QED BY <1>9, <1>13, <1>14, <1>16, <1>17, <1>18 DEF Family

-----------------------------------------------------------------------------
(* The put: its volume leads, alone, with a row and a queue of its own.    *)
LEMMA ClientPutFamily ==
  ASSUME IInv, IInv', Nothing, NEW n \in Nodes, NEW k, NEW s, ClientPut(n, k, s),
         NEW o, o = ID(n)
  PROVE  Family(o, k, s)'
<1>1. TypeOK /\ TypeOK' /\ UNCHANGED <<epoch, loop, idxvolumes>>
  BY DEF ClientPut, CreateFile, IInv
<1>2. \A x \in Nodes : /\ DOMAIN idxkeys[x] = {} /\ DOMAIN files[x] = {}
                       /\ idxvolumes[x] = {} /\ replicas[x] = <<>> /\ loop[x] = Idle
  BY DEF Nothing
<1>3. PICK row, rp :
        /\ row = [vids |-> <<o>>, replica |-> Factor]
        /\ rp = [key |-> k, sig |-> s, count |-> Factor - 1, original |-> Factor,
                 vids |-> <<o>>]
        /\ files' = [files EXCEPT ![n] = Put(Unlink(idxkeys[n], @, k), s, row)]
        /\ idxkeys' = [idxkeys EXCEPT ![n] = Put(@, k, s)]
        /\ replicas' = [replicas EXCEPT ![n] = IF Factor > 1 THEN Append(@, rp) ELSE @]
  BY <1>2 DEF ClientPut, CreateFile
<1>4. /\ DOMAIN idxkeys'[n] = {k} /\ idxkeys'[n][k] = s
      /\ DOMAIN files'[n] = {s} /\ files'[n][s].vids = <<o>>
  <2>1. Unlink(idxkeys[n], files[n], k) = files[n]
    BY <1>2 DEF Unlink
  <2>2. files'[n] = Put(files[n], s, row) /\ idxkeys'[n] = Put(idxkeys[n], k, s)
    BY <1>1, <1>3, <2>1 DEF TypeOK
  <2>3. DOMAIN idxkeys'[n] = {k} /\ idxkeys'[n][k] = s
    BY <1>2, <2>2 DEF Put
  <2>4. DOMAIN files'[n] = {s} /\ files'[n][s] = row
    BY <1>2, <2>2 DEF Put
  <2>5. row.vids = <<o>>
    BY <1>3
  <2> QED BY <2>3, <2>4, <2>5
<1>5. \A x \in Nodes \ {n} : /\ DOMAIN idxkeys'[x] = {} /\ DOMAIN files'[x] = {}
                             /\ replicas'[x] = <<>>
  BY <1>1, <1>2, <1>3 DEF TypeOK
<1>6. \A x \in Nodes : idxvolumes'[x] = {} /\ loop'[x] = Idle /\ ID(x)' = ID(x)
  BY <1>1, <1>2 DEF ID
<1>7. replicas'[n] = <<>> \/ replicas'[n] = <<rp>>
  <2>1. Append(<<>>, rp) = <<rp>>
    OBVIOUS
  <2>2. \/ replicas'[n] = replicas[n]
        \/ replicas'[n] = Append(replicas[n], rp)
    BY <1>1, <1>3 DEF TypeOK
  <2> QED BY <1>2, <2>1, <2>2
<1>8. \A i \in DOMAIN replicas'[n] :
        /\ i = 1 /\ replicas'[n][i].key = k /\ replicas'[n][i].sig = s
        /\ replicas'[n][i].vids = <<o>>
  BY <1>3, <1>7
<1>9. Len(replicas'[n]) <= 1
  <2>1. Len(<<>>) <= 1 /\ Len(<<rp>>) <= 1
    OBVIOUS
  <2> QED BY <1>7, <2>1
<1>10. Holds(n, s)' /\ Vids(n, s)' = <<o>> /\ First(n, s)' = o /\ ~Long(n, s)'
  BY <1>4 DEF Holds, Vids, First, Long
<1>11. \A x \in Nodes \ {n} : ~Holds(x, s)'
  BY <1>5 DEF Holds
<1>12. \A x \in Nodes : ~Long(x, s)' /\ ~Heir(x, s)'
  BY <1>10, <1>11 DEF Long, Heir
<1>13. Sound(<<o>>, k, s)'
  <2>1. PICK e \in Nat : e = epoch[n] /\ e = epoch'[n]
    BY <1>1, Types
  <2>2. o = <<n, e>> /\ ID(n)' = <<n, e>>
    BY <2>1 DEF ID
  <2>3. Backed(o, k, s)'
    BY <1>4, <2>1, <2>2 DEF Backed, Known, ID
  <2> QED BY <2>3 DEF Sound, Distinct, ElemsOf
<1>14. Kept(k, s)'
  <2>1. \A x \in Nodes : Running(x, k, s)'
    BY <1>6 DEF Running, Idle
  <2>2. \A x \in Nodes \ {n} : Tables(x, k, s)' /\ Queue(x, k, s)'
    BY <1>5, <1>6, <1>11 DEF Tables, Queue
  <2>3. Tables(n, k, s)'
    BY <1>4, <1>6, <1>10, <1>13 DEF Tables
  <2>4. Queue(n, k, s)'
    <3>1. <<o>>[1] = ID(n)'
      BY <1>6
    <3>2. \A i \in DOMAIN replicas'[n] : Sound(replicas[n][i].vids, k, s)'
      BY <1>8, <1>13
    <3> QED BY <1>8, <1>10, <3>1, <3>2 DEF Queue
  <2> QED BY <2>1, <2>2, <2>3, <2>4 DEF Kept
<1>15. \A y \in Leading(o, s)' : y = o
  BY <1>5, <1>6, <1>12 DEF Leading
<1>16. Rows(o, s)'
  BY <1>6, <1>10, <1>11 DEF Rows
<1>17. Leaders(o, s)'
  <2>1. \A x \in Nodes : ID(x)' = o => x = n
    BY <1>6, SameID
  <2> QED BY <1>10, <1>15, <2>1 DEF Leaders
<1>18. OneLeader(o, s)' /\ HeirsFollow(o, s)' /\ HeirsApart(s)'
  BY <1>12, <1>15 DEF OneLeader, HeirsFollow, HeirsApart
<1>19. ASSUME NEW x \in Nodes PROVE OneSecond(x, s)' /\ SecondsOf(x, o, s)'
  <2>1. \A i \in DOMAIN replicas'[x] : i = 1 /\ Len(Entry(x, i)') = 1
    <3>1. CASE x # n
      BY <1>5, <3>1
    <3>2. CASE x = n
      <4>1. \A i : Entry(n, i)' = replicas'[n][i].vids
        BY <1>6 DEF Entry, Idle
      <4>2. Len(<<o>>) = 1
        OBVIOUS
      <4> QED BY <1>8, <3>2, <4>1, <4>2
    <3> QED BY <3>1, <3>2
  <2>2. \A a : a \notin Seconds(x, s)'
    <3>1. \A i \in DOMAIN replicas'[x] : ~(Len(Entry(x, i)') > 1)
      <4>1. ~(1 > 1)
        OBVIOUS
      <4> QED BY <2>1, <4>1
    <3> QED BY <1>12, <3>1 DEF Seconds
  <2>3. \A i \in Singles(x)' : i = 1
    BY <2>1 DEF Singles
  <2>4. ID(x)' = o => Len(replicas'[x]) <= 1 /\ Vids(x, s)' = <<o>>
    BY <1>6, <1>9, <1>10, SameID
  <2>5. OneSecond(x, s)'
    BY <2>2, <2>3 DEF OneSecond
  <2>6. SecondsOf(x, o, s)'
    <3>1. Len(<<o>>) = 1
      OBVIOUS
    <3> QED BY <2>2, <2>4, <3>1 DEF SecondsOf
  <2> QED BY <2>5, <2>6
<1> QED BY <1>14, <1>16, <1>17, <1>18, <1>19 DEF Family

-----------------------------------------------------------------------------
(* Until the put there is nothing to copy. *)
LEMMA NothingStays ==
  ASSUME IInv, Nothing, [Next]_vars, spent.puts = 0, spent'.puts = 0
  PROVE  Nothing'
<1>1. \A x \in Nodes : /\ DOMAIN idxkeys[x] = {} /\ DOMAIN files[x] = {}
                       /\ idxvolumes[x] = {} /\ replicas[x] = <<>> /\ loop[x] = Idle
  BY DEF Nothing
<1>2. CASE UNCHANGED <<volumes, loop>>
  BY <1>2 DEF Nothing, volumes
<1>3. CASE \E p \in Puts : ClientPut(p[1], p[2], p[3])
  BY <1>3 DEF ClientPut, Spend, IInv, TypeOK
<1>4. ASSUME NEW n \in Nodes, NEW k \in Keys, ClientDelete(n, k) PROVE Nothing'
  BY <1>1, <1>4 DEF ClientDelete
<1>5. ASSUME NEW n \in Nodes, LoopStep(n) PROVE Nothing'
  <2>1. loop[n].at = "idle" /\ replicas[n] = <<>>
    BY <1>1 DEF Idle
  <2> QED
    BY <1>5, <2>1 DEF LoopStep, NextReplica, AskWants, AskSkips, Send, SendUnanswered,
                      SendFails, Tell, UpdateReplica, UpdateReplicaFails, At
<1>6. ASSUME NEW n \in Nodes, NEW m \in Nodes, NotifyJoin(n, m) \/ NotifyLeave(n, m)
      PROVE  Nothing'
  BY <1>2, <1>6 DEF NotifyJoin, NotifyLeave
<1>7. ASSUME NEW n \in Nodes, NEW v, GiveUp(n, v) PROVE Nothing'
  <2>1. Inherited(n, v) = {}
    BY <1>1 DEF Inherited
  <2>2. UNCHANGED replicas
    BY <1>7, <2>1, NothingInherited DEF IInv
  <2> QED BY <1>2, <1>7, <2>2 DEF GiveUp, volumes
<1>8. ASSUME NEW n \in Nodes, Crash(n) PROVE Nothing'
  <2>1. loop[n].at # "send"
    BY <1>1 DEF Idle
  <2>2. UNCHANGED volumes /\ loop' = [loop EXCEPT ![n] = Idle]
    BY <1>8, <2>1 DEF Crash
  <2>3. \A x \in Nodes : loop'[x] = Idle
    BY <1>1, <2>2 DEF IInv, TypeOK
  <2> QED BY <2>2, <2>3 DEF Nothing, volumes
<1>9. ASSUME NEW n \in Nodes, Start(n) PROVE Nothing'
  BY <1>2, <1>9 DEF Start
<1>10. ASSUME NEW n \in Nodes, StartReset(n) PROVE Nothing'
  <2>1. /\ idxkeys' = [idxkeys EXCEPT ![n] = Empty] /\ files' = [files EXCEPT ![n] = Empty]
        /\ idxvolumes' = [idxvolumes EXCEPT ![n] = {}]
        /\ replicas' = [replicas EXCEPT ![n] = <<>>] /\ UNCHANGED loop
    BY <1>10 DEF StartReset
  <2>2. DOMAIN Empty = {}
    BY DEF Empty
  <2>3. \A x \in Nodes : /\ DOMAIN idxkeys'[x] = {} /\ DOMAIN files'[x] = {}
                         /\ idxvolumes'[x] = {} /\ replicas'[x] = <<>>
    BY <1>1, <2>1, <2>2 DEF IInv, TypeOK
  <2> QED BY <2>1, <2>3 DEF Nothing
<1> QED
  BY <1>2, <1>3, <1>4, <1>5, <1>6, <1>7, <1>8, <1>9, <1>10 DEF Next, vars

-----------------------------------------------------------------------------
(* What the nodes know of each other. *)
LEMMA KnownStays ==
  ASSUME TypeOK, TypeOK', \A x \in Nodes : epoch[x] <= epoch'[x], NEW v \in IDs, Known(v)
  PROVE  Known(v)'
<1>1. PICK n \in Nodes, e \in Nat : v[1] = n /\ v[2] = e
  BY IDParts
<1>2. epoch[n] \in Nat /\ epoch'[n] \in Nat /\ epoch[n] <= epoch'[n] /\ e <= epoch[n]
  BY <1>1 DEF TypeOK, Known
<1> QED BY <1>1, <1>2 DEF Known

LEMMA MembersFollow ==
  ASSUME TypeOK, TypeOK', \A x \in Nodes : epoch[x] <= epoch'[x],
         \A q \in Nodes : \A x \in DOMAIN nodes'[q] :
           x # q /\ nodes'[q][x][1] = x /\ Known(nodes'[q][x]),
         \A q \in Nodes : \A v \in removed'[q] :
           Known(v) /\ \A x \in DOMAIN nodes'[q] : nodes'[q][x] # v,
         \A p \in gone' : Known(p[2]),
         \A q \in up' : ID(q)' \in back' \/ \A p \in gone' : p[2] # ID(q)',
         back' = {} => \A p \in gone' :
           p[2] \notin removed'[p[1]] /\ \A x \in DOMAIN nodes'[p[1]] : nodes'[p[1]][x] # p[2]
  PROVE  MembersSound'
<1>1. \A v \in IDs : Known(v) => v[2] <= epoch'[v[1]]
  BY KnownStays DEF Known
<1>2. (\A n \in Nodes : \A m \in DOMAIN nodes[n] :
         m # n /\ nodes[n][m][1] = m /\ Known(nodes[n][m]))'
  <2>1. \A q \in Nodes : \A x \in DOMAIN nodes'[q] : nodes'[q][x] \in IDs
    BY DEF TypeOK, IsTable
  <2> QED BY <1>1, <2>1 DEF Known
<1>3. (\A n \in Nodes : \A v \in removed[n] :
         Known(v) /\ \A m \in DOMAIN nodes[n] : nodes[n][m] # v)'
  <2>1. \A q \in Nodes : \A v \in removed'[q] : v \in IDs
    BY DEF TypeOK
  <2> QED BY <1>1, <2>1 DEF Known
<1>4. (\A p \in gone : Known(p[2]))'
  <2>1. \A p \in gone' : p[2] \in IDs
    BY DEF TypeOK
  <2> QED BY <1>1, <2>1 DEF Known
<1>5. (\A n \in up : ID(n) \in back \/ Alive(ID(n)))'
  BY DEF Alive
<1> QED BY <1>2, <1>3, <1>4, <1>5 DEF MembersSound

LEMMA NotifyJoinMembers ==
  ASSUME TypeOK, TypeOK', MembersSound, NEW n \in Nodes, NEW m \in Nodes, NotifyJoin(n, m)
  PROVE  MembersSound'
<1>1. /\ m \in up /\ m # n /\ nodes' = [nodes EXCEPT ![n] = Put(@, m, ID(m))]
      /\ removed' = [removed EXCEPT ![n] = @ \ {ID(m)}]
      /\ UNCHANGED <<up, epoch, gone, back>>
  BY DEF NotifyJoin
<1>2. /\ DOMAIN nodes'[n] = DOMAIN nodes[n] \cup {m} /\ nodes'[n][m] = ID(m)
      /\ \A x \in DOMAIN nodes[n] \ {m} : nodes'[n][x] = nodes[n][x]
      /\ removed'[n] = removed[n] \ {ID(m)}
      /\ \A q \in Nodes \ {n} : nodes'[q] = nodes[q] /\ removed'[q] = removed[q]
  BY <1>1 DEF TypeOK, Put
<1>3. /\ \A x \in Nodes : epoch[x] <= epoch'[x]
      /\ \A p \in gone' : Known(p[2])
      /\ \A q \in up' : ID(q)' \in back' \/ \A p \in gone' : p[2] # ID(q)'
  <2>1. \A x \in Nodes : epoch[x] \in Nat /\ ID(x)' = ID(x)
    BY <1>1 DEF TypeOK, ID
  <2>2. \A x \in Nodes : epoch[x] <= epoch'[x]
    BY <1>1, <2>1
  <2>3. \A p \in gone' : Known(p[2])
    BY <1>1 DEF MembersSound
  <2>4. up' = up /\ up \subseteq Nodes /\ back' = back /\ gone' = gone
    BY <1>1 DEF TypeOK
  <2>5. \A q \in up : ID(q) \in back \/ \A p \in gone : p[2] # ID(q)
    BY DEF MembersSound, Alive
  <2> QED BY <2>1, <2>2, <2>3, <2>4, <2>5
<1>4. Known(ID(m)) /\ ID(m)[1] = m
  <2>1. epoch[m] \in Nat /\ ID(m)[1] = m /\ ID(m)[2] = epoch[m]
    BY Types
  <2> QED BY <2>1 DEF Known
<1>5. \A q \in Nodes : \A x \in DOMAIN nodes'[q] :
        x # q /\ nodes'[q][x][1] = x /\ Known(nodes'[q][x])
  <2>1. SUFFICES ASSUME NEW q \in Nodes, NEW x \in DOMAIN nodes'[q]
                 PROVE  x # q /\ nodes'[q][x][1] = x /\ Known(nodes'[q][x])
    OBVIOUS
  <2>2. CASE q = n /\ x = m
    BY <1>1, <1>2, <1>4, <2>2
  <2>3. CASE ~(q = n /\ x = m)
    <3>1. x \in DOMAIN nodes[q] /\ nodes'[q][x] = nodes[q][x]
      BY <1>2, <2>3
    <3> QED BY <3>1 DEF MembersSound
  <2> QED BY <2>2, <2>3
<1>6. \A q \in Nodes : \A v \in removed'[q] :
        Known(v) /\ \A x \in DOMAIN nodes'[q] : nodes'[q][x] # v
  BY <1>2 DEF MembersSound
<1>7. back = {} => \A p \in gone :
        p[2] \notin removed'[p[1]] /\ \A x \in DOMAIN nodes'[p[1]] : nodes'[p[1]][x] # p[2]
  <2>1. SUFFICES ASSUME back = {}, NEW p \in gone
                 PROVE  /\ p[2] \notin removed'[p[1]]
                        /\ \A x \in DOMAIN nodes'[p[1]] : nodes'[p[1]][x] # p[2]
    OBVIOUS
  <2>2. p[1] \in Nodes
    BY DEF TypeOK
  <2>3. ID(m) # p[2]
    BY <1>1, <2>1 DEF MembersSound, Alive
  <2> QED BY <1>2, <2>1, <2>2, <2>3 DEF MembersSound
<1> QED BY <1>1, <1>3, <1>5, <1>6, <1>7, MembersFollow

LEMMA NotifyLeaveMembers ==
  ASSUME TypeOK, TypeOK', MembersSound, NEW n \in Nodes, NEW m \in Nodes, NotifyLeave(n, m)
  PROVE  MembersSound'
<1>1. /\ m \in DOMAIN nodes[n] /\ nodes' = [nodes EXCEPT ![n] = Drop(@, m)]
      /\ removed' = [removed EXCEPT ![n] = @ \cup {nodes[n][m]}]
      /\ UNCHANGED <<up, epoch, gone, back>>
  BY DEF NotifyLeave
<1>2. /\ DOMAIN nodes'[n] = DOMAIN nodes[n] \ {m}
      /\ \A x \in DOMAIN nodes'[n] : nodes'[n][x] = nodes[n][x]
      /\ removed'[n] = removed[n] \cup {nodes[n][m]}
      /\ \A q \in Nodes \ {n} : nodes'[q] = nodes[q] /\ removed'[q] = removed[q]
  BY <1>1 DEF TypeOK, Drop
<1>3. /\ \A x \in Nodes : epoch[x] <= epoch'[x]
      /\ \A p \in gone' : Known(p[2])
      /\ \A q \in up' : ID(q)' \in back' \/ \A p \in gone' : p[2] # ID(q)'
  <2>1. \A x \in Nodes : epoch[x] \in Nat /\ ID(x)' = ID(x)
    BY <1>1 DEF TypeOK, ID
  <2>2. \A x \in Nodes : epoch[x] <= epoch'[x]
    BY <1>1, <2>1
  <2>3. \A p \in gone' : Known(p[2])
    BY <1>1 DEF MembersSound
  <2>4. up' = up /\ up \subseteq Nodes /\ back' = back /\ gone' = gone
    BY <1>1 DEF TypeOK
  <2>5. \A q \in up : ID(q) \in back \/ \A p \in gone : p[2] # ID(q)
    BY DEF MembersSound, Alive
  <2> QED BY <2>1, <2>2, <2>3, <2>4, <2>5
<1>4. \A q \in Nodes : \A x \in DOMAIN nodes'[q] :
        x # q /\ nodes'[q][x][1] = x /\ Known(nodes'[q][x])
  BY <1>2 DEF MembersSound
<1>5. \A q \in Nodes : \A v \in removed'[q] :
        Known(v) /\ \A x \in DOMAIN nodes'[q] : nodes'[q][x] # v
  <2>1. SUFFICES ASSUME NEW q \in Nodes, NEW v \in removed'[q]
                 PROVE  Known(v) /\ \A x \in DOMAIN nodes'[q] : nodes'[q][x] # v
    OBVIOUS
  <2>2. CASE q = n /\ v = nodes[n][m]
    BY <1>1, <1>2, <2>2 DEF MembersSound
  <2>3. CASE v \in removed[q]
    BY <1>2, <2>3 DEF MembersSound
  <2> QED BY <1>2, <2>2, <2>3
<1>6. back = {} => \A p \in gone :
        p[2] \notin removed'[p[1]] /\ \A x \in DOMAIN nodes'[p[1]] : nodes'[p[1]][x] # p[2]
  <2>1. SUFFICES ASSUME back = {}, NEW p \in gone
                 PROVE  /\ p[2] \notin removed'[p[1]]
                        /\ \A x \in DOMAIN nodes'[p[1]] : nodes'[p[1]][x] # p[2]
    OBVIOUS
  <2>2. p[1] \in Nodes
    BY DEF TypeOK
  <2>3. p[2] \notin removed[p[1]] /\ \A x \in DOMAIN nodes[p[1]] : nodes[p[1]][x] # p[2]
    BY <2>1 DEF MembersSound
  <2>4. CASE p[1] = n
    BY <1>1, <1>2, <2>3, <2>4
  <2>5. CASE p[1] # n
    BY <1>2, <2>2, <2>3, <2>5
  <2> QED BY <2>4, <2>5
<1> QED BY <1>1, <1>3, <1>4, <1>5, <1>6, MembersFollow

LEMMA GiveUpMembers ==
  ASSUME TypeOK, TypeOK', MembersSound, NEW n \in Nodes, NEW v \in removed[n], GiveUp(n, v)
  PROVE  MembersSound'
<1>1. /\ removed' = [removed EXCEPT ![n] = @ \ {v}] /\ gone' = gone \cup {<<n, v>>}
      /\ back' = back \cup ({v} \cap {ID(m) : m \in up})
      /\ UNCHANGED <<up, epoch, nodes>>
  BY DEF GiveUp
<1>2. /\ removed'[n] = removed[n] \ {v}
      /\ \A q \in Nodes \ {n} : removed'[q] = removed[q]
  BY <1>1 DEF TypeOK
<1>3. \A x \in Nodes : epoch[x] <= epoch'[x] /\ ID(x)' = ID(x)
  <2>1. \A x \in Nodes : epoch[x] \in Nat /\ ID(x)' = ID(x)
    BY <1>1 DEF TypeOK, ID
  <2> QED BY <1>1, <2>1
<1>4. \A q \in Nodes : \A x \in DOMAIN nodes'[q] :
        x # q /\ nodes'[q][x][1] = x /\ Known(nodes'[q][x])
  BY <1>1 DEF MembersSound
<1>5. \A q \in Nodes : \A w \in removed'[q] :
        Known(w) /\ \A x \in DOMAIN nodes'[q] : nodes'[q][x] # w
  BY <1>1, <1>2 DEF MembersSound
<1>6. \A p \in gone' : Known(p[2])
  BY <1>1 DEF MembersSound
<1>7. \A q \in up' : ID(q)' \in back' \/ \A p \in gone' : p[2] # ID(q)'
  <2>1. up' = up /\ up \subseteq Nodes
    BY <1>1 DEF TypeOK
  <2>2. \A q \in up : ID(q) \in back \/ \A p \in gone : p[2] # ID(q)
    BY DEF MembersSound, Alive
  <2>3. \A q \in up : v = ID(q) => ID(q) \in back'
    BY <1>1
  <2> QED BY <1>1, <1>3, <2>1, <2>2, <2>3
<1>8. back' = {} => \A p \in gone' :
        p[2] \notin removed'[p[1]] /\ \A x \in DOMAIN nodes'[p[1]] : nodes'[p[1]][x] # p[2]
  <2>1. SUFFICES ASSUME back' = {}, NEW p \in gone'
                 PROVE  /\ p[2] \notin removed'[p[1]]
                        /\ \A x \in DOMAIN nodes'[p[1]] : nodes'[p[1]][x] # p[2]
    OBVIOUS
  <2>2. back = {} /\ p[1] \in Nodes
    BY <1>1, <2>1 DEF TypeOK
  <2>3. CASE p \in gone
    BY <1>1, <1>2, <2>2, <2>3 DEF MembersSound
  <2>4. CASE p = <<n, v>>
    BY <1>1, <1>2, <2>4 DEF MembersSound
  <2> QED BY <1>1, <2>3, <2>4
<1> QED BY <1>3, <1>4, <1>5, <1>6, <1>7, <1>8, MembersFollow

LEMMA CrashMembers ==
  ASSUME TypeOK, TypeOK', MembersSound, NEW n \in Nodes, Crash(n)
  PROVE  MembersSound'
<1>1. /\ nodes' = [nodes EXCEPT ![n] = Empty] /\ removed' = [removed EXCEPT ![n] = {}]
      /\ up' = up \ {n} /\ UNCHANGED <<epoch, gone, back>>
  BY DEF Crash
<1>2. /\ DOMAIN nodes'[n] = {} /\ removed'[n] = {}
      /\ \A q \in Nodes \ {n} : nodes'[q] = nodes[q] /\ removed'[q] = removed[q]
  BY <1>1 DEF TypeOK, Empty
<1>3. \A x \in Nodes : epoch[x] <= epoch'[x] /\ ID(x)' = ID(x)
  <2>1. \A x \in Nodes : epoch[x] \in Nat /\ ID(x)' = ID(x)
    BY <1>1 DEF TypeOK, ID
  <2> QED BY <1>1, <2>1
<1>4. \A q \in Nodes : \A x \in DOMAIN nodes'[q] :
        x # q /\ nodes'[q][x][1] = x /\ Known(nodes'[q][x])
  BY <1>2 DEF MembersSound
<1>5. \A q \in Nodes : \A v \in removed'[q] :
        Known(v) /\ \A x \in DOMAIN nodes'[q] : nodes'[q][x] # v
  BY <1>2 DEF MembersSound
<1>6. \A p \in gone' : Known(p[2])
  BY <1>1 DEF MembersSound
<1>7. \A q \in up' : ID(q)' \in back' \/ \A p \in gone' : p[2] # ID(q)'
  <2>1. \A q \in up : q \in Nodes /\ (ID(q) \in back \/ \A p \in gone : p[2] # ID(q))
    BY DEF MembersSound, Alive, TypeOK
  <2> QED BY <1>1, <1>3, <2>1
<1>8. back' = {} => \A p \in gone' :
        p[2] \notin removed'[p[1]] /\ \A x \in DOMAIN nodes'[p[1]] : nodes'[p[1]][x] # p[2]
  <2>1. SUFFICES ASSUME back = {}, NEW p \in gone
                 PROVE  /\ p[2] \notin removed'[p[1]]
                        /\ \A x \in DOMAIN nodes'[p[1]] : nodes'[p[1]][x] # p[2]
    BY <1>1
  <2>2. p[1] \in Nodes
    BY <2>1 DEF TypeOK
  <2> QED BY <1>2, <2>1, <2>2 DEF MembersSound
<1> QED BY <1>3, <1>4, <1>5, <1>6, <1>7, <1>8, MembersFollow

LEMMA StartMembers ==
  ASSUME TypeOK, TypeOK', MembersSound, NEW n \in Nodes, Start(n)
  PROVE  MembersSound'
<1>1. /\ up' = up \cup {n} /\ back' = back \cup ({ID(n)} \cap {p[2] : p \in gone})
      /\ UNCHANGED <<epoch, gone, nodes, removed>>
  BY DEF Start
<1>2. \A x \in Nodes : epoch[x] <= epoch'[x] /\ ID(x)' = ID(x)
  <2>1. \A x \in Nodes : epoch[x] \in Nat /\ ID(x)' = ID(x)
    BY <1>1 DEF TypeOK, ID
  <2> QED BY <1>1, <2>1
<1>3. \A q \in up' : ID(q)' \in back' \/ \A p \in gone' : p[2] # ID(q)'
  <2>1. \A q \in up : q \in Nodes /\ (ID(q) \in back \/ \A p \in gone : p[2] # ID(q))
    BY DEF MembersSound, Alive, TypeOK
  <2>2. ID(n) \in back' \/ \A p \in gone : p[2] # ID(n)
    BY <1>1
  <2> QED BY <1>1, <1>2, <2>1, <2>2
<1>4. \A q \in Nodes : \A x \in DOMAIN nodes'[q] :
        x # q /\ nodes'[q][x][1] = x /\ Known(nodes'[q][x])
  BY <1>1 DEF MembersSound
<1>5. \A q \in Nodes : \A v \in removed'[q] :
        Known(v) /\ \A x \in DOMAIN nodes'[q] : nodes'[q][x] # v
  BY <1>1 DEF MembersSound
<1>6. \A p \in gone' : Known(p[2])
  BY <1>1 DEF MembersSound
<1>7. back' = {} => \A p \in gone' :
        p[2] \notin removed'[p[1]] /\ \A x \in DOMAIN nodes'[p[1]] : nodes'[p[1]][x] # p[2]
  BY <1>1 DEF MembersSound
<1> QED BY <1>2, <1>3, <1>4, <1>5, <1>6, <1>7, MembersFollow

LEMMA StartResetMembers ==
  ASSUME TypeOK, TypeOK', MembersSound, NEW n \in Nodes, StartReset(n)
  PROVE  MembersSound'
<1>1. /\ up' = up \cup {n} /\ epoch' = [epoch EXCEPT ![n] = @ + 1]
      /\ UNCHANGED <<gone, back, nodes, removed>>
  BY DEF StartReset, members
<1>2. /\ epoch[n] \in Nat /\ epoch'[n] = epoch[n] + 1
      /\ \A x \in Nodes \ {n} : epoch[x] \in Nat /\ epoch'[x] = epoch[x] /\ ID(x)' = ID(x)
  BY <1>1 DEF TypeOK, ID
<1>3. \A x \in Nodes : epoch[x] <= epoch'[x]
  <2>1. SUFFICES ASSUME NEW x \in Nodes PROVE epoch[x] <= epoch'[x]
    OBVIOUS
  <2>2. CASE x = n
    BY <1>2, <2>2
  <2>3. CASE x # n
    BY <1>2, <2>3
  <2> QED BY <2>2, <2>3
<1>4. \A p \in gone' : p[2] # ID(n)' /\ Known(p[2])
  <2>1. SUFFICES ASSUME NEW p \in gone PROVE p[2] # ID(n)' /\ Known(p[2])
    BY <1>1
  <2>2. Known(p[2])
    BY DEF MembersSound
  <2>3. ID(n)'[1] = n /\ ID(n)'[2] = epoch[n] + 1
    BY <1>2 DEF ID
  <2> QED BY <1>2, <2>2, <2>3 DEF Known
<1>5. \A q \in up' : ID(q)' \in back' \/ \A p \in gone' : p[2] # ID(q)'
  <2>1. \A q \in up : q \in Nodes /\ (ID(q) \in back \/ \A p \in gone : p[2] # ID(q))
    BY DEF MembersSound, Alive, TypeOK
  <2> QED BY <1>1, <1>2, <1>4, <2>1
<1>6. \A q \in Nodes : \A x \in DOMAIN nodes'[q] :
        x # q /\ nodes'[q][x][1] = x /\ Known(nodes'[q][x])
  BY <1>1 DEF MembersSound
<1>7. \A q \in Nodes : \A v \in removed'[q] :
        Known(v) /\ \A x \in DOMAIN nodes'[q] : nodes'[q][x] # v
  BY <1>1 DEF MembersSound
<1>8. back' = {} => \A p \in gone' :
        p[2] \notin removed'[p[1]] /\ \A x \in DOMAIN nodes'[p[1]] : nodes'[p[1]][x] # p[2]
  BY <1>1 DEF MembersSound
<1> QED BY <1>3, <1>4, <1>5, <1>6, <1>7, <1>8, MembersFollow

(* The steps of the clients and of the loops leave them alone. *)
LEMMA MembersStay ==
  ASSUME TypeOK, TypeOK', MembersSound, [Next]_vars
  PROVE  MembersSound'
<1>1. ASSUME UNCHANGED <<up, epoch, members>> PROVE MembersSound'
  <2>1. UNCHANGED <<up, epoch, nodes, removed, gone, back>>
    BY <1>1 DEF members
  <2> QED BY <2>1 DEF MembersSound, Alive, Known, ID
<1>2. ASSUME NEW n \in Nodes, LoopStep(n) PROVE MembersSound'
  BY <1>1, <1>2 DEF LoopStep, NextReplica, AskWants, AskSkips, Send, SendUnanswered,
                    SendFails, Tell, UpdateReplica, UpdateReplicaFails
<1>3. CASE \/ \E p \in Puts : ClientPut(p[1], p[2], p[3])
           \/ \E n \in Nodes, k \in Keys : ClientDelete(n, k)
  BY <1>1, <1>3 DEF ClientPut, ClientDelete
<1>4. CASE UNCHANGED vars
  BY <1>1, <1>4 DEF vars
<1> QED
  BY <1>2, <1>3, <1>4, NotifyJoinMembers, NotifyLeaveMembers, GiveUpMembers, CrashMembers,
     StartMembers, StartResetMembers DEF Next

-----------------------------------------------------------------------------
(* Every step. *)

LEMMA Spending ==
  ASSUME TypeOK, [Next]_vars
  PROVE  /\ {spent.puts, spent.deletes, spent'.puts, spent'.deletes} \subseteq Nat
         /\ back \subseteq back' /\ torn \subseteq torn'
         /\ \A x \in Nodes : epoch[x] \in Nat /\ epoch'[x] \in Nat /\ epoch[x] <= epoch'[x]
         /\ \/ /\ \E p \in Puts : ClientPut(p[1], p[2], p[3])
               /\ spent'.puts = spent.puts + 1 /\ spent'.deletes = spent.deletes
            \/ /\ \E n \in Nodes, k \in Keys : ClientDelete(n, k)
               /\ spent'.puts = spent.puts /\ spent'.deletes = spent.deletes + 1
            \/ spent'.puts = spent.puts /\ spent'.deletes = spent.deletes
<1>1. /\ spent \in [puts : Nat, deletes : Nat, upsets : Nat]
      /\ epoch \in [Nodes -> Nat]
  BY DEF TypeOK
<1>2. /\ spent.puts \in Nat /\ spent.deletes \in Nat
      /\ \A x \in Nodes : epoch[x] \in Nat /\ epoch[x] <= epoch[x]
  BY <1>1
<1>3. CASE \E p \in Puts : ClientPut(p[1], p[2], p[3])
  <2>1. /\ spent' = [spent EXCEPT !["puts"] = @ + 1]
        /\ UNCHANGED <<epoch, back, torn>>
    BY <1>3 DEF ClientPut, Spend, members
  <2> QED BY <1>1, <1>2, <1>3, <2>1
<1>4. CASE \E n \in Nodes, k \in Keys : ClientDelete(n, k)
  <2>1. /\ spent' = [spent EXCEPT !["deletes"] = @ + 1]
        /\ UNCHANGED <<epoch, back, torn>>
    BY <1>4 DEF ClientDelete, Spend, members
  <2> QED BY <1>1, <1>2, <1>4, <2>1
<1>5. ASSUME NEW n \in Nodes, LoopStep(n)
      PROVE  /\ UNCHANGED <<epoch, back, torn>>
             /\ spent'.puts = spent.puts /\ spent'.deletes = spent.deletes
  <2>1. CASE SendUnanswered(n)
    <3>1. /\ spent' = [spent EXCEPT !["upsets"] = @ + 1]
          /\ UNCHANGED <<epoch, back, torn>>
      BY <2>1 DEF SendUnanswered, Spend, members
    <3> QED BY <1>1, <3>1
  <2>2. CASE SendFails(n)
    <3>1. /\ UNCHANGED spent \/ spent' = [spent EXCEPT !["upsets"] = @ + 1]
          /\ UNCHANGED <<epoch, back, torn>>
      BY <2>2 DEF SendFails, Spend, members
    <3> QED BY <1>1, <3>1
  <2>3. CASE ~SendUnanswered(n) /\ ~SendFails(n)
    BY <1>5, <2>3 DEF LoopStep, NextReplica, AskWants, AskSkips, Send, Tell,
                      UpdateReplica, UpdateReplicaFails, members
  <2> QED BY <2>1, <2>2, <2>3
<1>6. ASSUME NEW n \in Nodes, NEW m \in Nodes, NotifyJoin(n, m) \/ NotifyLeave(n, m)
      PROVE  UNCHANGED <<epoch, back, torn, spent>>
  BY <1>6 DEF NotifyJoin, NotifyLeave
<1>7. ASSUME NEW n \in Nodes, NEW v, GiveUp(n, v)
      PROVE  UNCHANGED <<epoch, torn, spent>> /\ back \subseteq back'
  BY <1>7 DEF GiveUp
<1>8. ASSUME NEW n \in Nodes, Crash(n)
      PROVE  /\ UNCHANGED <<epoch, back>> /\ torn \subseteq torn'
             /\ spent'.puts = spent.puts /\ spent'.deletes = spent.deletes
  <2>1. /\ spent' = [spent EXCEPT !["upsets"] = @ + 1]
        /\ UNCHANGED <<epoch, back>> /\ torn \subseteq torn'
    BY <1>8 DEF Crash, Spend
  <2> QED BY <1>1, <2>1
<1>9. ASSUME NEW n \in Nodes, Start(n)
      PROVE  UNCHANGED <<epoch, torn, spent>> /\ back \subseteq back'
  BY <1>9 DEF Start
<1>10. ASSUME NEW n \in Nodes, StartReset(n)
       PROVE  /\ UNCHANGED <<back, torn, spent>>
              /\ \A x \in Nodes : epoch'[x] \in Nat /\ epoch[x] <= epoch'[x]
  <2>1. /\ epoch' = [epoch EXCEPT ![n] = @ + 1] /\ UNCHANGED <<back, torn, spent>>
    BY <1>10 DEF StartReset, members
  <2>2. ASSUME NEW x \in Nodes PROVE epoch'[x] \in Nat /\ epoch[x] <= epoch'[x]
    BY <1>1, <2>1
  <2> QED BY <2>1, <2>2
<1>11. CASE UNCHANGED vars
  BY <1>2, <1>11 DEF vars, members
<1> QED
  <2>1. CASE \E n \in Nodes : LoopStep(n)
    BY <1>2, <1>5, <2>1
  <2>2. CASE \E n, m \in Nodes : NotifyJoin(n, m) \/ NotifyLeave(n, m)
    BY <1>2, <1>6, <2>2
  <2>3. CASE \E n \in Nodes : \E v \in removed[n] : GiveUp(n, v)
    BY <1>2, <1>7, <2>3
  <2>4. CASE \E n \in Nodes : Crash(n) \/ Start(n) \/ StartReset(n)
    BY <1>2, <1>8, <1>9, <1>10, <2>4
  <2> QED BY <1>3, <1>4, <1>11, <2>1, <2>2, <2>3, <2>4 DEF Next

LEMMA FamilyStep ==
  ASSUME IInv, IInv', MembersSound, [Next]_vars, back = {}, back' = {}, torn' = {},
         spent'.puts = spent.puts, spent'.deletes = 0,
         NEW o, o[2] <= epoch[o[1]], NEW k, NEW s, s # Cut, Family(o, k, s)
  PROVE  Family(o, k, s)'
<1>1. /\ ~\E p \in Puts : ClientPut(p[1], p[2], p[3])
      /\ ~\E n \in Nodes, j \in Keys : ClientDelete(n, j)
  <2>1. spent \in [puts : Nat, deletes : Nat, upsets : Nat]
    BY DEF IInv, TypeOK
  <2>2. ASSUME NEW p \in Puts, ClientPut(p[1], p[2], p[3]) PROVE FALSE
    <3>1. spent' = [spent EXCEPT !["puts"] = @ + 1]
      BY <2>2 DEF ClientPut, Spend
    <3> QED BY <2>1, <3>1
  <2>3. ASSUME NEW n \in Nodes, NEW j \in Keys, ClientDelete(n, j) PROVE FALSE
    <3>1. spent' = [spent EXCEPT !["deletes"] = @ + 1]
      BY <2>3 DEF ClientDelete, Spend
    <3> QED BY <2>1, <3>1
  <2> QED BY <2>2, <2>3
<1>2. ASSUME NEW n \in Nodes, LoopStep(n) PROVE Family(o, k, s)'
  BY <1>2, NextReplicaFamily, AskWantsFamily, AskSkipsFamily, SendFamily,
     SendUnansweredFamily, SendFailsFamily, TellFamily, UpdateReplicaFamily,
     UpdateReplicaWorks DEF LoopStep
<1>3. ASSUME UNCHANGED <<epoch, volumes, loop, gone>> PROVE Family(o, k, s)'
  BY <1>3, QuietFamily
<1>4. ASSUME NEW n \in Nodes, NEW m \in Nodes, NotifyJoin(n, m) \/ NotifyLeave(n, m)
      PROVE  Family(o, k, s)'
  BY <1>3, <1>4 DEF NotifyJoin, NotifyLeave
<1>5. ASSUME NEW n \in Nodes, NEW v \in removed[n], GiveUp(n, v) PROVE Family(o, k, s)'
  BY <1>5, GiveUpFamily
<1>6. ASSUME NEW n \in Nodes, Crash(n) PROVE Family(o, k, s)'
  BY <1>6, CrashFamily
<1>7. ASSUME NEW n \in Nodes, Start(n) PROVE Family(o, k, s)'
  BY <1>3, <1>7 DEF Start
<1>8. ASSUME NEW n \in Nodes, StartReset(n) PROVE Family(o, k, s)'
  BY <1>8, StartResetFamily
<1>9. CASE UNCHANGED vars
  BY <1>3, <1>9 DEF vars, members
<1> QED BY <1>1, <1>2, <1>4, <1>5, <1>6, <1>7, <1>8, <1>9 DEF Next

LEMMA SuccessionStep ==
  ASSUME IInv, IInv', Succession, [Next]_vars
  PROVE  Succession'
<1>1. TypeOK /\ TypeOK' /\ MembersSound
  BY DEF IInv, Succession
<1>2. MembersSound'
  BY <1>1, MembersStay
<1>3. SUFFICES ASSUME Calm'
               PROVE  \/ spent'.puts = 0 /\ Nothing'
                      \/ /\ spent'.puts = 1
                         /\ \E p \in Puts : \E e \in 0..epoch'[p[1]] :
                              Family(<<p[1], e>>, p[2], p[3])'
  BY <1>2 DEF Succession
<1>4. /\ spent.puts \in Nat /\ spent.deletes \in Nat
      /\ spent'.puts \in Nat /\ spent'.deletes \in Nat
      /\ back \subseteq back' /\ torn \subseteq torn'
      /\ \A x \in Nodes : epoch[x] \in Nat /\ epoch'[x] \in Nat /\ epoch[x] <= epoch'[x]
      /\ \/ /\ \E p \in Puts : ClientPut(p[1], p[2], p[3])
            /\ spent'.puts = spent.puts + 1 /\ spent'.deletes = spent.deletes
         \/ spent'.puts = spent.puts /\ spent'.deletes = spent.deletes + 1
         \/ spent'.puts = spent.puts /\ spent'.deletes = spent.deletes
  BY <1>1, Spending
<1>5. spent'.puts <= 1 /\ spent'.deletes = 0 /\ back' = {} /\ torn' = {}
  BY <1>3 DEF Calm
<1>6. Calm /\ back = {} /\ spent.deletes = 0
  BY <1>4, <1>5 DEF Calm
<1>7. Puts \subseteq Nodes \X Keys \X Contents /\ Cut \notin Contents
  BY PutsAssumption, ContentsAssumption
<1>8. CASE spent.puts = 0 /\ Nothing
  <2>1. CASE spent'.puts = 0
    BY <1>8, <2>1, NothingStays
  <2>2. CASE spent'.puts # 0
    <3>1. PICK p \in Puts : ClientPut(p[1], p[2], p[3])
      BY <1>4, <1>8, <2>2
    <3>2. p[1] \in Nodes /\ spent'.puts = 1
      BY <1>4, <1>5, <1>7, <2>2
    <3>3. PICK e \in Nat : e = epoch[p[1]] /\ epoch'[p[1]] = e
      BY <1>4, <3>1, <3>2 DEF ClientPut
    <3>4. ID(p[1]) = <<p[1], e>>
      BY <3>3 DEF ID
    <3>5. Family(<<p[1], e>>, p[2], p[3])'
      BY <1>8, <3>1, <3>2, <3>4, ClientPutFamily
    <3> QED BY <3>2, <3>3, <3>5
  <2> QED BY <2>1, <2>2
<1>9. ASSUME spent.puts = 1, NEW p \in Puts, NEW e \in 0..epoch[p[1]],
             Family(<<p[1], e>>, p[2], p[3])
      PROVE  /\ spent'.puts = 1 /\ e \in 0..epoch'[p[1]]
             /\ Family(<<p[1], e>>, p[2], p[3])'
  <2>1. p[1] \in Nodes /\ p[3] # Cut
    BY <1>7
  <2>2. spent'.puts = 1
    BY <1>4, <1>5, <1>9
  <2>3. e <= epoch[p[1]] /\ e \in 0..epoch'[p[1]]
    BY <1>4, <2>1
  <2>4. PICK o : o = <<p[1], e>>
    OBVIOUS
  <2>5. o[2] <= epoch[o[1]] /\ Family(o, p[2], p[3])
    BY <1>9, <2>3, <2>4
  <2>6. Family(o, p[2], p[3])'
    BY <1>1, <1>5, <1>6, <1>9, <2>1, <2>2, <2>5, FamilyStep
  <2> QED BY <2>2, <2>3, <2>4, <2>6
<1> QED BY <1>6, <1>8, <1>9 DEF Succession

-----------------------------------------------------------------------------
LEMMA SuccessionInit == Init => Succession
<1> SUFFICES ASSUME Init PROVE Succession
  OBVIOUS
<1>1. /\ epoch = [n \in Nodes |-> 0] /\ gone = {} /\ back = {}
      /\ nodes = [n \in Nodes |-> [m \in Nodes \ {n} |-> <<m, 0>>]]
      /\ removed = [n \in Nodes |-> {}]
  BY DEF Init, ID
<1>2. ASSUME NEW n \in Nodes, NEW m \in DOMAIN nodes[n]
      PROVE  m # n /\ nodes[n][m][1] = m /\ Known(nodes[n][m])
  <2>1. m \in Nodes \ {n} /\ nodes[n][m] = <<m, 0>> /\ epoch[m] = 0
    BY <1>1
  <2>2. <<m, 0>>[1] = m /\ <<m, 0>>[2] = 0 /\ 0 <= 0
    OBVIOUS
  <2> QED BY <2>1, <2>2 DEF Known
<1>3. MembersSound
  BY <1>1, <1>2 DEF MembersSound, Alive
<1>4. spent.puts = 0 /\ Nothing
  BY DEF Init, Nothing, Empty
<1> QED BY <1>3, <1>4 DEF Succession

(* Who takes over for v is the put's volume, or the heir of v.             *)
LEMMA Inheritor ==
  ASSUME TypeOK, NEW o, NEW k, NEW s, Family(o, k, s), NEW n \in Nodes, NEW v,
         s \in Inherited(n, v)
  PROVE  /\ v # ID(n) /\ Holds(n, s)
         /\ \/ ID(n) = o /\ First(n, s) = o
            \/ Heir(n, s) /\ First(n, s) = v
<1>1. /\ Holds(n, s) /\ <<v, s>> \in idxvolumes[n]
      /\ DeleteVolumeID(Vids(n, s), v)[1] = ID(n)
  <2>1. PICK p \in idxvolumes[n] : p[1] = v /\ p[2] = s
    BY DEF Inherited, SignaturesOf
  <2>2. p = <<v, s>>
    BY <2>1 DEF TypeOK
  <2> QED BY <2>1, <2>2 DEF Inherited, Holds, Vids
<1>2. PICK R \in Seq(IDs) : R = Vids(n, s)
  BY <1>1, Types DEF Holds, Vids
<1>3. Sound(R, k, s) /\ v # ID(n)
  BY <1>1, <1>2 DEF Family, Kept, Tables
<1>4. IsInjective(R) /\ Len(R) > 0
  BY <1>3, Distinctness DEF Sound
<1>5. PICK l : l = DeleteVolumeID(R, v)
  OBVIOUS
<1>6. /\ R[1] # v => l[1] = R[1]
      /\ R[1] = v /\ Len(R) > 1 => l[1] = R[2]
  BY <1>4, <1>5, DeleteVolumeIDFront
<1>7. /\ First(n, s) # ID(n) => Long(n, s)
      /\ First(n, s) = ID(n) =>
           /\ \A p \in idxvolumes[n] : p[1] \in ElemsOf(Vids(n, s))
           /\ ID(n) # o => ~Long(n, s)
  BY <1>1 DEF Family, Rows
<1>8. CASE R[1] = v
  <2>1. Len(R) > 1 /\ R[2] = ID(n)
    BY <1>1, <1>2, <1>3, <1>5, <1>6, <1>7, <1>8 DEF First, Long
  <2> QED BY <1>1, <1>2, <1>3, <1>8, <2>1 DEF Heir, Long, First
<1>9. CASE R[1] # v
  <2>1. R[1] = ID(n) /\ v \in ElemsOf(R)
    BY <1>1, <1>2, <1>5, <1>6, <1>7, <1>9 DEF First
  <2>2. Len(R) > 1
    <3>1. PICK i \in 1..Len(R) : R[i] = v
      BY <2>1 DEF ElemsOf
    <3>2. i # 1
      BY <1>9, <3>1
    <3> QED BY <3>1, <3>2
  <2> QED BY <1>1, <1>2, <1>3, <1>7, <2>1, <2>2 DEF First, Long
<1> QED BY <1>8, <1>9

(* Two nodes that live do not both inherit: an heir of v follows the       *)
(* leader, so v leads and not o, and two heirs that live have different    *)
(* volumes before them.                                                    *)
LEMMA OneInherits ==
  ASSUME TypeOK, NEW o, NEW k, NEW s, Family(o, k, s), NEW n \in Nodes, NEW m \in Nodes,
         Alive(ID(n)), Alive(ID(m)), NEW v, s \in Inherited(n, v), s \in Inherited(m, v)
  PROVE  n = m
<1>1. /\ v # ID(n) /\ v # ID(m)
      /\ ID(n) = o \/ (Heir(n, s) /\ First(n, s) = v)
      /\ ID(m) = o \/ (Heir(m, s) /\ First(m, s) = v)
  BY Inheritor
<1>2. ASSUME NEW x \in Nodes, NEW y \in Nodes, x # y, Alive(ID(x)), Alive(ID(y)),
             v # ID(x), ID(x) = o, Heir(y, s), First(y, s) = v
      PROVE  FALSE
  <2>1. o \in Leading(o, s)
    BY LeadingIs
  <2>2. o \in {v, ID(y)}
    BY <1>2, <2>1 DEF Family, HeirsFollow
  <2> QED BY <1>2, <2>2, SameID
<1>3. ASSUME n # m, Heir(n, s), Heir(m, s), First(n, s) = v, First(m, s) = v
      PROVE  FALSE
  BY <1>3 DEF Family, HeirsApart
<1> QED BY <1>1, <1>2, <1>3, SameID

LEMMA SuccessorIsOne ==
  ASSUME TypeOK, Succession
  PROVE  OneSuccessor
<1>1. SUFFICES ASSUME Calm, NEW v, NEW sg \in Contents
               PROVE  Cardinality({n \in up : sg \in Inherited(n, v)}) <= 1
  BY DEF OneSuccessor, AtMostOneHeir, PutOnce, Calm
<1>2. \A n, m \in up : sg \in Inherited(n, v) /\ sg \in Inherited(m, v) => n = m
  <2>1. SUFFICES ASSUME NEW n \in up, NEW m \in up,
                        sg \in Inherited(n, v), sg \in Inherited(m, v)
                 PROVE  n = m
    OBVIOUS
  <2>2. n \in Nodes /\ m \in Nodes /\ Alive(ID(n)) /\ Alive(ID(m))
    BY <1>1 DEF TypeOK, Succession, MembersSound, Calm
  <2>3. PICK p \in idxvolumes[n] : p[2] = sg
    BY <2>1 DEF Inherited, SignaturesOf
  <2>4. ~Nothing
    BY <2>2, <2>3 DEF Nothing
  <2>5. PICK o, k, s : Family(o, k, s)
    BY <1>1, <2>4 DEF Succession
  <2>6. sg = s
    BY <2>2, <2>3, <2>5 DEF Family, Kept, Tables
  <2> QED BY <2>1, <2>2, <2>5, <2>6, OneInherits
<1>3. PICK T : T = {n \in up : sg \in Inherited(n, v)}
  OBVIOUS
<1>4. T = {} \/ \E n : T = {n}
  BY <1>2, <1>3
<1>5. Cardinality(T) = 0 \/ Cardinality(T) = 1
  BY <1>4, FS_EmptySet, FS_Singleton
<1> QED BY <1>3, <1>5

(* What OneSuccessor follows from: whichever calls fail or lose their      *)
(* answer and whoever leaves, the rows and queues of all nodes are those   *)
(* of one family of copies, with one line of heirs (replica.go's loop).    *)
THEOREM SuccessionInductive == Spec => []Succession
<1>1. Init => Succession
  BY SuccessionInit
<1>2. IInv /\ IInv' /\ Succession /\ [Next]_vars => Succession'
  BY SuccessionStep
<1>3. Spec => []IInv
  BY ClusterInductive
<1> QED BY <1>1, <1>2, <1>3, PTL DEF Spec

(* At most one of the nodes that run takes over the content of a volume    *)
(* that left (SynchronizeReplicas), as long as nobody put or deleted it    *)
(* again, no volume that was given up is back, and no loop ended between a *)
(* copy and its row.                                                       *)
THEOREM OneSuccessorAlways == Spec => []OneSuccessor
<1>1. IInv /\ Succession => OneSuccessor
  BY SuccessorIsOne DEF IInv
<1>2. Spec => []IInv
  BY ClusterInductive
<1>3. Spec => []Succession
  BY SuccessionInductive
<1> QED BY <1>1, <1>2, <1>3, PTL
=============================================================================
