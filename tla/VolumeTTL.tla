----------------------------- MODULE VolumeTTL ------------------------------
(***************************************************************************)
(* The volume and its expiry loop (volume/ttl.go).  Every second loopTTL   *)
(* opens a transaction and deletes the contents whose expiry lies in the   *)
(* last day.  A deletion that fails is logged and skipped, and the         *)
(* transaction commits what the others, and the failed one before it       *)
(* failed, have written.                                                   *)
(*                                                                         *)
(* As in VolumeSerial, no content is dropped while an upload of it is      *)
(* between its Rename and its transaction.                                 *)
(***************************************************************************)
EXTENDS VolumeSerial, SequencesExt

CONSTANT Day     \* how far back Filter looks, in seconds
ASSUME DayAssumption == Day \in Nat \ {0}

VARIABLE swept   \* the last second loopTTL looked at the index

ttlvars == <<vars, swept>>

\* faulty: misses the entries of the present second
InReachLate(t) == t # ZeroTime /\ now - Day <= t /\ t < now
\* faulty: takes the entries of the next second
InReachEarly(t) == t # ZeroTime /\ now - Day <= t /\ t <= now + 1
(* Filter compares formatted times: an entry counts from the second it     *)
(* names, and the entry under the zero time is never in reach.             *)
InReach(t) == t # ZeroTime /\ now - Day <= t /\ t <= now

(* The contents a sweep deletes, each at its first entry. *)
Due == {p[2] : p \in {q \in idxttls : InReach(q[1])}} \cap DOMAIN files
FirstDue(s) == Min({p[1] : p \in {q \in idxttls : q[2] = s /\ InReach(q[1])}})
DueOrders ==
  {o \in SetToSeqs(Due) :
     \A i, j \in DOMAIN o : i < j => FirstDue(o[i]) <= FirstDue(o[j])}

\* faulty: every key of s gives back its size
ExpireOnePerKey(acc, s) ==
  [acc EXCEPT !.used = @ - Size[s] * Cardinality(files[s].keys)]
(* deleteFile of the last key of s, after those of acc.  Its row is        *)
(* already deleted when the content turns out to be missing, or the size   *)
(* given back is refused: then its key stays in idxkeys.                   *)
ExpireOne(acc, s) ==
  IF s \in blobs /\ acc.used - Size[s] <= total
  THEN [acc EXCEPT !.used = @ - Size[s]]
  ELSE [acc EXCEPT !.stuck = @ \cup {s}]
Expired(o) == FoldLeft(ExpireOne, [used |-> used, stuck |-> {}], o)

\* faulty: the last Remove is undone like the others
ComesBackWithLast(o) ==
  {o[i] : i \in {j \in DOMAIN o : \A h \in 1..j : o[h] \in blobs}}
(* The commit actions of the file system after the Removes of o.  Remove   *)
(* builds commitActions by appending to rollbackActions, so they are the   *)
(* Renames back of all the Removes but the last, and then the last's own   *)
(* removal.  When the rollback slice has room left, the Rename appended to *)
(* it next overwrites that removal, which shares its array: room is left   *)
(* unless the slice is empty or its length is a power of two.  The first   *)
(* action that fails, on a content that was missing, ends the commit.      *)
SliceIsFull(n) == n = 0 \/ \E e \in 0..n : n = 2 ^ e
ComesBack(o) ==
  {o[i] : i \in {j \in DOMAIN o :
     /\ j = Len(o) => ~SliceIsFull(Len(o) - 1)
     /\ \A h \in 1..j : o[h] \in blobs}}

(* The index without the keys of the due rows, but for one key of a row    *)
(* whose last deletion failed.                                             *)
KeysAfter(o, last) ==
  [k \in {n \in DOMAIN idxkeys :
            \A s \in Due : n \in files[s].keys =>
                             s \in Expired(o).stuck /\ n = last[s]}
     |-> idxkeys[k]]

ExpireTTL ==
  /\ up
  /\ swept' = now
  /\ \E o \in DueOrders, last \in [Due -> Keys] :
       /\ \A s \in Due : last[s] \in files[s].keys
       /\ files' = [s \in DOMAIN files \ Due |-> files[s]]
       /\ idxkeys' = KeysAfter(o, last)
       /\ used' = Expired(o).used
       /\ blobs' = (blobs \ Due) \cup ComesBack(o)
  /\ UNCHANGED <<up, started, tmps, id, retired, now, idxvolumes, idxttls,
                 replicas, total, pending>>

Sweep == ExpireTTL /\ KeepsUploads

(* The loop looks once a second, so the clock of a running volume waits    *)
(* for it.                                                                 *)
OtherStep ==
  /\ SerialNext
  /\ up /\ now' # now => swept = now
  /\ UNCHANGED swept

TTLInit == Init /\ swept = ZeroTime
TTLNext == OtherStep \/ Sweep

(* A call that began its transaction ends it.  The loop waits on the write *)
(* lock of the database, a Go mutex, whose waiters are not passed by for   *)
(* ever: so a sweep that is possible again and again happens.              *)
TTLSpec ==
  /\ TTLInit
  /\ [][TTLNext]_ttlvars
  /\ WF_ttlvars(FinishCreateFile /\ OtherStep)
  /\ SF_ttlvars(Sweep)

(* s has a row and an entry of the index says it expired within a day. *)
Overdue(s) ==
  /\ up /\ s \in DOMAIN files
  /\ \E t \in 0..now : <<t, s>> \in idxttls /\ t + Day >= now

(* While the volume runs, what the index says has expired is deleted. *)
OverdueGoes == \A s \in Sigs : Overdue(s) ~> ~Overdue(s)

(* A sweep takes from the readers only what was overdue: no key of another *)
(* content is lost with it, and no key of an overdue content is left.      *)
SweepTakesOverdue ==
  [][ExpireTTL =>
       \A k \in DOMAIN idxkeys :
         IF Overdue(idxkeys[k]) THEN k \notin DOMAIN idxkeys'
         ELSE GetFile(k)' = GetFile(k)]_ttlvars

(* A content stored to last for ever is not deleted by the loop. *)
NoTTLNeverExpires ==
  [][ExpireTTL =>
       \A s \in DOMAIN files : files[s].ttl = NoTTL => s \in DOMAIN files']_ttlvars

(* What a sweep of one content deleted is gone from its path: of several,  *)
(* all but the last are renamed back.                                      *)
SweptAloneGoes ==
  [][ExpireTTL /\ Cardinality(Due) = 1 => blobs' \cap Due = {}]_ttlvars
=============================================================================
