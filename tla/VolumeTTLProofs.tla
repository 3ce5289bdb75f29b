-------------------------- MODULE VolumeTTLProofs --------------------------
(* Theorems about VolumeTTL: the expiry loop takes away the contents that  *)
(* are due, whole, and leaves the tables and the count as sound as they    *)
(* were, for any number of contents that expire together.                  *)
EXTENDS VolumeTTL, VolumeProofs

(* An entry of the index of expiries names a second of the clock, or the   *)
(* zero time that AddExpiry saves the second content of a second under.    *)
EntriesTimed == \A p \in idxttls : p[1] \in Nat \cup {ZeroTime}

(* The inductive invariant.  A sweep keeps the two tables of keys in step  *)
(* because no deletion in it fails: every content is at its path           *)
(* (SerialInv), and what is given back fits (Fits).                        *)
TTLInv == SerialInv /\ NeverUndercounts /\ Fits /\ EntriesTimed

-----------------------------------------------------------------------------
(* The order of a sweep has every due content once. *)
LEMMA DueFinite ==
  ASSUME SerialInv
  PROVE  /\ Due \in SUBSET Sigs /\ Due \subseteq DOMAIN files
         /\ IsFiniteSet(Due) /\ Cardinality(Due) \in Nat
<1>1. Due \subseteq DOMAIN files /\ DOMAIN files \in SUBSET Sigs
  BY DEF Due, SerialInv, IInv, TypeOK, IsTable
<1>2. IsFiniteSet(Due) /\ Cardinality(Due) \in Nat
  BY <1>1, SigsAssumption, FS_Subset, FS_CardinalityType
<1> QED BY <1>1, <1>2

LEMMA OrderCovers ==
  ASSUME SerialInv, NEW o \in DueOrders
  PROVE  /\ DOMAIN o = 1..Cardinality(Due)
         /\ {o[i] : i \in DOMAIN o} = Due
         /\ \A i, j \in DOMAIN o : i # j => o[i] # o[j]
<1> DEFINE D == 1..Cardinality(Due)
<1>1. o \in [D -> Due] /\ \A i, j \in D : i # j => o[i] # o[j]
  BY DEF DueOrders, SetToSeqs
<1>2. /\ IsFiniteSet(Due) /\ Cardinality(Due) \in Nat
  BY DueFinite
<1>3. IsFiniteSet(D) /\ Cardinality(D) = Cardinality(Due)
  BY <1>2, FS_Interval
<1>4. o \in Injection(D, Due)
  BY <1>1 DEF Injection, IsInjective
<1>5. o \in Surjection(D, Due)
  BY <1>2, <1>3, <1>4, FS_Injection
<1>6. \A s \in Due : \E i \in D : o[i] = s
  BY <1>5 DEF Surjection
<1> QED BY <1>1, <1>6

(* A finite set of numbers that is not empty has a greatest one. *)
LEMMA MaxIsElement ==
  ASSUME NEW S \in SUBSET Nat, IsFiniteSet(S), S # {} PROVE Max(S) \in S
<1> DEFINE T == {A \in SUBSET S : A # {} => \E m \in A : \A y \in A : m >= y}
<1>1. ASSUME NEW A \in SUBSET S, \A x \in A : A \ {x} \in T PROVE A \in T
  <2>1. SUFFICES ASSUME A # {} PROVE \E m \in A : \A y \in A : m >= y
    OBVIOUS
  <2>2. PICK x : x \in A
    BY <2>1
  <2>3. CASE A \ {x} = {}
    BY <2>2, <2>3
  <2>4. CASE A \ {x} # {}
    <3>1. PICK m \in A \ {x} : \A y \in A \ {x} : m >= y
      BY <1>1, <2>2, <2>4
    <3>2. CASE m >= x
      BY <2>2, <3>1, <3>2
    <3>3. CASE ~(m >= x)
      <4>1. \A y \in A : x >= y
        BY <2>2, <3>1, <3>3
      <4> QED BY <2>2, <4>1
    <3> QED BY <3>2, <3>3
  <2> QED BY <2>3, <2>4
<1>2. SUBSET S \subseteq T
  <2> HIDE DEF T
  <2> QED BY <1>1, FiniteSubsetInduction
<1>3. \E m \in S : \A y \in S : m >= y
  BY <1>2
<1> QED BY <1>3 DEF Max

-----------------------------------------------------------------------------
(* The deletions of a sweep all succeed, and give back the size of each    *)
(* content once, whatever the order.                                       *)
LEMMA ExpiredAll ==
  ASSUME TTLInv, NEW o \in DueOrders
  PROVE  Expired(o) = [used |-> used - Sum(Due), stuck |-> {}]
<1> DEFINE D == DOMAIN o
           Base == [used |-> used, stuck |-> {}]
           At(A) == {o[i] : i \in A}
           Left(A) == [used |-> used - Sum(At(A)), stuck |-> {}]
           Step(f, A) == IF A = {} THEN Base
                         ELSE ExpireOne(f[A \ {Max(A)}], o[Max(A)])
           Body(f) == [A \in SUBSET D |-> Step(f, A)]
           f0 == CHOOSE f : f = Body(f)
           g == [A \in SUBSET D |-> Left(A)]
<1>1. Expired(o) = f0[D]
  BY DEF Expired, FoldLeft, MapThenFoldSet
<1>2. /\ D = 1..Cardinality(Due) /\ At(D) = Due
      /\ \A i, j \in D : i # j => o[i] # o[j]
  BY OrderCovers DEF TTLInv
<1>3. /\ SerialInv /\ used \in Int /\ total \in Nat /\ used <= total
      /\ Due \in SUBSET Sigs /\ Due \subseteq blobs /\ Cardinality(Due) \in Nat
  BY DueFinite DEF TTLInv, Fits, SerialInv, ContentPresent, IInv, TypeOK
<1>4. \A A \in SUBSET D :
        A # {} => Max(A) \in A /\ A \ {Max(A)} \in SUBSET D
  <2>1. D \in SUBSET Nat /\ IsFiniteSet(D)
    BY <1>2, <1>3, FS_Interval
  <2>2. ASSUME NEW A \in SUBSET D, A # {} PROVE Max(A) \in A
    BY <2>1, <2>2, FS_Subset, MaxIsElement
  <2> QED BY <2>2
<1>5. \A A \in SUBSET D :
        /\ At(A) \in SUBSET Due /\ Sum(At(A)) \in Int /\ 0 <= Sum(At(A))
  <2>1. SUFFICES ASSUME NEW A \in SUBSET D
                 PROVE  /\ At(A) \in SUBSET Due /\ Sum(At(A)) \in Int
                        /\ 0 <= Sum(At(A))
    OBVIOUS
  <2>2. At(A) \in SUBSET Due
    BY <1>2
  <2>3. At(A) \in SUBSET Sigs
    BY <1>3, <2>2
  <2> HIDE DEF At
  <2> QED BY <2>2, <2>3, SumOfSigs
<1>6. ASSUME NEW A \in SUBSET D, A # {}
      PROVE  ExpireOne(Left(A \ {Max(A)}), o[Max(A)]) = Left(A)
  <2>1. PICK m \in A : m = Max(A)
    BY <1>4, <1>6
  <2>2. PICK s : s = o[m]
    OBVIOUS
  <2>3. /\ s \in At(A) /\ At(A \ {m}) = At(A) \ {s}
    BY <1>2, <2>2
  <2>4. s \in Due /\ s \in blobs /\ Size[s] \in Nat
    BY <1>3, <1>5, <2>3, SigsAssumption
  <2>5. Sum(At(A)) = Size[s] + Sum(At(A \ {m}))
    <3>1. At(A) \in SUBSET Sigs
      BY <1>3, <1>5
    <3> HIDE DEF At
    <3> QED BY <2>3, <3>1, SumOfSigs
  <2>6. PICK p, q \in Int : /\ p = Sum(At(A \ {m})) /\ q = Sum(At(A))
                            /\ 0 <= p
    BY <1>5
  <2>7. used - p - Size[s] <= total /\ used - p - Size[s] = used - q
    BY <1>3, <2>4, <2>5, <2>6
  <2>8. Left(A \ {m}).used - Size[s] <= total
    BY <2>6, <2>7
  <2>9. ExpireOne(Left(A \ {m}), s) = [Left(A \ {m}) EXCEPT !.used = @ - Size[s]]
    BY <2>4, <2>8 DEF ExpireOne
  <2>10. ExpireOne(Left(A \ {m}), s) = [used |-> used - q, stuck |-> {}]
    BY <2>6, <2>7, <2>9
  <2> QED BY <2>1, <2>2, <2>6, <2>10
<1>7. Left({}) = Base
  <2>1. At({}) = {}
    OBVIOUS
  <2>2. used - Sum({}) = used
    BY <1>3, SumOfSigs
  <2> QED BY <2>1, <2>2
<1>8. g = Body(g)
  <2>1. ASSUME NEW A \in SUBSET D PROVE g[A] = Step(g, A)
    <3>1. CASE A = {}
      BY <1>7, <3>1
    <3>2. CASE A # {}
      <4>1. g[A] = Left(A) /\ g[A \ {Max(A)}] = Left(A \ {Max(A)})
        BY <1>4, <3>2
      <4> HIDE DEF g, Left
      <4> QED BY <1>6, <3>2, <4>1
    <3> QED BY <3>1, <3>2
  <2> HIDE DEF Step, Left
  <2> QED BY <2>1
<1>9. f0 = Body(f0)
  <2> HIDE DEF g, Body
  <2> QED BY <1>8
<1> HIDE DEF f0
<1> DEFINE T == {A \in SUBSET D : f0[A] = Left(A)}
<1>10. ASSUME NEW A \in SUBSET D, \A x \in A : A \ {x} \in T PROVE A \in T
  <2>1. f0[A] = Step(f0, A)
    <3> HIDE DEF Step
    <3> QED BY <1>9
  <2>2. CASE A = {}
    BY <1>7, <2>1, <2>2
  <2>3. CASE A # {}
    <3>1. f0[A \ {Max(A)}] = Left(A \ {Max(A)})
      BY <1>4, <1>10, <2>3
    <3> HIDE DEF Left
    <3> QED BY <1>6, <2>1, <2>3, <3>1
  <2> QED BY <2>2, <2>3
<1>11. SUBSET D \subseteq T
  <2>1. IsFiniteSet(D)
    BY <1>2, <1>3, FS_Interval
  <2> HIDE DEF T, D
  <2> QED BY <1>10, <2>1, FiniteSubsetInduction
<1> QED BY <1>1, <1>2, <1>11

(* So a sweep leaves no key of a content that is due, and no other out. *)
LEMMA SweptKeys ==
  ASSUME TTLInv, NEW o \in DueOrders, NEW last
  PROVE  /\ DOMAIN KeysAfter(o, last) = {k \in DOMAIN idxkeys : idxkeys[k] \notin Due}
         /\ \A k \in DOMAIN KeysAfter(o, last) : KeysAfter(o, last)[k] = idxkeys[k]
<1>1. Expired(o).stuck = {}
  BY ExpiredAll
<1>2. \A k \in DOMAIN idxkeys, s \in Due : k \in files[s].keys <=> idxkeys[k] = s
  <2>1. /\ DOMAIN idxkeys \subseteq Keys /\ Due \in SUBSET Sigs
        /\ Due \subseteq DOMAIN files
    BY DueFinite DEF TTLInv, SerialInv, IInv, TypeOK, IsTable
  <2> QED BY <2>1 DEF TTLInv, SerialInv, IInv, IndexConsistent
<1>3. DOMAIN KeysAfter(o, last)
        = {k \in DOMAIN idxkeys : \A s \in Due : ~(k \in files[s].keys)}
  BY <1>1 DEF KeysAfter
<1>4. \A k \in DOMAIN KeysAfter(o, last) : KeysAfter(o, last)[k] = idxkeys[k]
  BY DEF KeysAfter
<1>5. \A k \in DOMAIN idxkeys :
        (\A s \in Due : ~(k \in files[s].keys)) <=> idxkeys[k] \notin Due
  BY <1>2
<1> QED BY <1>3, <1>4, <1>5

(* What ExpireTTL leaves. *)
LEMMA SweepEffect ==
  ASSUME TTLInv, ExpireTTL
  PROVE  /\ DOMAIN files' = DOMAIN files \ Due
         /\ \A s \in DOMAIN files' : files'[s] = files[s]
         /\ DOMAIN idxkeys' = {k \in DOMAIN idxkeys : idxkeys[k] \notin Due}
         /\ \A k \in DOMAIN idxkeys' : idxkeys'[k] = idxkeys[k]
         /\ used' = used - Sum(Due)
         /\ blobs \ Due \subseteq blobs' /\ blobs' \subseteq blobs
<1>1. PICK o \in DueOrders, last \in [Due -> Keys] :
        /\ files' = [s \in DOMAIN files \ Due |-> files[s]]
        /\ idxkeys' = KeysAfter(o, last)
        /\ used' = Expired(o).used
        /\ blobs' = (blobs \ Due) \cup ComesBack(o)
  BY DEF ExpireTTL
<1>2. ComesBack(o) \subseteq blobs
  <2>1. ASSUME NEW x \in ComesBack(o) PROVE x \in blobs
    <3>1. PICK j \in DOMAIN o : x = o[j] /\ \A h \in 1..j : o[h] \in blobs
      BY <2>1 DEF ComesBack
    <3>2. j \in 1..j
      <4>1. j \in 1..Cardinality(Due) /\ Cardinality(Due) \in Nat
        BY <3>1, OrderCovers, DueFinite DEF TTLInv
      <4> QED BY <4>1
    <3> QED BY <3>1, <3>2
  <2> QED BY <2>1
<1>3. used' = used - Sum(Due)
  BY <1>1, ExpiredAll
<1>4. /\ DOMAIN idxkeys' = {k \in DOMAIN idxkeys : idxkeys[k] \notin Due}
      /\ \A k \in DOMAIN idxkeys' : idxkeys'[k] = idxkeys[k]
  BY <1>1, SweptKeys
<1> QED BY <1>1, <1>2, <1>3, <1>4

LEMMA SweepIInv ==
  ASSUME TTLInv, ExpireTTL PROVE IInv'
<1>1. IInv
  BY DEF TTLInv, SerialInv
<1>2. UNCHANGED <<up, started, tmps, id, retired, now, idxvolumes, idxttls,
                  replicas, total, pending>>
  BY DEF ExpireTTL
<1>3. /\ DOMAIN files' = DOMAIN files \ Due
      /\ \A s \in DOMAIN files' : files'[s] = files[s]
      /\ DOMAIN idxkeys' = {k \in DOMAIN idxkeys : idxkeys[k] \notin Due}
      /\ \A k \in DOMAIN idxkeys' : idxkeys'[k] = idxkeys[k]
      /\ used' = used - Sum(Due)
      /\ blobs' \subseteq blobs
  BY SweepEffect
<1>4. TypeOK'
  <2>1. files' = [s \in DOMAIN files' |-> files'[s]]
    BY DEF ExpireTTL
  <2>2. idxkeys' = [k \in DOMAIN idxkeys' |-> idxkeys'[k]]
    BY DEF ExpireTTL, KeysAfter
  <2>3. IsTable(files', Sigs, Row) /\ IsTable(idxkeys', Keys, Sigs)
    BY <1>1, <1>3, <2>1, <2>2 DEF IInv, TypeOK, IsTable
  <2>4. used' \in Int
    <3>1. Sum(Due) \in Int
      BY DueFinite, SumOfSigs DEF TTLInv
    <3> QED BY <1>1, <1>3, <3>1 DEF IInv, TypeOK
  <2> QED BY <1>1, <1>2, <1>3, <2>3, <2>4 DEF IInv, TypeOK
<1>5. IndexConsistent'
  BY <1>1, <1>3 DEF IInv, IndexConsistent
<1>6. SelfListed' /\ VolumesIndexed' /\ ListBalanced'
  BY <1>1, <1>2, <1>3 DEF IInv, SelfListed, VolumesIndexed, ListBalanced
<1> QED BY <1>4, <1>5, <1>6 DEF IInv

(* The entries keep a second of the clock or the zero time. *)
LEMMA AddExpiryTimed ==
  ASSUME EntriesTimed, NEW t \in Nat, NEW s PROVE
  \A p \in AddExpiry(t, s) : p[1] \in Nat \cup {ZeroTime}
<1>1. PICK dueAt : dueAt = {p[2] : p \in {q \in idxttls : q[1] = t}}
  OBVIOUS
<1>2. AddExpiry(t, s) = IF dueAt = {} THEN idxttls \cup {<<t, s>>}
                        ELSE {p \in idxttls : p[1] # ZeroTime}
                             \cup ({ZeroTime} \X (dueAt \cup {s}))
  BY <1>1 DEF AddExpiry
<1> QED BY <1>2 DEF EntriesTimed

LEMMA NextTimed ==
  ASSUME IInv, EntriesTimed, [Next]_vars PROVE EntriesTimed'
<1>1. CASE \E c \in Clients : CreateFileCommits(c)
  <2>1. PICK c \in Clients : CreateFileCommits(c)
    BY <1>1
  <2>2. PICK u : u = pending[c]
    OBVIOUS
  <2>3. PICK row : row = RowFor(u)
    OBVIOUS
  <2>4. row \in Row
    BY <2>1, <2>2, <2>3, CommitEffect
  <2>5. ExpiresAt(row) \in Nat
    BY <2>4 DEF ExpiresAt, Row
  <2>6. idxttls' = idxttls \/ idxttls' = AddExpiry(ExpiresAt(row), u.sig)
    BY <2>1, <2>2, <2>3 DEF CreateFileCommits
  <2> QED BY <2>5, <2>6, AddExpiryTimed DEF EntriesTimed
<1>2. CASE UNCHANGED idxttls
  BY <1>2 DEF EntriesTimed
<1> QED
  BY <1>1, <1>2
  DEF Next, vars, durable, Start, StartInterrupted, StartReset, Crash, Tick,
      BeginCreateFile, CreateFileRename, FinishCreateFile, CreateFileUnchanged,
      CreateFileFails, DeleteFile, UpdateReplica, SynchronizeReplicas,
      UpdateFileReplica

-----------------------------------------------------------------------------
LEMMA InitTTLInv == TTLInit => TTLInv
<1> SUFFICES ASSUME TTLInit PROVE TTLInv
  OBVIOUS
<1>1. Init
  BY DEF TTLInit
<1>2. NeverUndercounts
  <2>1. DOMAIN files = {} /\ used = 0
    BY <1>1 DEF Init, Empty
  <2> QED BY <2>1, SumOfSigs DEF NeverUndercounts, StoredBytes, Sum
<1>3. EntriesTimed
  BY <1>1 DEF Init, EntriesTimed
<1> QED BY <1>1, <1>2, <1>3, InitSerialInv, InitFits DEF TTLInv

LEMMA SweepTTLInv ==
  ASSUME TTLInv, Sweep PROVE TTLInv'
<1>1. /\ ExpireTTL /\ KeepsUploads
      /\ UNCHANGED <<total, idxttls, pending>>
  BY DEF Sweep, ExpireTTL
<1>2. IInv'
  BY <1>1, SweepIInv
<1>3. /\ DOMAIN files' = DOMAIN files \ Due
      /\ used' = used - Sum(Due)
      /\ blobs \ Due \subseteq blobs'
  BY <1>1, SweepEffect
<1>4. ContentPresent' /\ PendingPresent'
  BY <1>1, <1>3
  DEF TTLInv, SerialInv, ContentPresent, KeepsUploads, PendingPresent
<1>5. /\ used \in Int /\ total \in Nat /\ Due \in SUBSET (DOMAIN files)
      /\ DOMAIN files \in SUBSET Sigs
      /\ Sum(DOMAIN files) <= used /\ used <= total
  BY DueFinite DEF TTLInv, SerialInv, IInv, TypeOK, IsTable, NeverUndercounts,
                   StoredBytes, Sum, Fits
<1>6. Sum(DOMAIN files) = Sum(Due) + Sum(DOMAIN files \ Due)
  BY <1>5, SumSplits
<1>7. /\ Sum(Due) \in Int /\ 0 <= Sum(Due) /\ Sum(DOMAIN files) \in Int
      /\ Sum(DOMAIN files \ Due) \in Int
  BY <1>5, SumOfSigs
<1>8. Sum(DOMAIN files') <= used' /\ used' <= total'
  BY <1>1, <1>3, <1>5, <1>6, <1>7
<1>9. EntriesTimed'
  BY <1>1 DEF TTLInv, EntriesTimed
<1> QED
  BY <1>2, <1>4, <1>8, <1>9
  DEF TTLInv, SerialInv, NeverUndercounts, StoredBytes, Sum, Fits

LEMMA NextTTLInv ==
  TTLInv /\ [TTLNext]_ttlvars /\ [total <= total']_vars => TTLInv'
<1> SUFFICES ASSUME TTLInv, [TTLNext]_ttlvars, [total <= total']_vars
             PROVE  TTLInv'
  OBVIOUS
<1>1. CASE Sweep
  BY <1>1, SweepTTLInv
<1>2. CASE [SerialNext]_vars
  <2>1. /\ SerialInv /\ IInv /\ NeverUndercounts /\ Fits /\ EntriesTimed
        /\ [Next]_vars /\ total \in Nat
    BY <1>2 DEF TTLInv, SerialInv, SerialNext, IInv, TypeOK
  <2>2. total <= total'
    BY <2>1 DEF vars
  <2>3. SerialInv'
    BY <1>2, <2>1, NextSerialInv
  <2> QED BY <2>1, <2>2, <2>3, NextCounts, NextFits, NextTimed DEF TTLInv
<1> QED BY <1>1, <1>2 DEF TTLNext, OtherStep, ttlvars

(* The inductive invariant, of a volume whose uploads are not disturbed    *)
(* and which no start gives less room than the one before: otherwise a     *)
(* deletion of the sweep may fail and leave a key without a row.           *)
THEOREM TTLInductive == TTLSpec /\ NeverShrinks => []TTLInv
<1> QED BY InitTTLInv, NextTTLInv, PTL DEF TTLSpec, NeverShrinks

(* The two tables of keys still agree whatever a sweep deletes. *)
THEOREM SweptIndexConsistent ==
  TTLSpec /\ NeverShrinks => []IndexConsistent
<1>1. TTLInv => IndexConsistent
  BY DEF TTLInv, SerialInv, IInv
<1> QED BY <1>1, TTLInductive, PTL

(* A sweep of any number of contents gives each size back once. *)
THEOREM SweptNeverCountsLess ==
  TTLSpec /\ NeverShrinks => []NeverUndercounts
<1>1. TTLInv => NeverUndercounts
  BY DEF TTLInv
<1> QED BY <1>1, TTLInductive, PTL

(* A content is due to the sweep exactly when an entry says it expired     *)
(* within the last day: the entries under the zero time are out of reach.  *)
LEMMA DueIsOverdue ==
  ASSUME TTLInv, up, now \in Nat, NEW s \in DOMAIN files
  PROVE  s \in Due <=> Overdue(s)
<1>1. s \in Due <=> \E p \in idxttls : p[2] = s /\ InReach(p[1])
  BY DEF Due
<1>2. ASSUME NEW p \in idxttls, p[2] = s, InReach(p[1]) PROVE Overdue(s)
  <2>1. p[1] \in Nat
    BY <1>2 DEF InReach, TTLInv, EntriesTimed
  <2>2. p = <<p[1], s>>
    BY <1>2 DEF TTLInv, SerialInv, IInv, TypeOK
  <2>3. p[1] \in 0..now /\ p[1] + Day >= now
    BY <1>2, <2>1, DayAssumption DEF InReach
  <2> QED BY <2>2, <2>3 DEF Overdue
<1>3. ASSUME Overdue(s) PROVE \E p \in idxttls : p[2] = s /\ InReach(p[1])
  <2>1. PICK t \in 0..now : <<t, s>> \in idxttls /\ t + Day >= now
    BY <1>3 DEF Overdue
  <2>2. InReach(t)
    BY <2>1, DayAssumption DEF InReach, ZeroTime
  <2> QED BY <2>1, <2>2
<1> QED BY <1>1, <1>2, <1>3

(* A sweep takes from the readers all the keys of what is overdue and no   *)
(* other, whatever contents share, expire together or come back.           *)
THEOREM SweepTakesJustOverdue ==
  TTLSpec /\ NeverShrinks => SweepTakesOverdue
<1> DEFINE Takes ==
      \A k \in DOMAIN idxkeys :
        IF Overdue(idxkeys[k]) THEN k \notin DOMAIN idxkeys'
        ELSE GetFile(k)' = GetFile(k)
<1>1. ASSUME TTLInv, ExpireTTL PROVE Takes
  <2>1. SUFFICES ASSUME NEW k \in DOMAIN idxkeys
                 PROVE  IF Overdue(idxkeys[k]) THEN k \notin DOMAIN idxkeys'
                        ELSE GetFile(k)' = GetFile(k)
    OBVIOUS
  <2>2. PICK s : s = idxkeys[k]
    OBVIOUS
  <2>3. /\ SerialInv /\ IInv /\ up /\ now \in Nat /\ s \in Sigs /\ k \in Keys
    BY <1>1, <2>2 DEF TTLInv, SerialInv, IInv, TypeOK, IsTable, ExpireTTL
  <2>4. s \in DOMAIN files /\ s \in blobs
    BY <2>2, <2>3 DEF IInv, IndexConsistent, SerialInv, ContentPresent
  <2>5. s \in Due <=> Overdue(s)
    BY <1>1, <2>3, <2>4, DueIsOverdue
  <2>6. /\ DOMAIN idxkeys' = {n \in DOMAIN idxkeys : idxkeys[n] \notin Due}
        /\ \A n \in DOMAIN idxkeys' : idxkeys'[n] = idxkeys[n]
        /\ blobs \ Due \subseteq blobs'
    BY <1>1, SweepEffect
  <2>7. CASE s \in Due
    BY <2>2, <2>5, <2>6, <2>7
  <2>8. CASE s \notin Due
    <3>1. k \in DOMAIN idxkeys' /\ idxkeys'[k] = s /\ s \in blobs'
      BY <2>2, <2>4, <2>6, <2>8
    <3>2. GetFile(k) = s /\ GetFile(k)' = s
      BY <2>2, <2>4, <3>1 DEF GetFile, Readable, HasFile
    <3> QED BY <2>2, <2>5, <2>8, <3>2
  <2> QED BY <2>7, <2>8
<1>2. TTLInv /\ [TTLNext]_ttlvars => [ExpireTTL => Takes]_ttlvars
  BY <1>1
<1> QED
  BY <1>2, TTLInductive, PTL DEF TTLSpec, SweepTakesOverdue

(* A sweep of one content removes it from its path: the Remove that is     *)
(* both the first and the last is not undone.                              *)
THEOREM SweptAloneIsGone == TTLSpec => SweptAloneGoes
<1>1. ASSUME ExpireTTL, Cardinality(Due) = 1 PROVE blobs' \cap Due = {}
  <2>1. PICK o \in DueOrders : blobs' = (blobs \ Due) \cup ComesBack(o)
    BY <1>1 DEF ExpireTTL
  <2>2. o \in [1..1 -> Due]
    BY <1>1, <2>1 DEF DueOrders, SetToSeqs
  <2>3. DOMAIN o = 1..1 /\ Len(o) = 1
    BY <2>2
  <2>4. SliceIsFull(Len(o) - 1)
    BY <2>3 DEF SliceIsFull
  <2>5. ComesBack(o) = {}
    BY <2>3, <2>4 DEF ComesBack
  <2> QED BY <2>1, <2>5
<1>2. [TTLNext]_ttlvars
        => [ExpireTTL /\ Cardinality(Due) = 1 => blobs' \cap Due = {}]_ttlvars
  BY <1>1
<1> QED BY <1>2, PTL DEF TTLSpec, SweptAloneGoes
=============================================================================
