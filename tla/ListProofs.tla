----------------------------- MODULE ListProofs -----------------------------
(* What the operators of Lists give, for lists of any length, and what a   *)
(* sum over a finite set is.                                               *)
EXTENDS Lists, Functions, SequenceTheorems, FiniteSetTheorems, TLAPS

(* Induction over the naturals, stated with a set so that it can be cited: *)
(* a set with 0 that is closed under successor holds every natural.        *)
LEMMA NatSetInduction ==
  ASSUME NEW T, 0 \in T, \A n \in Nat : n \in T => n + 1 \in T
  PROVE  Nat \subseteq T
<1> DEFINE B == {n \in Nat : n \notin T}
<1>1. SUFFICES ASSUME B # {} PROVE FALSE
  OBVIOUS
<1>2. PICK x \in B : \A y \in B : ~(<<y, x>> \in OpToRel(<, Nat))
  BY <1>1, WFMin, NatLessThanWellFounded
<1>3. \A y \in B : ~(y < x)
  BY <1>2 DEF OpToRel
<1>4. x # 0 /\ x - 1 \in Nat /\ x - 1 < x
  OBVIOUS
<1>5. x - 1 \in T
  BY <1>3, <1>4
<1>6. x \in T
  BY <1>4, <1>5
<1> QED BY <1>6

(* DeleteVolumeID goes over the list from its first volume to its last, and *)
(* keeps those that are not v: kept[n] is what it has after n of them.      *)
Keeps(kept, S, vids, v) ==
  /\ kept[0] = <<>>
  /\ \A n \in 0..Len(vids) : kept[n] \in Seq(S)
  /\ \A n \in 1..Len(vids) :
       kept[n] = IF vids[n] = v THEN kept[n - 1] ELSE Append(kept[n - 1], vids[n])
  /\ DeleteVolumeID(vids, v) = kept[Len(vids)]

LEMMA DeleteVolumeIDKeeps ==
  ASSUME NEW S, NEW vids \in Seq(S), NEW v
  PROVE  \E kept : Keeps(kept, S, vids, v)
<1> DEFINE L == Len(vids)
           Step(x, n) == IF vids[n] = v THEN x ELSE Append(x, vids[n])
           Upto(f, n) == /\ f[0] = <<>>
                         /\ \A i \in 1..n : f[i] = Step(f[i - 1], i)
           Lists == Seq(S)
           T == {n \in Nat : n <= L => \E f \in [0..n -> Lists] : Upto(f, n)}
           kept == CHOOSE g : g = [n \in 0..L |->
                     IF n = 0 THEN <<>>
                     ELSE IF vids[n] = v THEN g[n - 1]
                     ELSE Append(g[n - 1], vids[n])]
<1>0. L \in Nat
  BY LenProperties
<1>1. 0 \in T
  <2> DEFINE h == [i \in 0..0 |-> <<>>]
  <2>1. h \in [0..0 -> Lists] /\ h[0] = <<>>
    OBVIOUS
  <2>2. \A i \in 1..0 : h[i] = Step(h[i - 1], i)
    OBVIOUS
  <2> HIDE DEF h
  <2>3. \E f \in [0..0 -> Lists] : Upto(f, 0)
    BY <2>1, <2>2, Zenon
  <2> QED BY <2>3, Zenon
<1>2. ASSUME NEW n \in Nat, n \in T PROVE n + 1 \in T
  <2>0. n + 1 \in Nat
    OBVIOUS
  <2>1. SUFFICES ASSUME n + 1 <= L
                 PROVE  \E f \in [0..n + 1 -> Lists] : Upto(f, n + 1)
    BY <2>0, Zenon
  <2>a. n <= L
    BY <1>0, <2>1
  <2>2. PICK f \in [0..n -> Lists] : Upto(f, n)
    BY <1>2, <2>a, Zenon
  <2> DEFINE h == [i \in 0..n + 1 |-> IF i = n + 1 THEN Step(f[n], n + 1) ELSE f[i]]
  <2>3. vids[n + 1] \in S
    BY <1>0, <2>1, ElementOfSeq
  <2>4. Step(f[n], n + 1) \in Lists
    BY <2>3
  <2>5. h \in [0..n + 1 -> Lists]
    BY <2>4
  <2>6. h[0] = <<>>
    BY <2>2
  <2>7. ASSUME NEW i \in 1..n + 1 PROVE h[i] = Step(h[i - 1], i)
    <3>1. CASE i = n + 1
      <4>1. h[i] = Step(f[n], i) /\ h[n] = f[n] /\ i - 1 = n
        BY <3>1
      <4> HIDE DEF h
      <4> QED BY <4>1
    <3>2. CASE i # n + 1
      <4>1. i \in 1..n /\ h[i] = f[i] /\ h[i - 1] = f[i - 1]
        BY <3>2
      <4>2. f[i] = Step(f[i - 1], i)
        BY <2>2, <4>1
      <4> HIDE DEF h
      <4> QED BY <4>1, <4>2
    <3> QED BY <3>1, <3>2
  <2> HIDE DEF h
  <2> QED BY <2>5, <2>6, <2>7, Zenon
<1>3. L \in T
  <2> HIDE DEF T
  <2> QED BY <1>0, <1>1, <1>2, NatSetInduction
<1>4. PICK f \in [0..L -> Lists] : Upto(f, L)
  BY <1>3, <1>0
<1>5. f = [n \in 0..L |-> IF n = 0 THEN <<>>
                          ELSE IF vids[n] = v THEN f[n - 1]
                          ELSE Append(f[n - 1], vids[n])]
  <2>1. f = [n \in 0..L |-> f[n]] /\ f[0] = <<>>
    BY <1>4
  <2>2. ASSUME NEW n \in 0..L, n # 0
        PROVE  f[n] = IF vids[n] = v THEN f[n - 1] ELSE Append(f[n - 1], vids[n])
    <3>1. n \in 1..L
      BY <1>0, <2>2
    <3>2. f[n] = Step(f[n - 1], n)
      BY <1>4, <3>1, Zenon
    <3> QED BY <3>2
  <2> QED BY <2>1, <2>2
<1>6. kept = [n \in 0..L |-> IF n = 0 THEN <<>>
                            ELSE IF vids[n] = v THEN kept[n - 1]
                            ELSE Append(kept[n - 1], vids[n])]
  BY <1>5
<1>7. DeleteVolumeID(vids, v) = kept[L]
  BY DEF DeleteVolumeID
<1> HIDE DEF kept
<1> DEFINE G == {n \in Nat : n <= L => kept[n] \in Lists}
<1>8. 0 \in G /\ kept[0] = <<>>
  BY <1>0, <1>6
<1>9. ASSUME NEW n \in 1..L
      PROVE  kept[n] = IF vids[n] = v THEN kept[n - 1] ELSE Append(kept[n - 1], vids[n])
  <2>1. n \in 0..L /\ n # 0
    BY <1>0
  <2> QED BY <1>6, <2>1
<1>10. ASSUME NEW n \in Nat, n \in G PROVE n + 1 \in G
  <2>1. SUFFICES ASSUME n + 1 <= L PROVE kept[n + 1] \in Lists
    OBVIOUS
  <2>2. n + 1 \in 1..L /\ (n + 1) - 1 = n /\ kept[n] \in Lists
    BY <1>0, <1>10, <2>1
  <2>3. vids[n + 1] \in S
    BY <1>0, <2>2, ElementOfSeq
  <2>4. kept[n + 1] = IF vids[n + 1] = v THEN kept[n] ELSE Append(kept[n], vids[n + 1])
    BY <1>9, <2>2
  <2> QED BY <2>2, <2>3, <2>4
<1>11. Nat \subseteq G
  <2> HIDE DEF G
  <2> QED BY <1>8, <1>10, NatSetInduction
<1>12. \A n \in 0..L : kept[n] \in Lists
  BY <1>0, <1>11
<1>13. Keeps(kept, S, vids, v)
  BY <1>7, <1>8, <1>9, <1>12 DEF Keeps
<1> QED
  BY <1>13

(* DeleteVolumeID gives a list of the volumes it was given, without v.     *)
LEMMA DeleteVolumeIDType ==
  ASSUME NEW S, NEW vids \in Seq(S), NEW v
  PROVE  /\ DeleteVolumeID(vids, v) \in Seq(S)
         /\ v \notin ElemsOf(DeleteVolumeID(vids, v))
<1> DEFINE L == Len(vids)
           Good(x) == x \in Seq(S) /\ \A j \in 1..Len(x) : x[j] # v
<1>0. L \in Nat
  BY LenProperties
<1>a. PICK kept : Keeps(kept, S, vids, v)
  BY DeleteVolumeIDKeeps
<1>1. /\ kept[0] = <<>>
      /\ \A n \in 0..L : kept[n] \in Seq(S)
      /\ \A n \in 1..L : kept[n] = IF vids[n] = v THEN kept[n - 1]
                                    ELSE Append(kept[n - 1], vids[n])
      /\ DeleteVolumeID(vids, v) = kept[L]
  BY <1>a DEF Keeps
<1> DEFINE G == {n \in Nat : n <= L => Good(kept[n])}
<1>2. 0 \in G
  BY <1>0, <1>1
<1>3. ASSUME NEW n \in Nat, n \in G PROVE n + 1 \in G
  <2>0. n + 1 \in Nat
    OBVIOUS
  <2>1. SUFFICES ASSUME n + 1 <= L PROVE Good(kept[n + 1])
    BY <2>0, Zenon
  <2>2. Good(kept[n])
    <3>1. n <= L
      BY <1>0, <2>1
    <3> HIDE DEF Good
    <3> QED BY <1>3, <3>1, Zenon
  <2>3. vids[n + 1] \in S
    BY <1>0, <2>1, ElementOfSeq
  <2>4. kept[n + 1] = IF vids[n + 1] = v THEN kept[n] ELSE Append(kept[n], vids[n + 1])
    <3>1. n + 1 \in 1..L /\ (n + 1) - 1 = n
      BY <1>0, <2>1
    <3> QED BY <1>1, <3>1
  <2> QED BY <2>2, <2>3, <2>4
<1>4. L \in G
  <2> HIDE DEF G
  <2> QED BY <1>0, <1>2, <1>3, NatSetInduction
<1> QED
  BY <1>0, <1>1, <1>4 DEF ElemsOf

(* l is vids without its volume at place i, if it has that place.          *)
Without(l, vids, i) ==
  /\ i <= Len(vids) => Len(l) = Len(vids) - 1
  /\ i > Len(vids) => Len(l) = Len(vids)
  /\ \A j \in 1..Len(l) : j < i => l[j] = vids[j]
  /\ \A j \in 1..Len(l) : j >= i => l[j] = vids[j + 1]

(* From a list that has v at most once, at place i (after its end when it   *)
(* has no v), DeleteVolumeID takes the volume at i.                        *)
LEMMA DeleteVolumeIDAt ==
  ASSUME NEW S, NEW vids \in Seq(S), NEW v, NEW i \in Nat, 1 <= i,
         i <= Len(vids) + 1, \A j \in 1..Len(vids) : vids[j] = v <=> j = i
  PROVE  /\ DeleteVolumeID(vids, v) \in Seq(S)
         /\ Without(DeleteVolumeID(vids, v), vids, i)
<1> DEFINE L == Len(vids)
           Good(x, n) == /\ Len(x) = IF i <= n THEN n - 1 ELSE n
                         /\ \A j \in 1..Len(x) : x[j] = IF j < i THEN vids[j] ELSE vids[j + 1]
<1>0. L \in Nat
  BY LenProperties
<1>a. PICK kept : Keeps(kept, S, vids, v)
  BY DeleteVolumeIDKeeps
<1>1. /\ kept[0] = <<>>
      /\ \A n \in 0..L : kept[n] \in Seq(S)
      /\ \A n \in 1..L : kept[n] = IF vids[n] = v THEN kept[n - 1]
                                    ELSE Append(kept[n - 1], vids[n])
      /\ DeleteVolumeID(vids, v) = kept[L]
  BY <1>a DEF Keeps
<1> DEFINE G == {n \in Nat : n <= L => Good(kept[n], n)}
<1>2. 0 \in G
  BY <1>0, <1>1
<1>3. ASSUME NEW n \in Nat, n \in G PROVE n + 1 \in G
  <2>0. n + 1 \in Nat
    OBVIOUS
  <2>1. SUFFICES ASSUME n + 1 <= L PROVE Good(kept[n + 1], n + 1)
    BY <2>0, Zenon
  <2>2. Good(kept[n], n)
    <3>1. n <= L
      BY <1>0, <2>1
    <3> HIDE DEF Good
    <3> QED BY <1>3, <3>1, Zenon
  <2>3. vids[n + 1] \in S /\ kept[n] \in Seq(S)
    BY <1>0, <1>1, <2>1, ElementOfSeq
  <2>4. kept[n + 1] = IF vids[n + 1] = v THEN kept[n] ELSE Append(kept[n], vids[n + 1])
    <3>1. n + 1 \in 1..L /\ (n + 1) - 1 = n
      BY <1>0, <2>1
    <3> QED BY <1>1, <3>1
  <2>5. vids[n + 1] = v <=> n + 1 = i
    BY <1>0, <2>1
  <2>6. CASE n + 1 = i
    BY <2>2, <2>3, <2>4, <2>5, <2>6
  <2>7. CASE n + 1 # i
    <3>1. kept[n + 1] = Append(kept[n], vids[n + 1])
      BY <2>4, <2>5, <2>7
    <3>2. PICK M \in Nat : M = Len(kept[n])
      BY <2>3, LenProperties
    <3>3. /\ Len(kept[n + 1]) = M + 1
          /\ kept[n + 1][M + 1] = vids[n + 1]
          /\ \A j \in 1..M : kept[n + 1][j] = kept[n][j]
      BY <2>3, <3>1, <3>2, AppendProperties
    <3>4. /\ M = IF i <= n THEN n - 1 ELSE n
          /\ \A j \in 1..M : kept[n][j] = IF j < i THEN vids[j] ELSE vids[j + 1]
      BY <2>2, <3>2
    <3>5. ASSUME NEW j \in 1..(M + 1)
          PROVE  kept[n + 1][j] = IF j < i THEN vids[j] ELSE vids[j + 1]
      <4>1. CASE j \in 1..M
        BY <3>3, <3>4, <4>1
      <4>2. CASE j = M + 1
        <5>1. CASE i <= n
          <6>1. M = n - 1 /\ j = n /\ ~(j < i) /\ j + 1 = n + 1
            BY <3>4, <4>2, <5>1
          <6> QED BY <3>3, <4>2, <6>1
        <5>2. CASE n + 1 < i
          <6>1. M = n /\ j = n + 1 /\ j < i
            BY <3>4, <4>2, <5>2
          <6> QED BY <3>3, <4>2, <6>1
        <5> QED BY <2>7, <5>1, <5>2
      <4> QED BY <4>1, <4>2
    <3>6. M + 1 = IF i <= n + 1 THEN (n + 1) - 1 ELSE n + 1
      BY <2>7, <3>4
    <3> QED BY <3>3, <3>5, <3>6
  <2> QED BY <2>6, <2>7
<1>4. L \in G
  <2> HIDE DEF G
  <2> QED BY <1>0, <1>2, <1>3, NatSetInduction
<1>5. PICK l : l = kept[L] /\ l = DeleteVolumeID(vids, v)
  BY <1>1
<1>6. l \in Seq(S) /\ Good(l, L)
  BY <1>0, <1>1, <1>4, <1>5
<1>7. Without(l, vids, i)
  <2>1. PICK M \in Nat, N \in Nat : M = Len(l) /\ N = L
    BY <1>0, <1>6, LenProperties
  <2>2. /\ M = IF i <= N THEN N - 1 ELSE N
        /\ \A j \in 1..M : l[j] = IF j < i THEN vids[j] ELSE vids[j + 1]
    BY <1>6, <2>1
  <2>3. /\ \A j \in 1..M : j < i => l[j] = vids[j]
        /\ \A j \in 1..M : j >= i => l[j] = vids[j + 1]
    BY <2>2
  <2>4. (i <= N => M = N - 1) /\ (i > N => M = N)
    BY <2>2
  <2> QED BY <2>1, <2>3, <2>4 DEF Without
<1> QED
  BY <1>5, <1>6, <1>7

(* What is left of a list without repetitions has none, and begins with    *)
(* what is left of its beginning.                                          *)
LEMMA WithoutFront ==
  ASSUME NEW S, NEW vids \in Seq(S), NEW l \in Seq(S), NEW N \in Nat, NEW M \in Nat,
         N = Len(vids), M = Len(l), N > 0, IsInjective(vids),
         NEW i \in Nat, 1 <= i, i <= N + 1, Without(l, vids, i)
  PROVE  /\ IsInjective(l)
         /\ i # 1 => M > 0 /\ l[1] = vids[1]
         /\ i # 1 /\ N > 1 /\ i # 2 => M > 1 /\ l[2] = vids[2]
         /\ i = 1 /\ N > 1 => M > 0 /\ l[1] = vids[2]
<1>1. /\ i <= N => M = N - 1
      /\ i > N => M = N
      /\ \A j \in 1..M : j < i => l[j] = vids[j]
      /\ \A j \in 1..M : j >= i => l[j] = vids[j + 1]
  BY DEF Without
<1>2. IsInjective(l)
  <2>1. DOMAIN l = 1..M /\ DOMAIN vids = 1..N
    BY LenProperties
  <2>2. SUFFICES ASSUME NEW a \in 1..M, NEW b \in 1..M, l[a] = l[b] PROVE a = b
    BY <2>1 DEF IsInjective
  <2>3. \A x, y \in 1..N : vids[x] = vids[y] => x = y
    BY <2>1 DEF IsInjective
  <2>4. CASE a < i /\ b < i
    <3>1. a \in 1..N /\ b \in 1..N
      BY <1>1
    <3> QED BY <1>1, <2>2, <2>3, <2>4, <3>1
  <2>5. CASE a < i /\ b >= i
    <3>1. a \in 1..N /\ b + 1 \in 1..N
      BY <1>1, <2>5
    <3>2. vids[a] = vids[b + 1]
      BY <1>1, <2>2, <2>5
    <3>3. a = b + 1
      BY <2>3, <3>1, <3>2
    <3> QED BY <2>5, <3>3
  <2>6. CASE a >= i /\ b < i
    <3>1. a + 1 \in 1..N /\ b \in 1..N
      BY <1>1, <2>6
    <3>2. vids[a + 1] = vids[b]
      BY <1>1, <2>2, <2>6
    <3>3. a + 1 = b
      BY <2>3, <3>1, <3>2
    <3> QED BY <2>6, <3>3
  <2>7. CASE a >= i /\ b >= i
    <3>1. a + 1 \in 1..N /\ b + 1 \in 1..N
      BY <1>1, <2>7
    <3>2. vids[a + 1] = vids[b + 1]
      BY <1>1, <2>2, <2>7
    <3>3. a + 1 = b + 1
      BY <2>3, <3>1, <3>2
    <3> QED BY <3>3
  <2> QED BY <2>4, <2>5, <2>6, <2>7
<1>3. i # 1 => M > 0 /\ l[1] = vids[1]
  BY <1>1
<1>4. i # 1 /\ N > 1 /\ i # 2 => M > 1 /\ l[2] = vids[2]
  BY <1>1
<1>5. i = 1 /\ N > 1 => M > 0 /\ l[1] = vids[2]
  BY <1>1
<1> QED BY <1>2, <1>3, <1>4, <1>5

LEMMA DeleteVolumeIDFront ==
  ASSUME NEW S, NEW vids \in Seq(S), NEW v, IsInjective(vids), Len(vids) > 0
  PROVE  LET l == DeleteVolumeID(vids, v) IN
         /\ l \in Seq(S) /\ IsInjective(l)
         /\ vids[1] # v => Len(l) > 0 /\ l[1] = vids[1]
         /\ vids[1] # v /\ Len(vids) > 1 /\ vids[2] # v => Len(l) > 1 /\ l[2] = vids[2]
         /\ vids[1] = v /\ Len(vids) > 1 => Len(l) > 0 /\ l[1] = vids[2]
<1>1. PICK N \in Nat : N = Len(vids) /\ N > 0 /\ DOMAIN vids = 1..N
  BY LenProperties
<1>2. PICK i \in Nat : /\ 1 <= i /\ i <= N + 1
                       /\ \A j \in 1..N : vids[j] = v <=> j = i
  <2>1. CASE \E i \in 1..N : vids[i] = v
    BY <1>1, <2>1 DEF IsInjective
  <2>2. CASE \A i \in 1..N : vids[i] # v
    <3>1. N + 1 \in Nat /\ \A j \in 1..N : vids[j] = v <=> j = N + 1
      BY <2>2
    <3> QED BY <3>1
  <2> QED BY <2>1, <2>2
<1>3. PICK l : l = DeleteVolumeID(vids, v)
  OBVIOUS
<1>4. l \in Seq(S) /\ Without(l, vids, i)
  BY <1>1, <1>2, <1>3, DeleteVolumeIDAt
<1>5. PICK M \in Nat : M = Len(l)
  BY <1>4, LenProperties
<1>6. /\ IsInjective(l)
      /\ i # 1 => M > 0 /\ l[1] = vids[1]
      /\ i # 1 /\ N > 1 /\ i # 2 => M > 1 /\ l[2] = vids[2]
      /\ i = 1 /\ N > 1 => M > 0 /\ l[1] = vids[2]
  BY <1>1, <1>2, <1>4, <1>5, WithoutFront
<1>7. (vids[1] = v <=> i = 1) /\ (N > 1 => (vids[2] = v <=> i = 2))
  BY <1>1, <1>2
<1> QED BY <1>1, <1>3, <1>4, <1>5, <1>6, <1>7

(* A list without repetitions stays so when it gets a volume it lacks.     *)
LEMMA AppendFront ==
  ASSUME NEW S, NEW l \in Seq(S), NEW e \in S, IsInjective(l), e \notin ElemsOf(l)
  PROVE  /\ Append(l, e) \in Seq(S) /\ IsInjective(Append(l, e))
         /\ Len(Append(l, e)) = Len(l) + 1 /\ Append(l, e)[Len(l) + 1] = e
         /\ \A i \in 1..Len(l) : Append(l, e)[i] = l[i]
<1>1. /\ Append(l, e) \in Seq(S) /\ Len(l) \in Nat
      /\ Len(Append(l, e)) = Len(l) + 1 /\ Append(l, e)[Len(l) + 1] = e
      /\ \A i \in 1..Len(l) : Append(l, e)[i] = l[i]
      /\ DOMAIN l = 1..Len(l) /\ DOMAIN Append(l, e) = 1..Len(l) + 1
  OBVIOUS
<1>2. \A i \in 1..Len(l) : l[i] # e
  BY <1>1 DEF ElemsOf
<1>3. IsInjective(Append(l, e))
  BY <1>1, <1>2 DEF IsInjective
<1> QED BY <1>1, <1>3

(* The volumes that stay were there. *)
LEMMA DeleteVolumeIDElems ==
  ASSUME NEW S, NEW vids \in Seq(S), NEW v
  PROVE  ElemsOf(DeleteVolumeID(vids, v)) \subseteq ElemsOf(vids)
<1> DEFINE E == ElemsOf(vids)
<1>1. vids \in Seq(E)
  BY DEF ElemsOf
<1> HIDE DEF E
<1>2. DeleteVolumeID(vids, v) \in Seq(E)
  BY <1>1, DeleteVolumeIDType
<1>3. ElemsOf(DeleteVolumeID(vids, v)) \subseteq E
  BY <1>2 DEF ElemsOf
<1>4. QED
  BY <1>3 DEF E

(* A list after another has the elements of both. *)
LEMMA ConcatElems ==
  ASSUME NEW S, NEW a \in Seq(S), NEW b \in Seq(S)
  PROVE  /\ a \o b \in Seq(S)
         /\ a # <<>> => a \o b # <<>>
         /\ ElemsOf(a \o b) \subseteq ElemsOf(a) \cup ElemsOf(b)
<1>1. /\ a \o b \in Seq(S) /\ Len(a) \in Nat /\ Len(b) \in Nat
      /\ Len(a \o b) = Len(a) + Len(b)
      /\ \A i \in 1..Len(a) + Len(b) :
           (a \o b)[i] = IF i <= Len(a) THEN a[i] ELSE b[i - Len(a)]
  BY ConcatProperties, LenProperties
<1>2. ASSUME NEW x \in ElemsOf(a \o b) PROVE x \in ElemsOf(a) \cup ElemsOf(b)
  <2>1. PICK i \in 1..Len(a) + Len(b) : x = (a \o b)[i]
    BY <1>1 DEF ElemsOf
  <2>2. CASE i <= Len(a)
    <3>1. i \in DOMAIN a /\ x = a[i]
      BY <1>1, <2>1, <2>2
    <3>2. QED
      BY <3>1 DEF ElemsOf
  <2>3. CASE ~(i <= Len(a))
    <3>1. i - Len(a) \in DOMAIN b /\ x = b[i - Len(a)]
      BY <1>1, <2>1, <2>3
    <3>2. QED
      BY <3>1 DEF ElemsOf
  <2>4. QED
    BY <2>2, <2>3
<1>3. a # <<>> => a \o b # <<>>
  BY <1>1
<1>4. QED
  BY <1>1, <1>2, <1>3

(* A list has no more elements than entries. *)
LEMMA ElemsBound ==
  ASSUME NEW S, NEW l \in Seq(S)
  PROVE  Cardinality(ElemsOf(l)) \in Nat /\ Cardinality(ElemsOf(l)) <= Len(l)
<1>1. Len(l) \in Nat /\ DOMAIN l = 1..Len(l)
  BY LenProperties
<1>2. IsFiniteSet(1..Len(l)) /\ Cardinality(1..Len(l)) = Len(l)
  <2>1. /\ IsFiniteSet(1..Len(l))
        /\ Cardinality(1..Len(l)) = IF 1 > Len(l) THEN 0 ELSE Len(l) - 1 + 1
    BY <1>1, FS_Interval
  <2> QED BY <1>1, <2>1
<1>3. l \in Surjection(1..Len(l), ElemsOf(l))
  <2>1. l \in [1..Len(l) -> ElemsOf(l)]
    BY <1>1 DEF ElemsOf
  <2> QED BY <1>1, <2>1 DEF ElemsOf, Surjection
<1>4. /\ IsFiniteSet(ElemsOf(l))
      /\ Cardinality(ElemsOf(l)) <= Cardinality(1..Len(l))
  BY <1>2, <1>3, FS_Surjection
<1> QED BY <1>2, <1>4, FS_CardinalityType

(* Append adds its element to those of the list. *)
LEMMA AppendElems ==
  ASSUME NEW S, NEW l \in Seq(S), NEW e \in S
  PROVE  /\ Append(l, e) \in Seq(S)
         /\ ElemsOf(Append(l, e)) = ElemsOf(l) \cup {e}
<1>1. /\ Append(l, e) \in Seq(S)
      /\ Len(l) \in Nat /\ Len(Append(l, e)) = Len(l) + 1
      /\ Append(l, e)[Len(l) + 1] = e
      /\ \A i \in 1..Len(l) : Append(l, e)[i] = l[i]
      /\ DOMAIN l = 1..Len(l) /\ DOMAIN Append(l, e) = 1..Len(l) + 1
  BY AppendProperties, LenProperties
<1>2. ASSUME NEW x \in ElemsOf(Append(l, e)) PROVE x \in ElemsOf(l) \cup {e}
  <2>1. PICK i \in 1..Len(l) + 1 : x = Append(l, e)[i]
    BY <1>1 DEF ElemsOf
  <2>2. i \in 1..Len(l) \/ i = Len(l) + 1
    BY <1>1
  <2> QED BY <1>1, <2>1, <2>2 DEF ElemsOf
<1>3. ASSUME NEW x \in ElemsOf(l) PROVE x \in ElemsOf(Append(l, e))
  <2>1. PICK i \in 1..Len(l) : x = l[i]
    BY <1>1 DEF ElemsOf
  <2>2. i \in 1..Len(l) + 1
    BY <1>1
  <2> QED BY <1>1, <2>1, <2>2 DEF ElemsOf
<1>4. e \in ElemsOf(Append(l, e))
  <2>1. Len(l) + 1 \in 1..Len(l) + 1
    BY <1>1
  <2> QED BY <1>1, <2>1 DEF ElemsOf
<1> QED BY <1>1, <1>2, <1>3, <1>4

-----------------------------------------------------------------------------
(* Tables. *)

LEMMA PutTable ==
  ASSUME NEW D, NEW R, NEW t, IsTable(t, D, R), NEW x \in D, NEW v \in R
  PROVE  /\ IsTable(Put(t, x, v), D, R)
         /\ DOMAIN Put(t, x, v) = DOMAIN t \cup {x}
         /\ Put(t, x, v)[x] = v
         /\ \A y \in DOMAIN t : y # x => Put(t, x, v)[y] = t[y]
BY DEF IsTable, Put

LEMMA DropTable ==
  ASSUME NEW D, NEW R, NEW t, IsTable(t, D, R), NEW x
  PROVE  /\ IsTable(Drop(t, x), D, R)
         /\ DOMAIN Drop(t, x) = DOMAIN t \ {x}
         /\ \A y \in DOMAIN t \ {x} : Drop(t, x)[y] = t[y]
BY DEF IsTable, Drop

LEMMA EmptyTable ==
  ASSUME NEW D, NEW R
  PROVE  IsTable(Empty, D, R) /\ DOMAIN Empty = {}
BY DEF IsTable, Empty

-----------------------------------------------------------------------------
(* Sums over finite sets. *)

(* Induction over the subsets of a finite set, stated with a set as        *)
(* NatSetInduction is.                                                     *)
LEMMA FiniteSubsetInduction ==
  ASSUME NEW S, IsFiniteSet(S), NEW T,
         \A A \in SUBSET S : (\A x \in A : A \ {x} \in T) => A \in T
  PROVE  SUBSET S \subseteq T
<1> DEFINE N == {n \in Nat : \A A \in SUBSET S : Cardinality(A) = n => A \in T}
<1>1. \A A \in SUBSET S : IsFiniteSet(A) /\ Cardinality(A) \in Nat
  BY FS_Subset, FS_CardinalityType
<1>2. 0 \in N
  BY <1>1, FS_EmptySet
<1>3. ASSUME NEW n \in Nat, n \in N PROVE n + 1 \in N
  <2>1. SUFFICES ASSUME NEW A \in SUBSET S, Cardinality(A) = n + 1 PROVE A \in T
    OBVIOUS
  <2>2. ASSUME NEW x \in A PROVE A \ {x} \in T
    <3>1. Cardinality(A \ {x}) = n
      BY <1>1, <2>1, FS_RemoveElement
    <3> QED BY <1>3, <3>1
  <2> QED BY <2>2
<1>4. Nat \subseteq N
  <2> HIDE DEF N
  <2> QED BY <1>2, <1>3, NatSetInduction
<1> QED BY <1>1, <1>4

(* SumFunctionOnSet adds the values up one element at a time.              *)
One(A) == CHOOSE x \in A : TRUE
IsSum(g, w, S) ==
  /\ g \in [SUBSET S -> Int]
  /\ \A A \in SUBSET S :
       g[A] = IF A = {} THEN 0 ELSE w[One(A)] + g[A \ {One(A)}]

LEMMA SumExists ==
  ASSUME NEW S, IsFiniteSet(S), NEW w, \A x \in S : w[x] \in Int
  PROVE  \E g : IsSum(g, w, S)
<1> DEFINE Upto(n) == {A \in SUBSET S : Cardinality(A) <= n}
           Step(g, A) == IF A = {} THEN 0 ELSE w[One(A)] + g[A \ {One(A)}]
           Good(g, n) == \A A \in Upto(n) : g[A] = Step(g, A)
           T == {n \in Nat : \E g \in [Upto(n) -> Int] : Good(g, n)}
<1>1. \A A \in SUBSET S : IsFiniteSet(A) /\ Cardinality(A) \in Nat
  BY FS_Subset, FS_CardinalityType
<1>2. \A A \in SUBSET S :
        A # {} => /\ One(A) \in A /\ w[One(A)] \in Int
                  /\ A \ {One(A)} \in SUBSET S
                  /\ Cardinality(A \ {One(A)}) = Cardinality(A) - 1
  <2>1. SUFFICES ASSUME NEW A \in SUBSET S, A # {}
                 PROVE  /\ One(A) \in A /\ w[One(A)] \in Int
                        /\ A \ {One(A)} \in SUBSET S
                        /\ Cardinality(A \ {One(A)}) = Cardinality(A) - 1
    OBVIOUS
  <2>2. One(A) \in A
    BY <2>1 DEF One
  <2> QED BY <1>1, <2>2, FS_RemoveElement
<1>3. 0 \in T
  <2> DEFINE h == [A \in Upto(0) |-> 0]
  <2>1. \A A \in Upto(0) : A = {}
    BY <1>1, FS_EmptySet
  <2>2. h \in [Upto(0) -> Int] /\ Good(h, 0)
    BY <2>1
  <2> QED BY <2>2
<1>4. ASSUME NEW n \in Nat, n \in T PROVE n + 1 \in T
  <2>1. PICK g \in [Upto(n) -> Int] : Good(g, n)
    BY <1>4, Zenon
  <2> DEFINE h == [A \in Upto(n + 1) |-> IF A \in Upto(n) THEN g[A] ELSE Step(g, A)]
  <2>2. ASSUME NEW A \in Upto(n + 1), A # {}
        PROVE  A \ {One(A)} \in Upto(n)
    BY <1>1, <1>2, <2>2
  <2>3. Upto(n) \subseteq Upto(n + 1)
    BY <1>1
  <2>4. {} \in Upto(n)
    BY FS_EmptySet
  <2>5. ASSUME NEW A \in Upto(n + 1) PROVE Step(g, A) \in Int
    BY <1>2, <2>1, <2>2, <2>5
  <2>6. h \in [Upto(n + 1) -> Int]
    BY <2>1, <2>5
  <2>7. ASSUME NEW A \in Upto(n + 1) PROVE h[A] = Step(h, A)
    <3>1. h[A] = Step(g, A)
      <4>1. CASE A \in Upto(n)
        BY <2>1, <4>1
      <4>2. CASE A \notin Upto(n)
        BY <4>2
      <4> QED BY <4>1, <4>2
    <3>2. A # {} => h[A \ {One(A)}] = g[A \ {One(A)}]
      BY <2>2, <2>3
    <3> QED BY <3>1, <3>2
  <2> HIDE DEF h, Upto, Step
  <2> QED BY <2>6, <2>7
<1>5. Cardinality(S) \in T
  <2>1. Cardinality(S) \in Nat
    BY <1>1
  <2> HIDE DEF T
  <2> QED BY <1>3, <1>4, <2>1, NatSetInduction
<1>6. PICK g \in [Upto(Cardinality(S)) -> Int] : Good(g, Cardinality(S))
  BY <1>5
<1>7. Upto(Cardinality(S)) = SUBSET S
  BY FS_Subset
<1> QED BY <1>6, <1>7 DEF IsSum

(* It is the same function for every subset of a finite set. *)
LEMMA SumFunctionIs ==
  ASSUME NEW S, IsFiniteSet(S), NEW w, \A x \in S : w[x] \in Int,
         NEW g, IsSum(g, w, S)
  PROVE  \A A \in SUBSET S : SumFunctionOnSet(w, A) = g[A]
<1>1. SUFFICES ASSUME NEW A \in SUBSET S PROVE SumFunctionOnSet(w, A) = g[A]
  OBVIOUS
<1> DEFINE Body(f) == [B \in SUBSET A |->
                         IF B = {} THEN 0 ELSE w[One(B)] + f[B \ {One(B)}]]
           f0 == CHOOSE f : f = Body(f)
<1>2. SumFunctionOnSet(w, A) = f0[A]
  BY DEF SumFunctionOnSet, FoldFunctionOnSet, MapThenFoldSet, One
<1>3. f0 = Body(f0)
  <2>1. IsFiniteSet(A) /\ \A x \in A : w[x] \in Int
    BY FS_Subset
  <2>2. PICK h : IsSum(h, w, A)
    BY <2>1, SumExists
  <2>3. h = Body(h)
    BY <2>2 DEF IsSum
  <2> QED BY <2>3
<1> HIDE DEF f0
<1> DEFINE T == {B \in SUBSET A : f0[B] = g[B]}
<1>4. ASSUME NEW B \in SUBSET A, \A x \in B : B \ {x} \in T PROVE B \in T
  <2>1. f0[B] = IF B = {} THEN 0 ELSE w[One(B)] + f0[B \ {One(B)}]
    BY <1>3
  <2>2. g[B] = IF B = {} THEN 0 ELSE w[One(B)] + g[B \ {One(B)}]
    BY DEF IsSum
  <2>3. B # {} => f0[B \ {One(B)}] = g[B \ {One(B)}]
    <3>1. B # {} => One(B) \in B
      BY DEF One
    <3> QED BY <1>4, <3>1
  <2> QED BY <2>1, <2>2, <2>3
<1>5. SUBSET A \subseteq T
  <2>1. IsFiniteSet(A)
    BY FS_Subset
  <2> HIDE DEF T
  <2> QED BY <1>4, <2>1, FiniteSubsetInduction
<1> QED BY <1>2, <1>5

(* A sum is an integer, zero over the empty set, and any element can be    *)
(* counted apart.                                                          *)
LEMMA SumRemove ==
  ASSUME NEW S, IsFiniteSet(S), NEW w, \A x \in S : w[x] \in Int
  PROVE  /\ \A A \in SUBSET S : SumFunctionOnSet(w, A) \in Int
         /\ SumFunctionOnSet(w, {}) = 0
         /\ \A A \in SUBSET S : \A x \in A :
              SumFunctionOnSet(w, A) = w[x] + SumFunctionOnSet(w, A \ {x})
<1>1. PICK g : IsSum(g, w, S)
  BY SumExists
<1>2. \A A \in SUBSET S : SumFunctionOnSet(w, A) = g[A]
  BY <1>1, SumFunctionIs
<1>3. g \in [SUBSET S -> Int] /\ g[{}] = 0
  BY <1>1 DEF IsSum
<1> DEFINE T == {A \in SUBSET S : \A x \in A : g[A] = w[x] + g[A \ {x}]}
<1>4. ASSUME NEW A \in SUBSET S, \A x \in A : A \ {x} \in T PROVE A \in T
  <2>1. SUFFICES ASSUME NEW x \in A PROVE g[A] = w[x] + g[A \ {x}]
    OBVIOUS
  <2>2. PICK y \in A : g[A] = w[y] + g[A \ {y}]
    <3>1. One(A) \in A
      BY DEF One
    <3> QED BY <1>1, <3>1 DEF IsSum
  <2>3. CASE x = y
    BY <2>2, <2>3
  <2>4. CASE x # y
    <3>1. g[A \ {y}] = w[x] + g[(A \ {y}) \ {x}]
      BY <1>4, <2>4
    <3>2. g[A \ {x}] = w[y] + g[(A \ {x}) \ {y}]
      BY <1>4, <2>4
    <3>3. (A \ {y}) \ {x} = (A \ {x}) \ {y}
      OBVIOUS
    <3>4. PICK p, q, r \in Int : p = w[x] /\ q = w[y] /\ r = g[(A \ {x}) \ {y}]
      BY <1>3
    <3>5. g[A] = q + (p + r)
      BY <2>2, <3>1, <3>3, <3>4
    <3>6. g[A \ {x}] = q + r
      BY <3>2, <3>4
    <3> QED BY <3>4, <3>5, <3>6
  <2> QED BY <2>3, <2>4
<1>5. SUBSET S \subseteq T
  <2> HIDE DEF T
  <2> QED BY <1>4, FiniteSubsetInduction
<1> QED BY <1>2, <1>3, <1>5

(* Of values that are not negative, fewer have no greater sum. *)
LEMMA SumGrows ==
  ASSUME NEW S, IsFiniteSet(S), NEW w, \A x \in S : w[x] \in Nat,
         NEW A \in SUBSET S, NEW B \in SUBSET A
  PROVE  SumFunctionOnSet(w, B) <= SumFunctionOnSet(w, A)
<1>0. PICK D : D = A \ B
  OBVIOUS
<1> DEFINE Sum(C) == SumFunctionOnSet(w, C)
           T == {C \in SUBSET D : Sum(B) <= Sum(B \cup C)}
<1>1. \A C \in SUBSET S : Sum(C) \in Int
  BY SumRemove
<1>2. ASSUME NEW C \in SUBSET D, \A x \in C : C \ {x} \in T PROVE C \in T
  <2>1. CASE C = {}
    BY <1>1, <2>1
  <2>2. CASE C # {}
    <3>1. PICK x : x \in C
      BY <2>2
    <3>2. Sum(B \cup C) = w[x] + Sum((B \cup C) \ {x})
      BY <1>0, <3>1, SumRemove
    <3>3. (B \cup C) \ {x} = B \cup (C \ {x})
      BY <1>0, <3>1
    <3>4. Sum(B) <= Sum(B \cup (C \ {x}))
      BY <1>2, <3>1
    <3>5. w[x] \in Nat /\ Sum(B) \in Int /\ Sum(B \cup (C \ {x})) \in Int
      BY <1>0, <1>1, <3>1
    <3> HIDE DEF Sum
    <3> QED BY <3>2, <3>3, <3>4, <3>5
  <2> QED BY <2>1, <2>2
<1>3. SUBSET D \subseteq T
  <2>1. IsFiniteSet(D)
    BY <1>0, FS_Subset
  <2> HIDE DEF T
  <2> QED BY <1>2, <2>1, FiniteSubsetInduction
<1>4. B \cup D = A
  BY <1>0
<1> QED BY <1>3, <1>4
=============================================================================
