--------------------------- MODULE FindVolumeProofs ---------------------------
(***************************************************************************)
(* The race of findVolume implements one search, for any number of         *)
(* volumes.                                                                *)
(***************************************************************************)
EXTENDS FindVolume, TLAPS

LEMMA InitInv == Init => IInv
BY DEF Init, IInv, TypeOK, Waiting

(* The step has one case per action of Next. *)
LEMMA StepInv == IInv /\ [Next]_vars => IInv'
<1> SUFFICES ASSUME IInv, [Next]_vars PROVE IInv'
  OBVIOUS
<1> USE DEF IInv, TypeOK, Waiting
<1>1. ASSUME NEW v \in Volumes, Change(v) PROVE IInv'
  BY <1>1 DEF Change
<1>2. ASSUME NEW v \in Volumes, Ask(v) PROVE IInv'
  BY <1>2 DEF Ask
<1>3. ASSUME NEW v \in Volumes, AskFails(v) PROVE IInv'
  BY <1>3 DEF AskFails
<1>4. ASSUME NEW v \in Volumes, Offer(v) PROVE IInv'
  BY <1>4 DEF Offer
<1>5. ASSUME NEW v \in Volumes, Withdraw(v) PROVE IInv'
  BY <1>5 DEF Withdraw, Done
<1>6. CASE GiveUp
  BY <1>6 DEF GiveUp
<1>7. CASE Close
  BY <1>7 DEF Close
<1>8. CASE ReceiveClosed
  BY <1>8 DEF ReceiveClosed
<1>9. CASE Cancel
  BY <1>9 DEF Cancel
<1>10. CASE UNCHANGED vars
  BY <1>10 DEF vars
<1>11. QED
  BY <1>1, <1>2, <1>3, <1>4, <1>5, <1>6, <1>7, <1>8, <1>9, <1>10 DEF Next

(* In every state of a search no goroutine ends with a find it has not     *)
(* handed over while the caller waits (the select of findVolume).          *)
THEOREM SearchInductive == Spec => []IInv
BY InitInv, StepInv, PTL DEF Spec

(* The receives are the answers of the search; the rest of the goroutines' *)
(* steps changes nothing the caller sees.                                  *)
LEMMA StepRefines == IInv /\ [Next]_vars => [S!Next]_(S!searchvars)
<1> SUFFICES ASSUME IInv, [Next]_vars PROVE [S!Next]_(S!searchvars)
  OBVIOUS
<1> USE DEF S!Next, S!searchvars
<1>1. ASSUME NEW v \in Volumes, Change(v) PROVE S!Next
  BY <1>1 DEF Change, S!Change
<1>2. ASSUME NEW v \in Volumes, Ask(v) \/ Withdraw(v)
      PROVE UNCHANGED S!searchvars
  BY <1>2 DEF Ask, Withdraw
<1>3. ASSUME NEW v \in Volumes, AskFails(v) PROVE S!Next
  BY <1>3 DEF AskFails, S!Lose
<1>4. ASSUME NEW v \in Volumes, Offer(v) PROVE S!Next
  <2>1. S!Found(v)
    BY <1>4 DEF Offer, S!Found, IInv, Waiting
  <2>2. QED
    BY <2>1
<1>5. CASE GiveUp
  BY <1>5 DEF GiveUp, S!GiveUp
<1>6. CASE ReceiveClosed
  <2>1. kept = {} \/ given
    BY <1>6 DEF ReceiveClosed, IInv, TypeOK, Waiting
  <2>2. S!NotFound
    BY <1>6, <2>1 DEF ReceiveClosed, S!NotFound, Waiting
  <2>3. QED
    BY <2>2
<1>7. CASE Close \/ Cancel
  BY <1>7 DEF Close, Cancel
<1>8. CASE UNCHANGED vars
  BY <1>8 DEF vars
<1>9. QED
  BY <1>1, <1>2, <1>3, <1>4, <1>5, <1>6, <1>7, <1>8 DEF Next

(* findVolume gives what one search may give: an answer that was right     *)
(* while it ran, and "not found" only when nothing that could be asked had *)
(* the key all along, or the caller gave up.                               *)
THEOREM FindsRight == Spec => FindsWhatIsThere
<1>1. Init => S!Init
  BY DEF Init, S!Init
<1>2. QED
  BY <1>1, StepRefines, SearchInductive, PTL DEF Spec, S!Spec, FindsWhatIsThere
=============================================================================
