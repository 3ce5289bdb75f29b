----------------------------- MODULE FindVolume -----------------------------
(***************************************************************************)
(* One call of findVolume (storing/service.go): a goroutine per volume     *)
(* asks it for the key and offers a find on the channel doneC, a goroutine *)
(* waits for all of them and closes doneC, and the caller takes the first  *)
(* thing doneC gives and cancels the rest.  Meanwhile the key comes to the *)
(* volumes and goes from them, and the caller's own context may end.       *)
(***************************************************************************)
EXTENDS FiniteSets

CONSTANTS
  Volumes,   \* the volumes asked: the local ones, or the other nodes
  Silent,    \* those that may never answer: no request has a time limit
  NoVolume   \* the nil volume of the zero msg

ASSUME SilentAssumption == Silent \subseteq Volumes
ASSUME NoVolumeAssumption == NoVolume \notin Volumes

VARIABLES
  has, had, kept, given,  \* see Search
  pc,        \* the goroutine of each volume: "asking", "offering", "done"
  closed,    \* doneC is closed
  cancelled, \* cfn was called
  answer     \* m, once the caller has it

vars == <<has, had, kept, given, pc, closed, cancelled, answer>>

Init ==
  /\ has \in SUBSET Volumes
  /\ had = has /\ kept = has
  /\ given = FALSE
  /\ pc = [v \in Volumes |-> "asking"]
  /\ closed = FALSE /\ cancelled = FALSE
  /\ answer = <<>>

Waiting == answer = <<>>

(* A put or a delete on volume v, while the answer is not there. *)
Change(v) ==
  /\ Waiting
  /\ has' = IF v \in has THEN has \ {v} ELSE has \cup {v}
  /\ had' = had \cup has' /\ kept' = kept \cap has'
  /\ UNCHANGED <<given, pc, closed, cancelled, answer>>

(* The context of the caller ends: a client hung up. *)
GiveUp ==
  /\ ~given /\ given' = TRUE
  /\ UNCHANGED <<has, had, kept, pc, closed, cancelled, answer>>

(* cctx, which descends from the caller's context, is done. *)
Done == given \/ cancelled

\* faulty: the goroutine does not look at ok
AskNoLook(v) ==
  /\ pc[v] = "asking"
  /\ pc' = [pc EXCEPT ![v] = "offering"]
  /\ UNCHANGED <<has, had, kept, given, closed, cancelled, answer>>
(* HasFile of v answers. *)
Ask(v) ==
  /\ pc[v] = "asking"
  /\ pc' = [pc EXCEPT ![v] = IF v \in has THEN "offering" ELSE "done"]
  /\ UNCHANGED <<has, had, kept, given, closed, cancelled, answer>>

(* HasFile of v fails: the goroutine ends without an offer. *)
AskFails(v) ==
  /\ pc[v] = "asking"
  /\ pc' = [pc EXCEPT ![v] = "done"]
  /\ kept' = kept \ {v}
  /\ UNCHANGED <<has, had, given, closed, cancelled, answer>>

(* doneC has no buffer: the offer and the caller's receive are one step. *)
Offer(v) ==
  /\ pc[v] = "offering" /\ Waiting
  /\ answer' = <<v>>
  /\ pc' = [pc EXCEPT ![v] = "done"]
  /\ UNCHANGED <<has, had, kept, given, closed, cancelled>>

\* faulty: only the end of the caller's context is waited for
WithdrawWhenGiven(v) ==
  /\ pc[v] = "offering" /\ given
  /\ pc' = [pc EXCEPT ![v] = "done"]
  /\ UNCHANGED <<has, had, kept, given, closed, cancelled, answer>>
\* faulty: the select has a default branch
WithdrawAtOnce(v) ==
  /\ pc[v] = "offering"
  /\ pc' = [pc EXCEPT ![v] = "done"]
  /\ UNCHANGED <<has, had, kept, given, closed, cancelled, answer>>
(* The other branch of the goroutine's select. *)
Withdraw(v) ==
  /\ pc[v] = "offering" /\ Done
  /\ pc' = [pc EXCEPT ![v] = "done"]
  /\ UNCHANGED <<has, had, kept, given, closed, cancelled, answer>>

(* wg.Wait returns, and the goroutine that waited closes doneC. *)
Close ==
  /\ ~closed /\ \A v \in Volumes : pc[v] = "done"
  /\ closed' = TRUE
  /\ UNCHANGED <<has, had, kept, given, pc, cancelled, answer>>

(* A receive from the closed channel gives the zero msg: "not found". *)
ReceiveClosed ==
  /\ closed /\ Waiting
  /\ answer' = <<NoVolume>>
  /\ UNCHANGED <<has, had, kept, given, pc, closed, cancelled>>

(* cfn(), after the receive. *)
Cancel ==
  /\ ~Waiting /\ ~cancelled
  /\ cancelled' = TRUE
  /\ UNCHANGED <<has, had, kept, given, pc, closed, answer>>

Next ==
  \/ \E v \in Volumes :
       Change(v) \/ Ask(v) \/ AskFails(v) \/ Offer(v) \/ Withdraw(v)
  \/ GiveUp \/ Close \/ ReceiveClosed \/ Cancel

(* The goroutines run.  A volume that is not silent answers or fails; a    *)
(* request whose context ends fails, whoever it was sent to.  No fairness  *)
(* is assumed of the keys that come and go.                                *)
Spec ==
  /\ Init
  /\ [][Next]_vars
  /\ \A v \in Volumes \ Silent : WF_vars(Ask(v) \/ AskFails(v))
  /\ \A v \in Silent : WF_vars(Done /\ AskFails(v))
  /\ \A v \in Volumes : WF_vars(Offer(v) \/ Withdraw(v))
  /\ WF_vars(Close) /\ WF_vars(ReceiveClosed) /\ WF_vars(Cancel)

-----------------------------------------------------------------------------
(* The variables have their types.                                         *)
TypeOK ==
  /\ has \subseteq Volumes /\ had \subseteq Volumes /\ kept \subseteq Volumes
  /\ given \in BOOLEAN /\ closed \in BOOLEAN /\ cancelled \in BOOLEAN
  /\ pc \in [Volumes -> {"asking", "offering", "done"}]
  /\ answer \in {<<>>} \cup {<<v>> : v \in Volumes \cup {NoVolume}}

(* Why the race is right: doneC is closed after every goroutine, one       *)
(* offers only a volume that had the key, and while the caller waits none  *)
(* ends with a find it has not handed over.                                *)
IInv ==
  /\ TypeOK
  /\ closed => \A v \in Volumes : pc[v] = "done"
  /\ kept \subseteq has /\ has \subseteq had
  /\ cancelled => ~Waiting
  /\ \A v \in Volumes :
       /\ pc[v] = "offering" => v \in had
       /\ pc[v] = "done" /\ v \in kept => given \/ ~Waiting

(* Seen by its caller, the race of the goroutines is one search that is    *)
(* right when it answers: the volume given had the key while it ran, no    *)
(* offer is lost to the close of the channel, and "not found" is said only *)
(* when no volume that could be asked had the key throughout.              *)
S == INSTANCE Search
FindsWhatIsThere == S!Spec

(* The search ends, goroutines and all, when its caller gives it up, and   *)
(* when a volume that answers keeps the key, whoever else stays silent.    *)
(* Once it answered, no goroutine is left behind.                          *)
Ended == ~Waiting /\ closed
SearchEnds ==
  /\ given ~> Ended
  /\ ~Waiting ~> Ended
  /\ \A v \in Volumes \ Silent : ([](v \in kept)) => <>Ended
=============================================================================
