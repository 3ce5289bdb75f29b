------------------------------- MODULE Search -------------------------------
(***************************************************************************)
(* What a search for the volume of a key promises (findVolume of           *)
(* storing/service.go), whatever goes on beside it: a volume it names had  *)
(* the key at some moment of the search, and it names none only when every *)
(* volume lacked the key at some moment or could not be asked.             *)
(***************************************************************************)
CONSTANTS Volumes, NoVolume

VARIABLES
  has,     \* the volumes that have the key
  had,     \* those that had it at some moment of the search
  kept,    \* those that had it all along and can be asked
  given,   \* the caller gave the search up
  answer   \* <<>>, then <<v>> for a volume v, or <<NoVolume>>

searchvars == <<has, had, kept, given, answer>>

Init ==
  /\ has \in SUBSET Volumes
  /\ had = has /\ kept = has
  /\ given = FALSE
  /\ answer = <<>>

(* The key is put to a volume or deleted from it. *)
Change(v) ==
  /\ has' = IF v \in has THEN has \ {v} ELSE has \cup {v}
  /\ had' = had \cup has' /\ kept' = kept \cap has'
  /\ UNCHANGED <<given, answer>>

(* A volume cannot be asked. *)
Lose(v) ==
  /\ kept' = kept \ {v}
  /\ UNCHANGED <<has, had, given, answer>>

GiveUp ==
  /\ ~given /\ given' = TRUE
  /\ UNCHANGED <<has, had, kept, answer>>

Found(v) ==
  /\ answer = <<>> /\ v \in had
  /\ answer' = <<v>>
  /\ UNCHANGED <<has, had, kept, given>>

NotFound ==
  /\ answer = <<>> /\ (kept = {} \/ given)
  /\ answer' = <<NoVolume>>
  /\ UNCHANGED <<has, had, kept, given>>

Next ==
  \/ \E v \in Volumes : Change(v) \/ Lose(v) \/ Found(v)
  \/ GiveUp
  \/ NotFound

Spec == Init /\ [][Next]_searchvars
=============================================================================
