------------------------------ MODULE FileList ------------------------------
(***************************************************************************)
(* What jccommon::FileList promises to the JobController and to the        *)
(* LogMonitor: a sequence kept on disk whose insertions and erasures are   *)
(* atomic, whatever crashes, up to the first crash that falls in a window  *)
(* the container does not protect.                                         *)
(***************************************************************************)
EXTENDS Naturals, Sequences, SequencesExt

CONSTANT Value

VARIABLES list,     \* the elements, in order
          intact    \* FALSE once a crash fell in an unprotected window

Init == list = <<>> /\ intact = TRUE

insert(i, v) ==
  /\ intact /\ UNCHANGED intact
  /\ list' = InsertAt(list, i, v)

erase(i) ==
  /\ intact /\ UNCHANGED intact
  /\ list' = RemoveAt(list, i)

clear == intact /\ list' = <<>> /\ UNCHANGED intact

Damage == intact /\ intact' = FALSE /\ list' = <<>>

Next ==
  \/ \E i \in 1..Len(list) + 1, v \in Value : insert(i, v)
  \/ \E i \in 1..Len(list) : erase(i)
  \/ clear
  \/ Damage

Spec == Init /\ [][Next]_<<list, intact>>
=============================================================================
