----------------------------- MODULE MCWMProxy -----------------------------
(***************************************************************************)
(* WMProxy for TLC: two processes that serve the registration of a job and *)
(* three more calls about it (starts, cancels, purges, listings in any     *)
(* combination), with one fault.                                           *)
(***************************************************************************)
EXTENDS WMProxy, TLC

(* For safety alone with more processes: CallsEnd is about one process. *)
Symmetry == Permutations(Proc)
=============================================================================
