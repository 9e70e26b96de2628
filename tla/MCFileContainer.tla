--------------------------- MODULE MCFileContainer ---------------------------
(* Instances of FileContainer for model checking. *)
EXTENDS FileContainer

MCSymmetry == Permutations(Value)
=============================================================================
