-------------------------------- MODULE MCIsm --------------------------------
(* Small instances of Ism: its constants are given in the configurations.      *)
EXTENDS Ism
=============================================================================
