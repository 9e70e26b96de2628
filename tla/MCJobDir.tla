------------------------------ MODULE MCJobDir ------------------------------
(* Small instances of JobDir.  Two producers have a JobDir of their own; in   *)
(* the shared instance they use one object, as the workers of the Workload    *)
(* Manager do with to_ice and to_jc.                                           *)
EXTENDS JobDir, TLC

CONSTANTS p1, p2

DistinctIds == [p \in Producers |-> p]
SharedId == [p \in Producers |-> "shared"]
MCSymmetry == Permutations(Requests)
=============================================================================
