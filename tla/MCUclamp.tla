------------------------------ MODULE MCUclamp ------------------------------
(***************************************************************************)
(* Instances of Uclamp for TLC.                                            *)
(***************************************************************************)
EXTENDS Uclamp, TLC

CONSTANTS t1, t2

NoClamps == {[id \in Id |-> Keep]}
MaxClamp == {[id \in Id |-> IF id = "MAX" THEN v ELSE Keep] : v \in {1, Keep}}

Symmetry == Permutations(Task)
=============================================================================
