------------------------------ MODULE MCSched ------------------------------
(***************************************************************************)
(* Instances of Sched for TLC.                                             *)
(***************************************************************************)
EXTENDS Sched, TLC

CONSTANTS c1, c2, t1, t2

OneCache == [c \in Cpu |-> 0]
OwnCaches == [c \in Cpu |-> IF c = c1 THEN 1 ELSE 2]
SingleMasks == {{c} : c \in Cpu}

CpuSymmetry == Permutations(Cpu)
Symmetry == Permutations(Task) \cup Permutations(Cpu)
=============================================================================
