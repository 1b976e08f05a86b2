------------------------------ MODULE MCWakeQ ------------------------------
(***************************************************************************)
(* An instance of WakeQ for TLC beside one of Uclamp, which has the same   *)
(* tasks and no state in common with it: a behaviour is about one of the   *)
(* two, and the other stays where it began.                                *)
(***************************************************************************)
EXTENDS MCUclamp, WakeQ

CONSTANTS w1, w2

VARIABLE about

MCInit ==
    /\ Init /\ WakeQInit
    /\ \/ about = "clamps"
       \/ about = "queues" /\ group = [t \in Task |-> "root"]

MCNext ==
    /\ UNCHANGED about
    /\ \/ about = "clamps" /\ Next /\ UNCHANGED wakeqVars
       \/ about = "queues" /\ WakeQNext /\ UNCHANGED vars

MCSpec == MCInit /\ [][MCNext]_<<vars, wakeqVars, about>>

MCSymmetry == Permutations(Task) \cup Permutations(Waker)
=============================================================================
