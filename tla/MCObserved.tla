----------------------------- MODULE MCObserved -----------------------------
(***************************************************************************)
(* An instance of Observed for TLC, with one of SetAffinity beside it.     *)
(***************************************************************************)
EXTENDS Observed, SetAffinity

CONSTANTS c1, c2, t1, k1, k2

OneCache == [c \in Cpu |-> 0]

\* Every weight and nice value with the first ones out of range; shares
\* below and around the values of the table, and at the bounds.
TheWritten ==
    [file : {"weight"}, value : 0..10001] \cup [file : {"nice"}, value : -21..20]
    \cup [file : {"shares"}, value : 0..1300 \cup 80200..80300 \cup {2^18 - 1, 2^18, 2^18 + 1}]

-----------------------------------------------------------------------------
(* Beside it, an instance of SetAffinity. *)

\* No input: callers of sched_setaffinity() race with the cpuset.
Confining == [file |-> "affinity", value |-> 0]

MCInit ==
    \/ ObservedInit /\ AffinityInit /\ kind = "user" /\ active = CPU
    \/ WaitInit /\ AffinityInit /\ input = Confining

MCNext ==
    \/ ObservedNext /\ UNCHANGED affinityVars
    \/ input = Confining /\ AffinityNext /\ UNCHANGED <<vars, waitVars, input>>

MCSpec ==
    /\ MCInit /\ [][MCNext]_<<vars, waitVars, input, affinityVars>>
    /\ \A c \in Caller : WF_affinityVars(CallerStep(c))
=============================================================================
