------------------------------- MODULE Quota -------------------------------
(***************************************************************************)
(* What CFS bandwidth control promises to the owner of a tree of task      *)
(* groups: a group changes its period and quota in one step, and on the    *)
(* legacy hierarchy only to values that leave no group with a larger share *)
(* of a CPU than any group above it.                                       *)
(***************************************************************************)
EXTENDS Integers

CONSTANTS Group, Root,
          Above,           \* the groups above each group, up to the root
          BW_UNIT,         \* 1 << BW_SHIFT: a share is a fixed-point number
          NSEC_PER_USEC,
          min_cfs_quota_period, max_cfs_quota_period, default_period,
          max_cfs_runtime

RUNTIME_INF == -1          \* no limit: the u64 ~0, seen as an s64

VARIABLES bandwidth,       \* period and quota of each group, in nanoseconds
          dfl              \* the controller is on the default (v2) hierarchy

vars == <<bandwidth, dfl>>

Limited(b) == b.quota # RUNTIME_INF

\* The share of one CPU that b allows, computed in microseconds.
Share(b) ==
    ((b.quota \div NSEC_PER_USEC) * BW_UNIT) \div (b.period \div NSEC_PER_USEC)

\* Wherever two groups on one path have limits, the lower one has no more.
Feasible(bw) ==
    \A g \in Group : \A h \in Above[g] :
        Limited(bw[g]) /\ Limited(bw[h]) => Share(bw[g]) <= Share(bw[h])

Acceptable(b) ==
    /\ b.period \in min_cfs_quota_period .. max_cfs_quota_period
    /\ b.quota \in (min_cfs_quota_period .. max_cfs_runtime) \cup {RUNTIME_INF}

Init ==
    /\ bandwidth = [g \in Group |-> [period |-> default_period, quota |-> RUNTIME_INF]]
    /\ dfl \in BOOLEAN

Set(g) ==
    /\ bandwidth' = [bandwidth EXCEPT ![g] = bandwidth'[g]]
    /\ Acceptable(bandwidth'[g])
    /\ dfl \/ Feasible(bandwidth')
    /\ UNCHANGED dfl

Next == \E g \in Group \ {Root} : Set(g)

Spec == Init /\ [][Next]_vars
=============================================================================
