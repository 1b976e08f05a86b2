------------------------------- MODULE MCPrio -------------------------------
(***************************************************************************)
(* Instances of Prio for TLC.                                              *)
(***************************************************************************)
EXTENDS Prio, TLC

CONSTANTS t1, t2, c1, c2

\* A call with its defaults.
Args == [kind |-> "setattr", policy |-> SETPARAM_POLICY, priority |-> 0, nice |-> 0,
         reset |-> FALSE, keep |-> FALSE, clamp |-> FALSE, cap |-> TRUE]
SetAttr(policy, priority) == [Args EXCEPT !.policy = policy, !.priority = priority]
Set(policy, priority) == [SetAttr(policy, priority) EXCEPT !.kind = "setscheduler"]
Renice(nice) == [Args EXCEPT !.kind = "nice", !.nice = nice]
User(a) == [a EXCEPT !.cap = FALSE]

\* Changes of class, of the priority alone by a normal user and of the nice
\* value; a call that keeps policy and parameters; normalize_rt_tasks().
RaceCalls ==
    {Set("NORMAL", 0), SetAttr("FIFO", 1), SetAttr("DEADLINE", 0),
     User(Set(SETPARAM_POLICY, 1)), Renice(1),
     [SetAttr(SETPARAM_POLICY, 1) EXCEPT !.keep = TRUE],
     [SetAttr("NORMAL", 0) EXCEPT !.kind = "normalize"]}

DonorCalls == {Set("NORMAL", 0), Set("FIFO", 1), Set("FIFO", 2)}

Pair == {<<t2, t1>>}

Symmetry == Permutations(Caller)
=============================================================================
