------------------------------ MODULE Wakeups ------------------------------
(***************************************************************************)
(* What a queue of wakeups promises to tasks that wait for a condition: to *)
(* make the condition of a task true is to owe it a wakeup, and nothing    *)
(* but waking the task settles that.  How many wakers there are, which of  *)
(* them wakes the task, and who relies on whom, is left open.              *)
(***************************************************************************)
CONSTANT Task

VARIABLES state, tpc, cond,    \* a task's state, place in its wait loop, condition
          owed                 \* the tasks that are owed a wakeup

vars == <<state, tpc, cond, owed>>

Init ==
    /\ state = [t \in Task |-> "RUNNING"]
    /\ tpc = [t \in Task |-> "work"]
    /\ cond = [t \in Task |-> FALSE]
    /\ owed = {}

\* A task announces that it will sleep, and then looks at its condition.
Announce(t) ==
    /\ tpc[t] \in {"work", "wait"}
    /\ state' = [state EXCEPT ![t] = "SLEEP"]
    /\ tpc' = [tpc EXCEPT ![t] = "check"]
    /\ UNCHANGED <<cond, owed>>

Proceed(t) ==
    /\ tpc[t] = "check" /\ cond[t]
    /\ cond' = [cond EXCEPT ![t] = FALSE]
    /\ state' = [state EXCEPT ![t] = "RUNNING"]
    /\ tpc' = [tpc EXCEPT ![t] = "work"]
    /\ UNCHANGED owed

Sleep(t) ==
    /\ tpc[t] = "check" /\ ~cond[t]
    /\ tpc' = [tpc EXCEPT ![t] = "sched"]
    /\ UNCHANGED <<state, cond, owed>>

Resume(t) ==
    /\ tpc[t] = "sched" /\ state[t] = "RUNNING"
    /\ tpc' = [tpc EXCEPT ![t] = "wait"]
    /\ UNCHANGED <<state, cond, owed>>

\* A task may die while it is owed a wakeup; it is replaced by a new one only
\* afterwards, which therefore gets no wakeup that was meant for the old one.
Die(t) ==
    /\ tpc[t] = "work"
    /\ tpc' = [tpc EXCEPT ![t] = "gone"]
    /\ state' = [state EXCEPT ![t] = "DEAD"]
    /\ UNCHANGED <<cond, owed>>

Replace(t) ==
    /\ tpc[t] = "gone" /\ t \notin owed
    /\ tpc' = [tpc EXCEPT ![t] = "work"]
    /\ state' = [state EXCEPT ![t] = "RUNNING"]
    /\ cond' = [cond EXCEPT ![t] = FALSE]
    /\ UNCHANGED owed

MakeTrue(t) ==
    /\ cond' = [cond EXCEPT ![t] = TRUE]
    /\ owed' = owed \cup {t}
    /\ UNCHANGED <<state, tpc>>

\* Somebody wakes the task; others may still do it again.
Wake(t) ==
    /\ t \in owed
    /\ state' = [state EXCEPT ![t] = IF @ = "SLEEP" THEN "RUNNING" ELSE @]
    /\ owed' \in {owed, owed \ {t}}
    /\ UNCHANGED <<tpc, cond>>

Next ==
    \E t \in Task : \/ Announce(t) \/ Proceed(t) \/ Sleep(t) \/ Resume(t)
                    \/ Die(t) \/ Replace(t) \/ MakeTrue(t) \/ Wake(t)

Spec == Init /\ [][Next]_vars

\* Nobody sleeps on although its condition is true, unless a wakeup is on its way.
NothingLost ==
    \A t \in Task : tpc[t] = "sched" /\ state[t] = "SLEEP" /\ cond[t] => t \in owed
=============================================================================
