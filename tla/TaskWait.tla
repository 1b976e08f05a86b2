------------------------------ MODULE TaskWait ------------------------------
(***************************************************************************)
(* wait_task_inactive() (core.c), called twice in a row by a process that  *)
(* examines another one, as ptrace does.                                   *)
(*                                                                         *)
(* The caller runs on a CPU of its own.  It looks at the task without a    *)
(* lock first, then under task_rq_lock(), and starts over while the task   *)
(* runs or is merely preempted.                                            *)
(***************************************************************************)
EXTENDS Sched

CONSTANTS Watched,         \* the task that is examined
          MatchStates,     \* the states it is expected in, None for any
          LONG_MIN         \* the MSB of an unsigned long: CswMod / 2

ASSUME WatchAssumption ==
    Watched \in Task /\ MatchStates \subseteq SleepMask \cup {None}
    /\ LONG_MIN \in Nat /\ CswMod = 2 * LONG_MIN

VARIABLES
    wpc,           \* where the caller is
    match_state,   \* its argument
    ncsw,          \* what the first call returned, 0 before it did
    again,         \* what the second call returned
    runs           \* how often the task was switched to between the two answers

waitVars == <<wpc, match_state, ncsw, again, runs>>

WaitInit ==
    /\ Init
    /\ wpc = "idle" /\ match_state = None
    /\ ncsw = 0 /\ again = 0 /\ runs = 0

\* The first call, and the second one when the first has succeeded.
WaitBegin(m) ==
    /\ wpc = "idle" /\ again = 0
    /\ wpc' = "relax" /\ match_state' = m
    /\ UNCHANGED <<vars, ncsw, again, runs>>

\* nvcsw | LONG_MIN
SetMsb(n) == LONG_MIN + (n % LONG_MIN)

Matches == match_state \in {None, state[Watched]}

\* The call returns n, which is 0 if the task has left the expected state.
Answer(n) ==
    /\ wpc' = "idle" /\ match_state' = None
    /\ IF ncsw = 0 THEN ncsw' = n /\ runs' = 0 /\ UNCHANGED again
                   ELSE again' = n /\ UNCHANGED <<ncsw, runs>>

\* The loop without a lock: while the task runs, its state is looked at.
WaitRelax ==
    /\ wpc = "relax"
    /\ \/ on_cpu[Watched] /\ ~Matches /\ Answer(0)
       \/ ~on_cpu[Watched] /\ wpc' = "look" /\ UNCHANGED <<match_state, ncsw, again, runs>>
    /\ UNCHANGED vars

\* Mutant: a task that is preempted counts as inactive.
Preempted == on_cpu[Watched]

\* Running, or still on the runqueue: go back and try again.
Active == on_cpu[Watched] \/ task_on_rq_queued(Watched)

\* The look under task_rq_lock(); an hrtimer paces the attempts.
WaitLook ==
    /\ wpc = "look" /\ CanTaskRqLock(Watched)
    /\ \/ ~Matches /\ Answer(0)
       \/ Matches /\ ~Active /\ Answer(SetMsb(nvcsw[Watched]))
       \/ Matches /\ Active /\ wpc' = "relax" /\ UNCHANGED <<match_state, ncsw, again, runs>>
    /\ UNCHANGED vars

\* A CPU switches to the task.
SwitchesTo == \E c \in Cpu : curr[c] # Watched /\ curr'[c] = Watched

\* The caller has compared the two answers, and may begin anew.
WaitDone ==
    /\ again # 0
    /\ ncsw' = 0 /\ again' = 0 /\ runs' = 0
    /\ UNCHANGED <<vars, wpc, match_state>>

\* The scheduler; what it does after the second answer does not matter, and runs beyond
\* the width of the counter are not told apart.
SchedStep ==
    /\ again = 0 /\ Next
    /\ runs' = IF ncsw # 0 /\ SwitchesTo /\ runs < LONG_MIN THEN runs + 1 ELSE runs
    /\ UNCHANGED <<wpc, match_state, ncsw, again>>

WaitNext ==
    \/ SchedStep
    \/ \E m \in MatchStates : WaitBegin(m)
    \/ WaitRelax \/ WaitLook \/ WaitDone

WaitSpec == WaitInit /\ [][WaitNext]_<<vars, waitVars>>

-----------------------------------------------------------------------------
(* Properties. *)

\* "If a second call a short while later returns the same number, the caller can be
\* sure that @p has remained unscheduled the whole time": the count of voluntary
\* switches shows every run, however it began and whatever preempted it.  A short
\* while is one in which the count does not wrap.
RemainedUnscheduled ==
    ncsw # 0 /\ again = ncsw /\ runs < LONG_MIN => runs = 0
=============================================================================
