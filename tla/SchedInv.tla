------------------------------ MODULE SchedInv ------------------------------
(***************************************************************************)
(* The inductive invariants behind the safety theorems.  IndInv, used in   *)
(* SchedProofs: who holds which lock, who owns a task that is on no queue, *)
(* and where a task's stack is in use.  Those of SchedSafety, inductive    *)
(* given IndInv: what follows from it for sleeps, references, counts and   *)
(* masks.                                                                  *)
(***************************************************************************)
EXTENDS Sched

\* The locals of a kernel path have the values its next step relies on.
LocalsInv ==
    \A c \in Cpu :
        /\ pc[c] \in SwitchPc \cup {"reap"} => tgt[c] \in Task \cup {Idle, Stopper}
        /\ pc[c] \in TtwuPc \cup {"ttwu_lock", "move", "attach"} => tgt[c] \in Task
        /\ pc[c] \in {"ttwu_remote", "ttwu_wakelist", "ttwu_queue", "move"}
              => lrq[c] \in Cpu
        /\ pc[c] \in {"iowait", "pick"} => tgt[c] = curr[c]
        /\ pc[c] = "finish" => tgt[c] # curr[c]
        /\ pc[c] \in StopPc => curr[c] = Stopper
        /\ pc[c] \in StopPc \/ (pc[c] = "move" /\ curr[c] = Stopper)
              => stopq[c] # <<>>
        /\ pending[c] # {} => pc[c] \in {"pending", "stop_pending"}

\* The programs: arguments of stop_one_cpu() and of fork, and children that
\* nobody but their parent can start.
ProgInv ==
    /\ \A t \in Task : tpc[t] = "stop_one" => targ[t] \in [task : Task, dest : Cpu, src : Cpu]
    /\ \A t \in Task : tpc[t] = "forked" => /\ targ[t].task \in Task
                                           /\ tpc[targ[t].task] = "new"
    /\ \A t, u \in Task :
          tpc[t] = "forked" /\ tpc[u] = "forked" /\ targ[t].task = targ[u].task => t = u
    /\ \A t \in Task : tpc[t] = "free" => state[t] = "DEAD" /\ on_rq[t] = 0 /\ ~on_cpu[t]
    /\ \A t \in Task : tpc[t] = "new" => state[t] = "NEW" /\ on_rq[t] = 0 /\ ~on_cpu[t]
    /\ \A c \in Cpu : \A i \in DOMAIN stopq[c] : tpc[stopq[c][i].caller] \notin {"free", "new"}

\* A runqueue lock is held by its own CPU inside __schedule(), a pi_lock by
\* the CPU that wakes or moves the task.
LockInv ==
    /\ \A c \in Cpu : rq_lock[c] = IF pc[c] \in SwitchPc THEN c ELSE None
    /\ \A c \in Cpu, t \in Task :
          pi_lock[t] = c <=> tgt[c] = t /\ pc[c] \in TtwuPc \cup {"move"}

\* What a waker that holds pi_lock knows of the task at each point.
WakerInv ==
    \A c \in Cpu :
        /\ pc[c] \in {"ttwu_on_rq", "ttwu_remote"}
              => state[tgt[c]] \in SleepMask \cup {"RUNNING"}
        /\ pc[c] = "ttwu_waking" => on_rq[tgt[c]] = 0 /\ state[tgt[c]] \in SleepMask
        /\ pc[c] \in {"ttwu_on_cpu", "ttwu_wakelist", "ttwu_select", "ttwu_queue"}
              => /\ on_rq[tgt[c]] = 0 /\ state[tgt[c]] = "WAKING"
                 /\ \A d \in Cpu : tgt[c] \notin wakelist[d] \cup pending[d]
        /\ pc[c] \in {"ttwu_wakelist", "ttwu_queue"} => cpu[tgt[c]] = lrq[c]

\* A task on a wakelist is off its queue and belongs to that CPU.
ListInv ==
    \A c \in Cpu :
        /\ wakelist[c] \cap pending[c] = {}
        /\ \A t \in wakelist[c] \cup pending[c] :
              state[t] = "WAKING" /\ on_rq[t] = 0 /\ cpu[t] = c

\* Where a task is queued and what its state may then be; a task on the move
\* is in the hands of one CPU.
QueueInv ==
    /\ RunqueueConsistent
    /\ \A t \in Task : on_rq[t] = 0 => state[t] # "RUNNING"
    /\ \A t \in Task : on_rq[t] # 0 => state[t] \notin {"WAKING", "NEW"}
    /\ \A c \in Cpu : pc[c] = "move" =>
          task_on_rq_migrating(tgt[c]) /\ cpu[tgt[c]] = lrq[c]
    /\ \A c \in Cpu : pc[c] = "attach" =>
          task_on_rq_migrating(tgt[c]) /\ cpu[tgt[c]] = c
    /\ \A c, d \in Cpu :
          pc[c] \in {"move", "attach"} /\ pc[d] \in {"move", "attach"} /\ tgt[c] = tgt[d]
              => c = d

\* Stacks: a CPU uses the stack of a task only with on_cpu set and on the CPU
\* the task belongs to, and a current task is queued unless __schedule() is
\* just taking it off.
ExecInv ==
    /\ \A c \in Cpu, t \in Task : Executes(c, t) => on_cpu[t] /\ cpu[t] = c
    /\ \A t \in Task : on_cpu[t] => Executes(cpu[t], t)
    /\ \A c \in Cpu : pc[c] \notin {"iowait", "pick"} /\ curr[c] \in Task
                      => task_on_rq_queued(curr[c])

IndInv ==
    TypeOK /\ LocalsInv /\ ProgInv /\ LockInv /\ WakerInv /\ ListInv /\ QueueInv /\ ExecInv

-----------------------------------------------------------------------------

\* A task that waits for a stopper is waiting for one item of work only.
StopInv ==
    /\ \A c \in Cpu : \A i \in DOMAIN stopq[c] : tpc[stopq[c][i].caller] = "stop_wait"
    /\ \A c, d \in Cpu : \A i \in DOMAIN stopq[c], j \in DOMAIN stopq[d] :
          stopq[c][i].caller = stopq[d][j].caller => c = d /\ i = j

\* Where a task is in its program says what its state is, except while it is
\* about to sleep; a task leaves its queue in schedule() only, and never comes
\* back once it is dead.
AwakeInv ==
    \A t \in Task :
        /\ tpc[t] \in {"work", "stop_one", "stop_wait", "forked"} => state[t] = "RUNNING"
        /\ tpc[t] = "woken" /\ on_rq[t] # 0 => state[t] = "RUNNING"
        /\ state[t] = "DEAD" <=> tpc[t] \in {"free", "dying", "dead"}
        /\ tpc[t] = "dead" => on_rq[t] = 0
        /\ on_rq[t] = 0 => tpc[t] \in {"free", "new", "woken", "dead"}

\* __schedule() turns "dying" into "dead" before it looks for another task.
DyingInv ==
    \A c \in Cpu : pc[c] \in SwitchPc /\ tgt[c] \in Task => tpc[tgt[c]] # "dying"

\* CPU c is about to drop the reference of t.
Reaps(c, t) == pc[c] = "reap" /\ tgt[c] = t /\ prev_state[c] = "DEAD"

\* The last reference goes away once, in the finish_task_switch() of the CPU that
\* ran the task last.
RefInv ==
    /\ \A t \in Task :
          /\ usage[t] \in {0, 1}
          /\ tpc[t] = "free" <=> usage[t] = 0 /\ tpc[t] # "dead"
          /\ usage[t] = 0 => ~on_cpu[t]
    /\ \A c \in Cpu : pc[c] = "reap" /\ prev_state[c] = "DEAD" => tgt[c] \in Task
    /\ \A c \in Cpu, t \in Task :
          Reaps(c, t) => tpc[t] = "dead" /\ usage[t] = 1 /\ ~on_cpu[t]
    /\ \A c, d \in Cpu, t \in Task : Reaps(c, t) /\ Reaps(d, t) => c = d

\* t has seen its CONDITION false and sleeps or is about to, although by now it
\* is true; a signal counts only once t has left its queue, because until then
\* schedule() still looks for one.
WakeupOwed(t) ==
    /\ tpc[t] \in {"sleep", "woken"} /\ state[t] \in SleepMask
    /\ cond[t] \/ (on_rq[t] = 0 /\ sigpending[t] /\ state[t] = "INT")

\* A waker has t, or has passed it on.
WakerHas(t) == \E c \in Cpu : \/ t \in wakelist[c] \cup pending[c]
                              \/ tgt[c] = t /\ pc[c] \in TtwuPc

\* Whoever is owed a wakeup has a waker that has not looked yet, or will act on
\* what it saw.
WakeupInv ==
    \A t \in Task :
        /\ WakeupOwed(t) => WakeupInFlight(t)
        /\ state[t] = "WAKING" => WakerHas(t)

\* The tasks that nr_iowait of c stands for; in the middle of __schedule() the
\* count is one behind.
IoAsleep(t) == in_iowait[t] /\ on_rq[t] = 0 /\ state[t] # "WAKING"
IoSleepers(c) == {t \in Task : cpu[t] = c /\ IoAsleep(t)}
IoInv ==
    /\ \A t \in Task : in_iowait[t] => tpc[t] \in {"sleep", "woken"}
    /\ \A c \in Cpu : nr_iowait[c] + (IF pc[c] = "iowait" THEN 1 ELSE 0)
                      = Cardinality(IoSleepers(c))

\* A task that is not current has been switched out once more than it was
\* switched in.
IsCurrent(t) == \E c \in Cpu : curr[c] = t
MeterInv ==
    \A t \in Task :
        process_switches_count[t]
            = (SwitchedOut(t) - meter[t] - (IF IsCurrent(t) THEN 0 ELSE 1)) % UIntMod

\* Work that will move t from the CPU it is on to one that it may use.
GoodWork(t) ==
    \/ \E i \in DOMAIN stopq[cpu[t]] :
          stopq[cpu[t]][i].task = t /\ stopq[cpu[t]][i].dest \in cpus_mask[t]
    \/ \E u \in Task :
          targ[u].task = t /\ targ[u].src = cpu[t] /\ targ[u].dest \in cpus_mask[t]

\* Without wakelists every task that is put somewhere is put where it may be,
\* and a mask that excludes the CPU of a queued task comes with such work.
AffinityInv ==
    /\ \A c \in Cpu : pc[c] # "ttwu_wakelist" /\ wakelist[c] = {} /\ pending[c] = {}
    /\ \A c \in Cpu : pc[c] \in {"ttwu_queue", "move", "attach"} =>
          cpu[tgt[c]] \in cpus_mask[tgt[c]]
    /\ \A c \in Cpu : pc[c] = "move" /\ curr[c] = Stopper =>
          Head(stopq[c]).task = tgt[c]
    /\ \A t \in Task : targ[t].src \in Cpu => tpc[t] = "stop_one"
    /\ \A t \in Task : task_on_rq_queued(t) /\ cpu[t] \notin cpus_mask[t] => GoodWork(t)
=============================================================================
