------------------------------- MODULE Sched -------------------------------
(***************************************************************************)
(* The task-scheduling core of hw3/question_2/my_call/core.c (Linux 5.8.1  *)
(* with the process-switch counter added): how a task blocks in            *)
(* __schedule(), how try_to_wake_up() brings it back, how it migrates, how *)
(* it is born and dies, and what the accounting fields record meanwhile.   *)
(*                                                                         *)
(* A CPU is the unit of interleaving.  pc[c] = "run" is a CPU executing    *)
(* its current task with interrupts enabled: the task may take a step of   *)
(* its own program, be preempted, or be interrupted by a wakeup or an IPI. *)
(* Every other value of pc[c] is a point inside a kernel path that runs    *)
(* with interrupts disabled, between two steps another CPU can observe.    *)
(* The idle task and the stopper thread of each CPU are pseudo-tasks.      *)
(***************************************************************************)
EXTENDS Integers, Sequences, FiniteSetsExt

CONSTANTS Task,          \* task_structs
          Cpu,           \* possible CPUs, all of them online and active
          Live,          \* the tasks that exist initially, all runnable
          Sleepers,      \* the tasks whose program sleeps and is woken
          Exiters,       \* the tasks whose program may call do_task_dead()
          Meters,        \* the tasks whose program calls the two system calls
          SleepStates,   \* the sleep states programs use
          WakeKinds,     \* who wakes them: "cond" wakers, "signal" senders
          NewMasks,      \* the affinity masks sched_setaffinity is called with
          IoSleep,       \* programs may sleep through io_schedule()
          Execs,         \* programs may call sched_exec()
          LoadBalance,   \* the fair class pulls queued tasks between CPUs
          TTWU_QUEUE,    \* sched_feat(TTWU_QUEUE)
          sd_llc_id,     \* last-level-cache domain of a CPU
          UIntMod,       \* 2^32: width of process_switches_count
          CswMod,        \* 2^64: width of nvcsw and nivcsw
          LoadMod        \* 2^64: width of nr_uninterruptible

ASSUME CpuAssumption == IsFiniteSet(Cpu) /\ Cpu # {} /\ "none" \notin Cpu
ASSUME TaskAssumption ==
    /\ IsFiniteSet(Task)
    /\ Task \cap {"idle", "stop", "none"} = {}
    /\ Live \subseteq Task /\ Sleepers \subseteq Task
    /\ Exiters \subseteq Task /\ Meters \subseteq Task
ASSUME ProgramAssumption ==
    /\ SleepStates \subseteq {"INT", "UNINT", "IDLE"}
    /\ WakeKinds \subseteq {"cond", "signal"}
    /\ NewMasks \subseteq SUBSET Cpu
    /\ {IoSleep, Execs, LoadBalance, TTWU_QUEUE} \subseteq BOOLEAN
    /\ sd_llc_id \in [Cpu -> Nat]
ASSUME WidthAssumption ==
    /\ UIntMod \in Nat \ {0} /\ CswMod \in Nat \ {0} /\ LoadMod \in Nat \ {0}
    /\ CswMod % UIntMod = 0

VARIABLES
    \* struct task_struct
    state, on_rq, on_cpu, cpu, cpus_mask, pi_lock, usage,
    sched_contributes_to_load, in_iowait, sigpending,
    nvcsw, nivcsw, process_switches_count,
    \* struct rq
    rq, curr, rq_lock, wakelist, stopq, nr_uninterruptible, nr_iowait,
    \* where a task's own program is, its argument, the CONDITION it awaits,
    \* and a history: how often it had been switched out when it began to count
    tpc, targ, cond, meter,
    \* where a CPU is inside the kernel, and the locals of that path
    pc, tgt, mask, lrq, voluntary, prev_state, pending

taskVars == <<state, on_rq, on_cpu, cpu, cpus_mask>>
lockVars == <<pi_lock, rq_lock>>
rqVars   == <<rq, curr>>
loadVars == <<sched_contributes_to_load, nr_uninterruptible>>
ioVars   == <<in_iowait, nr_iowait>>
cntVars  == <<nvcsw, nivcsw, process_switches_count, meter>>
listVars == <<wakelist, pending>>
progVars == <<tpc, targ, stopq>>
evtVars  == <<cond, sigpending, usage>>
ctlVars  == <<pc, tgt, mask, lrq, voluntary, prev_state>>
vars == <<taskVars, lockVars, rqVars, loadVars, ioVars, cntVars, listVars,
          progVars, evtVars, ctlVars>>

Idle == "idle"       \* rq->idle
Stopper == "stop"    \* the migration thread of a CPU
None == "none"       \* no task, no CPU, no lock holder
NoArg == [task |-> None, dest |-> None, src |-> None]

TASK_ON_RQ_QUEUED == 1
TASK_ON_RQ_MIGRATING == 2

\* The sleep states a wakeup of this kind matches: TASK_NORMAL for a waker
\* that made the CONDITION true, TASK_INTERRUPTIBLE for a signal.
SleepMask == {"INT", "UNINT", "IDLE"}
WakeMask(kind) == IF kind = "cond" THEN SleepMask ELSE {"INT"}

task_on_rq_queued(p) == on_rq[p] = TASK_ON_RQ_QUEUED
task_on_rq_migrating(p) == on_rq[p] = TASK_ON_RQ_MIGRATING
cpus_share_cache(a, b) == sd_llc_id[a] = sd_llc_id[b]
is_cpu_allowed(p, c) == c \in cpus_mask[p]

\* The stopper is on the runqueue of its CPU while it has work or runs.
nr_running(c) ==
    Cardinality(rq[c]) + (IF stopq[c] # <<>> \/ curr[c] = Stopper THEN 1 ELSE 0)

Running(c, t) == pc[c] = "run" /\ curr[c] = t
AtWork(c, t) == Running(c, t) /\ tpc[t] = "work"

Init ==
    /\ cpus_mask = [t \in Task |-> Cpu]
    /\ cpu \in [Task -> Cpu]
    /\ state = [t \in Task |-> IF t \in Live THEN "RUNNING" ELSE "DEAD"]
    /\ on_rq = [t \in Task |-> IF t \in Live THEN TASK_ON_RQ_QUEUED ELSE 0]
    /\ on_cpu = [t \in Task |-> FALSE]
    /\ pi_lock = [t \in Task |-> None]
    /\ usage = [t \in Task |-> IF t \in Live THEN 1 ELSE 0]
    /\ sched_contributes_to_load = [t \in Task |-> FALSE]
    /\ in_iowait = [t \in Task |-> FALSE]
    /\ sigpending = [t \in Task |-> FALSE]
    /\ nvcsw = [t \in Task |-> 0]
    /\ nivcsw = [t \in Task |-> 0]
    /\ process_switches_count = [t \in Task |-> 0]
    /\ rq = [c \in Cpu |-> {t \in Live : cpu[t] = c}]
    /\ curr = [c \in Cpu |-> Idle]
    /\ rq_lock = [c \in Cpu |-> None]
    /\ wakelist = [c \in Cpu |-> {}]
    /\ stopq = [c \in Cpu |-> <<>>]
    /\ nr_uninterruptible = [c \in Cpu |-> 0]
    /\ nr_iowait = [c \in Cpu |-> 0]
    /\ tpc = [t \in Task |-> IF t \in Live THEN "work" ELSE "free"]
    /\ targ = [t \in Task |-> NoArg]
    /\ cond = [t \in Task |-> FALSE]
    /\ meter = [t \in Task |-> UIntMod - 1]
    /\ pc = [c \in Cpu |-> "run"]
    /\ tgt = [c \in Cpu |-> None]
    /\ mask = [c \in Cpu |-> {}]
    /\ lrq = [c \in Cpu |-> None]
    /\ voluntary = [c \in Cpu |-> FALSE]
    /\ prev_state = [c \in Cpu |-> None]
    /\ pending = [c \in Cpu |-> {}]

\* The end of a kernel path: its locals are dead and interrupts are enabled.
Return(c) ==
    /\ pc' = [pc EXCEPT ![c] = "run"]
    /\ tgt' = [tgt EXCEPT ![c] = None]
    /\ mask' = [mask EXCEPT ![c] = {}]
    /\ lrq' = [lrq EXCEPT ![c] = None]
    /\ voluntary' = [voluntary EXCEPT ![c] = FALSE]
    /\ prev_state' = [prev_state EXCEPT ![c] = None]

(***************************************************************************)
(* The program of a task: the wait loop documented at set_current_state(), *)
(* its exit, and the two system calls of homework 3.                       *)
(***************************************************************************)

\* set_current_state(s): the task announces that it is about to sleep.
SetCurrentState(c, t, s) ==
    /\ AtWork(c, t) /\ t \in Sleepers
    /\ state' = [state EXCEPT ![t] = s]
    /\ tpc' = [tpc EXCEPT ![t] = "test"]
    /\ UNCHANGED <<on_rq, on_cpu, cpu, cpus_mask, lockVars, rqVars, loadVars,
                   ioVars, cntVars, listVars, targ, stopq, evtVars, ctlVars>>

\* if (!need_sleep) break: the CONDITION holds, the task stays awake.
ConditionTrue(c, t) ==
    /\ Running(c, t) /\ tpc[t] = "test" /\ cond[t]
    /\ cond' = [cond EXCEPT ![t] = FALSE]
    /\ state' = [state EXCEPT ![t] = "RUNNING"]
    /\ tpc' = [tpc EXCEPT ![t] = "work"]
    /\ UNCHANGED <<on_rq, on_cpu, cpu, cpus_mask, lockVars, rqVars, loadVars,
                   ioVars, cntVars, listVars, targ, stopq, sigpending, usage,
                   ctlVars>>

\* The CONDITION does not hold: on to schedule(), or to io_schedule(), which
\* sets in_iowait first.
ConditionFalse(c, t, io) ==
    /\ Running(c, t) /\ tpc[t] = "test" /\ ~cond[t]
    /\ in_iowait' = [in_iowait EXCEPT ![t] = io]
    /\ tpc' = [tpc EXCEPT ![t] = "sleep"]
    /\ UNCHANGED <<taskVars, lockVars, rqVars, loadVars, nr_iowait, cntVars,
                   listVars, targ, stopq, evtVars, ctlVars>>

\* schedule() returned: io_schedule_finish() restores in_iowait, a pending
\* signal is taken on the way out, and the loop starts over.
ScheduleReturn(c, t) ==
    /\ Running(c, t) /\ tpc[t] = "woken"
    /\ in_iowait' = [in_iowait EXCEPT ![t] = FALSE]
    /\ sigpending' = [sigpending EXCEPT ![t] = FALSE]
    /\ tpc' = [tpc EXCEPT ![t] = "work"]
    /\ UNCHANGED <<taskVars, lockVars, rqVars, loadVars, nr_iowait, cntVars,
                   listVars, targ, stopq, cond, usage, ctlVars>>

\* Mutant: the store is not serialised against wakers.
UnlockedSpecialState(t) == TRUE

\* set_special_state() excludes wakers in flight by taking pi_lock.
SpecialStateLocked(t) == pi_lock[t] = None

\* do_task_dead(): set_special_state(TASK_DEAD).
SetSpecialState(c, t) ==
    /\ AtWork(c, t) /\ t \in Exiters /\ SpecialStateLocked(t)
    /\ state' = [state EXCEPT ![t] = "DEAD"]
    /\ tpc' = [tpc EXCEPT ![t] = "dying"]
    /\ UNCHANGED <<on_rq, on_cpu, cpu, cpus_mask, lockVars, rqVars, loadVars,
                   ioVars, cntVars, listVars, targ, stopq, evtVars, ctlVars>>

\* Context switches out of t so far, the reference the readme counts against.
SwitchedOut(t) == (nvcsw[t] + nivcsw[t]) % CswMod

start_to_count(c, t) ==
    /\ AtWork(c, t) /\ t \in Meters
    /\ process_switches_count' = [process_switches_count EXCEPT ![t] = 0]
    /\ meter' = [meter EXCEPT ![t] = SwitchedOut(t) % UIntMod]
    /\ UNCHANGED <<taskVars, lockVars, rqVars, loadVars, ioVars, nvcsw, nivcsw,
                   listVars, progVars, evtVars, ctlVars>>

\* What the other call returns to t: it reads the counter and stops nothing.
stop_to_count(t) == process_switches_count[t]

\* What the system call of homework 3, question 1 returns on CPU c.
my_get_cpu_number(c) == cpu[curr[c]]

(***************************************************************************)
(* __schedule()                                                            *)
(***************************************************************************)

\* Mutant: a sleep is entered with a signal pending.
SleepAnyway(t) == FALSE

\* signal_pending_state(): a signal cancels an interruptible sleep.
signal_pending_state(t) == state[t] = "INT" /\ sigpending[t]

\* The continuation of the caller once __schedule(false) returns.
AfterSchedule(t) == IF tpc[t] = "dying" THEN "dead" ELSE "woken"

\* prev became TASK_RUNNING again before the rq lock was taken: it stays.
KeepRunnable(c, t) ==
    /\ state[t] = "RUNNING"
    /\ pc' = [pc EXCEPT ![c] = "pick"]
    /\ UNCHANGED <<state, on_rq, rq, loadVars>>

\* A signal cancels the sleep.
CancelSleep(c, t) ==
    /\ signal_pending_state(t)
    /\ state' = [state EXCEPT ![t] = "RUNNING"]
    /\ pc' = [pc EXCEPT ![c] = "pick"]
    /\ UNCHANGED <<on_rq, rq, loadVars>>

\* deactivate_task(): prev leaves the queue.  The increment of nr_iowait
\* follows in a step of its own, because a waker that already sees on_rq = 0
\* may decrement it first.
Deactivate(c, t) ==
    /\ state[t] # "RUNNING" /\ ~signal_pending_state(t)
    /\ sched_contributes_to_load' =
          [sched_contributes_to_load EXCEPT ![t] = state[t] = "UNINT"]
    /\ nr_uninterruptible' =
          IF state[t] = "UNINT"
          THEN [nr_uninterruptible EXCEPT ![c] = (@ + 1) % LoadMod]
          ELSE nr_uninterruptible
    /\ on_rq' = [on_rq EXCEPT ![t] = 0]
    /\ rq' = [rq EXCEPT ![c] = @ \ {t}]
    /\ pc' = [pc EXCEPT ![c] = IF in_iowait[t] THEN "iowait" ELSE "pick"]
    /\ UNCHANGED state

\* __schedule(false) up to pick_next_task(): lock the rq and read prev->state.
Schedule(c, t) ==
    /\ Running(c, t) /\ tpc[t] \in {"sleep", "dying"} /\ rq_lock[c] = None
    /\ rq_lock' = [rq_lock EXCEPT ![c] = c]
    /\ tpc' = [tpc EXCEPT ![t] = AfterSchedule(t)]
    /\ tgt' = [tgt EXCEPT ![c] = t]
    /\ voluntary' = [voluntary EXCEPT ![c] = state[t] # "RUNNING"]
    /\ KeepRunnable(c, t) \/ CancelSleep(c, t) \/ Deactivate(c, t)
    /\ UNCHANGED <<on_cpu, cpu, cpus_mask, pi_lock, curr, ioVars, cntVars,
                   listVars, targ, stopq, evtVars, mask, lrq, prev_state>>

\* atomic_inc(&rq->nr_iowait), after prev left the queue.
IowaitInc(c) ==
    /\ pc[c] = "iowait"
    /\ nr_iowait' = [nr_iowait EXCEPT ![c] = @ + 1]
    /\ pc' = [pc EXCEPT ![c] = "pick"]
    /\ UNCHANGED <<taskVars, lockVars, rqVars, loadVars, in_iowait, cntVars,
                   listVars, progVars, evtVars, tgt, mask, lrq, voluntary,
                   prev_state>>

\* __schedule(true) from a preemption point: prev keeps its place on the
\* queue whatever its state.  do_task_dead() runs with preemption disabled.
Preempt(c, t) ==
    /\ Running(c, t) /\ tpc[t] \notin {"dying", "dead"} /\ rq_lock[c] = None
    /\ rq_lock' = [rq_lock EXCEPT ![c] = c]
    /\ tgt' = [tgt EXCEPT ![c] = t]
    /\ pc' = [pc EXCEPT ![c] = "pick"]
    /\ UNCHANGED <<taskVars, pi_lock, rqVars, loadVars, ioVars, cntVars,
                   listVars, progVars, evtVars, mask, lrq, voluntary, prev_state>>

\* schedule_idle() when there is something to run, and the stopper thread
\* going back to sleep once its work list is empty.
PseudoSchedule(c) ==
    /\ pc[c] = "run" /\ rq_lock[c] = None
    /\ \/ curr[c] = Idle /\ nr_running(c) > 0
       \/ curr[c] = Stopper /\ stopq[c] = <<>>
    /\ rq_lock' = [rq_lock EXCEPT ![c] = c]
    /\ tgt' = [tgt EXCEPT ![c] = curr[c]]
    /\ pc' = [pc EXCEPT ![c] = "pick"]
    /\ UNCHANGED <<taskVars, pi_lock, rqVars, loadVars, ioVars, cntVars,
                   listVars, progVars, evtVars, mask, lrq, voluntary, prev_state>>

\* Mutant: the stopper is not preferred over queued tasks.
PickAny(c) == rq[c] \cup (IF stopq[c] # <<>> THEN {Stopper} ELSE {})
              \cup (IF rq[c] = {} /\ stopq[c] = <<>> THEN {Idle} ELSE {})

\* pick_next_task(): the stop class first, then any queued task, then idle.
pick_next_task(c) ==
    IF stopq[c] # <<>> THEN {Stopper} ELSE IF rq[c] # {} THEN rq[c] ELSE {Idle}

Bump(f, t, m) == IF t \in Task THEN [f EXCEPT ![t] = (@ + 1) % m] ELSE f

\* Mutant: the switched-out task is counted too (the line commented out).
CountBothSides(prev, next) ==
    Bump(Bump(process_switches_count, prev, UIntMod), next, UIntMod)

\* The line added by homework 3: next->process_switches_count++.
CountSwitch(prev, next) == Bump(process_switches_count, next, UIntMod)

\* prev != next: the counters move, next becomes current and is claimed
\* (prepare_task) before the stacks are switched.
Switch(c, next) ==
    /\ pc[c] = "pick" /\ next \in pick_next_task(c) /\ next # tgt[c]
    /\ nvcsw' = IF voluntary[c] THEN Bump(nvcsw, tgt[c], CswMod) ELSE nvcsw
    /\ nivcsw' = IF voluntary[c] THEN nivcsw ELSE Bump(nivcsw, tgt[c], CswMod)
    /\ process_switches_count' = CountSwitch(tgt[c], next)
    /\ curr' = [curr EXCEPT ![c] = next]
    /\ on_cpu' = IF next \in Task THEN [on_cpu EXCEPT ![next] = TRUE] ELSE on_cpu
    /\ pc' = [pc EXCEPT ![c] = "finish"]
    /\ UNCHANGED <<state, on_rq, cpu, cpus_mask, lockVars, rq, loadVars, ioVars,
                   meter, listVars, progVars, evtVars, tgt, mask, lrq, voluntary,
                   prev_state>>

\* prev == next: unlock and return.
NoSwitch(c) ==
    /\ pc[c] = "pick" /\ tgt[c] \in pick_next_task(c)
    /\ rq_lock' = [rq_lock EXCEPT ![c] = None]
    /\ Return(c)
    /\ UNCHANGED <<taskVars, pi_lock, rqVars, loadVars, ioVars, cntVars,
                   listVars, progVars, evtVars>>

\* finish_task(prev): nobody waits for prev any longer.
finish_task(prev) ==
    IF prev \in Task THEN [on_cpu EXCEPT ![prev] = FALSE] ELSE on_cpu

\* finish_task_switch() on the new stack: read prev->state, release prev
\* (finish_task), unlock the rq.
FinishTaskSwitch(c) ==
    /\ pc[c] = "finish"
    /\ prev_state' =
          [prev_state EXCEPT ![c] = IF tgt[c] \in Task THEN state[tgt[c]] ELSE None]
    /\ on_cpu' = finish_task(tgt[c])
    /\ rq_lock' = [rq_lock EXCEPT ![c] = None]
    /\ pc' = [pc EXCEPT ![c] = "reap"]
    /\ UNCHANGED <<state, on_rq, cpu, cpus_mask, pi_lock, rqVars, loadVars, ioVars,
                   cntVars, listVars, progVars, evtVars, tgt, mask, lrq, voluntary>>

\* Mutant: prev->state is read after prev was released.
PrevDiedLate(c) == tgt[c] \in Task /\ state[tgt[c]] = "DEAD"

\* The local prev_state decides, not what prev->state says by now.
PrevDied(c) == prev_state[c] = "DEAD"

\* prev_state == TASK_DEAD: drop the reference prev held as "current".
Reap(c) ==
    /\ pc[c] = "reap"
    /\ usage' = IF PrevDied(c)
                THEN [usage EXCEPT ![tgt[c]] = @ - 1] ELSE usage
    /\ Return(c)
    /\ UNCHANGED <<taskVars, lockVars, rqVars, loadVars, ioVars, cntVars,
                   listVars, progVars, cond, sigpending>>

(***************************************************************************)
(* try_to_wake_up()                                                        *)
(***************************************************************************)

\* The waker makes the CONDITION true (or sets TIF_SIGPENDING) before it
\* calls try_to_wake_up().
Announce(p, kind) ==
    /\ cond' = IF kind = "cond" THEN [cond EXCEPT ![p] = TRUE] ELSE cond
    /\ sigpending' = IF kind = "signal" THEN [sigpending EXCEPT ![p] = TRUE]
                     ELSE sigpending

\* p == current: no locks, interrupts of this CPU woke its own task.
WakeCurrent(c, p, kind) ==
    /\ Running(c, p) /\ p \in Sleepers
    /\ Announce(p, kind)
    /\ state' = IF state[p] \in WakeMask(kind)
                THEN [state EXCEPT ![p] = "RUNNING"] ELSE state
    /\ UNCHANGED <<on_rq, on_cpu, cpu, cpus_mask, lockVars, rqVars, loadVars,
                   ioVars, cntVars, listVars, progVars, usage, ctlVars>>

Wake(c, p, kind) ==
    /\ pc[c] = "run" /\ curr[c] # p /\ tpc[p] # "free" /\ p \in Sleepers
    /\ Announce(p, kind)
    /\ pc' = [pc EXCEPT ![c] = "ttwu_lock"]
    /\ tgt' = [tgt EXCEPT ![c] = p]
    /\ mask' = [mask EXCEPT ![c] = WakeMask(kind)]
    /\ UNCHANGED <<taskVars, lockVars, rqVars, loadVars, ioVars, cntVars,
                   listVars, progVars, usage, lrq, voluntary, prev_state>>

\* Take pi_lock and look at p->state: no match, nothing to do.
TtwuMatch(c) ==
    /\ state[tgt[c]] \in mask[c]
    /\ pi_lock' = [pi_lock EXCEPT ![tgt[c]] = c]
    /\ pc' = [pc EXCEPT ![c] = "ttwu_on_rq"]
    /\ UNCHANGED <<tgt, mask, lrq, voluntary, prev_state>>

TtwuNoMatch(c) ==
    /\ state[tgt[c]] \notin mask[c]
    /\ Return(c)
    /\ UNCHANGED pi_lock

TtwuLock(c) ==
    /\ pc[c] = "ttwu_lock" /\ pi_lock[tgt[c]] = None
    /\ TtwuMatch(c) \/ TtwuNoMatch(c)
    /\ UNCHANGED <<taskVars, rq_lock, rqVars, loadVars, ioVars, cntVars,
                   listVars, progVars, evtVars>>

\* Mutant: try_to_wake_up() takes every sleeper for dequeued.
AssumeDequeued(p) == 0

\* READ_ONCE(p->on_rq), without the rq lock.
ReadOnRq(p) == on_rq[p]

\* if (READ_ONCE(p->on_rq) && ...): __task_rq_lock() then reads task_rq(p).
TtwuOnRq(c) ==
    /\ pc[c] = "ttwu_on_rq"
    /\ lrq' = [lrq EXCEPT ![c] = IF ReadOnRq(tgt[c]) # 0 THEN cpu[tgt[c]] ELSE None]
    /\ pc' = [pc EXCEPT ![c] = IF ReadOnRq(tgt[c]) # 0
                               THEN "ttwu_remote" ELSE "ttwu_waking"]
    /\ UNCHANGED <<taskVars, lockVars, rqVars, loadVars, ioVars, cntVars,
                   listVars, progVars, evtVars, tgt, mask, voluntary, prev_state>>

\* __task_rq_lock() finds that p moved meanwhile, and reads task_rq(p) again.
TtwuChase(c, p) ==
    /\ cpu[p] # lrq[c] /\ ~task_on_rq_migrating(p)
    /\ lrq' = [lrq EXCEPT ![c] = cpu[p]]
    /\ UNCHANGED <<state, pi_lock, pc, tgt, mask, voluntary, prev_state>>

\* p is still queued: the light wakeup only flips its state.
TtwuFlip(c, p) ==
    /\ cpu[p] = lrq[c] /\ task_on_rq_queued(p)
    /\ state' = [state EXCEPT ![p] = "RUNNING"]
    /\ pi_lock' = [pi_lock EXCEPT ![p] = None]
    /\ Return(c)

\* Mutant: the result of ttwu_remote() is ignored and the waker leaves.
LightOnly(c, p) ==
    /\ cpu[p] = lrq[c] /\ on_rq[p] = 0
    /\ pi_lock' = [pi_lock EXCEPT ![p] = None]
    /\ Return(c)
    /\ UNCHANGED state

\* p was descheduled in between: the full wakeup follows.
TtwuMissed(c, p) ==
    /\ cpu[p] = lrq[c] /\ on_rq[p] = 0
    /\ lrq' = [lrq EXCEPT ![c] = None]
    /\ pc' = [pc EXCEPT ![c] = "ttwu_waking"]
    /\ UNCHANGED <<state, pi_lock, tgt, mask, voluntary, prev_state>>

\* ttwu_remote() once the lock of the rq read above is free.
TtwuRemote(c) ==
    /\ pc[c] = "ttwu_remote" /\ rq_lock[lrq[c]] = None
    /\ TtwuChase(c, tgt[c]) \/ TtwuFlip(c, tgt[c]) \/ TtwuMissed(c, tgt[c])
    /\ UNCHANGED <<on_rq, on_cpu, cpu, cpus_mask, rq_lock, rqVars, loadVars,
                   ioVars, cntVars, listVars, progVars, evtVars>>

\* Mutant: the waker settles its own rq.
WakerRq(c, p) == c

\* The rq whose nr_iowait a waker on CPU c settles for p.
IowaitRq(c, p) == cpu[p]

\* p is off its queue: settle its I/O wait on the rq it blocked on, then
\* TASK_WAKING.
TtwuWaking(c) ==
    LET p == tgt[c] IN
    /\ pc[c] = "ttwu_waking"
    /\ nr_iowait' = IF in_iowait[p] THEN [nr_iowait EXCEPT ![IowaitRq(c, p)] = @ - 1]
                    ELSE nr_iowait
    /\ state' = [state EXCEPT ![p] = "WAKING"]
    /\ pc' = [pc EXCEPT ![c] = "ttwu_on_cpu"]
    /\ UNCHANGED <<on_rq, on_cpu, cpu, cpus_mask, lockVars, rqVars, loadVars,
                   in_iowait, cntVars, listVars, progVars, evtVars, tgt, mask,
                   lrq, voluntary, prev_state>>

\* ttwu_queue_wakelist()'s decision; the flag is WF_ON_CPU.  A CPU never
\* queues on its own wakelist.
ttwu_queue_cond(c, dest, wf_on_cpu) ==
    /\ TTWU_QUEUE
    /\ ~cpus_share_cache(c, dest) \/ (wf_on_cpu /\ nr_running(dest) <= 1)
    /\ dest # c

\* if (p->on_cpu && ttwu_queue_wakelist(...)): the decision is taken here,
\* the entry is queued in the next step.
TtwuOnCpu(c) ==
    LET p == tgt[c]
        remote == on_cpu[p] /\ ttwu_queue_cond(c, cpu[p], TRUE)
    IN
    /\ pc[c] = "ttwu_on_cpu"
    /\ lrq' = [lrq EXCEPT ![c] = IF remote THEN cpu[p] ELSE None]
    /\ pc' = [pc EXCEPT ![c] = IF remote THEN "ttwu_wakelist" ELSE "ttwu_select"]
    /\ UNCHANGED <<taskVars, lockVars, rqVars, loadVars, ioVars, cntVars,
                   listVars, progVars, evtVars, tgt, mask, voluntary, prev_state>>

\* __ttwu_queue_wakelist()
ttwu_queue_wakelist(p, dest) == [wakelist EXCEPT ![dest] = @ \cup {p}]

\* Hand p to its CPU, release pi_lock.
TtwuWakelist(c) ==
    /\ pc[c] = "ttwu_wakelist"
    /\ wakelist' = ttwu_queue_wakelist(tgt[c], lrq[c])
    /\ pi_lock' = [pi_lock EXCEPT ![tgt[c]] = None]
    /\ Return(c)
    /\ UNCHANGED <<taskVars, rq_lock, rqVars, loadVars, ioVars, cntVars, pending,
                   progVars, evtVars>>

\* Mutant: the task is sent to a rq but keeps its CPU number.
KeepsCpu(p, dest) == cpu

\* set_task_cpu() and __set_task_cpu()
set_task_cpu(p, dest) == [cpu EXCEPT ![p] = dest]

\* Mutant: no wait for the CPU that is still switching p out.
NoSpin(p) == TRUE

\* smp_cond_load_acquire(&p->on_cpu, !VAL) returns.
SwitchedAway(p) == ~on_cpu[p]

\* Spin until p->on_cpu is clear, then select_task_rq() and set_task_cpu().
\* The policy of the class is open: any CPU of cpus_mask.
TtwuSelect(c, dest) ==
    /\ pc[c] = "ttwu_select" /\ SwitchedAway(tgt[c])
    /\ is_cpu_allowed(tgt[c], dest)
    /\ cpu' = set_task_cpu(tgt[c], dest)
    /\ lrq' = [lrq EXCEPT ![c] = dest]
    /\ pc' = [pc EXCEPT ![c] = IF ttwu_queue_cond(c, dest, FALSE)
                               THEN "ttwu_wakelist" ELSE "ttwu_queue"]
    /\ UNCHANGED <<state, on_rq, on_cpu, cpus_mask, lockVars, rqVars, loadVars,
                   ioVars, cntVars, listVars, progVars, evtVars, tgt, mask,
                   voluntary, prev_state>>

\* Mutant: every activated task is uncounted.
EveryTask(S) == S

\* The tasks of S that were counted as uninterruptible when they blocked.
Contributors(S) == {p \in S : sched_contributes_to_load[p]}

\* activate_task() and ttwu_do_wakeup() for a set of tasks, under the rq lock.
ttwu_do_activate(c, S) ==
    LET n == Cardinality(Contributors(S)) IN
    /\ nr_uninterruptible' = [nr_uninterruptible EXCEPT ![c] = (@ - n) % LoadMod]
    /\ rq' = [rq EXCEPT ![c] = @ \cup S]
    /\ on_rq' = [p \in Task |-> IF p \in S THEN TASK_ON_RQ_QUEUED ELSE on_rq[p]]
    /\ state' = [p \in Task |-> IF p \in S THEN "RUNNING" ELSE state[p]]

\* ttwu_queue() without the wakelist: activate p on the selected rq.
TtwuQueue(c) ==
    /\ pc[c] = "ttwu_queue" /\ rq_lock[lrq[c]] = None
    /\ ttwu_do_activate(lrq[c], {tgt[c]})
    /\ pi_lock' = [pi_lock EXCEPT ![tgt[c]] = None]
    /\ Return(c)
    /\ UNCHANGED <<on_cpu, cpu, cpus_mask, rq_lock, curr, sched_contributes_to_load,
                   ioVars, cntVars, listVars, progVars, evtVars>>

\* Mutant: the IPI is delivered in the middle of a switch.
IrqsDuringSwitch(c) == pc[c] \in {"run", "finish"}

\* "IRQs are disabled and the IPI will deliver after on_cpu is cleared."
IrqsEnabled(c) == pc[c] = "run"

\* The IPI (or the exit from polling idle) takes the whole wakelist ...
TtwuIpi(c) ==
    /\ IrqsEnabled(c) /\ wakelist[c] # {}
    /\ pending' = [pending EXCEPT ![c] = wakelist[c]]
    /\ wakelist' = [wakelist EXCEPT ![c] = {}]
    /\ pc' = [pc EXCEPT ![c] = "pending"]
    /\ UNCHANGED <<taskVars, lockVars, rqVars, loadVars, ioVars, cntVars,
                   progVars, evtVars, tgt, mask, lrq, voluntary, prev_state>>

\* ... and activates it under the rq lock.  The loop waits for on_cpu and
\* moves a task to this CPU, should the two WARN_ONs ever fire.
SchedTtwuPending(c) ==
    /\ pc[c] \in {"pending", "stop_pending"} /\ rq_lock[c] = None
    /\ \A p \in pending[c] : ~on_cpu[p]
    /\ cpu' = [p \in Task |-> IF p \in pending[c] THEN c ELSE cpu[p]]
    /\ ttwu_do_activate(c, pending[c])
    /\ pending' = [pending EXCEPT ![c] = {}]
    /\ pc' = [pc EXCEPT ![c] = IF @ = "pending" THEN "run" ELSE "stop_lock"]
    /\ UNCHANGED <<on_cpu, cpus_mask, lockVars, curr, sched_contributes_to_load,
                   ioVars, cntVars, wakelist, progVars, evtVars, tgt, mask, lrq,
                   voluntary, prev_state>>

(***************************************************************************)
(* Affinity and migration.                                                 *)
(***************************************************************************)

\* The locks task_rq_lock(p) waits for are free, and p is on no move.
CanTaskRqLock(p) ==
    pi_lock[p] = None /\ rq_lock[cpu[p]] = None /\ ~task_on_rq_migrating(p)

\* move_queued_task() up to the release of the old rq: the caller goes on
\* holding pi_lock only, and p belongs to no queue.
move_queued_task(c, p, dest) ==
    /\ on_rq' = [on_rq EXCEPT ![p] = TASK_ON_RQ_MIGRATING]
    /\ rq' = [rq EXCEPT ![cpu[p]] = @ \ {p}]
    /\ cpu' = set_task_cpu(p, dest)
    /\ pi_lock' = [pi_lock EXCEPT ![p] = c]
    /\ tgt' = [tgt EXCEPT ![c] = p]
    /\ lrq' = [lrq EXCEPT ![c] = dest]
    /\ pc' = [pc EXCEPT ![c] = "move"]

\* Mutant: a running task is not recognised as such.
OnlyWaking(p) == state[p] = "WAKING"

\* task_running(rq, p) || p->state == TASK_WAKING
NeedsStopper(p) == on_cpu[p] \/ state[p] = "WAKING"

\* p may stay where it is, or sleeps and will be placed when it wakes.
MaskOnly(p, m) ==
    /\ cpu[p] \in m \/ ~(NeedsStopper(p) \/ task_on_rq_queued(p))
    /\ UNCHANGED <<on_rq, cpu, rq, pi_lock, tpc, targ, pc, tgt, lrq>>

\* p runs or is being woken: the caller needs the stopper of p's CPU.
AskStopper(t, p, m, dest) ==
    /\ cpu[p] \notin m /\ NeedsStopper(p)
    /\ targ' = [targ EXCEPT ![t] = [task |-> p, dest |-> dest, src |-> cpu[p]]]
    /\ tpc' = [tpc EXCEPT ![t] = "stop_one"]
    /\ UNCHANGED <<on_rq, cpu, rq, pi_lock, pc, tgt, lrq>>

\* p is queued and does not run: it is moved at once.
MoveNow(c, p, m, dest) ==
    /\ cpu[p] \notin m /\ ~NeedsStopper(p) /\ task_on_rq_queued(p)
    /\ move_queued_task(c, p, dest)
    /\ UNCHANGED <<tpc, targ>>

\* __set_cpus_allowed_ptr(p, m), called by task t.
SetCpusAllowed(c, t, p, m, dest) ==
    /\ AtWork(c, t) /\ tpc[p] \notin {"free", "new"} /\ CanTaskRqLock(p)
    /\ cpus_mask[p] # m /\ dest \in m
    /\ cpus_mask' = [cpus_mask EXCEPT ![p] = m]
    /\ MaskOnly(p, m) \/ AskStopper(t, p, m, dest) \/ MoveNow(c, p, m, dest)
    /\ UNCHANGED <<state, on_cpu, rq_lock, curr, loadVars, ioVars, cntVars,
                   listVars, stopq, evtVars, mask, voluntary, prev_state>>

\* sched_exec(): move the current task elsewhere while it is cheap to.
SchedExec(c, t, dest) ==
    /\ Execs /\ AtWork(c, t) /\ pi_lock[t] = None
    /\ is_cpu_allowed(t, dest) /\ dest # c
    /\ targ' = [targ EXCEPT ![t] = [task |-> t, dest |-> dest, src |-> c]]
    /\ tpc' = [tpc EXCEPT ![t] = "stop_one"]
    /\ UNCHANGED <<taskVars, lockVars, rqVars, loadVars, ioVars, cntVars,
                   listVars, stopq, evtVars, ctlVars>>

\* stop_one_cpu(): queue the work on the stopper of the source CPU and wait
\* for its completion.
StopOneCpu(c, t) ==
    /\ Running(c, t) /\ tpc[t] = "stop_one"
    /\ stopq' = [stopq EXCEPT ![targ[t].src] =
                    Append(@, [task |-> targ[t].task, dest |-> targ[t].dest,
                               caller |-> t])]
    /\ targ' = [targ EXCEPT ![t] = NoArg]
    /\ tpc' = [tpc EXCEPT ![t] = "stop_wait"]
    /\ UNCHANGED <<taskVars, lockVars, rqVars, loadVars, ioVars, cntVars,
                   listVars, evtVars, ctlVars>>

\* migration_cpu_stop() begins, on the stopper: interrupts off and flush the
\* wakelist ...
StopFlush(c) ==
    /\ Running(c, Stopper) /\ stopq[c] # <<>>
    /\ pending' = [pending EXCEPT ![c] = wakelist[c]]
    /\ wakelist' = [wakelist EXCEPT ![c] = {}]
    /\ pc' = [pc EXCEPT ![c] = IF wakelist[c] = {} THEN "stop_lock" ELSE "stop_pending"]
    /\ UNCHANGED <<taskVars, lockVars, rqVars, loadVars, ioVars, cntVars,
                   progVars, evtVars, tgt, mask, lrq, voluntary, prev_state>>

\* Mutant: the destination is trusted.
StaleDestination(p, dest) == TRUE

\* __migrate_task() looks at the mask again: it may have changed since.
StillAllowed(p, dest) == is_cpu_allowed(p, dest)

\* The work is done: the waiting caller continues.
StopDone(c) ==
    /\ tpc' = [tpc EXCEPT ![Head(stopq[c]).caller] = "work"]
    /\ stopq' = [stopq EXCEPT ![c] = Tail(@)]

\* task_rq(p) == rq and p is queued: __migrate_task().
StopMove(c, p, dest) ==
    /\ cpu[p] = c /\ task_on_rq_queued(p) /\ StillAllowed(p, dest)
    /\ move_queued_task(c, p, dest)
    /\ UNCHANGED <<tpc, stopq, mask, voluntary, prev_state>>

\* p is elsewhere, asleep, or may not go there any more: nothing to move.
StopNothing(c, p, dest) ==
    /\ ~(cpu[p] = c /\ task_on_rq_queued(p) /\ StillAllowed(p, dest))
    /\ StopDone(c)
    /\ Return(c)
    /\ UNCHANGED <<on_rq, rq, cpu, pi_lock>>

\* ... then take both locks and look where the task is.
MigrationCpuStop(c) ==
    LET p == Head(stopq[c]).task
        dest == Head(stopq[c]).dest
    IN
    /\ pc[c] = "stop_lock" /\ pi_lock[p] = None /\ rq_lock[c] = None
    /\ StopMove(c, p, dest) \/ StopNothing(c, p, dest)
    /\ UNCHANGED <<state, on_cpu, cpus_mask, rq_lock, curr, loadVars, ioVars,
                   cntVars, listVars, targ, evtVars>>

\* move_queued_task() on the new rq; the stopper then completes its work.
MoveEnqueue(c) ==
    /\ pc[c] = "move" /\ rq_lock[lrq[c]] = None
    /\ rq' = [rq EXCEPT ![lrq[c]] = @ \cup {tgt[c]}]
    /\ on_rq' = [on_rq EXCEPT ![tgt[c]] = TASK_ON_RQ_QUEUED]
    /\ pi_lock' = [pi_lock EXCEPT ![tgt[c]] = None]
    /\ Return(c)
    /\ IF curr[c] = Stopper THEN StopDone(c) ELSE UNCHANGED <<tpc, stopq>>
    /\ UNCHANGED <<state, on_cpu, cpu, cpus_mask, rq_lock, curr, loadVars, ioVars,
                   cntVars, listVars, targ, evtVars>>

\* The fair class pulls a queued task that does not run, under the source rq
\* lock only (the caller deactivate_task()'s MIGRATING branch is there for) ...
DetachTask(c, p) ==
    /\ LoadBalance /\ pc[c] = "run" /\ cpu[p] # c
    /\ task_on_rq_queued(p) /\ ~on_cpu[p] /\ is_cpu_allowed(p, c)
    /\ rq_lock[cpu[p]] = None
    /\ on_rq' = [on_rq EXCEPT ![p] = TASK_ON_RQ_MIGRATING]
    /\ rq' = [rq EXCEPT ![cpu[p]] = @ \ {p}]
    /\ cpu' = set_task_cpu(p, c)
    /\ tgt' = [tgt EXCEPT ![c] = p]
    /\ pc' = [pc EXCEPT ![c] = "attach"]
    /\ UNCHANGED <<state, on_cpu, cpus_mask, lockVars, curr, loadVars, ioVars,
                   cntVars, listVars, progVars, evtVars, mask, lrq, voluntary,
                   prev_state>>

\* ... and attaches it under its own.
AttachTask(c) ==
    /\ pc[c] = "attach" /\ rq_lock[c] = None
    /\ rq' = [rq EXCEPT ![c] = @ \cup {tgt[c]}]
    /\ on_rq' = [on_rq EXCEPT ![tgt[c]] = TASK_ON_RQ_QUEUED]
    /\ Return(c)
    /\ UNCHANGED <<state, on_cpu, cpu, cpus_mask, lockVars, curr, loadVars, ioVars,
                   cntVars, listVars, progVars, evtVars>>

(***************************************************************************)
(* Birth.                                                                  *)
(***************************************************************************)

\* The child inherits the count of its parent, and its first switch-in has no
\* switch-out before it.
InheritedBase(p, t) == (SwitchedOut(p) - process_switches_count[t] - 1) % UIntMod

\* dup_task_struct() copies the parent's fields, sched_fork() resets the ones
\* it owns and marks the child TASK_NEW on the parent's CPU.
SchedFork(c, t, p) ==
    /\ AtWork(c, t) /\ tpc[p] = "free"
    /\ state' = [state EXCEPT ![p] = "NEW"]
    /\ cpu' = set_task_cpu(p, c)
    /\ cpus_mask' = [cpus_mask EXCEPT ![p] = cpus_mask[t]]
    /\ sched_contributes_to_load' =
          [sched_contributes_to_load EXCEPT ![p] = sched_contributes_to_load[t]]
    /\ process_switches_count' =
          [process_switches_count EXCEPT ![p] = process_switches_count[t]]
    /\ meter' = [meter EXCEPT ![p] = InheritedBase(p, t)]
    /\ usage' = [usage EXCEPT ![p] = 1]
    /\ tpc' = [tpc EXCEPT ![p] = "new", ![t] = "forked"]
    /\ targ' = [targ EXCEPT ![t] = [NoArg EXCEPT !.task = p]]
    /\ UNCHANGED <<on_rq, on_cpu, lockVars, rqVars, nr_uninterruptible, ioVars,
                   nvcsw, nivcsw, listVars, stopq, cond, sigpending, ctlVars>>

\* wake_up_new_task(): under pi_lock and the lock of the selected rq.
WakeUpNewTask(c, t, dest) ==
    LET p == targ[t].task IN
    /\ Running(c, t) /\ tpc[t] = "forked"
    /\ pi_lock[p] = None /\ is_cpu_allowed(p, dest) /\ rq_lock[dest] = None
    /\ state' = [state EXCEPT ![p] = "RUNNING"]
    /\ cpu' = set_task_cpu(p, dest)
    /\ on_rq' = [on_rq EXCEPT ![p] = TASK_ON_RQ_QUEUED]
    /\ rq' = [rq EXCEPT ![dest] = @ \cup {p}]
    /\ tpc' = [tpc EXCEPT ![p] = "work", ![t] = "work"]
    /\ targ' = [targ EXCEPT ![t] = NoArg]
    /\ UNCHANGED <<on_cpu, cpus_mask, lockVars, curr, loadVars, ioVars, cntVars,
                   listVars, stopq, evtVars, ctlVars>>

-----------------------------------------------------------------------------

Program(c, t) ==
    \/ \E s \in SleepStates : SetCurrentState(c, t, s)
    \/ ConditionTrue(c, t)
    \/ \E io \in {FALSE, IoSleep} : ConditionFalse(c, t, io)
    \/ ScheduleReturn(c, t)
    \/ SetSpecialState(c, t)
    \/ start_to_count(c, t)
    \/ \E p \in Task, m \in NewMasks, dest \in Cpu : SetCpusAllowed(c, t, p, m, dest)
    \/ \E dest \in Cpu : SchedExec(c, t, dest)
    \/ StopOneCpu(c, t)
    \/ \E p \in Task : SchedFork(c, t, p)
    \/ \E dest \in Cpu : WakeUpNewTask(c, t, dest)

\* The steps that finish what a CPU has begun with interrupts disabled.
Kernel(c) ==
    \/ IowaitInc(c)
    \/ \E next \in Task \cup {Idle, Stopper} : Switch(c, next)
    \/ NoSwitch(c)
    \/ FinishTaskSwitch(c)
    \/ Reap(c)
    \/ TtwuLock(c)
    \/ TtwuOnRq(c)
    \/ TtwuRemote(c)
    \/ TtwuWaking(c)
    \/ TtwuOnCpu(c)
    \/ TtwuWakelist(c)
    \/ \E dest \in Cpu : TtwuSelect(c, dest)
    \/ TtwuQueue(c)
    \/ SchedTtwuPending(c)
    \/ MigrationCpuStop(c)
    \/ MoveEnqueue(c)
    \/ AttachTask(c)

\* Interrupts and scheduling points of a CPU that runs.
Interrupt(c) ==
    \/ \E p \in Task, kind \in WakeKinds : WakeCurrent(c, p, kind)
    \/ \E p \in Task, kind \in WakeKinds : Wake(c, p, kind)
    \/ TtwuIpi(c)
    \/ \E p \in Task : DetachTask(c, p)

Reschedule(c) ==
    \/ \E t \in Task : Schedule(c, t)
    \/ \E t \in Task : Preempt(c, t)
    \/ PseudoSchedule(c)
    \/ StopFlush(c)

Next == \E c \in Cpu :
    \/ \E t \in Task : Program(c, t)
    \/ Kernel(c)
    \/ Interrupt(c)
    \/ Reschedule(c)

Spec == Init /\ [][Next]_vars

\* A CPU whose stopper has work comes to run it: adding the work sets
\* need_resched, and no class outranks the stop class.
ServeStopper(c) ==
    /\ stopq[c] # <<>>
    /\ \/ \E t \in Task : Preempt(c, t) \/ Schedule(c, t)
       \/ PseudoSchedule(c)
       \/ StopFlush(c)

\* Spinlocks are queued, so a CPU that waits for one gets it.  Nothing is assumed
\* of programs, of wakers, or of which task the scheduling classes pick.
FairSpec ==
    Spec /\ \A c \in Cpu : SF_vars(Kernel(c)) /\ SF_vars(ServeStopper(c))

-----------------------------------------------------------------------------
(***************************************************************************)
(* Properties.                                                             *)
(***************************************************************************)

SchedState == {"RUNNING", "INT", "UNINT", "IDLE", "WAKING", "NEW", "DEAD"}
TtwuPc == {"ttwu_on_rq", "ttwu_remote", "ttwu_waking", "ttwu_on_cpu",
           "ttwu_wakelist", "ttwu_select", "ttwu_queue"}
SwitchPc == {"iowait", "pick", "finish"}
StopPc == {"stop_pending", "stop_lock"}

TaskType ==
    /\ state \in [Task -> SchedState]
    /\ on_rq \in [Task -> {0, TASK_ON_RQ_QUEUED, TASK_ON_RQ_MIGRATING}]
    /\ on_cpu \in [Task -> BOOLEAN]
    /\ cpu \in [Task -> Cpu]
    /\ cpus_mask \in [Task -> SUBSET Cpu]
    /\ pi_lock \in [Task -> Cpu \cup {None}]
RqType ==
    /\ rq \in [Cpu -> SUBSET Task]
    /\ curr \in [Cpu -> Task \cup {Idle, Stopper}]
    /\ rq_lock \in [Cpu -> Cpu \cup {None}]
    /\ wakelist \in [Cpu -> SUBSET Task]
    /\ pending \in [Cpu -> SUBSET Task]
AccountType ==
    /\ usage \in [Task -> Int]
    /\ sched_contributes_to_load \in [Task -> BOOLEAN]
    /\ in_iowait \in [Task -> BOOLEAN]
    /\ nr_uninterruptible \in [Cpu -> 0 .. LoadMod - 1]
    /\ nr_iowait \in [Cpu -> Int]
    /\ nvcsw \in [Task -> 0 .. CswMod - 1]
    /\ nivcsw \in [Task -> 0 .. CswMod - 1]
    /\ process_switches_count \in [Task -> 0 .. UIntMod - 1]
    /\ meter \in [Task -> 0 .. UIntMod - 1]
ProgType ==
    /\ tpc \in [Task -> {"free", "new", "work", "test", "sleep", "woken", "dying",
                         "dead", "stop_one", "stop_wait", "forked"}]
    /\ targ \in [Task -> [task : Task \cup {None}, dest : Cpu \cup {None},
                          src : Cpu \cup {None}]]
    /\ stopq \in [Cpu -> Seq([task : Task, dest : Cpu, caller : Task])]
    /\ cond \in [Task -> BOOLEAN]
    /\ sigpending \in [Task -> BOOLEAN]
CtlType ==
    /\ pc \in [Cpu -> {"run", "reap", "ttwu_lock", "pending", "move", "attach"}
                      \cup TtwuPc \cup SwitchPc \cup StopPc]
    /\ tgt \in [Cpu -> Task \cup {Idle, Stopper, None}]
    /\ mask \in [Cpu -> SUBSET SleepMask]
    /\ lrq \in [Cpu -> Cpu \cup {None}]
    /\ voluntary \in [Cpu -> BOOLEAN]
    /\ prev_state \in [Cpu -> SchedState \cup {None}]

\* Every field holds a value of its type; in particular the counters stay
\* within their widths.
TypeOK == TaskType /\ RqType /\ AccountType /\ ProgType /\ CtlType

\* A runqueue holds exactly the tasks that say they are queued on it: on_rq
\* and cpu, written under different locks by wakeups, migrations and the
\* load balancer, never disagree with the queue itself.
RunqueueConsistent ==
    \A t \in Task, c \in Cpu :
        t \in rq[c] <=> task_on_rq_queued(t) /\ cpu[t] = c

\* CPU c runs on the stack of t: t is its current task, or it is still being
\* switched out.
Executes(c, t) == curr[c] = t \/ (pc[c] = "finish" /\ tgt[c] = t)

\* on_cpu is what try_to_wake_up() spins on: it is set exactly while some CPU
\* uses the task's stack, and never two of them do.
SingleExecution ==
    \A t \in Task :
        /\ on_cpu[t] <=> \E c \in Cpu : Executes(c, t)
        /\ \A c, d \in Cpu : Executes(c, t) /\ Executes(d, t) => c = d

\* A task has left its queue and sleeps.
Blocked(t) == on_rq[t] = 0 /\ state[t] \in SleepMask

\* What it waits for has happened, or a signal that it waits for too.
WakeupDue(t) == cond[t] \/ (sigpending[t] /\ state[t] = "INT")

\* Some CPU is inside try_to_wake_up(t) with a mask that will match.
WakeupInFlight(t) ==
    \E c \in Cpu : /\ tgt[c] = t /\ state[t] \in mask[c]
                   /\ pc[c] \in TtwuPc \cup {"ttwu_lock"}

\* Nobody sleeps through a wakeup: a task whose CONDITION is true, or that
\* sleeps interruptibly with a signal pending, is blocked only while a wakeup
\* of it is under way; one in TASK_WAKING is in the hands of a waker or on a
\* wakelist that will be flushed.
NoLostWakeup ==
    \A t \in Task :
        /\ Blocked(t) /\ WakeupDue(t) => WakeupInFlight(t)
        /\ state[t] = "WAKING" =>
              \E c \in Cpu : \/ t \in wakelist[c] \cup pending[c]
                             \/ tgt[c] = t /\ pc[c] \in TtwuPc

\* Whoever returns from schedule() was woken: it is TASK_RUNNING again.  And
\* the BUG() after the last __schedule() of do_task_dead() is never reached.
ResumedAwake ==
    \A c \in Cpu, t \in Task :
        Running(c, t) => /\ tpc[t] \in {"woken", "work"} => state[t] = "RUNNING"
                         /\ tpc[t] # "dead"

\* The WARN_ONs of the wakelist never fire: a listed task is off its CPU,
\* belongs to the CPU that activates it, and no CPU queues to itself.
WakelistSane ==
    /\ \A c \in Cpu : \A p \in pending[c] :
          ~on_cpu[p] /\ cpu[p] = c /\ state[p] = "WAKING"
    /\ \A c \in Cpu : pc[c] = "ttwu_on_cpu" /\ on_cpu[tgt[c]] => cpu[tgt[c]] # c

\* The reference a task holds as "current" is dropped exactly once, and only
\* when no CPU uses it any more.
ReferenceHeld ==
    \A t \in Task :
        /\ usage[t] \in {0, 1}
        /\ usage[t] = 0 /\ tpc[t] # "free" =>
              /\ tpc[t] = "dead" /\ state[t] = "DEAD" /\ on_rq[t] = 0
              /\ \A c \in Cpu : ~Executes(c, t)

\* Tasks that count as uninterruptible sleepers.
LoadSleepers ==
    {t \in Task : /\ on_rq[t] = 0 /\ sched_contributes_to_load[t]
                  /\ tpc[t] \notin {"free", "new"}}

\* Single rqs wrap around as tasks sleep here and wake there, but the sum of
\* nr_uninterruptible is the number of uninterruptible sleepers.
LoadExact ==
    MapThenSumSet(LAMBDA c : nr_uninterruptible[c], Cpu) % LoadMod
        = Cardinality(LoadSleepers) % LoadMod

\* nr_iowait of a CPU is the number of tasks in I/O wait that blocked there,
\* whenever its rq is unlocked: a decrement that overtakes the increment is
\* made up for before the lock is released.
IowaitExact ==
    \A c \in Cpu : rq_lock[c] = None =>
        nr_iowait[c] = Cardinality({t \in Task : /\ cpu[t] = c /\ in_iowait[t]
                                                /\ on_rq[t] = 0
                                                /\ state[t] # "WAKING"})

\* my_get_cpu_number() answers with the CPU the caller runs on: task->cpu of a
\* current task is not changed under it by any migration.
CpuNumberRight ==
    \A c \in Cpu : curr[c] \in Task => my_get_cpu_number(c) = c

\* The readme's argument for counting switch-ins only: what a task reads is how
\* often it was switched out since it reset the counter, wherever it was woken,
\* preempted or moved to in between; before that, since it was born.
MeterExact ==
    \A c \in Cpu, t \in Task :
        Running(c, t) => stop_to_count(t) = (SwitchedOut(t) - meter[t]) % UIntMod

\* Migration work for t that has not completed.
StopWorkFor(t) ==
    \/ \E c \in Cpu : \E i \in DOMAIN stopq[c] : stopq[c][i].task = t
    \/ \E u \in Task : targ[u].task = t /\ targ[u].dest \in Cpu

\* Once the migration work of a call to set_cpus_allowed_ptr() has completed,
\* a runnable task is on a CPU its mask allows.
AffinityHonoured ==
    \A t \in Task : task_on_rq_queued(t) /\ ~StopWorkFor(t) => cpu[t] \in cpus_mask[t]

\* TASK_WAKING belongs to the waker: once set, the only change of state is to
\* TASK_RUNNING, in the step that queues the task ("schedule() must not care
\* about p->state any more").
WakingKept ==
    \A t \in Task : state[t] = "WAKING" /\ state'[t] # "WAKING" =>
        state'[t] = "RUNNING" /\ on_rq[t] = 0 /\ on_rq'[t] = TASK_ON_RQ_QUEUED
WakingOwned == [][WakingKept]_vars

\* A wakeup that was announced is carried through: a sleeper whose CONDITION is
\* true, or that has a signal, gets onto a runqueue, whatever locks and switches
\* its waker waits for, and also when the signal came before it blocked.
WakeupCompletes ==
    \A t \in Task : Blocked(t) /\ WakeupDue(t) ~> task_on_rq_queued(t)

\* stop_one_cpu() returns: migration work is carried out even on a CPU that is
\* never idle, and also when the task to migrate is the caller.
MigrationCompletes ==
    \A t \in Task : tpc[t] = "stop_wait" ~> tpc[t] = "work"

=============================================================================
