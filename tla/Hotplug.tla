------------------------------ MODULE Hotplug ------------------------------
(***************************************************************************)
(* CPU hotplug as the scheduler sees it (core.c, sched_cpu_starting() to   *)
(* sched_cpu_dying(), migrate_tasks(), select_fallback_rq()), composed     *)
(* with what it drives: the remote tick and the bandwidth of task groups.  *)
(*                                                                         *)
(* The callbacks run one after the other under the hotplug lock, which     *)
(* writers of a quota take for reading; the remote tick, the fair class,   *)
(* wakeups and sched_setaffinity() do not take it.  A task of one group    *)
(* sleeps, wakes and is given masks while CPUs come and go: a wakeup that  *)
(* looks for a CPU and a caller of sched_setaffinity() that waits for a    *)
(* stopper see cpu_active_mask change under them.  Wakeups enqueue the     *)
(* task themselves (wakelists are in Sched).  CONFIG_SCHED_SMT is off and  *)
(* there is no suspend, so that cpuhp_tasks_frozen stays clear.            *)
(***************************************************************************)
EXTENDS Bandwidth

CONSTANTS Housekeeping,
          member,     \* the group of the task
          Node,       \* the NUMA node of each CPU
          Cpuset,     \* CPUs of the task's cpuset, on the default hierarchy
          Masks       \* bound: masks that the user gives the task

ASSUME HotplugAssumption ==
    /\ Housekeeping \subseteq CPU /\ member \in Group \ {Root}
    /\ Pluggable # CPU /\ Cpuset \subseteq CPU /\ Masks \subseteq SUBSET CPU

VARIABLES
    state, pending, wpc, phase,   \* of TickRemote
    active,     \* cpu_active_mask
    target,     \* the phase that the CPU which is being plugged is to reach
    on_rq,      \* the CPU on whose runqueue the task is, none while it sleeps
    cpus_mask,  \* of the task
    search,     \* the wakeup that is in select_fallback_rq(), or NoSearch
    moving,     \* works for stoppers: where the task was, where it is to go
    missed      \* history: the CPU on which a stopper has left the task because the
                \* destination was no longer active

T == INSTANCE TickRemote WITH state <- state, pending <- pending, wpc <- wpc, phase <- phase

tickvars == <<state, pending, wpc, phase>>
taskvars == <<on_rq, cpus_mask, search, moving, missed>>
maskvars == <<active, target>>
hpvars == <<vars, tickvars, maskvars, taskvars>>

\* A search has a pass, the CPUs the pass has not tested and, as history, the CPUs that
\* have been active since it began.
NoSearch == [pass |-> "none", left |-> {}, steady |-> {}]

\* After boot.
HotplugInit ==
    /\ Init
    /\ state = [c \in CPU |-> IF T!housekeeping_cpu(c) THEN T!OFFLINE ELSE T!RUNNING]
    /\ pending = [c \in CPU |-> IF T!housekeeping_cpu(c) THEN 0 ELSE 1]
    /\ wpc = [c \in CPU |-> "none"] /\ phase = [c \in CPU |-> "on"]
    /\ active = CPU /\ target = "on"
    /\ on_rq = {} /\ cpus_mask = CPU
    /\ search = NoSearch /\ moving = {} /\ missed = {}

-----------------------------------------------------------------------------
(* Where a task may go. *)

is_cpu_allowed(c) == c \in cpus_mask /\ c \in active

\* Any CPU of s, with the mask m.
To(s, m) == [dest : s, mask : {m}]

cpuset_cpus_allowed_fallback == IF dfl THEN Cpuset ELSE CPU

\* The outcomes of select_fallback_rq() while nothing changes: a CPU of the same node,
\* any of the mask, any of the cpuset, and at last any CPU.
select_fallback_rq(cpu) ==
    LET own == cpus_mask \cap active
        near == {c \in own : Node[c] = Node[cpu]}
        cpuset == cpuset_cpus_allowed_fallback
    IN  IF near # {} THEN To(near, cpus_mask)
        ELSE IF own # {} THEN To(own, cpus_mask)
        ELSE IF cpuset \cap active # {} THEN To(cpuset \cap active, cpuset)
        ELSE To(active, CPU)

-----------------------------------------------------------------------------
(* Wakeups.  The pi_lock is held and interrupts are off throughout. *)

\* select_task_rq(): the class chooses a CPU of the mask.  If that is not active, the
\* search begins at the node where the task was last.
Wake(c) ==
    /\ on_rq = {} /\ search = NoSearch /\ c \in cpus_mask
    /\ IF is_cpu_allowed(c)
       THEN on_rq' = {c} /\ UNCHANGED search
       ELSE /\ \E cpu \in CPU :
                 search' = [pass   |-> "node",
                            left   |-> {k \in cpus_mask : Node[k] = Node[cpu]},
                            steady |-> active]
            /\ UNCHANGED on_rq
    /\ UNCHANGED <<vars, tickvars, maskvars, cpus_mask, moving, missed>>

\* One turn of for_each_cpu() in select_fallback_rq(); CPUs come and go between two.
TestCpu(c) ==
    /\ c \in search.left
    /\ IF c \in active
       THEN on_rq' = {c} /\ search' = NoSearch
       ELSE search' = [search EXCEPT !.left = @ \ {c}] /\ UNCHANGED on_rq
    /\ UNCHANGED <<vars, tickvars, maskvars, cpus_mask, moving, missed>>

\* Mutant: the CPUs outside the node are not looked at before the mask is given up.
NodeOnly(pass) ==
    CASE pass = "node"     -> [pass |-> "possible", mask |-> cpuset_cpus_allowed_fallback]
      [] pass = "cpuset"   -> [pass |-> "possible", mask |-> cpuset_cpus_allowed_fallback]
      [] pass = "possible" -> [pass |-> "fail", mask |-> CPU]

\* Mutant: the last resort is the cpuset once more.
CpusetAgain(pass) ==
    CASE pass = "node"     -> [pass |-> "cpuset", mask |-> cpus_mask]
      [] pass = "cpuset"   -> [pass |-> "possible", mask |-> cpuset_cpus_allowed_fallback]
      [] pass = "possible" -> [pass |-> "fail", mask |-> cpuset_cpus_allowed_fallback]

\* The pass after one that has found no CPU, named by the local "state" of the function,
\* with the mask it goes through (No more Mr. Nice Guy).
NextPass(pass) ==
    CASE pass = "node"     -> [pass |-> "cpuset", mask |-> cpus_mask]
      [] pass = "cpuset"   -> [pass |-> "possible", mask |-> cpuset_cpus_allowed_fallback]
      [] pass = "possible" -> [pass |-> "fail", mask |-> CPU]

\* do_set_cpus_allowed() of the next mask.  After "fail" there is the BUG().
PassFails ==
    /\ search.pass \in {"node", "cpuset", "possible"} /\ search.left = {}
    /\ LET x == NextPass(search.pass)
       IN  /\ cpus_mask' = x.mask
           /\ search' = [search EXCEPT !.pass = x.pass, !.left = x.mask]
    /\ UNCHANGED <<vars, tickvars, maskvars, on_rq, moving, missed>>

SearchStep == (\E c \in CPU : TestCpu(c)) \/ PassFails

-----------------------------------------------------------------------------
(* The task that is awake. *)

\* The task runs, unless its group is throttled on this CPU, and goes to sleep.
Sleep ==
    /\ \E c \in on_rq : <<member, c>> \notin throttled
    /\ on_rq' = {} /\ missed' = {}
    /\ UNCHANGED <<vars, tickvars, maskvars, cpus_mask, search, moving>>

\* A task that is queued and not running is moved under the lock.
MoveQueued(dest) == on_rq' = {dest} /\ UNCHANGED moving

\* One that is running is left to the stopper of its CPU, and the locks are dropped.
NeedStopper(dest) ==
    /\ \E c \in on_rq : /\ <<member, c>> \notin throttled
                        /\ moving' = moving \cup {[src |-> c, dest |-> dest]}
    /\ UNCHANGED on_rq

\* Under the locks of the task; a mask without an active CPU is refused, and one that
\* the task has already changes nothing.
__set_cpus_allowed_ptr(m) ==
    /\ search = NoSearch /\ m # cpus_mask
    /\ cpus_mask' = m /\ missed' = {}
    /\ \E dest \in m \cap active :
          IF on_rq \subseteq m THEN UNCHANGED <<on_rq, moving>>
          ELSE MoveQueued(dest) \/ NeedStopper(dest)
    /\ UNCHANGED <<vars, tickvars, maskvars, search>>

\* Mutant: the destination is not looked at again.
StillMask(c) == c \in cpus_mask

\* What __migrate_task() asks of the destination by then.
StillAllowed(c) == is_cpu_allowed(c)

\* The stopper; a task that has left the CPU meanwhile is none of its business.
migration_cpu_stop(x) ==
    /\ x \in moving /\ search = NoSearch
    /\ moving' = moving \ {x}
    /\ IF x.src \notin on_rq THEN UNCHANGED <<on_rq, missed>>
       ELSE IF StillAllowed(x.dest) THEN on_rq' = {x.dest} /\ missed' = {}
       ELSE on_rq' = on_rq /\ missed' = IF x.dest \in cpus_mask THEN {x.src} ELSE missed
    /\ UNCHANGED <<vars, tickvars, maskvars, cpus_mask, search>>

TaskStep ==
    \/ \E c \in CPU : Wake(c)
    \/ SearchStep \/ Sleep
    \/ \E m \in Masks : __set_cpus_allowed_ptr(m)
    \/ \E x \in moving : migration_cpu_stop(x)

-----------------------------------------------------------------------------
(* The callbacks. *)

sched_cpu_starting(c) ==
    /\ Locked(c) /\ target = "on"
    /\ T!sched_tick_start(c)
    /\ UNCHANGED <<vars, maskvars, taskvars>>

\* set_cpu_active() and set_rq_online(); writers, which would see the time between the
\* two, wait for the hotplug lock.
sched_cpu_activate(c) ==
    /\ T!Online(c)
    /\ active' = active \cup {c}
    /\ RqOnline(c)
    /\ UNCHANGED <<target, taskvars>>

\* sched_cpu_deactivate() down to synchronize_rcu(), which is not awaited here: all it
\* does is to hold up the rest of the function until a wakeup that has seen the CPU
\* active is over.
ClearActive(c) ==
    /\ Locked(c) /\ target = "off" /\ c \in active
    /\ active' = active \ {c}
    /\ search' = [search EXCEPT !.steady = @ \ {c}]
    /\ UNCHANGED <<vars, tickvars, target, on_rq, cpus_mask, moving, missed>>

\* Mutant: the CPU stays inactive.
NotRestored(c) == active

Restored(c) == active \cup {c}

\* dl_cpu_busy(): -EBUSY, the CPU stays up.
DeactivateFails(c) ==
    /\ phase[c] = "on" /\ c \in cpuhp /\ target = "off" /\ c \notin active
    /\ active' = Restored(c)
    /\ cpus_write_unlock(c)
    /\ target' = "on"
    /\ UNCHANGED <<tickvars, taskvars>>

sched_cpu_deactivate(c) ==
    /\ c \in cpuhp /\ c \notin active
    /\ T!Offline(c)
    /\ UNCHANGED <<vars, maskvars, taskvars>>

\* Mutant: the tasks are moved before set_rq_offline().
MigrateFirst(c) == c \in on_rq /\ <<member, c>> \notin throttled

\* migrate_tasks() finds a queued task unless its group is still throttled.
Found(c) == c \in on_rq /\ <<member, c>> \notin throttled'

\* Under stop_machine(), which no CPU joins in the middle of a wakeup: the tick's state,
\* the runqueue, then the tasks.  Works that the stopper still has find the task gone.
sched_cpu_dying(c) ==
    /\ search = NoSearch
    /\ T!sched_tick_stop(c)
    /\ RqOffline(c)
    /\ IF Found(c)
       THEN \E x \in select_fallback_rq(c) : on_rq' = {x.dest} /\ cpus_mask' = x.mask /\ missed' = {}
       ELSE UNCHANGED <<on_rq, cpus_mask, missed>>
    /\ moving' = {x \in moving : x.src # c}
    /\ UNCHANGED <<maskvars, search>>

PlugBegin(c) ==
    /\ cpus_write_lock(c)
    /\ target' = IF phase[c] = "on" THEN "off" ELSE "on"
    /\ UNCHANGED <<tickvars, active, taskvars>>

PlugEnd(c) ==
    /\ phase[c] = target
    /\ cpus_write_unlock(c)
    /\ UNCHANGED <<tickvars, maskvars, taskvars>>

Plug(c) ==
    \/ sched_cpu_starting(c) \/ sched_cpu_activate(c)
    \/ ClearActive(c) \/ DeactivateFails(c) \/ sched_cpu_deactivate(c)
    \/ sched_cpu_dying(c) \/ PlugEnd(c)

Work(c) == T!WorkStep(c) /\ UNCHANGED <<vars, maskvars, taskvars>>

Alone(A) == A /\ UNCHANGED <<tickvars, maskvars, taskvars>>

Quotas == (WriteStep \/ FairStep) /\ UNCHANGED <<tickvars, maskvars, taskvars>>

HotplugNext ==
    \/ Quotas
    \/ \E c \in CPU : Work(c)
    \/ \E c \in Pluggable : PlugBegin(c) \/ Plug(c)
    \/ TaskStep

HotplugSpec == HotplugInit /\ [][HotplugNext]_hpvars

\* The workqueue runs works that are due, a wakeup gets on with its search, and so does
\* the writer that has the mutex.  Both locks are handed over in the order of waiting,
\* so that no writer is passed over for ever, and stop_machine() does not wait for ever
\* for a moment without a wakeup, since the stoppers come before all other tasks.
HotplugFairness ==
    /\ \A c \in CPU \ Housekeeping : WF_hpvars(Work(c))
    /\ \A c \in Pluggable : SF_hpvars(Plug(c))
    /\ WF_hpvars(SearchStep)
    /\ \A w \in Writer : SF_hpvars(Alone(Acquire(w))) /\ WF_hpvars(Alone(HolderStep(w)))

HotplugFairSpec == HotplugSpec /\ HotplugFairness

-----------------------------------------------------------------------------
(* Properties. *)

\* No queued task is left on a CPU that is gone: the one of a throttled group is
\* seen by migrate_tasks() because set_rq_offline() comes first and no writer limits
\* the group again meanwhile (BUG_ON(rq->nr_running != 1)).
NoneLeftBehind == on_rq \subseteq online

\* A queued task is on an active CPU or on the one that is being plugged, also if taking
\* that down has failed half way ("fallback selection must not select !active CPUs"),
\* and on a CPU outside its mask only while a stopper has yet to move it, or because the
\* stopper found that the destination which sched_setaffinity() had picked was no longer
\* active (MovedAway is about that).
PlacedWell ==
    /\ on_rq \subseteq active \cup cpuhp
    /\ \A c \in on_rq \ cpus_mask :
          c \in missed \/ \E x \in moving : x.src = c /\ x.dest \in cpus_mask

\* "Migrate the thread to a proper CPU and schedule it away if the CPU it's executing on
\* is removed from the allowed bitmask" (__set_cpus_allowed_ptr()): with all CPUs up and
\* no stopper at work, a task is on a CPU of its mask.
MovedAway == moving = {} /\ cpuhp = {} /\ active = CPU => on_rq \subseteq cpus_mask

\* The search of a wakeup gives up the mask of the task only if every CPU of it has been
\* inactive at some time since the search began, and a dying CPU only if none of it is
\* active (No more Mr. Nice Guy).
MaskKept ==
    [][ cpus_mask' # cpus_mask =>
            /\ search # NoSearch => cpus_mask \cap search.steady = {}
            /\ online' # online => cpus_mask \cap active = {} ]_hpvars

\* The search never comes to the BUG(): however CPUs come and go between its tests, the
\* last pass finds one, since not all CPUs can be unplugged.
FallbackFinds == search.pass = "fail" => search.left # {}

\* The remote tick as these callbacks drive it: a full-dynticks CPU that stays up is
\* ticked for ever, and the work of one that stays down ends.
TickFollowsCpu == T!TickFollowsCpu

\* Nobody waits for ever: a write that has begun comes to an end although it waits for
\* the mutex with the hotplug lock held, and one who plugs a CPU gets the lock from the
\* writers and is done.
LocksGranted == []<>(cpuhp = {}) /\ \A w \in Writer : []<>(pc[w] = "idle")
=============================================================================
