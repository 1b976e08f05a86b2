# TLA+ verification of linux_os_2022

The repository is the course work of Linux OS 2022: kernel 5.8.1 system calls and the kernel
files they touch.  Homework 3 carries the core logic: `hw3/question_2/my_call/core.c`, the
task scheduler (`kernel/sched/core.c`) with one line added to `__schedule()` that counts
process switches, the `task_struct` of `sched.h` with the counter field, and the system calls
that reset and read it or return the caller's CPU.  Homework 1 adds two system calls that walk
page tables and list segments.  This directory specifies the scheduler and the page walk as TLA+
modules, checks them with TLC on small instances and proves the central invariants with TLAPS for
all instances.

## 1. Inventory

| component | source | state | operations | hard behaviour |
|---|---|---|---|---|
| scheduling core | `core.c` | `task_struct`: state, on_rq, on_cpu, cpu, cpus_mask, pi_lock, counters; `rq`: queue, curr, lock, wakelist, nr_uninterruptible, nr_iowait | `__schedule`, `try_to_wake_up`, `sched_ttwu_pending`, `set_cpus_allowed_ptr`, `migration_cpu_stop`, `sched_exec`, `sched_fork`, `wake_up_new_task`, `do_task_dead`, `finish_task_switch`, `io_schedule` | everything runs on all CPUs at once; tasks are inspected without locks; wakeups race with blocking, switching, migrating and dying |
| counting system calls | `start_/stop_to_count_number_of_process_switches.c` | `process_switches_count` | reset, read | counter wraps; concurrent with `__schedule()` |
| CPU number | `my_get_cpu_number.c` | `current->cpu` | read | migration under the caller |
| wake queues | `core.c:416-501` | `wake_q.next` | add, add_safe, wake | a task is on at most one list; lockless cmpxchg |
| rescheduling and idle polling | `core.c:347-413, 510-640, 2303-2351` | TIF_NEED_RESCHED, TIF_POLLING | `resched_curr`, `wake_up_idle_cpu`, `send_call_function_single_ipi` | an IPI is skipped when the target polls |
| utilisation clamps | `core.c:780-1281` | per-rq buckets and values, per-task requests | inc, dec, update_active, sysctl, fork | refcounts against concurrent changes |
| priorities and policies | `core.c:1329-1428, 4523-5167` | prio, normal_prio, policy, class | `rt_mutex_setprio`, `set_user_nice`, `__sched_setscheduler` | inheritance against user changes; permission checks before the lock, re-check after |
| remote tick | `core.c:3674-3842` | `tick_work.state` | tick, start, stop | work re-queued while the CPU goes offline |
| affinity system call | `core.c:5537-5624` | cpus_mask, cpuset | `sched_setaffinity` | cpuset changes between check and use |
| two-task migration, task waits | `core.c:1742-1965, 5845-5901` | positions of two tasks | `migrate_swap`, `wait_task_inactive`, `yield_to` | state read before locking |
| CPU hotplug | `core.c:2013-2081, 6329-6650` | active and online masks | activate, deactivate, dying, fallback | tasks must leave a dying CPU |
| task groups and bandwidth | `core.c:7066-8070` | group tree, quota, period | create, move, set quota | tree-wide feasibility; numeric limits |
| physical addresses and segments | `hw1/p1/my_other_get_phy_addr`, `my_get_segment` | page tables | walk | missing levels, flag bits in the entry |
| test programs | `hw1/p1/test_multi_thread.c`, `hw2`, `hw3/*/tests` | - | printing, timing | user-space programs |

What makes the parts correct: a task sits on exactly the queue it says, runs on at most one
CPU, never sleeps through a wakeup, obeys its mask once a change has completed, dies once, and
the accounting fields add up although they are updated on different CPUs.

## 2. Modules

| module | contents |
|---|---|
| `Sched` | the scheduling core, the counting system calls and `my_get_cpu_number`: state, one action per step another CPU can observe, properties |
| `SchedInv` | the inductive invariants of `Sched` |
| `SchedProofs`, `SchedSafety` | proofs: queues, stacks, locks and wakelists; then sleeps, references, counts, masks and what `TaskWait` concludes; the answers of `Conversions` and `PhysAddr` |
| `Wakeups` | abstract: what a queue of wakeups promises tasks that wait for a condition |
| `WakeQ`, `WakeQProofs` | wake queues: `wake_q_add()`, `wake_q_add_safe()`, `wake_up_q()`; implement `Wakeups` |
| `Tasks` | the parameter that `WakeQ` and `Uclamp` share |
| `Resched`, `ReschedProofs` | `resched_curr()`, IPIs and the idle loop of one CPU |
| `Uclamp`, `UclampProofs` | utilisation clamps of a runqueue, of tasks and of groups |
| `Prio`, `PrioProofs` | priority inheritance, `set_user_nice()`, `__sched_setscheduler()` |
| `TickRemote` | the remote tick of full-dynticks CPUs under hotplug |
| `Quota` | abstract: what CFS bandwidth control promises the owner of a tree of groups |
| `Bandwidth` | the files, locks, walk and loop of `tg_set_cfs_bandwidth()`; implements `Quota` |
| `Hotplug`, `HotplugProofs` | the hotplug callbacks, wakeups that look for a CPU, mask changes and stoppers, composed with `Bandwidth`, `TickRemote` and a task; the proofs of all three |
| `TaskWait` | `wait_task_inactive()`, on the state of `Sched` |
| `Conversions` | what the files of a group do to weights, shares and nice values |
| `PhysAddr` | the page walk of `my_other_get_phy_addr` |
| `Observed` | `TaskWait`, `Conversions` and `PhysAddr` side by side: what user space is told |
| `SetAffinity`, `SetAffinityProofs` | `sched_setaffinity()` against cpuset changes and `kthread_bind()` |
| `MCSched`, `MCUclamp`, ... | instances of the module of that name for TLC; `MCWakeQ` puts `WakeQ` beside `MCUclamp`, and `MCObserved` puts `SetAffinity` beside `Observed` |

`Hotplug` EXTENDS `Bandwidth` and instantiates `TickRemote`, and its actions are conjunctions of
theirs; `Bandwidth` instantiates `Quota` with its own stored periods and quotas, and `WakeQ`
instantiates `Wakeups` with the set of tasks that some waker will wake (`Owed`); `TaskWait`
EXTENDS `Sched` in the same way.  The others share the code's boundaries, not variables: `Sched`
leaves open when a CPU reschedules, which is what `Resched` is about; its wakers may be the
`wake_up_q()` of `WakeQ`; its mask changes are made by the callers of `SetAffinity`; and it
leaves the choice of the next task open, which `Prio` and `Uclamp` influence.

### How `Sched` corresponds to the code

A CPU is the unit of interleaving.  `pc[c] = "run"` is a CPU that executes its current task
with interrupts enabled: the task's program may take a step, the CPU may be interrupted by a
waker (`Wake`, `WakeCurrent`), by the wakelist IPI (`TtwuIpi`) or preempted.  Any other value
is a point inside a kernel path with interrupts disabled; the variables `tgt`, `mask`, `lrq`,
`voluntary`, `prev_state`, `pending` are the locals of that path.  `__schedule()` is `Schedule`
(lock the rq, read `prev->state`; `KeepRunnable`, `CancelSleep` or `Deactivate`), `IowaitInc`,
then `Switch` or `NoSwitch`, `FinishTaskSwitch` and `Reap`.  `try_to_wake_up()` is `TtwuLock`,
`TtwuOnRq`, `TtwuRemote`, `TtwuWaking`, `TtwuOnCpu`, `TtwuWakelist` or `TtwuSelect` and
`TtwuQueue`: a boundary lies at every read of shared state that is not protected by a lock the
path holds.  Migration is `SetCpusAllowed` with its three outcomes, `SchedExec`, `StopOneCpu`,
`StopFlush`, `MigrationCpuStop`, `MoveEnqueue`; `DetachTask` and `AttachTask` stand for the load
balancer of `fair.c`, which is outside the repository and modelled from how `core.c` serves it
(`deactivate_task()` without `DEQUEUE_SLEEP`, `TASK_ON_RQ_MIGRATING`).  `tpc` is the program of
a task: the wait loop documented at `set_current_state()` (`sched.h:151`), exit, fork, and the
system calls.

Abstractions.  The idle task and the stopper of each CPU are pseudo-tasks.  The policy of a
scheduling class is open: any queued task may be picked, any allowed CPU selected.  Preemption
may happen at any interruptible point, so `need_resched` is not a variable.  Where a path takes
`pi_lock` and the rq lock one after the other and looks at nothing in between
(`task_rq_lock()`, `migration_cpu_stop()`, `wake_up_new_task()`), both are taken in one step:
taking `pi_lock` commutes to the right of every other CPU's step.  Memory is sequentially
consistent; the barriers of the code are what justifies that at the commented places.  All CPUs
are active; `wake_cpu`, a hint to the selection, and the killable and stopped states are left out.  The
signal is consumed when the sleeper resumes.  A forked child copies the parent's mask,
`sched_contributes_to_load` and `process_switches_count`, as `dup_task_struct()` does.  `meter` is a
history variable: how often a task had been switched out when its count was zero, modulo the
width of the counter; the call that reads the count is an operator, as it changes nothing.

### How the other modules correspond to the code

`WakeQ`.  A node is a task's `wake_q.next`; the cmpxchg that claims it, the link behind the
last entry and the reference are separate steps, and so are the reset of the node, the wakeup
and the drop of the reference in `wake_up_q()`.  Queues are private to their builder, tasks are
not: several wakers compete for a task's node while it runs, sleeps and exits.  Those who build
queues are external, in two kinds: some publish their condition first and then add the sleeper,
some hold a reference of their own that `wake_q_add_safe()` takes over.

`Resched`.  One CPU with its idle loop and interrupts, and any number of remote senders, each
inside `resched_curr()`, `wake_up_idle_cpu()` or the call-function queue.  Reads and updates of
the flags word are atomic steps, the polling flag is dropped before the idle task looks at the
request a last time.  The idle loop (`kernel/sched/idle.c`) is external and follows what
`core.c` relies on.  Full-nohz wakeups and `get_nohz_timer_target()` are left out.

`Uclamp`.  One runqueue: a migration is a dequeue here and an enqueue elsewhere.  Enqueues read
the defaults and limits without the mutex, one clamp after the other.  `struct uclamp_se` is
one word and stored in one piece.  Groups are a root and one child.  `ScaleAssumption` says
that the bucket of the largest value exists; it holds for the default of five buckets and not
for every number that the build permits (section 3).  `uclamp_validate()` runs before the locks
are taken: a bound that is given alone was checked against a request that another call may have
replaced since, so the model lets it pass.  `CONFIG_UCLAMP_TASK_GROUP` is on.

`Prio`.  A task's scheduling fields are a record and the functions of the code map records to
records.  `__sched_setscheduler()` is `Check` (before the lock), `StartChange` (down to the
dequeue, with the first read of the donor's priority), `Change` (the second read, the enqueue
and the unlock) and the chain walk of `rt_mutex_adjust_pi()`; `StoreReset`, `Recheck`, `Refuse`
and `RefuseLocked` are its other ways out.  Each task has a runqueue of its own, so that its
`pi_lock` stands for its rq lock too; on a shared runqueue there are fewer interleavings.  The
rt-mutex code is external: waiters keep the priority they were queued with, and
`LockOrder` says who may wait for whom.  Deadlines are left out: what depends on them is a
choice.  Nice values count from `MIN_NICE`.

`Bandwidth`.  A writer is inside `tg_set_cfs_bandwidth()` or idle.  What its file does not give,
period or quota, is read when it begins; `get_online_cpus`, `mutex_lock`, for which it may wait with
the hotplug lock held, one `VisitOk` per group (or `VisitFails`),
`Enable`, `Store`, one `LoopCpu` per online CPU and `Finish` follow.  The walk enters the groups
in the order `Walk`, any order in which parents come first.  Values are in nanoseconds,
`hierarchical_quota` is a fixed-point number computed in a word of `WORD` values, read as an
s64: that makes `RUNTIME_INF` smaller than any limit.  The fair class (throttling, the period
timer, `rq_online_fair()`, `rq_offline_fair()`) is external and reduced to `runtime_enabled` and
`throttled`.  A refused argument changes nothing and is no step.  `Quota` has the period and quota of the groups only, and one
action, whose condition speaks of the tree after the change.

`Hotplug`.  The callbacks of a CPU that goes down are `ClearActive`, then `DeactivateFails` or
`sched_cpu_deactivate`, then `sched_cpu_dying`, which runs under `stop_machine()` and is one step
with all it calls: `sched_tick_stop()`, `set_rq_offline()`, `migrate_tasks()`.  Coming up is
`sched_cpu_starting`, `sched_cpu_activate`.  `PlugBegin` and `PlugEnd` are the hotplug core, with
the lock it takes for writing: asking for it keeps new readers out, and it is had when the last
reader has left (`Locked`).  One task of one group stands for those on the runqueues; what
`Sched` tells about how it is switched is left out.  Neither wakeups nor mask changes take the
hotplug lock.  A wakeup whose CPU is not active is in `select_fallback_rq()`: every turn of its
loops is a step (`TestCpu`), and so is giving up a mask (`PassFails`), and CPUs become active and
inactive between them; `search.steady`, a history variable, is the set of CPUs that were active all
the time.  `sched_cpu_dying` calls the function with the machine stopped, where it is the set of its
outcomes, each a CPU and a mask.  `__set_cpus_allowed_ptr` moves a task that is queued, and hands
one that runs to a stopper (`moving`): the locks are dropped, and `migration_cpu_stop` looks at the
destination again.  `missed`, a history variable, is where a stopper has left the task because the
destination was no longer active.  `CONFIG_CPUSETS` is on, `CONFIG_SCHED_SMT` off, and there is no suspend.

`TaskWait`.  A caller on a CPU of its own makes two calls in a row and compares the answers.  The
loop without a lock and the look under `task_rq_lock()` are steps; the sleep on an hrtimer
between two attempts is not told apart from being slow.  `runs`, a history variable, counts how
often the task was switched to since the first answer.

`Conversions`.  Operators, with a variable for what is written.  Numbers are the real ones.

`PhysAddr`.  Addresses and entries are numbers and the tables a function from frame and index to
entry, so that masking and shifting are arithmetic.  The tables of a process are derived from the
pages it has in memory and are external.  Frame 0 stands for what is read after a level that is
missing: the code prints a message and goes on.

`TickRemote`.  The work's tick, its look at the state and its queueing itself again are three
steps, between which the CPU may go down and come back.  `pending` counts, because
`INIT_DELAYED_WORK()` of a queued work forgets that it is queued.

`SetAffinity`.  The reads of the cpuset, the call that sets the mask and the re-check are
steps; "again" marks a caller that has come back to the label of that name.  The target is a
user task in a cpuset or a kernel thread that `kthread_bind()` may bind, and any CPUs are active,
as `AffinityInit` chooses.

## 3. Runs

Each run asks the questions of one part; two of them carry a second part that shares no state with
the first (`MCWakeQ`, `MCObserved`), so that a behaviour is about one or the other.  The runs of `Sched` use two CPUs.  Two tasks suffice for each race the
code comments describe: they involve one task in transit, its waker's CPU and its own CPU; the
second task supplies the contention for the queue and somebody to switch to.  Widths are small
so that wrapping happens.

| run | checks | shows |
|---|---|---|
| sched | RunqueueConsistent, NoLostWakeup, WakelistSane, IowaitExact, LoadExact, ResumedAwake, ReferenceHeld, WakingOwned | fork, uninterruptible, idle and I/O sleeps, direct wakeups and wakelists between separate caches, the load balancer, the counting call and exit, with `LoadMod = 2` |
| sched_moves | SingleExecution, AffinityHonoured, CpuNumberRight, WakeupCompletes, MigrationCompletes | mask changes and `sched_exec()` against interruptible sleeps and signals, `TTWU_QUEUE` off, so that wakers spin on `on_cpu` |
| affinity_wakelist | AffinityHonoured, violated | see findings |
| observed | MeterExact, RemainedUnscheduled, FilesRoundTrip, PhysAddrRight, WithinCpuset, BoundStays, CallsReturn | the counter of homework 3, 1 bit wide, and two equal answers of `wait_task_inactive()`, 2-bit counters, with signals, `sched_exec()` and the load balancer; every weight and nice value; the address of every byte of a process with two pages; two callers of `sched_setaffinity()` on a user task or a kernel thread, with any of two CPUs active |
| phys_addr | PhysicalAddress, violated | see findings |
| resched | NoSleepOnRequest, ReschedHonoured, CallsServed | two senders of every kind; the CPU never halts on a request that nobody will signal, and requests and calls are served |
| uclamp | RefcountExact, UpToDate; ListIntact, RefExact, WakeupsOwed | bucket counts and effective clamps while a limit is on its way through the groups; scale 3 with 2 buckets, so that a bucket holds two values.  Wake queues: lists keep their shape and their tasks while wakers of both kinds compete for nodes; references are neither leaked nor dropped twice and no freed task is reached; `WakeupsOwed` is the refinement of `Wakeups`: a waker that loses the cmpxchg may rely on the winner |
| uclamp_idle | ClampCovers, violated | see findings |
| prio | ParamsValid, NormalPrioExact, ClassFollowsPrio | a waiter and an owner, two callers, deadline policy, SCHED_FLAG_KEEP_PARAMS and `normalize_rt_tasks()` included |
| prio_donor | QueuedAtPrio, violated | see findings |
| hotplug | RuntimeFollows, UsageExact, NoneLeftBehind, PlacedWell, FallbackFinds, QuotaTree, MaskKept, TickFollowsCpu, LocksGranted | a CPU that goes down, fails to and comes back, two writers on a chain of three groups, throttling, a task with changing mask that wakes up meanwhile, its stoppers and the remote tick; `QuotaTree` is the refinement of `Quota` |
| hotplug_move | MovedAway, violated | see findings |

Bounds.  In `hotplug` a behaviour is either about quotas, and the task wakes and sleeps with its
first mask, or about the task, and nobody writes (`about`): writers and masks meet nowhere but in the
hotplug lock, for which both modes have the plugging CPU.  One writer writes the files of all groups,
the other those of the leaf, so that two writers race on one group and a child and its parent change
at the same time; the first one writes no periods, and nothing on the default hierarchy (`FewWrites`); a word of 64 values
with a microsecond of three nanoseconds lets shares be equal, smaller and larger, one period wrap
to a valid one, and every argument check fail; one of two CPUs is pluggable, full-dynticks and a
node of its own, is the task's cpuset, and may be its whole mask, so that a wakeup takes every branch
of `select_fallback_rq()`, and a dying CPU all except the first, another CPU of the same node (the
proofs cover any topology).  In `observed` one task is either counted or watched, is woken by
signals (conditions are the subject of `sched`), and is preempted by the stopper that
`sched_exec()` queues; `LONG_MIN` is the upper of two bits, so that the count can wrap.  Its page
tables have two entries per level, 16 pages, every pair of which is tried with every combination
of frames and NX; weights and nice values are all tried, shares below 1300, around
the middle between two weights of the table and at the limits.  `sched` counts load modulo 2, because
an update that is lost, doubled or made for the wrong task shows as a sum that is off by one, and
its switch counters have one value, since nothing but `MeterExact`, checked in `observed`, reads
them.  In `sched_moves` one task sleeps and is woken by signals, both change masks, and the mask
is one CPU: the other CPU is where the task must not be found afterwards.  The priorities of `Prio` are one deadline,
one (in `prio_donor` two) RT and two fair levels, enough for a donor above, at and below the
class of the owner.  The tasks of `uclamp` are fair or deadline tasks: one class takes part in
clamping and one does not.  The flag `sched_reset_on_fork` is modelled and stays clear in the runs.
Nothing is checked about the exact value a boost gives: a donor that changes and changes back
between two chain walks leaves the owner at the value in between, and nothing in the
repository promises more.

Every property has a mutant: a definition next to the one it replaces, marked `Mutant`, that
changes the code the way a plausible bug would and makes TLC report the property violated.

Fairness.  In `Sched`, `FairSpec` is strong fairness of each CPU's kernel steps and of
`ServeStopper`: the kernel's spinlocks are queued, so a CPU that spins gets the lock; queueing
stopper work sets `need_resched`, and no class outranks the stop class.  Nothing is assumed
about programs, wakers, or which task is picked.  In `Resched`, interrupts, the idle loop,
preemption and the steps of senders are strongly fair; no timer tick is assumed.  In
`Hotplug` three things are weakly fair: the workqueue runs what is due, a wakeup goes on with its
search, and the writer that holds the mutex gets on.  Two are strongly fair.  A writer that waits for
the hotplug lock or for the mutex gets it if it is free again and again: waiters of both are queued in
order.  A plugging that has begun goes on to one of its ends: its last callback needs a moment in
which no CPU is inside a wakeup, which `stop_machine()` gets, since the stoppers come before all other
tasks and a wakeup runs with interrupts off for a bounded time.  That anybody starts to
plug, write, wake or throttle is not assumed.  In `SetAffinity` only callers that are inside the
system call.

### Findings

* `affinity_wakelist`: `migration_cpu_stop()` flushes the wakelist before it takes `pi_lock`.
  A waker that saw `p->on_cpu` set may queue `p` on that wakelist after the flush; the stopper
  finds `on_rq == 0`, only notes `wake_cpu`, and the IPI activates `p` on a CPU its mask
  excludes, although the comment at `core.c:1532` says the flush is there "such that we will
  not miss enforcing cpus_ptr during wakeups".
* `uclamp_idle`: `uclamp_update_active()` (`core.c:1070`) releases and takes the clamps of the
  only runnable task outside `uclamp_rq_inc()`, which alone clears `UCLAMP_FLAG_IDLE`; the next
  task resets the cached clamp of the busy runqueue.  The comment at `core.c:848` says "Reset
  max-clamp retention only on idle exit".
* `prio_donor`: `__sched_setscheduler()` decides by `rt_effective_prio()` (`core.c:5115`) that
  the task need not move and `__setscheduler()` computes it again (`core.c:4877`); when the donor
  changes in between, the task stays linked on a list of its old priority or class, although
  the comment says that in this case "we just store the new normal parameters and do not touch
  the scheduler class and the runqueue".
* `hotplug_move`: `__set_cpus_allowed_ptr()` picks an active CPU of the new mask for a task that
  runs, drops its locks and waits for the stopper.  If that CPU is made inactive first,
  `__migrate_task()` (`core.c:1505`) leaves the task where it is, the call returns 0, and when the CPU
  is active again, because it could not be taken down or is plugged again, the task still runs
  outside its mask.  The comment at `core.c:1598` says "Migrate the thread to a proper CPU and
  schedule it away if the CPU it's executing on is removed from the allowed bitmask".
  `PlacedWell` says that this, and a stopper that is still to come, are the only reasons.
* `phys_addr`: `my_other_get_phy_addr` (line 73) masks the entry with PAGE_MASK, which leaves
  `_PAGE_NX`, bit 63, in the result for every page that may not be executed.  `hw1/readme.md:670`
  says that clearing the offset bits with PAGE_MASK and adding the offset gives the correct physical
  address, and line 561 lists 8000000354a9e010 as one.  `PhysAddrRight` says that this bit is all that
  is wrong.

Observations without a run of their own:

* The second read of the donor can also take a task out of the deadline class with `dl_boosted`
  still set (`core.c:4877`).  `sched_setparam()` stores a `sched_reset_on_fork` that it read before
  the lock (`core.c:4921`, `5047`), and `_sched_setscheduler()` the nice value (`core.c:5175`).
* `stop_to_count_number_of_process_switches()` does not stop the counting, it only reads the
  count; `hw3/readme.md:117` asks for a call "to stop to count".
* On the default hierarchy `min(quota, parent_quota)` (`core.c:7741`) compares s64 values of which
  `RUNTIME_INF` is -1: below the root, which is unlimited, every `hierarchical_quota` becomes
  unlimited, where the comment says "always take the min".  Nothing reads the result there, so
  `QuotaTree` asks for feasibility on the legacy hierarchy only.
* A refused request leaves `hierarchical_quota` partly updated (harmless, since every walk starts
  at the root: `QuotaTree`), a write of the period loses a concurrent one of the quota, and the
  products of `cpu_period_quota_parse()` wrap (`core.c:7983`).
* When `sched_cpu_deactivate()` fails with -EBUSY it restores the active mask, but not
  `sched_smt_present` (`core.c:6594`, `6602`); a wakeup meanwhile may have widened the mask of a
  task for good, which `MaskKept` permits.
* A wakeup may override a mask although one of its CPUs is active by then: it was inactive when it
  was tested.  `MaskKept` says that no CPU of the mask was active from the first test to the last.
* `uclamp_bucket_id(1024)` is in range for the default of five buckets; for 7, 8, 10, 11, 12, 14
  to 17 and 20 it is `UCLAMP_BUCKETS`, one past the array.  `ScaleAssumption` excludes these, and
  nothing is proved about `Uclamp` for them.  A clamp written as 99.96 to 99.99 is read back as "max",
  although the exact value is kept "because of not recoverable conversion rounding"
  (`core.c:7443`).
* For a page that is not mapped `my_other_get_phy_addr` goes on from the empty entry.
* `my_get_segment` frees its buffer on no path, and adds `stack_vm`, a number of pages, to the
  start of the stack.

## 4. Proofs

`SchedProofs` proves, from the assumptions on the constants named in `Sched` (finite disjoint
sets of CPUs and tasks, widths at least 1) and for any instance:

| theorem | statement |
|---|---|
| Invariance | `Spec => []IndInv` |
| TypeCorrect | `Spec => []TypeOK` |
| RunqueuesAgree | `Spec => []RunqueueConsistent` |
| StacksExclusive | `Spec => []SingleExecution` |
| CpuNumberCorrect | `Spec => []CpuNumberRight` |
| WakelistsSane | `Spec => []WakelistSane` |
| WakingIsOwned | `Spec => WakingOwned` (an action property) |

None of the properties is inductive alone.  That a runqueue is consistent after `TtwuQueue`
needs that the woken task was on no queue (`WakerInv`), which needs that nobody else could have
queued it since (`LockInv`: the waker holds `pi_lock`; `ListInv`: it is on no wakelist;
`QueueInv`: it is not being moved).  That `TtwuQueue` may set a task's CPU needs that no CPU
uses its stack (`ExecInv`), which rests on a current task being queued except inside
`__schedule()`.  `ProgInv` and `LocalsInv` tie the arguments of pending work to tasks that
exist.  One lemma per action shows that it preserves each of the twelve conjuncts; the facts
about the current task (`CurrentTask`), the task a waker holds (`TargetStarted`), the stopper's
list (`StopWork`, `StopCaller`) and the counters (`BumpType`, `ActivateLoad`) are lemmas of
their own.

`SchedSafety` builds on `IndInv` and proves, from the same assumptions:

| theorem | statement | strengthening |
|---|---|---|
| LifeInvariance | `Spec => []LifeInv` | `StopInv`, `AwakeInv`, `DyingInv`, `RefInv` together with `IndInv` |
| ResumedTasksAwake | `[]ResumedAwake` | `AwakeInv`: the place in its program fixes a task's state except between `set_current_state()` and `schedule()` |
| ReferencesHeld | `[]ReferenceHeld` | `RefInv`: one CPU drops the last reference, and only after `on_cpu` is clear |
| WakeupsNotLost | `[]NoLostWakeup` | `WakeupInv`: who is owed a wakeup has a waker that has not looked yet or will act on what it saw, and a task in TASK_WAKING is in somebody's hands |
| IowaitCounts | `[]IowaitExact` | `IoInv`: `nr_iowait` is one behind in the middle of `__schedule()` |
| MeterCounts | `[]MeterExact` | `MeterInv`: a task that is not current has been switched out once more than switched in, modulo the width of the counter |
| LoadCounts | `[]LoadExact` | `LoadInv`: the same, of the total as a recursion over the subsets of the CPUs |
| EqualAnswers | `WaitSpec => []RemainedUnscheduled` | `WatchInv`: see below |
| AffinityWithoutWakelists | `ASSUME ~TTWU_QUEUE PROVE Spec => []AffinityHonoured` | `AffinityInv`: a mask that excludes the CPU of a queued task comes with work that moves it to a good one |

The assumption of the last one cannot be dropped: the run `affinity_wakelist` shows the violation.
The sums modulo the counter's width rest on a few lemmas about `%` (`RemainderUnique`, `ModSum`,
`ModStep`, `ModMove`).  The sum over the CPUs is a fold of the library; `SumIsTotal` shows that it
is the total of a recursion over subsets, `TotalExists` that the recursion has a solution, and `TotalUpdate`
that changing one term moves the total by the difference.  Their induction over the subsets of a
finite set (`SubsetInduction`) is stated about a set of subsets instead of a predicate, and rests on
a smallest counterexample (`LeastNatural`), so that the provers can use it.

Two equal answers of `wait_task_inactive()` mean no run, because `nvcsw` shows every run although
preemptions are not counted in it: each run of the watched task ends in at most one voluntary
switch, which is not yet counted while the run lasts (`RunsInv`), and a task that is off its queue
after it ran has left through one (`LeavingInv`, `Away`).  An answer is taken when the task is off its
queue and not running (`AnswerInv`): if it ran in between, the count has moved, and by at most the
number of runs, which is less than what an answer can hold.

`NoLostWakeup` splits by who acts: the sleeper that looks at its condition and its
state in that order, the waker that writes them in the other order, and schedule(), whose second
look at pending signals catches what came between.

The first sections of `SchedSafety` are about the answers that involve no scheduler.  In
`ObservedSpec` the input never changes (`InputStays`), so that the theorems are about what the code
computes from it:

| theorem | statement | for every |
|---|---|---|
| FilesSafe | `ObservedSpec => []FilesRoundTrip` | number written to a file (`WrittenAssumption`) |
| PhysAddrSafe | `ObservedSpec => []PhysAddrRight` (the address of the byte, and bit 63 exactly if the page may not be executed) | number of entries of a table, page size and set of pages in memory, with tables and frames below the NX bit (`TableAssumption`, `FrameAssumption`) |

That a weight survives two roundings is arithmetic (`WeightRange`); that the search of
`cpu.weight.nice` may stop at the first entry that is no closer rests on the table falling strictly
(`TableDecreases`): an entry that is closer than the one before it shows that all earlier ones are
heavier than the weight, and one that is no closer that all later ones are lighter (`NiceClosest`).
The walk is right because the number of a table tells its level and the pages under it
(`NodeUnique`), so that all pages which share an entry agree on it (`EntryOf`), and the lower
table is found behind each of the three upper entries (`WalkEnds`).  Quotients by a symbolic
divisor are handled by a few lemmas (`DivUnique`, `DivDiv`, `DivBound`).

`WakeQProofs`, for any wakers and tasks: `WakeQInvariance`, `ListsIntact` (`ListIntact`),
`WakeupsKept` (`NoLostWakeup`) and `ReferencesExact` (`RefExact`).  A list is linked through the
tasks themselves, so what one waker does to a node could break the list of another: `ListInv` says
which list owns each node that is not NULL, that no task is on two, and what the list looks like
between the claim of a node and its link.  `RefCount` adds up the task's own reference and the
shares of the wakers, where a task that is linked but whose reference is not yet taken is kept
alive by the lock of its wait list (`PlaceInv`, `LockInv`).  `ImplementsWakeups` (`WakeQSpec =>
WakeupsOwed`) maps the queues to `Wakeups`: a task is owed a wakeup while some waker has it on its
list, is about to add it, or has it in hand to wake it.  The claim and the release of a task move the
debt between hand and list (`AddOwes`, `ReleaseOwes`); a waker that finds the task claimed may drop
its own, because a link that is set belongs to a list (`Owned`); and a `task_struct` is not reused
while somebody owes it a wakeup, because every such waker has a reference or the lock (`SleeperOwed`).
`WakeupsSuffice` shows that what `Wakeups` promises is enough for a waiter.

`ReschedProofs`, for any senders: `ReschedInvariance`, `NeverAsleep` (`NoSleepOnRequest`), and the
safety halves of the two liveness properties, `RequestsKept` (a request that was made is in the flag,
on its way, or has been served) and `CallsKept` (the same for queued calls).  `SleepInv` is the
heart: a sender that saw the polling flag sends no IPI, so if the CPU has halted with the request
set, some *other* step, an IPI underway or a sender that has not decided, must be there.

`UclampProofs`, for any tasks, and any scale and number of buckets for which the bucket of the
largest value exists (`ScaleAssumption`, which excludes the numbers listed in section 3): `UclampInvariance`,
`UclampTypes`, `RefcountsExact` (`RefcountExact`) and `LimitsReachTasks` (`UpToDate`).  The counts
are exact in the middle of an enqueue too, once the clamp that is still to be taken is allowed for.
`ValueInv` says of each stale clamp that it is on the list of the walk, or that the walk has not
come to its group; a clamp can be stale only if it was taken before the change, and those
are what the walk still has to visit.

`PrioProofs`, for any tasks, callers and priorities: `FieldsInvariance`, `PrioTypes`,
`ParamsAlwaysValid` (`ParamsValid`), `NormalPrioAlwaysExact` (`NormalPrioExact`),
`ClassAlwaysFollows` (`ClassFollowsPrio`).  The operators on one task's fields map sound fields to
sound fields (one lemma each); what the callers carry over from the check to the change is in
`CheckInv` and `ChangeInv`: under the lock, the policy found before it was taken is still the
task's, or the caller goes back.

`HotplugProofs` has three parts.  The first is about `Bandwidth`: it proves,
for every finite tree (`TreeAssumption`), every walk in which parents come
first (`WalkAssumption`), any writers, CPUs and values, and units in which a share fits its word
(`UnitAssumption`): `BandwidthInvariance` (`[]IndInv`), `RuntimeFollowsQuota` (`[]RuntimeFollows`),
`UsageCounted` (`[]UsageExact`) and `ImplementsQuota` (`Spec => QuotaTree`).  A step of the walk
compares a group with its parent's `hierarchical_quota` only, while `Quota` speaks of all groups
above: the invariant therefore says of every group already visited that its `hierarchical_quota`
is at most the share of each limited group above it, or unlimited if none is, with the new value
in place of the old one for the group that changes.  That this still is so at `Store` needs that
the other groups have not changed since the walk began, which is mutual exclusion.  It is
indifferent to what a failed walk left, because it speaks of visited groups only.
`RuntimeFollows` needs that `todo` covers the CPUs not reached and that nothing is plugged while a
writer is inside; `UsageExact` that a writer's `was` is what the group had.

The second part shows first that the composition implements `Bandwidth` (`HotplugImplements`:
every step is one of its steps or leaves its variables alone), so that the theorems above hold in
it, and then `NobodyLeftBehind`, `TasksPlaced`, `FallbackEnds` (`[]` of `NoneLeftBehind`,
`PlacedWell`, `FallbackFinds`) and `MasksKept` (the action property `MaskKept`).  The invariant `HpInv` ties the active mask, the
phase and the hotplug lock together: inactive CPUs exist only during a plugging, and a task is on
an inactive CPU only between `ClearActive` and the callback that moves it or makes the CPU active
again.  That `migrate_tasks()` finds the task of a throttled group uses that `RqOffline` leaves
none throttled; that it finds a destination uses that not all CPUs are pluggable.  `SearchInv` says of
a search that the CPUs of the mask which it has tested were inactive at some time, so that none of
them is in `steady`, and that a CPU which cannot be unplugged is still to be tested in the last pass;
`PlaceInv` that a task outside its mask has a stopper on its way or was left there by one.

The third part is about the remote tick as the composition drives it: every step of `Hotplug` is a
step of `TickRemote` or leaves its variables alone (`TickStep`), so `WorkAccounted` (`[]TickInv`),
`WorkOnce`, `NoWarning`, `CpuTicked` (`[]` of `OneWork`, `WarnFree`, `TickCovered`) and
`DiagramFollowed` (the action property `Diagram`) hold of `HotplugSpec`, for every set of CPUs.
`TickInv` says that the work exists, once, exactly while the state is not OFFLINE, and that the
state is RUNNING exactly while the CPU is up: `TickCovered` for a CPU that comes back rests on what
OFFLINING says about the work it left.

`SetAffinityProofs` proves `ConfinedAtRest`, `AlwaysRunnable` (`[]` of `WithinCpuset`, `CanRun`)
and `BindingKept` (`BoundStays`) for every set of callers and CPUs with an active one.
`WithinCpuset` speaks of states at rest only; its strengthening says that whenever the task is
not confined, the cpuset code or some caller is about to repair that, and that a repair cannot
fail because the set it copies has an active CPU.

Only model-checked: what does not hold (`AffinityHonoured` with wakelists, `ClampCovers`,
`QueuedAtPrio`, `MovedAway`, `PhysicalAddress`), and every liveness
property: liveness under fairness is outside the proof system's reach.  Only proved: the
invariants of `TickRemote`, `NoLostWakeup` of `WakeQ` (which `WakeupsOwed` implies), `CanRun` of
`SetAffinity`, `RequestKept` and `CallKept` of `Resched`, and the type invariants.

## 5. Not modelled

* The classes themselves (`fair.c`, `rt.c`, `deadline.c`) are not in the repository.
* `migrate_swap()` needs a stopper that waits for two CPUs at once (`stop_two_cpus()`), which the
  stopper lists of `Sched` do not have; `yield_to()` adds a choice of the class to a preemption
  that may happen anyway.
* Creating, attaching and freeing task groups (`core.c:7060-7320`) is RCU list maintenance between
  `cgroup.c` and the classes, neither of which is here; RT bandwidth is in `rt.c`.
* The SMT key and suspend: build and platform options that the properties do not depend on.
* `set_load_weight()` and the table of inverse weights, which only the fair class reads.
* The percentages that `cpu.uclamp.min` and `.max` convert (`core.c:7390-7505`); what they set is in
  `Uclamp`.
* Clocks, statistics, tracing, debugging output and the formatting of `/proc` and cgroup files do
  not affect the properties.
* The segment call copies eight fields and keeps no state; the test programs print and time.

## 6. Plan

Done: the core (`Sched`), `WakeQ` with its abstract `Wakeups`, `Resched`, `Uclamp`, `Prio`,
`TickRemote`, `SetAffinity`, `Bandwidth` with its abstract `Quota`, `Hotplug`, `TaskWait`,
`Conversions`, `PhysAddr`; proofs of the safety properties of all of them.  Next, in this order:

1. An abstract specification of `Uclamp`, the maximum over the runnable tasks except while the
   runqueue holds its last value (the run `uclamp_idle`), with a refinement check and proof.
2. `migrate_swap()`, once the stopper of `Sched` can wait for two CPUs.
