-------------------------------- MODULE Prio --------------------------------
(***************************************************************************)
(* Priorities and policies of tasks (core.c: normal_prio(),                *)
(* effective_prio(), rt_mutex_setprio(), set_user_nice(),                  *)
(* __sched_setscheduler(), normalize_rt_tasks()).                          *)
(*                                                                         *)
(* Callers change policies and nice values of tasks, and tasks block on    *)
(* rt-mutexes that other tasks own and lend them their priority.  Every    *)
(* task is on a runqueue of its own, so that its pi_lock stands for its rq *)
(* lock too.  __sched_setscheduler() reads the policy before it locks, and *)
(* the priority of the top donor twice while it holds locks that do not    *)
(* protect that priority; these reads are steps of their own.              *)
(*                                                                         *)
(* The rt-mutex code is external: a waiter keeps the priority it had when  *)
(* it was queued, a walk along the chain of owners queues it anew and      *)
(* calls rt_mutex_setprio(), and each pair of waiter and owner has a mutex *)
(* of its own.  Deadlines are left out: what depends on them may go either *)
(* way.  Nice values count from MIN_NICE; the position within a priority   *)
(* list is left out.                                                       *)
(***************************************************************************)
EXTENDS Integers, FiniteSetsExt

CONSTANTS Task, Caller,
          None,
          LockOrder,       \* pairs of a waiter and an owner: no cycles
          MAX_RT_PRIO,
          MaxNice,         \* the nice values are 0..MaxNice
          Calls,           \* arguments of the calls that are made
          RLIMIT_NICE,     \* lowest nice value without privilege
          RLIMIT_RTPRIO

SETPARAM_POLICY == "SETPARAM"
Policy == {"NORMAL", "IDLE", "FIFO", "DEADLINE"}
Kind == {"setscheduler", "setattr", "nice", "normalize"}

Nice == 0..MaxNice
Call == [kind : Kind, policy : Policy \cup {SETPARAM_POLICY},
         priority : 0..MAX_RT_PRIO, nice : Nice,
         reset : BOOLEAN,   \* SCHED_FLAG_RESET_ON_FORK
         keep : BOOLEAN,    \* SCHED_FLAG_KEEP_PARAMS
         clamp : BOOLEAN,   \* SCHED_FLAG_UTIL_CLAMP
         cap : BOOLEAN]     \* not checked, or has CAP_SYS_NICE

ASSUME PrioAssumption ==
    /\ MAX_RT_PRIO \in Nat \ {0} /\ MaxNice \in Nat
    /\ RLIMIT_NICE \in Nat /\ RLIMIT_RTPRIO \in Nat
    /\ Calls \subseteq Call
    /\ LockOrder \subseteq Task \X Task
    /\ None \notin Task \cup Caller /\ Task \cap Caller = {}

VARIABLES
    task,      \* scheduling fields of each task
    waits,     \* the task that owns the mutex a task blocks on
    wprio,     \* rt_mutex_waiter.prio of a blocked task
    pi_lock,   \* the caller that holds the pi_lock and the rq lock of a task
    walk,      \* where the chain walk of a caller or a task is
    pc, call,  \* each caller: its place, its target and arguments
    loc        \* each caller: locals of __sched_setscheduler()

vars == <<task, waits, wprio, pi_lock, walk, pc, call, loc>>

dl_policy(policy) == policy = "DEADLINE"
rt_policy(policy) == policy = "FIFO"
fair_policy(policy) == policy \in {"NORMAL", "IDLE"}
dl_prio(prio) == prio < 0
rt_prio(prio) == prio < MAX_RT_PRIO
NICE_TO_PRIO(nice) == MAX_RT_PRIO + nice
task_nice(p) == task[p].static_prio - MAX_RT_PRIO

Unlinked == -2      \* on no list of the rt class
Idle == [kind |-> "none"]
NoWalk == [at |-> "none", t |-> None]
NoLocals == [policy |-> SETPARAM_POLICY, old |-> SETPARAM_POLICY,
             reset |-> FALSE, move |-> FALSE]

queued(p) == waits[p] = None

Init ==
    /\ task = [p \in Task |->
            [policy |-> "NORMAL", static_prio |-> MAX_RT_PRIO, rt_priority |-> 0,
             normal_prio |-> MAX_RT_PRIO, prio |-> MAX_RT_PRIO, class |-> "fair",
             reset |-> FALSE, top |-> None, dl_boosted |-> FALSE, list |-> Unlinked]]
    /\ waits = [p \in Task |-> None]
    /\ wprio = [p \in Task |-> 0]
    /\ pi_lock = [p \in Task |-> None]
    /\ walk = [x \in Task \cup Caller |-> NoWalk]
    /\ pc = [c \in Caller |-> "idle"]
    /\ call = [c \in Caller |-> Idle]
    /\ loc = [c \in Caller |-> NoLocals]

-----------------------------------------------------------------------------
(* Priorities. *)

normal_prio(t) ==
    CASE dl_policy(t.policy) -> -1
      [] rt_policy(t.policy) -> MAX_RT_PRIO - 1 - t.rt_priority
      [] OTHER               -> t.static_prio

\* Mutant: the boost of the task is not kept.
BoostDropped(t) == t.normal_prio

\* t.normal_prio has been brought up to date.
effective_prio(t) == IF rt_prio(t.prio) THEN t.prio ELSE t.normal_prio

\* __rt_effective_prio(): the donor's own locks are not held.
rt_effective_prio(donor, prio) ==
    IF donor = None THEN prio ELSE Min({prio, task[donor].prio})

ClassOf(prio) == IF dl_prio(prio) THEN "dl" ELSE IF rt_prio(prio) THEN "rt" ELSE "fair"

\* dequeue_task() and enqueue_task(): the rt class leaves the task linked
\* where it is when the flags hold DEQUEUE_SAVE and not DEQUEUE_MOVE.
Dequeued(t, move) == IF t.class = "rt" /\ move THEN [t EXCEPT !.list = Unlinked] ELSE t
Enqueued(t, move) == IF t.class = "rt" /\ move THEN [t EXCEPT !.list = t.prio] ELSE t

\* preempts stands for dl_entity_preempt().
Boosted(t, donor, prio, preempts) ==
    IF dl_prio(prio)
    THEN ~dl_prio(t.normal_prio) \/ (donor # None /\ dl_prio(task[donor].prio) /\ preempts)
    ELSE t.dl_boosted /\ ~dl_prio(t.prio)

\* The scheduling fields of p after rt_mutex_setprio(p, donor).
rt_mutex_setprio(p, donor, preempts) ==
    LET t == task[p]
        prio == rt_effective_prio(donor, t.normal_prio)
        move == prio # t.prio
        off == IF queued(p) THEN Dequeued(t, move) ELSE t
        new == [off EXCEPT !.top = donor, !.prio = prio, !.class = ClassOf(prio),
                           !.dl_boosted = Boosted(t, donor, prio, preempts)]
    IN IF prio = t.prio /\ ~dl_prio(prio)
       THEN [t EXCEPT !.top = donor]
       ELSE IF queued(p) THEN Enqueued(new, move) ELSE new

-----------------------------------------------------------------------------
(* The rt-mutex code. *)

\* The waiters of highest priority in a set of waiters.
TopWaiters(W) ==
    IF W = {} THEN {None} ELSE {d \in W : \A e \in W : wprio[d] <= wprio[e]}

Waiters(o) == {d \in Task : waits[d] = o}

\* d blocks on a mutex that o owns and is to boost it.
Block(d, o) ==
    /\ <<d, o>> \in LockOrder
    /\ queued(d) /\ pi_lock[d] = None /\ walk[d] = NoWalk
    /\ waits' = [waits EXCEPT ![d] = o]
    /\ wprio' = [wprio EXCEPT ![d] = task[d].prio]
    /\ task' = [task EXCEPT ![d] = Dequeued(@, TRUE)]
    /\ walk' = [walk EXCEPT ![d] = [at |-> "owner", t |-> o]]
    /\ UNCHANGED <<pi_lock, pc, call, loc>>

\* The owner of the mutex that d blocks on hands it over and gives up d's priority.
Release(d) ==
    LET o == waits[d] IN
    /\ o # None /\ queued(o) /\ walk[o] = NoWalk
    /\ pi_lock[o] = None /\ pi_lock[d] = None
    /\ \E donor \in TopWaiters(Waiters(o) \ {d}), preempts \in BOOLEAN :
            task' = [task EXCEPT ![o] = rt_mutex_setprio(o, donor, preempts),
                                 ![d] = Enqueued(@, TRUE)]
    /\ waits' = [waits EXCEPT ![d] = None]
    /\ wprio' = [wprio EXCEPT ![d] = 0]
    /\ UNCHANGED <<pi_lock, walk, pc, call, loc>>

\* rt_mutex_adjust_pi() and the chain walk: a waiter whose priority changed is
\* queued anew, and the owner it waits for is next.
WalkWaiter(x) ==
    LET t == walk[x].t IN
    /\ walk[x].at = "waiter" /\ pi_lock[t] = None
    /\ \/ /\ waits[t] = None \/ wprio[t] = task[t].prio
          /\ walk' = [walk EXCEPT ![x] = NoWalk]
          /\ UNCHANGED wprio
       \/ /\ waits[t] # None /\ (wprio[t] # task[t].prio \/ dl_prio(task[t].prio))
          /\ wprio' = [wprio EXCEPT ![t] = task[t].prio]
          /\ walk' = [walk EXCEPT ![x] = [at |-> "owner", t |-> waits[t]]]
    /\ UNCHANGED <<task, waits, pi_lock, pc, call, loc>>

\* rt_mutex_adjust_prio() of an owner.
WalkOwner(x) ==
    LET o == walk[x].t IN
    /\ walk[x].at = "owner" /\ pi_lock[o] = None
    /\ \E donor \in TopWaiters(Waiters(o)), preempts \in BOOLEAN :
            task' = [task EXCEPT ![o] = rt_mutex_setprio(o, donor, preempts)]
    /\ walk' = [walk EXCEPT ![x] = [at |-> "waiter", t |-> o]]
    /\ UNCHANGED <<waits, wprio, pi_lock, pc, call, loc>>

-----------------------------------------------------------------------------
(* Callers of set_user_nice() and __sched_setscheduler(). *)

Goto(c, place) == pc' = [pc EXCEPT ![c] = place]

Return(c) ==
    /\ Goto(c, "idle")
    /\ call' = [call EXCEPT ![c] = Idle]
    /\ loc' = [loc EXCEPT ![c] = NoLocals]

\* The arguments with their target.  _sched_setscheduler() takes the nice value
\* from the task, without a lock; sched_setattr() is given one.
Arguments(p, a) ==
    [kind |-> a.kind, p |-> p, policy |-> a.policy, priority |-> a.priority,
     nice |-> IF a.kind = "setscheduler" THEN task_nice(p) ELSE a.nice,
     reset |-> a.reset, keep |-> a.keep, clamp |-> a.clamp, cap |-> a.cap]

\* set_user_nice() returns early when the value is the one the task has, and
\* normalize_rt_tasks() passes over tasks that are not real-time ones.
Begin(c, p, a) ==
    /\ pc[c] = "idle" /\ walk[c] = NoWalk
    /\ a.kind = "nice" => task_nice(p) # a.nice
    /\ a.kind = "normalize" => rt_prio(task[p].prio)
    /\ Goto(c, IF a.kind = "nice" THEN "nice" ELSE "check")
    /\ call' = [call EXCEPT ![c] = Arguments(p, a)]
    /\ UNCHANGED <<task, waits, wprio, pi_lock, walk, loc>>

\* Mutant: normal_prio follows for fair tasks that are not boosted only.
NormalLeft(t, nice) ==
    LET s == [t EXCEPT !.static_prio = NICE_TO_PRIO(nice)]
        n == [s EXCEPT !.normal_prio = normal_prio(s)]
    IN IF t.class = "fair" THEN [n EXCEPT !.prio = effective_prio(n)] ELSE s

Reniced(t, nice) ==
    LET s == [t EXCEPT !.static_prio = NICE_TO_PRIO(nice)]
        n == [s EXCEPT !.normal_prio = normal_prio(s)]
    IN IF fair_policy(t.policy) THEN [n EXCEPT !.prio = effective_prio(n)] ELSE s

\* The flags hold no DEQUEUE_MOVE: an rt task stays linked where it is.
set_user_nice(c) ==
    LET p == call[c].p
        t == task[p]
        off == IF queued(p) THEN Dequeued(t, FALSE) ELSE t
        new == Reniced(off, call[c].nice)
    IN /\ pc[c] = "nice" /\ pi_lock[p] = None
       /\ task' = [task EXCEPT ![p] = IF queued(p) THEN Enqueued(new, FALSE) ELSE new]
       /\ Return(c)
       /\ UNCHANGED <<waits, wprio, pi_lock, walk>>

Valid(policy, a) ==
    /\ a.priority < MAX_RT_PRIO
    /\ rt_policy(policy) = (a.priority # 0)

can_nice(nice) == nice >= RLIMIT_NICE

\* What a caller without CAP_SYS_NICE may do, on the fields before the lock.
Permitted(policy, reset, a) ==
    LET t == task[a.p] IN
    /\ fair_policy(policy) => (a.nice >= task_nice(a.p) \/ can_nice(a.nice))
    /\ rt_policy(policy) => /\ policy = t.policy \/ RLIMIT_RTPRIO # 0
                            /\ a.priority <= t.rt_priority \/ a.priority <= RLIMIT_RTPRIO
    /\ ~dl_policy(policy)
    /\ (t.policy = "IDLE" /\ policy # "IDLE") => can_nice(task_nice(a.p))
    /\ t.reset => reset

\* From the label recheck to the lock.
Check(c) ==
    LET a == call[c]
        keep == a.policy = SETPARAM_POLICY
        policy == IF keep THEN task[a.p].policy ELSE a.policy
        reset == IF keep THEN task[a.p].reset ELSE a.reset
    IN /\ pc[c] = "check"
       /\ Valid(policy, a)
       /\ a.cap \/ Permitted(policy, reset, a)
       /\ loc' = [loc EXCEPT ![c] = [policy |-> policy, reset |-> reset, move |-> FALSE,
                                     old |-> IF keep THEN policy ELSE SETPARAM_POLICY]]
       /\ Goto(c, "lock")
       /\ UNCHANGED <<task, waits, wprio, pi_lock, walk, call>>

\* An error return before the lock: invalid or not permitted arguments, another
\* owner, the security module, uclamp_validate().
Refuse(c) ==
    /\ pc[c] = "check"
    /\ Return(c)
    /\ UNCHANGED <<task, waits, wprio, pi_lock, walk>>

SamePolicy(c) == loc[c].policy = task[call[c].p].policy

ParamsChanged(c) ==
    LET a == call[c] IN
    \/ fair_policy(loc[c].policy) /\ a.nice # task_nice(a.p)
    \/ rt_policy(loc[c].policy) /\ a.priority # task[a.p].rt_priority
    \/ a.clamp

AtLock(c) == pc[c] = "lock" /\ pi_lock[call[c].p] = None

\* The label change is reached; dl_param_changed() may say either.
AtChange(c) ==
    /\ AtLock(c)
    /\ ~SamePolicy(c) \/ ParamsChanged(c) \/ dl_policy(loc[c].policy)

\* Nothing to change but sched_reset_on_fork.
StoreReset(c) ==
    /\ AtLock(c) /\ SamePolicy(c) /\ ~ParamsChanged(c)
    /\ task' = [task EXCEPT ![call[c].p].reset = loc[c].reset]
    /\ Return(c)
    /\ UNCHANGED <<waits, wprio, pi_lock, walk>>

\* Mutant: the policy is not looked at again.
PolicyTrusted(c) == FALSE

PolicyChanged(c) == loc[c].old \notin {SETPARAM_POLICY, task[call[c].p].policy}

\* Errors under the lock: no real-time runtime in the group, no deadline bandwidth.
RefuseLocked(c) ==
    /\ AtChange(c)
    /\ dl_policy(loc[c].policy) \/ rt_policy(loc[c].policy) \/ dl_prio(task[call[c].p].prio)
    /\ Return(c)
    /\ UNCHANGED <<task, waits, wprio, pi_lock, walk>>

Recheck(c) ==
    /\ AtChange(c) /\ PolicyChanged(c)
    /\ Goto(c, "check")
    /\ loc' = [loc EXCEPT ![c] = NoLocals]
    /\ UNCHANGED <<task, waits, wprio, pi_lock, walk, call>>

newprio(a) == IF dl_policy(a.policy) THEN -1 ELSE MAX_RT_PRIO - 1 - a.priority

\* DEQUEUE_MOVE stays set; normalize_rt_tasks() passes pi = false.
Moves(t, a) == a.kind = "normalize" \/ rt_effective_prio(t.top, newprio(a)) # t.prio

\* __sched_setscheduler() down to the dequeue: the first read of the donor.
StartChange(c) ==
    LET a == call[c]
        t == [task[a.p] EXCEPT !.reset = loc[c].reset]
    IN /\ AtChange(c) /\ ~PolicyChanged(c)
       /\ pi_lock' = [pi_lock EXCEPT ![a.p] = c]
       /\ task' = [task EXCEPT ![a.p] = IF queued(a.p) THEN Dequeued(t, Moves(t, a)) ELSE t]
       /\ loc' = [loc EXCEPT ![c].move = Moves(t, a)]
       /\ Goto(c, "change")
       /\ UNCHANGED <<waits, wprio, walk, call>>

__setscheduler_params(t, a) ==
    LET policy == IF a.policy = SETPARAM_POLICY THEN t.policy ELSE a.policy
        s == [t EXCEPT !.policy = policy, !.rt_priority = a.priority,
                       !.static_prio = IF fair_policy(policy) THEN NICE_TO_PRIO(a.nice) ELSE @]
    IN [s EXCEPT !.normal_prio = normal_prio(s)]

NewPrio(t, a) ==
    IF a.kind = "normalize" THEN t.normal_prio ELSE rt_effective_prio(t.top, t.normal_prio)

\* The second read of the donor.
__setscheduler(t, a) ==
    LET s == __setscheduler_params(t, a) IN
    IF a.keep THEN t ELSE [s EXCEPT !.prio = NewPrio(s, a), !.class = ClassOf(NewPrio(s, a))]

\* rt_mutex_adjust_pi(p) follows the unlock when pi is set.
AdjustPi(c) ==
    IF call[c].kind = "normalize" THEN NoWalk ELSE [at |-> "waiter", t |-> call[c].p]

\* The rest of __sched_setscheduler().
Change(c) ==
    LET a == call[c]
        new == __setscheduler(task[a.p], a)
    IN /\ pc[c] = "change"
       /\ task' = [task EXCEPT ![a.p] = IF queued(a.p) THEN Enqueued(new, loc[c].move) ELSE new]
       /\ pi_lock' = [pi_lock EXCEPT ![a.p] = None]
       /\ walk' = [walk EXCEPT ![c] = AdjustPi(c)]
       /\ Return(c)
       /\ UNCHANGED <<waits, wprio>>

Next ==
    \/ \E d, o \in Task : Block(d, o)
    \/ \E d \in Task : Release(d)
    \/ \E x \in Task \cup Caller : WalkWaiter(x) \/ WalkOwner(x)
    \/ \E c \in Caller, p \in Task, a \in Calls : Begin(c, p, a)
    \/ \E c \in Caller :
          \/ set_user_nice(c) \/ Check(c) \/ Refuse(c) \/ StoreReset(c)
          \/ RefuseLocked(c) \/ Recheck(c) \/ StartChange(c) \/ Change(c)

Spec == Init /\ [][Next]_vars

-----------------------------------------------------------------------------
(* Properties. *)

TypeOK ==
    /\ task \in [Task ->
            [policy : Policy, static_prio : MAX_RT_PRIO..(MAX_RT_PRIO + MaxNice),
             rt_priority : 0..(MAX_RT_PRIO - 1),
             normal_prio : -1..(MAX_RT_PRIO + MaxNice),
             prio : -1..(MAX_RT_PRIO + MaxNice), class : {"fair", "rt", "dl"},
             reset : BOOLEAN, top : Task \cup {None}, dl_boosted : BOOLEAN,
             list : {Unlinked} \cup 0..(MAX_RT_PRIO - 1)]]
    /\ waits \in [Task -> Task \cup {None}]
    /\ wprio \in [Task -> -1..(MAX_RT_PRIO + MaxNice)]
    /\ pi_lock \in [Task -> Caller \cup {None}]
    /\ walk \in [Task \cup Caller -> [at : {"none", "waiter", "owner"}, t : Task \cup {None}]]
    /\ pc \in [Caller -> {"idle", "nice", "check", "lock", "change"}]

\* A task has an RT priority exactly when its policy is a real-time one, though
\* sched_setparam() validates the priority against a policy it reads unlocked
\* (core.c, __sched_setscheduler(), label recheck).
ParamsValid ==
    \A p \in Task : rt_policy(task[p].policy) <=> task[p].rt_priority # 0

\* The class a task is in is the one of its effective priority, whichever of
\* set_user_nice(), rt_mutex_setprio() and __setscheduler() came last: the
\* first of them does not look at the class of a boosted task.
ClassFollowsPrio ==
    \A p \in Task : task[p].class = ClassOf(task[p].prio)

\* normal_prio is the priority by policy, nice value and RT priority, also
\* of a task that was reniced while it was boosted: de-boosting returns to it.
NormalPrioExact ==
    \A p \in Task : task[p].normal_prio = normal_prio(task[p])

\* A queued rt task is on the list of its priority, and no other task is on a
\* list of the rt class: "If the new effective priority is unchanged, we just
\* store the new normal parameters and do not touch the scheduler class and the
\* runqueue." (__sched_setscheduler())
QueuedAtPrio ==
    \A p \in Task : pi_lock[p] = None =>
        task[p].list = IF queued(p) /\ task[p].class = "rt" THEN task[p].prio ELSE Unlinked
=============================================================================
