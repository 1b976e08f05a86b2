----------------------------- MODULE PrioProofs -----------------------------
(***************************************************************************)
(* That the scheduling fields of a task agree with each other, for every   *)
(* set of tasks, callers and calls.  The fields are validated against a    *)
(* policy that is read before the lock is taken; what makes that sound is  *)
(* ChangeInv.                                                              *)
(***************************************************************************)
EXTENDS Prio, TLAPS

USE PrioAssumption
USE DEF Policy, Kind, Nice, SETPARAM_POLICY, Unlinked, dl_policy, rt_policy, fair_policy,
        dl_prio, rt_prio, NICE_TO_PRIO

Prios == -1..(MAX_RT_PRIO + MaxNice)
Fields == [policy : Policy, static_prio : MAX_RT_PRIO..(MAX_RT_PRIO + MaxNice),
           rt_priority : 0..(MAX_RT_PRIO - 1), normal_prio : Prios, prio : Prios,
           class : {"fair", "rt", "dl"}, reset : BOOLEAN, top : Task \cup {None},
           dl_boosted : BOOLEAN, list : {Unlinked} \cup 0..(MAX_RT_PRIO - 1)]

\* What the three invariants say of one task.
Sound(t) ==
    /\ rt_policy(t.policy) <=> t.rt_priority # 0
    /\ t.class = ClassOf(t.prio)
    /\ t.normal_prio = normal_prio(t)

\* The arguments of a call, and its target.
Args == [kind : Kind, p : Task, policy : Policy \cup {SETPARAM_POLICY},
         priority : 0..MAX_RT_PRIO, nice : Nice, reset : BOOLEAN, keep : BOOLEAN,
         clamp : BOOLEAN, cap : BOOLEAN]
Locals == [policy : Policy \cup {SETPARAM_POLICY}, old : Policy \cup {SETPARAM_POLICY},
           reset : BOOLEAN, move : BOOLEAN]

\* The fields of every task agree.
TaskOK == task \in [Task -> Fields] /\ \A p \in Task : Sound(task[p])

\* A walk has a task to go on with, and a caller in the middle of a call has
\* arguments.
WalkOK ==
    /\ walk \in [Task \cup Caller -> [at : {"none", "waiter", "owner"}, t : Task \cup {None}]]
    /\ \A x \in Task \cup Caller : walk[x].at # "none" => walk[x].t \in Task
MutexOK ==
    /\ waits \in [Task -> Task \cup {None}]
    /\ wprio \in [Task -> Prios]
    /\ pi_lock \in [Task -> Caller \cup {None}]
CallerOK ==
    /\ pc \in [Caller -> {"idle", "nice", "check", "lock", "change"}]
    /\ call \in [Caller -> Args \cup {Idle}] /\ loc \in [Caller -> Locals]
    /\ \A c \in Caller : pc[c] # "idle" => call[c] \in Args

\* From the check on, the priority is one for the policy that was found; a caller that
\* asked for no policy has kept the one the task had.
CheckInv ==
    \A c \in Caller : pc[c] \in {"lock", "change"} =>
        /\ loc[c].policy \in Policy /\ Valid(loc[c].policy, call[c])
        /\ IF call[c].policy = SETPARAM_POLICY
           THEN loc[c].old = loc[c].policy ELSE loc[c].policy = call[c].policy

\* A change is made under the lock of the task, and the policy that was found
\* before the lock was taken is still the policy of the task.
ChangeInv ==
    \A c \in Caller : pc[c] = "change" =>
        /\ pi_lock[call[c].p] = c
        /\ call[c].policy = SETPARAM_POLICY => task[call[c].p].policy = loc[c].policy

IInv == TaskOK /\ WalkOK /\ MutexOK /\ CallerOK /\ CheckInv /\ ChangeInv

-----------------------------------------------------------------------------
(***************************************************************************)
(* The operators on the fields of one task.                                *)
(***************************************************************************)

\* The lower of two priorities is one of them.
LEMMA MinOfTwo ==
  ASSUME NEW a \in Int, NEW b \in Int
  PROVE  Min({a, b}) \in {a, b}
<1>1. \E x \in {a, b} : \A y \in {a, b} : x <= y
  OBVIOUS
<1> QED
  BY <1>1 DEF Min

\* A task off its queue is as sound as one on it.
LEMMA DequeuedSound ==
  ASSUME NEW t \in Fields, Sound(t), NEW move \in BOOLEAN
  PROVE  /\ Dequeued(t, move) \in Fields /\ Sound(Dequeued(t, move))
         /\ Dequeued(t, move).policy = t.policy
BY DEF Fields, Sound, Dequeued, ClassOf, normal_prio

\* The list a task is linked to is one of the rt class, because the class follows
\* the priority.
LEMMA EnqueuedSound ==
  ASSUME NEW t \in Fields, Sound(t), NEW move \in BOOLEAN
  PROVE  /\ Enqueued(t, move) \in Fields /\ Sound(Enqueued(t, move))
         /\ Enqueued(t, move).policy = t.policy
<1>1. t.class = "rt" => t.prio \in 0..(MAX_RT_PRIO - 1)
  BY DEF Fields, Sound, ClassOf, Prios
<1> QED
  BY <1>1 DEF Fields, Sound, Enqueued, ClassOf, normal_prio

\* A boosted task keeps its priority and with it its class; a fair task moves
\* within the fair class.
LEMMA RenicedSound ==
  ASSUME NEW t \in Fields, Sound(t), NEW nice \in Nice
  PROVE  /\ Reniced(t, nice) \in Fields /\ Sound(Reniced(t, nice))
         /\ Reniced(t, nice).policy = t.policy
<1> DEFINE static == NICE_TO_PRIO(nice)
           s == [t EXCEPT !.static_prio = static]
           n == [s EXCEPT !.normal_prio = normal_prio(s)]
<1>1. static \in MAX_RT_PRIO..(MAX_RT_PRIO + MaxNice) /\ static \in Prios
  BY DEF Prios
<1>2. CASE ~fair_policy(t.policy)
  <2>1. Reniced(t, nice) = s
    BY <1>2 DEF Reniced
  <2>2. s \in Fields /\ Sound(s) /\ s.policy = t.policy
    BY <1>1, <1>2 DEF Fields, Sound, ClassOf, normal_prio
  <2> QED
    BY <2>1, <2>2
<1>3. CASE fair_policy(t.policy)
  <2>1. n = [t EXCEPT !.static_prio = static, !.normal_prio = static]
    BY <1>3 DEF Fields, normal_prio
  <2>2. effective_prio(n) = IF t.prio < MAX_RT_PRIO THEN t.prio ELSE static
    BY <2>1 DEF Fields, effective_prio
  <2> DEFINE prio == IF t.prio < MAX_RT_PRIO THEN t.prio ELSE static
             r == [t EXCEPT !.static_prio = static, !.normal_prio = static, !.prio = prio]
  <2>3. Reniced(t, nice) = r
    BY <1>3, <2>1, <2>2 DEF Reniced, Fields
  <2>4. prio \in Prios /\ ClassOf(prio) = ClassOf(t.prio)
    BY <1>1 DEF Fields, ClassOf, Prios
  <2>5. r \in Fields /\ Sound(r) /\ r.policy = t.policy
    <3> HIDE DEF prio, static
    <3> QED BY <1>1, <1>3, <2>4 DEF Fields, Sound, normal_prio
  <2> QED
    BY <2>3, <2>5
<1> QED
  BY <1>2, <1>3

\* The donor lends its priority.
LEMMA EffectivePrioType ==
  ASSUME TaskOK, NEW donor \in Task \cup {None}, NEW prio \in Prios
  PROVE  rt_effective_prio(donor, prio) \in Prios
<1>1. CASE donor = None
  BY <1>1 DEF rt_effective_prio
<1>2. CASE donor # None
  <2>1. task[donor].prio \in Prios
    BY <1>2 DEF TaskOK, Fields
  <2>2. Min({prio, task[donor].prio}) \in {prio, task[donor].prio}
    BY <2>1, MinOfTwo DEF Prios
  <2> QED
    BY <1>2, <2>1, <2>2 DEF rt_effective_prio
<1> QED
  BY <1>1, <1>2

\* rt_mutex_setprio() gives a task the class of its new priority and keeps its policy.
LEMMA SetprioSound ==
  ASSUME TaskOK, NEW p \in Task, NEW donor \in Task \cup {None}, NEW preempts \in BOOLEAN
  PROVE  /\ rt_mutex_setprio(p, donor, preempts) \in Fields
         /\ Sound(rt_mutex_setprio(p, donor, preempts))
         /\ rt_mutex_setprio(p, donor, preempts).policy = task[p].policy
<1> DEFINE t == task[p]
           prio == rt_effective_prio(donor, t.normal_prio)
           move == prio # t.prio
           off == IF queued(p) THEN Dequeued(t, move) ELSE t
           boosted == Boosted(t, donor, prio, preempts)
           new == [off EXCEPT !.top = donor, !.prio = prio, !.class = ClassOf(prio),
                              !.dl_boosted = boosted]
<1>1. t \in Fields /\ Sound(t)
  BY DEF TaskOK
<1>2. prio \in Prios
  BY <1>1, EffectivePrioType DEF Fields
<1>3. boosted \in BOOLEAN
  <2> HIDE DEF prio
  <2> QED BY <1>1 DEF Boosted, Fields
<1>4. off \in Fields /\ Sound(off) /\ off.policy = t.policy
  <2> HIDE DEF t, prio
  <2> QED BY <1>1, DequeuedSound
<1>5. new \in Fields /\ Sound(new) /\ new.policy = t.policy
  <2> HIDE DEF t, prio, off, boosted
  <2>1. ClassOf(prio) \in {"fair", "rt", "dl"}
    BY DEF ClassOf
  <2>2. new \in Fields
    BY <1>2, <1>3, <1>4, <2>1 DEF Fields
  <2>3. /\ new.policy = off.policy /\ new.rt_priority = off.rt_priority /\ new.prio = prio
        /\ new.class = ClassOf(prio) /\ new.normal_prio = off.normal_prio
        /\ new.static_prio = off.static_prio
    BY <1>4 DEF Fields
  <2> HIDE DEF new
  <2> QED
    BY <1>4, <2>2, <2>3 DEF Sound, normal_prio
<1>6. CASE prio = t.prio /\ ~dl_prio(prio)
  <2> DEFINE kept == [t EXCEPT !.top = donor]
  <2>1. rt_mutex_setprio(p, donor, preempts) = kept
    BY <1>6 DEF rt_mutex_setprio
  <2>2. kept \in Fields /\ Sound(kept) /\ kept.policy = t.policy
    <3> HIDE DEF t
    <3> QED BY <1>1 DEF Fields, Sound, normal_prio
  <2> QED
    BY <2>1, <2>2
<1>7. CASE ~(prio = t.prio /\ ~dl_prio(prio))
  <2> DEFINE on == IF queued(p) THEN Enqueued(new, move) ELSE new
  <2>1. rt_mutex_setprio(p, donor, preempts) = on
    BY <1>7 DEF rt_mutex_setprio
  <2>2. on \in Fields /\ Sound(on) /\ on.policy = t.policy
    <3> HIDE DEF new, t, prio
    <3> QED BY <1>5, EnqueuedSound
  <2> QED
    BY <2>1, <2>2
<1> QED
  BY <1>6, <1>7

\* __setscheduler() with a priority that is one for the policy.
LEMMA SetschedulerSound ==
  ASSUME TaskOK, NEW t \in Fields, Sound(t), NEW a \in Args, a.priority < MAX_RT_PRIO,
         LET policy == IF a.policy = SETPARAM_POLICY THEN t.policy ELSE a.policy
         IN  rt_policy(policy) <=> a.priority # 0
  PROVE  __setscheduler(t, a) \in Fields /\ Sound(__setscheduler(t, a))
<1> DEFINE policy == IF a.policy = SETPARAM_POLICY THEN t.policy ELSE a.policy
           static == IF fair_policy(policy) THEN NICE_TO_PRIO(a.nice) ELSE t.static_prio
           q == [t EXCEPT !.policy = policy, !.rt_priority = a.priority, !.static_prio = static]
           s == [q EXCEPT !.normal_prio = normal_prio(q)]
           prio == NewPrio(s, a)
           r == [s EXCEPT !.prio = prio, !.class = ClassOf(prio)]
<1>1. /\ policy \in Policy /\ static \in MAX_RT_PRIO..(MAX_RT_PRIO + MaxNice)
      /\ a.priority \in 0..(MAX_RT_PRIO - 1) /\ (rt_policy(policy) <=> a.priority # 0)
  BY DEF Args, Fields
<1>2. __setscheduler_params(t, a) = s
  BY DEF __setscheduler_params, Fields
<1>3. q \in Fields
  <2> HIDE DEF policy, static
  <2> QED BY <1>1 DEF Fields
<1>4. normal_prio(q) \in Prios /\ normal_prio(s) = normal_prio(q)
  <2>1. normal_prio(q) \in Prios
    <3> HIDE DEF q
    <3> QED BY <1>3 DEF Fields, normal_prio, Prios
  <2>2. normal_prio(s) = normal_prio(q)
    <3> HIDE DEF q
    <3> QED BY <1>3 DEF Fields, normal_prio
  <2> QED
    BY <2>1, <2>2
<1>5. /\ s \in Fields /\ s.normal_prio = normal_prio(s) /\ s.policy = policy
      /\ s.rt_priority = a.priority
  <2> HIDE DEF policy, static
  <2>1. s \in Fields /\ s.normal_prio = normal_prio(q)
    <3> HIDE DEF q
    <3> QED BY <1>3, <1>4 DEF Fields
  <2>2. s.policy = policy /\ s.rt_priority = a.priority
    BY <1>3 DEF Fields
  <2> QED
    BY <1>4, <2>1, <2>2
<1> HIDE DEF s
<1>6. prio \in Prios
  <2>1. s.top \in Task \cup {None} /\ s.normal_prio \in Prios
    BY <1>5 DEF Fields
  <2> QED
    BY <2>1, EffectivePrioType DEF NewPrio
<1>7. r \in Fields /\ Sound(r)
  <2> HIDE DEF prio, policy
  <2>1. r \in Fields
    <3>1. ClassOf(prio) \in {"fair", "rt", "dl"}
      BY DEF ClassOf
    <3> QED
      BY <1>5, <1>6, <3>1 DEF Fields
  <2>2. /\ r.policy = s.policy /\ r.rt_priority = s.rt_priority /\ r.normal_prio = s.normal_prio
        /\ r.static_prio = s.static_prio /\ r.prio = prio /\ r.class = ClassOf(prio)
    BY <1>5 DEF Fields
  <2>3. normal_prio(r) = normal_prio(s)
    BY <2>2 DEF normal_prio
  <2> QED
    BY <1>1, <1>5, <2>1, <2>2, <2>3 DEF Sound
<1>8. __setscheduler(t, a) = IF a.keep THEN t ELSE r
  BY <1>2 DEF __setscheduler
<1> QED
  BY <1>7, <1>8

-----------------------------------------------------------------------------
(***************************************************************************)
(* The steps.                                                              *)
(***************************************************************************)

\* The inductive invariant contains the type invariant.
LEMMA InvType == IInv => TypeOK
BY DEF IInv, TaskOK, TypeOK, Fields, Prios, WalkOK, MutexOK, CallerOK

\* A task is given sound fields.
LEMMA TaskUpdate ==
  ASSUME TaskOK, NEW p \in Task, NEW new \in Fields, Sound(new),
         task' = [task EXCEPT ![p] = new]
  PROVE  TaskOK'
BY DEF TaskOK

\* The callers go on where they are while the policies of tasks and the locks stay.
LEMMA CallersKept ==
  ASSUME CheckInv, ChangeInv, CallerOK, UNCHANGED <<pc, call, loc, pi_lock>>,
         \A p \in Task : task'[p].policy = task[p].policy
  PROVE  CallerOK' /\ CheckInv' /\ ChangeInv'
<1>1. \A c \in Caller : pc[c] = "change" => call[c].p \in Task
  BY DEF CallerOK, Args
<1> QED
  BY <1>1 DEF CallerOK, CheckInv, ChangeInv, Valid

\* The rt-mutex code.
LEMMA BlockInv ==
  ASSUME IInv, NEW d \in Task, NEW o \in Task, Block(d, o)
  PROVE  IInv'
<1> DEFINE new == Dequeued(task[d], TRUE)
<1>1. task[d] \in Fields /\ Sound(task[d]) /\ task[d].prio \in Prios
  BY DEF IInv, TaskOK, Fields
<1>2. new \in Fields /\ Sound(new) /\ new.policy = task[d].policy
  BY <1>1, DequeuedSound
<1>3. task' = [task EXCEPT ![d] = new] /\ UNCHANGED <<pi_lock, pc, call, loc>>
  BY DEF Block
<1> HIDE DEF new
<1>4. TaskOK'
  BY <1>2, <1>3, TaskUpdate DEF IInv
<1>5. \A p \in Task : task'[p].policy = task[p].policy
  BY <1>2, <1>3 DEF IInv, TaskOK
<1>6. CallerOK' /\ CheckInv' /\ ChangeInv'
  BY <1>3, <1>5, CallersKept DEF IInv
<1>7. WalkOK' /\ MutexOK'
  BY <1>1 DEF Block, IInv, WalkOK, MutexOK
<1> QED
  BY <1>4, <1>6, <1>7 DEF IInv

\* The top waiter is a task, or there is none.
LEMMA TopWaitersType ==
  ASSUME NEW W \in SUBSET Task
  PROVE  TopWaiters(W) \subseteq Task \cup {None}
BY DEF TopWaiters

\* The owner gives the mutex up: it loses the boost, and the waiter goes on.
LEMMA ReleaseInv ==
  ASSUME IInv, NEW d \in Task, Release(d)
  PROVE  IInv'
<1> PICK o \in Task : o = waits[d]
  BY DEF Release, IInv, MutexOK
<1> PICK donor \in TopWaiters(Waiters(o) \ {d}), preempts \in BOOLEAN :
        task' = [task EXCEPT ![o] = rt_mutex_setprio(o, donor, preempts),
                             ![d] = Enqueued(@, TRUE)]
  BY DEF Release
<1>1. donor \in Task \cup {None}
  <2>1. Waiters(o) \ {d} \in SUBSET Task
    BY DEF Waiters
  <2> QED
    BY <2>1, TopWaitersType
<1>2. o # d
  BY DEF Release, queued
<1> DEFINE n == rt_mutex_setprio(o, donor, preempts)
           e == Enqueued(task[d], TRUE)
<1>3. n \in Fields /\ Sound(n) /\ n.policy = task[o].policy
  BY <1>1, SetprioSound DEF IInv
<1>4. e \in Fields /\ Sound(e) /\ e.policy = task[d].policy
  BY EnqueuedSound DEF IInv, TaskOK
<1>5. task' = [[task EXCEPT ![o] = n] EXCEPT ![d] = e]
  BY <1>2 DEF IInv, TaskOK
<1> HIDE DEF n, e
<1>6. TaskOK' /\ \A p \in Task : task'[p].policy = task[p].policy
  <2>1. task \in [Task -> Fields] /\ \A p \in Task : Sound(task[p])
    BY DEF IInv, TaskOK
  <2>2. task' \in [Task -> Fields]
    BY <1>3, <1>4, <1>5, <2>1
  <2>3. \A p \in Task : task'[p] = IF p = d THEN e ELSE IF p = o THEN n ELSE task[p]
    BY <1>2, <1>5, <2>1
  <2>4. \A p \in Task : Sound(task'[p]) /\ task'[p].policy = task[p].policy
    BY <1>3, <1>4, <2>1, <2>3
  <2> QED
    BY <2>2, <2>4 DEF TaskOK
<1>7. UNCHANGED <<pi_lock, walk, pc, call, loc>>
  BY DEF Release
<1>8. CallerOK' /\ CheckInv' /\ ChangeInv'
  BY <1>6, <1>7, CallersKept DEF IInv
<1>9. WalkOK' /\ MutexOK'
  BY <1>7 DEF Release, IInv, WalkOK, MutexOK, Prios
<1> QED
  BY <1>6, <1>8, <1>9 DEF IInv

\* A step of the chain walk that notes the priority of a waiter.
LEMMA WalkWaiterInv ==
  ASSUME IInv, NEW x \in Task \cup Caller, WalkWaiter(x)
  PROVE  IInv'
<1>1. UNCHANGED <<task, waits, pi_lock, pc, call, loc>>
  BY DEF WalkWaiter
<1> PICK t \in Task : t = walk[x].t
  BY DEF WalkWaiter, IInv, WalkOK
<1>2. TaskOK' /\ CallerOK' /\ CheckInv' /\ ChangeInv'
  BY <1>1 DEF IInv, TaskOK, CallerOK, CheckInv, ChangeInv, Valid
<1>3. task[t].prio \in Prios
  BY DEF IInv, TaskOK, Fields
<1>4. WalkOK' /\ MutexOK'
  <2>1. WalkOK'
    <3>1. \/ walk' = [walk EXCEPT ![x] = NoWalk]
          \/ walk' = [walk EXCEPT ![x] = [at |-> "owner", t |-> waits[t]]] /\ waits[t] # None
      BY DEF WalkWaiter
    <3>2. waits[t] \in Task \cup {None} /\ WalkOK
      BY DEF IInv, MutexOK
    <3> QED
      BY ONLY <3>1, <3>2, x \in Task \cup Caller DEF WalkOK, NoWalk
  <2>2. MutexOK'
    BY <1>1, <1>3 DEF WalkWaiter, IInv, MutexOK
  <2> QED
    BY <2>1, <2>2
<1> QED
  BY <1>2, <1>4 DEF IInv

\* A step of the chain walk that boosts the owner.
LEMMA WalkOwnerInv ==
  ASSUME IInv, NEW x \in Task \cup Caller, WalkOwner(x)
  PROVE  IInv'
<1>1. UNCHANGED <<waits, wprio, pi_lock, pc, call, loc>>
  BY DEF WalkOwner
<1> PICK o \in Task : o = walk[x].t
  BY DEF WalkOwner, IInv, WalkOK
<1> PICK donor \in TopWaiters(Waiters(o)), preempts \in BOOLEAN :
        task' = [task EXCEPT ![o] = rt_mutex_setprio(o, donor, preempts)]
  BY DEF WalkOwner
<1>2. donor \in Task \cup {None}
  <2>1. Waiters(o) \in SUBSET Task
    BY DEF Waiters
  <2> QED
    BY <2>1, TopWaitersType
<1> DEFINE n == rt_mutex_setprio(o, donor, preempts)
<1>3. n \in Fields /\ Sound(n) /\ n.policy = task[o].policy
  BY <1>2, SetprioSound DEF IInv
<1>4. task' = [task EXCEPT ![o] = n]
  OBVIOUS
<1> HIDE DEF n
<1>5. TaskOK' /\ \A p \in Task : task'[p].policy = task[p].policy
  BY <1>3, <1>4 DEF IInv, TaskOK
<1>6. CallerOK' /\ CheckInv' /\ ChangeInv'
  BY <1>1, <1>5, CallersKept DEF IInv
<1>7. WalkOK' /\ MutexOK'
  BY <1>1 DEF WalkOwner, IInv, WalkOK, MutexOK
<1> QED
  BY <1>5, <1>6, <1>7 DEF IInv

\* The callers.
LEMMA BeginInv ==
  ASSUME IInv, NEW c \in Caller, NEW p \in Task, NEW a \in Calls, Begin(c, p, a)
  PROVE  IInv'
<1>1. /\ UNCHANGED <<task, waits, wprio, pi_lock, walk, loc>> /\ pc[c] = "idle"
      /\ \E place \in {"nice", "check"} : pc' = [pc EXCEPT ![c] = place]
      /\ call' = [call EXCEPT ![c] = Arguments(p, a)]
  BY DEF Begin, Goto
<1>2. Arguments(p, a) \in Args
  <2>1. a \in Call
    OBVIOUS
  <2>2. task_nice(p) \in Nice
    BY DEF task_nice, IInv, TaskOK, Fields
  <2> QED
    BY <2>1, <2>2 DEF Call, Args, Arguments
<1>3. CallerOK'
  BY <1>1, <1>2 DEF IInv, CallerOK
<1>4. CheckInv' /\ ChangeInv'
  BY <1>1 DEF IInv, CheckInv, ChangeInv, CallerOK, Valid
<1>5. TaskOK' /\ WalkOK' /\ MutexOK'
  BY <1>1 DEF IInv, TaskOK, WalkOK, MutexOK
<1> QED
  BY <1>3, <1>4, <1>5 DEF IInv

\* A call that returns leaves the others where they are.
LEMMA ReturnKeeps ==
  ASSUME CallerOK, CheckInv, ChangeInv, NEW c \in Caller, Return(c), UNCHANGED pi_lock,
         \A p \in Task : task'[p].policy = task[p].policy
  PROVE  CallerOK' /\ CheckInv' /\ ChangeInv'
<1>1. /\ pc' = [pc EXCEPT ![c] = "idle"] /\ call' = [call EXCEPT ![c] = Idle]
      /\ loc' = [loc EXCEPT ![c] = NoLocals]
  BY DEF Return, Goto
<1>2. NoLocals \in Locals
  BY DEF NoLocals, Locals
<1>3. CallerOK'
  BY <1>1, <1>2 DEF CallerOK
<1>4. \A e \in Caller : pc'[e] # "idle" => e # c /\ pc[e] = pc'[e] /\ call'[e] = call[e]
                                           /\ loc'[e] = loc[e]
  BY <1>1 DEF CallerOK
<1>5. CheckInv'
  BY <1>4 DEF CheckInv, Valid
<1>6. \A e \in Caller : pc[e] = "change" => call[e].p \in Task
  BY DEF CallerOK, Args
<1>7. ChangeInv'
  BY <1>4, <1>6 DEF ChangeInv
<1> QED
  BY <1>3, <1>5, <1>7

\* set_user_nice() changes the nice value, and the priority unless it is boosted.
LEMMA SetUserNiceInv ==
  ASSUME IInv, NEW c \in Caller, set_user_nice(c)
  PROVE  IInv'
<1>1. UNCHANGED <<waits, wprio, pi_lock, walk>> /\ Return(c) /\ call[c] \in Args
  BY DEF set_user_nice, IInv, CallerOK
<1> PICK p \in Task : p = call[c].p
  BY <1>1 DEF Args
<1> DEFINE off == IF queued(p) THEN Dequeued(task[p], FALSE) ELSE task[p]
           new == Reniced(off, call[c].nice)
           on == IF queued(p) THEN Enqueued(new, FALSE) ELSE new
<1>2. off \in Fields /\ Sound(off) /\ off.policy = task[p].policy
  BY DequeuedSound DEF IInv, TaskOK
<1>3. new \in Fields /\ Sound(new) /\ new.policy = task[p].policy
  <2> HIDE DEF off
  <2> QED BY <1>1, <1>2, RenicedSound DEF Args
<1>4. on \in Fields /\ Sound(on) /\ on.policy = task[p].policy
  <2> HIDE DEF new
  <2> QED BY <1>3, EnqueuedSound
<1>5. task' = [task EXCEPT ![p] = on]
  BY DEF set_user_nice
<1> HIDE DEF on
<1>6. TaskOK'
  BY <1>4, <1>5, TaskUpdate DEF IInv
<1>7. \A q \in Task : task'[q].policy = task[q].policy
  BY <1>4, <1>5 DEF IInv, TaskOK
<1>8. CallerOK' /\ CheckInv' /\ ChangeInv'
  BY <1>1, <1>7, ReturnKeeps DEF IInv
<1> QED
  BY <1>1, <1>6, <1>8 DEF IInv, WalkOK, MutexOK

\* The check reads the fields of the task without its lock.
LEMMA CheckStep ==
  ASSUME IInv, NEW c \in Caller, Check(c)
  PROVE  IInv'
<1>1. /\ UNCHANGED <<task, waits, wprio, pi_lock, walk, call>> /\ call[c] \in Args
      /\ pc' = [pc EXCEPT ![c] = "lock"]
  BY DEF Check, Goto, IInv, CallerOK
<1> DEFINE a == call[c]
           keep == a.policy = SETPARAM_POLICY
           policy == IF keep THEN task[a.p].policy ELSE a.policy
           reset == IF keep THEN task[a.p].reset ELSE a.reset
           l == [policy |-> policy, reset |-> reset, move |-> FALSE,
                 old |-> IF keep THEN policy ELSE SETPARAM_POLICY]
<1>2. loc' = [loc EXCEPT ![c] = l] /\ Valid(policy, a)
  BY DEF Check
<1>3. policy \in Policy /\ reset \in BOOLEAN
  <2>1. a.p \in Task /\ task[a.p] \in Fields
    BY <1>1 DEF Args, IInv, TaskOK
  <2> QED
    BY <1>1, <2>1 DEF Args, Fields
<1>4. /\ l \in Locals /\ l.policy = policy
      /\ a.policy = SETPARAM_POLICY => l.old = policy
      /\ a.policy # SETPARAM_POLICY => policy = a.policy
  <2>1. l \in Locals
    <3> HIDE DEF policy, reset
    <3> QED BY <1>3 DEF Locals
  <2> QED
    BY <2>1
<1> HIDE DEF l, policy
<1>5. CallerOK'
  BY <1>1, <1>2, <1>4 DEF IInv, CallerOK
<1>6. ASSUME NEW e \in Caller, pc'[e] \in {"lock", "change"}
      PROVE  /\ loc'[e].policy \in Policy /\ Valid(loc'[e].policy, call[e])
             /\ IF call[e].policy = SETPARAM_POLICY
                THEN loc'[e].old = loc'[e].policy ELSE loc'[e].policy = call[e].policy
  <2>1. CASE e = c
    BY <1>2, <1>3, <1>4, <2>1 DEF IInv, CallerOK
  <2>2. CASE e # c
    <3>1. pc[e] = pc'[e] /\ loc'[e] = loc[e]
      BY <1>1, <1>2, <2>2 DEF IInv, CallerOK
    <3> QED
      BY <1>6, <3>1 DEF IInv, CheckInv
  <2> QED
    BY <2>1, <2>2
<1>7. CheckInv'
  BY <1>1, <1>6 DEF CheckInv, Valid
<1>8. ChangeInv'
  BY <1>1, <1>2 DEF IInv, CallerOK, ChangeInv
<1> QED
  BY <1>1, <1>5, <1>7, <1>8 DEF IInv, TaskOK, WalkOK, MutexOK

\* The calls that return without a change of parameters, and the one that starts over.
LEMMA RefuseInv ==
  ASSUME IInv, NEW c \in Caller, Refuse(c) \/ RefuseLocked(c) \/ StoreReset(c)
  PROVE  IInv'
<1>1. UNCHANGED <<waits, wprio, pi_lock, walk>> /\ Return(c)
  BY DEF Refuse, RefuseLocked, StoreReset
<1>2. TaskOK' /\ \A p \in Task : task'[p].policy = task[p].policy
  <2>1. CASE StoreReset(c)
    <3>1. call[c] \in Args /\ loc[c] \in Locals
      BY <2>1 DEF StoreReset, AtLock, IInv, CallerOK
    <3> PICK p \in Task, reset \in BOOLEAN : p = call[c].p /\ reset = loc[c].reset
      BY <3>1 DEF Args, Locals
    <3> DEFINE new == [task[p] EXCEPT !.reset = reset]
    <3>2. task' = [task EXCEPT ![p] = new]
      BY <2>1 DEF StoreReset
    <3>3. new \in Fields /\ Sound(new) /\ new.policy = task[p].policy
      <4>1. task[p] \in Fields /\ Sound(task[p])
        BY DEF IInv, TaskOK
      <4> QED
        BY <4>1 DEF Fields, Sound, normal_prio
    <3> HIDE DEF new
    <3>4. TaskOK'
      BY <3>2, <3>3, TaskUpdate DEF IInv
    <3> QED
      BY <3>2, <3>3, <3>4 DEF IInv, TaskOK
  <2>2. CASE ~StoreReset(c)
    BY <2>2 DEF Refuse, RefuseLocked, IInv, TaskOK
  <2> QED
    BY <2>1, <2>2
<1>3. CallerOK' /\ CheckInv' /\ ChangeInv'
  BY <1>1, <1>2, ReturnKeeps DEF IInv
<1> QED
  BY <1>1, <1>2, <1>3 DEF IInv, WalkOK, MutexOK

\* The policy has changed between the check and the lock: the call starts over.
LEMMA RecheckInv ==
  ASSUME IInv, NEW c \in Caller, Recheck(c)
  PROVE  IInv'
<1>1. /\ UNCHANGED <<task, waits, wprio, pi_lock, walk, call>> /\ pc[c] = "lock"
      /\ pc' = [pc EXCEPT ![c] = "check"] /\ loc' = [loc EXCEPT ![c] = NoLocals]
  BY DEF Recheck, Goto, AtChange, AtLock
<1>2. NoLocals \in Locals
  BY DEF NoLocals, Locals
<1>3. CallerOK'
  BY <1>1, <1>2 DEF IInv, CallerOK
<1>4. \A e \in Caller : pc'[e] \in {"lock", "change"} => pc[e] = pc'[e] /\ loc'[e] = loc[e]
  BY <1>1 DEF IInv, CallerOK
<1>5. CheckInv' /\ ChangeInv'
  BY <1>1, <1>4 DEF IInv, CheckInv, ChangeInv, Valid
<1> QED
  BY <1>1, <1>3, <1>5 DEF IInv, TaskOK, WalkOK, MutexOK

\* Under the lock the policy is looked at again, so that the one that was found before
\* is the policy of the task when its fields are stored.
LEMMA StartChangeInv ==
  ASSUME IInv, NEW c \in Caller, StartChange(c)
  PROVE  IInv'
<1>1. /\ UNCHANGED <<waits, wprio, walk, call>> /\ pc[c] = "lock"
      /\ call[c] \in Args /\ loc[c] \in Locals /\ pc' = [pc EXCEPT ![c] = "change"]
  BY DEF StartChange, Goto, AtChange, AtLock, IInv, CallerOK
<1> PICK p \in Task, reset \in BOOLEAN : p = call[c].p /\ reset = loc[c].reset
  BY <1>1 DEF Args, Locals
<1> DEFINE t == [task[p] EXCEPT !.reset = reset]
           move == Moves(t, call[c])
           new == IF queued(p) THEN Dequeued(t, move) ELSE t
<1>2. /\ pi_lock[p] = None /\ pi_lock' = [pi_lock EXCEPT ![p] = c]
      /\ task' = [task EXCEPT ![p] = new] /\ loc' = [loc EXCEPT ![c].move = move]
      /\ ~PolicyChanged(c)
  BY DEF StartChange, AtChange, AtLock
<1>3. t \in Fields /\ Sound(t) /\ t.policy = task[p].policy
  <2>1. task[p] \in Fields /\ Sound(task[p])
    BY DEF IInv, TaskOK
  <2> QED
    BY <2>1 DEF Fields, Sound, normal_prio
<1>4. move \in BOOLEAN
  BY DEF Moves
<1>5. new \in Fields /\ Sound(new) /\ new.policy = task[p].policy
  <2> HIDE DEF t, move
  <2> QED BY <1>3, <1>4, DequeuedSound
<1> HIDE DEF new, move
<1>6. TaskOK'
  BY <1>2, <1>5, TaskUpdate DEF IInv
<1>7. \A q \in Task : task'[q].policy = task[q].policy
  BY <1>2, <1>5 DEF IInv, TaskOK
<1>8. /\ loc' \in [Caller -> Locals] /\ loc'[c].policy = loc[c].policy
      /\ loc'[c].old = loc[c].old
      /\ \A e \in Caller : e # c => loc'[e] = loc[e] /\ pc'[e] = pc[e]
  BY <1>1, <1>2, <1>4 DEF IInv, CallerOK, Locals
<1>9. CallerOK'
  BY <1>1, <1>8 DEF IInv, CallerOK
<1>10. CheckInv'
  BY <1>1, <1>8 DEF IInv, CheckInv, Valid
<1>11. ChangeInv'
  <2>1. ASSUME NEW e \in Caller, pc'[e] = "change"
        PROVE  /\ pi_lock'[call[e].p] = e
               /\ call[e].policy = SETPARAM_POLICY => task'[call[e].p].policy = loc'[e].policy
    <3>1. CASE e = c
      <4>1. pi_lock'[p] = c
        BY <1>2 DEF IInv, MutexOK
      <4>2. ASSUME call[c].policy = SETPARAM_POLICY
            PROVE  task[p].policy = loc[c].policy
        <5>1. loc[c].old = loc[c].policy /\ loc[c].policy \in Policy
          BY <1>1, <4>2 DEF IInv, CheckInv
        <5> QED
          BY <1>2, <5>1 DEF PolicyChanged
      <4> QED
        BY <1>7, <1>8, <3>1, <4>1, <4>2
    <3>2. CASE e # c
      <4>1. pc[e] = "change" /\ loc'[e] = loc[e]
        BY <1>8, <2>1, <3>2
      <4>2. pi_lock[call[e].p] = e /\ call[e].p \in Task
        BY <4>1 DEF IInv, ChangeInv, CallerOK, Args
      <4>3. call[e].p # p
        BY <1>2, <4>2
      <4> QED
        BY <1>2, <1>7, <4>1, <4>2, <4>3 DEF IInv, ChangeInv, MutexOK
    <3> QED
      BY <3>1, <3>2
  <2> QED
    BY <1>1, <2>1 DEF ChangeInv
<1>12. WalkOK' /\ MutexOK'
  BY <1>1, <1>2 DEF IInv, WalkOK, MutexOK
<1> QED
  BY <1>6, <1>9, <1>10, <1>11, <1>12 DEF IInv

\* The parameters are stored: what was validated before the lock was taken is valid for
\* the policy that the task gets.
LEMMA ChangeStep ==
  ASSUME IInv, NEW c \in Caller, Change(c)
  PROVE  IInv'
<1>1. /\ UNCHANGED <<waits, wprio>> /\ pc[c] = "change" /\ Return(c)
      /\ call[c] \in Args /\ loc[c] \in Locals
  BY DEF Change, IInv, CallerOK
<1> PICK p \in Task : p = call[c].p
  BY <1>1 DEF Args
<1> DEFINE a == call[c]
           new == __setscheduler(task[p], a)
           on == IF queued(p) THEN Enqueued(new, loc[c].move) ELSE new
<1>2. /\ task' = [task EXCEPT ![p] = on] /\ pi_lock' = [pi_lock EXCEPT ![p] = None]
      /\ walk' = [walk EXCEPT ![c] = AdjustPi(c)]
  BY DEF Change
<1>3. /\ pi_lock[p] = c /\ (a.policy = SETPARAM_POLICY => task[p].policy = loc[c].policy)
      /\ (a.policy # SETPARAM_POLICY => a.policy = loc[c].policy) /\ Valid(loc[c].policy, a)
      /\ loc[c].policy \in Policy
  BY <1>1 DEF IInv, ChangeInv, CheckInv
<1>4. new \in Fields /\ Sound(new)
  <2>1. task[p] \in Fields /\ Sound(task[p]) /\ TaskOK
    BY DEF IInv, TaskOK
  <2>2. LET policy == IF a.policy = SETPARAM_POLICY THEN task[p].policy ELSE a.policy
        IN  rt_policy(policy) <=> a.priority # 0
    BY <1>3 DEF Valid
  <2>3. a.priority < MAX_RT_PRIO /\ a \in Args
    BY <1>1, <1>3 DEF Valid
  <2> QED
    BY <2>1, <2>2, <2>3, SetschedulerSound
<1>5. on \in Fields /\ Sound(on)
  <2> HIDE DEF new
  <2>1. loc[c].move \in BOOLEAN
    BY <1>1 DEF Locals
  <2> QED BY <1>4, <2>1, EnqueuedSound
<1> HIDE DEF on
<1>6. TaskOK'
  BY <1>2, <1>5, TaskUpdate DEF IInv
<1>7. /\ pc' = [pc EXCEPT ![c] = "idle"] /\ call' = [call EXCEPT ![c] = Idle]
      /\ loc' = [loc EXCEPT ![c] = NoLocals]
  BY <1>1 DEF Return, Goto
<1>8. NoLocals \in Locals
  BY DEF NoLocals, Locals
<1>9. CallerOK'
  BY <1>7, <1>8 DEF IInv, CallerOK
<1>10. \A e \in Caller : pc'[e] # "idle" => e # c /\ pc[e] = pc'[e] /\ call'[e] = call[e]
                                            /\ loc'[e] = loc[e]
  BY <1>7 DEF IInv, CallerOK
<1>11. CheckInv'
  BY <1>10 DEF IInv, CheckInv, Valid
<1>12. ChangeInv'
  <2>1. ASSUME NEW e \in Caller, pc'[e] = "change"
        PROVE  /\ pi_lock'[call'[e].p] = e
               /\ call'[e].policy = SETPARAM_POLICY =>
                      task'[call'[e].p].policy = loc'[e].policy
    <3>1. e # c /\ pc[e] = "change" /\ call'[e] = call[e] /\ loc'[e] = loc[e]
      BY <1>10, <2>1
    <3>2. pi_lock[call[e].p] = e /\ call[e].p \in Task
      BY <3>1 DEF IInv, ChangeInv, CallerOK, Args
    <3>3. call[e].p # p
      BY <1>3, <3>1, <3>2
    <3>4. task'[call[e].p] = task[call[e].p] /\ pi_lock'[call[e].p] = pi_lock[call[e].p]
      BY <1>2, <3>2, <3>3 DEF IInv, TaskOK, MutexOK
    <3> QED
      BY <3>1, <3>2, <3>4 DEF IInv, ChangeInv
  <2> QED
    BY <2>1 DEF ChangeInv
<1>13. WalkOK' /\ MutexOK'
  <2>1. AdjustPi(c) \in {NoWalk, [at |-> "waiter", t |-> p]}
    BY DEF AdjustPi
  <2> QED
    BY <1>1, <1>2, <2>1 DEF IInv, WalkOK, MutexOK, NoWalk
<1> QED
  BY <1>6, <1>9, <1>11, <1>12, <1>13 DEF IInv

-----------------------------------------------------------------------------
(***************************************************************************)
(* The theorems.                                                           *)
(***************************************************************************)

\* The tasks start with sound fields, nobody waits and nobody calls.
LEMMA InitInv == Init => IInv
<1> SUFFICES ASSUME Init PROVE IInv
  OBVIOUS
<1>1. TaskOK
  BY DEF Init, TaskOK, Fields, Sound, ClassOf, normal_prio, Prios
<1>2. WalkOK /\ MutexOK
  BY DEF Init, WalkOK, MutexOK, NoWalk, Prios
<1>3. CallerOK /\ CheckInv /\ ChangeInv
  BY DEF Init, CallerOK, CheckInv, ChangeInv, NoLocals, Locals
<1> QED
  BY <1>1, <1>2, <1>3 DEF IInv

\* Every step keeps the invariant.
LEMMA NextInv == IInv /\ [Next]_vars => IInv'
<1> SUFFICES ASSUME IInv, [Next]_vars PROVE IInv'
  OBVIOUS
<1>1. CASE \E d, o \in Task : Block(d, o)
  BY <1>1, BlockInv
<1>2. CASE \E d \in Task : Release(d)
  BY <1>2, ReleaseInv
<1>3. CASE \E x \in Task \cup Caller : WalkWaiter(x) \/ WalkOwner(x)
  BY <1>3, WalkWaiterInv, WalkOwnerInv
<1>4. CASE \E c \in Caller, p \in Task, a \in Calls : Begin(c, p, a)
  BY <1>4, BeginInv
<1>5. CASE \E c \in Caller : Refuse(c) \/ RefuseLocked(c) \/ StoreReset(c) \/ Recheck(c)
  BY <1>5, RefuseInv, RecheckInv
<1>6. CASE \E c \in Caller : set_user_nice(c) \/ Check(c) \/ StartChange(c) \/ Change(c)
  BY <1>6, SetUserNiceInv, CheckStep, StartChangeInv, ChangeStep
<1>7. CASE UNCHANGED vars
  BY <1>7 DEF vars, IInv, TaskOK, WalkOK, MutexOK, CallerOK, CheckInv, ChangeInv, Valid
<1> QED
  BY <1>1, <1>2, <1>3, <1>4, <1>5, <1>6, <1>7 DEF Next

\* The inductive invariant.
THEOREM FieldsInvariance == Spec => []IInv
<1> QED
  BY InitInv, NextInv, PTL DEF Spec

\* The variables of the model keep their types: the priorities stay in the range
\* from -1 to MAX_PRIO and the rt lists in the range of the rt bitmap.
THEOREM PrioTypes == Spec => []TypeOK
<1> QED
  BY FieldsInvariance, InvType, PTL

\* A task has an RT priority exactly when its policy is a real-time one, though
\* __sched_setscheduler() validates before it locks.
THEOREM ParamsAlwaysValid == Spec => []ParamsValid
<1>1. IInv => ParamsValid
  BY DEF IInv, TaskOK, Sound, ParamsValid
<1> QED
  BY <1>1, FieldsInvariance, PTL

\* De-boosting returns to the priority by policy, nice value and RT priority:
\* normal_prio is brought up to date whoever stores one of them.
THEOREM NormalPrioAlwaysExact == Spec => []NormalPrioExact
<1>1. IInv => NormalPrioExact
  BY DEF IInv, TaskOK, Sound, NormalPrioExact
<1> QED
  BY <1>1, FieldsInvariance, PTL

\* The class of a task is the one of its effective priority, whichever of
\* set_user_nice(), rt_mutex_setprio() and __setscheduler() came last.
THEOREM ClassAlwaysFollows == Spec => []ClassFollowsPrio
<1>1. IInv => ClassFollowsPrio
  BY DEF IInv, TaskOK, Sound, ClassFollowsPrio
<1> QED
  BY <1>1, FieldsInvariance, PTL

=============================================================================
