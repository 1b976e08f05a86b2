------------------------------- MODULE Uclamp -------------------------------
(***************************************************************************)
(* Utilisation clamps (core.c, sysctl_sched_uclamp_util_min to             *)
(* init_uclamp(), and cpu_util_update_eff()): the runqueue keeps, for      *)
(* UCLAMP_MIN and UCLAMP_MAX, reference counts of its runnable tasks by    *)
(* bucket of their effective clamp, and from them a cached maximum, while  *)
(* requests, the system defaults and group limits change underneath.       *)
(*                                                                         *)
(* One runqueue is modelled; a migration is a dequeue here and an enqueue  *)
(* there.  The rq lock serialises enqueues, dequeues and updates, the      *)
(* mutex the changes of defaults and limits; an enqueue reads those        *)
(* without the mutex, one clamp after the other.  A struct uclamp_se is    *)
(* one word, taken to be stored in one piece, so that its bucket_id is     *)
(* always that of its value.                                               *)
(***************************************************************************)
EXTENDS Tasks, Integers, FiniteSetsExt

CONSTANTS SCHED_CAPACITY_SCALE,
          UCLAMP_BUCKETS,
          Values,        \* clamp values written to the sysctls and to groups
          Attrs,         \* clamp arguments of sched_setattr() calls
          Classes        \* classes that users choose

UCLAMP_BUCKET_DELTA ==
    (SCHED_CAPACITY_SCALE + UCLAMP_BUCKETS \div 2) \div UCLAMP_BUCKETS

ASSUME ScaleAssumption ==
    /\ SCHED_CAPACITY_SCALE \in Nat /\ UCLAMP_BUCKETS \in Nat \ {0}
    /\ UCLAMP_BUCKET_DELTA > 0
    /\ SCHED_CAPACITY_SCALE \div UCLAMP_BUCKET_DELTA < UCLAMP_BUCKETS
ASSUME InputAssumption ==
    /\ Values \subseteq 0..SCHED_CAPACITY_SCALE
    /\ Attrs \subseteq [{"MIN", "MAX"} -> -1..SCHED_CAPACITY_SCALE]
    /\ Classes \subseteq {"fair", "rt", "dl"}
    /\ IsFiniteSet(Task) /\ "none" \notin Task

VARIABLES
    uclamp_rq, idle,       \* rq: uclamp[], UCLAMP_FLAG_IDLE
    uclamp, uclamp_req,    \* task: effective and requested clamps
    queued, class, group,  \* task: on the rq, its class, its task group
    lock,                  \* the clamp an enqueue in progress does next
    default,               \* uclamp_default; the root group's clamps with groups
    tg, tg_req,            \* the effective and requested clamps of the group
    walk, todo             \* cpu_util_update_eff(): its group, the updates left

rqVars == <<uclamp_rq, idle>>
taskVars == <<uclamp_req, queued, class, group>>
limitVars == <<default, tg, tg_req, walk, todo>>
vars == <<rqVars, uclamp, taskVars, lock, limitVars>>

Id == {"MIN", "MAX"}
Bucket == 0..(UCLAMP_BUCKETS - 1)
Value == 0..SCHED_CAPACITY_SCALE
Keep == -1      \* no value for this clamp in a sched_setattr() call
Free == [task |-> "none", id |-> "MIN"]

uclamp_bucket_id(v) == v \div UCLAMP_BUCKET_DELTA
uclamp_none(id) == IF id = "MIN" THEN 0 ELSE SCHED_CAPACITY_SCALE
uclamp_enabled(p) == class[p] # "dl"

\* The value that an inactive clamp keeps is never read.
Inactive == [id \in Id |-> [value |-> 0, active |-> FALSE]]

Init ==
    /\ uclamp_rq = [id \in Id |->
            [value |-> 0, bucket |-> [b \in Bucket |-> [tasks |-> 0, value |-> 0]]]]
    /\ idle = FALSE
    /\ uclamp = [p \in Task |-> Inactive]
    /\ uclamp_req = [p \in Task |->
            [id \in Id |-> [value |-> uclamp_none(id), user_defined |-> FALSE]]]
    /\ queued = [p \in Task |-> FALSE]
    /\ class = [p \in Task |-> "fair"]
    /\ group \in [Task -> {"root", "child"}]
    /\ lock = Free
    /\ default = [id \in Id |-> SCHED_CAPACITY_SCALE]
    /\ tg_req = [id \in Id |-> uclamp_none(id)]
    /\ tg = [id \in Id |-> uclamp_none(id)]
    /\ walk = "none" /\ todo = {}

----------------------------------------------------------------------------
(* The effective clamp of a task. *)

uclamp_tg_restrict(p, id) ==
    LET req == uclamp_req[p][id] IN
    IF group[p] # "root" /\ (req.value > tg[id] \/ ~req.user_defined)
    THEN tg[id] ELSE req.value

uclamp_eff_get(p, id) == Min({uclamp_tg_restrict(p, id), default[id]})

----------------------------------------------------------------------------
(* The runqueue's counts. *)

\* Local max aggregation inside a bucket.
BucketInc(b, v) ==
    [tasks |-> b.tasks + 1,
     value |-> IF b.tasks = 0 \/ v > b.value THEN v ELSE b.value]

\* uclamp_rq_inc_id(), with uclamp_idle_reset() if the rq was idle.
uclamp_rq_inc_id(u, v, reset) ==
    [value |-> IF reset \/ v > u.value THEN v ELSE u.value,
     bucket |-> [u.bucket EXCEPT ![uclamp_bucket_id(v)] = BucketInc(@, v)]]

Released(u, v) ==
    [u.bucket EXCEPT ![uclamp_bucket_id(v)].tasks = IF @ > 0 THEN @ - 1 ELSE 0]

\* The last reference to the bucket that sets the rq's clamp is gone.
Recompute(u, v) ==
    LET b == u.bucket[uclamp_bucket_id(v)] IN b.tasks <= 1 /\ b.value >= u.value

Occupied(bucket) == {b \in Bucket : bucket[b].tasks > 0}

\* uclamp_rq_max_value(), with uclamp_idle_value() if there is no task.
uclamp_rq_max_value(bucket, id, v) ==
    IF Occupied(bucket) # {} THEN bucket[Max(Occupied(bucket))].value
    ELSE IF id = "MAX" THEN v ELSE uclamp_none("MIN")

uclamp_rq_dec_id(u, id, v) ==
    [value |-> IF Recompute(u, v)
               THEN uclamp_rq_max_value(Released(u, v), id, v)
               ELSE u.value,
     bucket |-> Released(u, v)]

\* UCLAMP_FLAG_IDLE is set on the way, for the max clamp.
GoesIdle(u, v) == Recompute(u, v) /\ Occupied(Released(u, v)) = {}

\* uclamp_rq_dec() of a task, both clamps.
RqDec(p) ==
    IF uclamp_enabled(p)
    THEN /\ uclamp_rq' = [id \in Id |->
                uclamp_rq_dec_id(uclamp_rq[id], id, uclamp[p][id].value)]
         /\ idle' = (idle \/ GoesIdle(uclamp_rq["MAX"], uclamp[p]["MAX"].value))
         /\ uclamp' = [uclamp EXCEPT ![p] = Inactive]
    ELSE UNCHANGED <<rqVars, uclamp>>

\* uclamp_rq_inc() starts with the first clamp, unless the class has none.
StartInc(p, c) == lock' = IF c = "dl" THEN Free ELSE [task |-> p, id |-> "MIN"]

Enqueue(p) ==
    /\ lock = Free /\ ~queued[p]
    /\ queued' = [queued EXCEPT ![p] = TRUE]
    /\ StartInc(p, class[p])
    /\ UNCHANGED <<rqVars, uclamp, uclamp_req, class, group, limitVars>>

\* The rq has a task again, once both clamps have been reset.
FlagAfterInc(id) == idle /\ id = "MIN"

\* One turn of the loop of uclamp_rq_inc().
RqIncId ==
    LET p == lock.task  id == lock.id  v == uclamp_eff_get(p, id) IN
    /\ lock # Free
    /\ uclamp' = [uclamp EXCEPT ![p][id] = [value |-> v, active |-> TRUE]]
    /\ uclamp_rq' = [uclamp_rq EXCEPT ![id] = uclamp_rq_inc_id(@, v, idle)]
    /\ idle' = FlagAfterInc(id)
    /\ lock' = IF id = "MIN" THEN [task |-> p, id |-> "MAX"] ELSE Free
    /\ UNCHANGED <<taskVars, limitVars>>

Dequeue(p) ==
    /\ lock = Free /\ queued[p]
    /\ queued' = [queued EXCEPT ![p] = FALSE]
    /\ RqDec(p)
    /\ UNCHANGED <<uclamp_req, class, group, lock, limitVars>>

----------------------------------------------------------------------------
(* Requests of users. *)

\* uclamp_validate(), which fills in a bound that is not given from the task's
\* request.  No lock is held yet, and another call may replace the request before
\* the store: a bound given alone may pass, whatever the request now holds.
uclamp_validate(attr) == (\A id \in Id : attr[id] # Keep) => attr["MIN"] <= attr["MAX"]

\* __setscheduler_uclamp(); rt_task() holds of deadline tasks too.
NewRequest(req, id, c, v) ==
    IF v # Keep THEN [value |-> v, user_defined |-> TRUE]
    ELSE IF req.user_defined THEN req
    ELSE [value |-> uclamp_none(IF c \in {"rt", "dl"} THEN "MAX" ELSE id),
          user_defined |-> FALSE]

\* sched_setattr(): dequeue, change, enqueue.
SetScheduler(p, c, attr) ==
    /\ lock = Free
    /\ uclamp_validate(attr)
    /\ IF queued[p]
       THEN RqDec(p) /\ StartInc(p, c)
       ELSE UNCHANGED <<rqVars, uclamp, lock>>
    /\ class' = [class EXCEPT ![p] = c]
    /\ uclamp_req' = [uclamp_req EXCEPT ![p] =
            [id \in Id |-> NewRequest(@[id], id, c, attr[id])]]
    /\ UNCHANGED <<queued, group, limitVars>>

\* Mutant: the child is born with the references of its parent.
ActiveCopied(q) == uclamp[q]

\* uclamp_fork() of the copy of q's clamps.
ForkedClamps(q) == Inactive

\* sched_fork(): p is a copy of q, with sched_reset_on_fork or without.
Fork(p, q, reset) ==
    /\ lock = Free /\ p # q /\ ~queued[p]
    /\ ~(class[q] = "dl" /\ ~reset)
    /\ uclamp' = [uclamp EXCEPT ![p] = ForkedClamps(q)]
    /\ uclamp_req' = [uclamp_req EXCEPT ![p] =
            IF reset
            THEN [id \in Id |-> [value |-> uclamp_none(id), user_defined |-> FALSE]]
            ELSE uclamp_req[q]]
    /\ class' = [class EXCEPT ![p] = IF reset THEN "fair" ELSE class[q]]
    /\ group' = [group EXCEPT ![p] = group[q]]
    /\ UNCHANGED <<rqVars, queued, lock, limitVars>>

\* sched_move_task()
MoveTask(p, g) ==
    /\ lock = Free /\ group[p] # g
    /\ IF queued[p]
       THEN RqDec(p) /\ StartInc(p, class[p])
       ELSE UNCHANGED <<rqVars, uclamp, lock>>
    /\ group' = [group EXCEPT ![p] = g]
    /\ UNCHANGED <<uclamp_req, queued, class, limitVars>>

----------------------------------------------------------------------------
(* Defaults and group limits, under uclamp_mutex. *)

Updates(g, ids) == {u \in [task : Task, id : Id] : group[u.task] = g /\ u.id \in ids}

\* sysctl_sched_uclamp_handler(): without groups the update of the runnable
\* tasks is lazy; with groups the walk begins at the root.
Sysctl(id, v) ==
    /\ walk = "none" /\ default[id] # v
    /\ IF id = "MIN" THEN v <= default["MAX"] ELSE default["MIN"] <= v
    /\ default' = [default EXCEPT ![id] = v]
    /\ walk' = "root" /\ todo' = Updates("root", {id})
    /\ UNCHANGED <<rqVars, uclamp, taskVars, lock, tg, tg_req>>

\* cpu_util_update_eff() arrives at the child group.
EffectiveClamps(req) ==
    LET eff == [id \in Id |-> Min({req[id], default[id]})]
    IN  [eff EXCEPT !["MIN"] = Min({eff["MIN"], eff["MAX"]})]

\* Mutant: that a lower max clamp lowers the min clamp is forgotten.
UpdatedIds(eff) == {id \in Id : eff[id] # tg[id]} \ {"MIN"}

ChangedIds(eff) == {id \in Id : eff[id] # tg[id]}

UpdateGroup(req) ==
    /\ tg' = EffectiveClamps(req)
    /\ todo' = Updates("child", ChangedIds(EffectiveClamps(req)))
    /\ walk' = "child"

WalkToChild ==
    /\ walk = "root" /\ todo = {}
    /\ UpdateGroup(tg_req)
    /\ UNCHANGED <<rqVars, uclamp, taskVars, lock, default, tg_req>>

cpu_uclamp_write(id, v) ==
    /\ walk = "none"
    /\ tg_req' = [tg_req EXCEPT ![id] = v]
    /\ UpdateGroup(tg_req')
    /\ UNCHANGED <<rqVars, uclamp, taskVars, lock, default>>

WalkEnds ==
    /\ walk = "child" /\ todo = {}
    /\ walk' = "none"
    /\ UNCHANGED <<rqVars, uclamp, taskVars, lock, default, tg, tg_req, todo>>

\* uclamp_update_active(): release and take the reference again.
uclamp_update_active(p, id) ==
    LET v == uclamp[p][id].value
        e == uclamp_eff_get(p, id)
        dec == uclamp_rq_dec_id(uclamp_rq[id], id, v)
        flag == idle \/ (id = "MAX" /\ GoesIdle(uclamp_rq[id], v))
    IN
    /\ lock = Free /\ [task |-> p, id |-> id] \in todo
    /\ todo' = todo \ {[task |-> p, id |-> id]}
    /\ IF uclamp[p][id].active
       THEN /\ uclamp_rq' = [uclamp_rq EXCEPT ![id] = uclamp_rq_inc_id(dec, e, flag)]
            /\ uclamp' = [uclamp EXCEPT ![p][id].value = e]
            /\ idle' = flag
       ELSE UNCHANGED <<rqVars, uclamp>>
    /\ UNCHANGED <<taskVars, lock, default, tg, tg_req, walk>>

----------------------------------------------------------------------------

TaskStep(p) ==
    \/ Enqueue(p) \/ Dequeue(p)
    \/ \E c \in Classes, attr \in Attrs : SetScheduler(p, c, attr)
    \/ \E q \in Task, reset \in BOOLEAN : Fork(p, q, reset)
    \/ \E g \in {"root", "child"} : MoveTask(p, g)
    \/ \E id \in Id : uclamp_update_active(p, id)

Next ==
    \/ \E p \in Task : TaskStep(p)
    \/ RqIncId
    \/ \E id \in Id, v \in Values : Sysctl(id, v) \/ cpu_uclamp_write(id, v)
    \/ WalkToChild \/ WalkEnds

Spec == Init /\ [][Next]_vars

----------------------------------------------------------------------------
(* Properties. *)

Holders(id, b) ==
    {p \in Task : uclamp[p][id].active /\ uclamp_bucket_id(uclamp[p][id].value) = b}

TypeOK ==
    /\ uclamp_rq \in [Id -> [value : Value,
                             bucket : [Bucket -> [tasks : Nat, value : Value]]]]
    /\ idle \in BOOLEAN
    /\ uclamp \in [Task -> [Id -> [value : Value, active : BOOLEAN]]]
    /\ uclamp_req \in [Task -> [Id -> [value : Value, user_defined : BOOLEAN]]]
    /\ queued \in [Task -> BOOLEAN]
    /\ class \in [Task -> {"fair", "rt", "dl"}]
    /\ group \in [Task -> {"root", "child"}]
    /\ lock \in [task : Task \cup {"none"}, id : Id]
    /\ default \in [Id -> Value] /\ tg \in [Id -> Value] /\ tg_req \in [Id -> Value]
    /\ walk \in {"none", "root", "child"}
    /\ todo \subseteq [task : Task, id : Id]

\* A bucket counts exactly the runnable tasks of clamped classes in it, so the
\* SCHED_WARN_ON(!bucket->tasks) of uclamp_rq_dec_id() does not fire, however
\* class changes, forks and limit changes mix (core.c:944-1018, 1224-1238).
RefcountExact ==
    lock = Free =>
        /\ \A p \in Task, id \in Id :
            uclamp[p][id].active <=> queued[p] /\ uclamp_enabled(p)
        /\ \A id \in Id, b \in Bucket :
            uclamp_rq[id].bucket[b].tasks = Cardinality(Holders(id, b))

\* SCHED_WARN_ON(bucket->value > rq_clamp), "this should never happen"
\* (core.c:1009-1013): no occupied bucket exceeds the cached maximum.
ClampCovers ==
    lock = Free =>
        \A id \in Id : \A b \in Occupied(uclamp_rq[id].bucket) :
            uclamp_rq[id].bucket[b].value <= uclamp_rq[id].value

\* "Immediately update descendants RUNNABLE tasks" (core.c:7377): when a change
\* of a limit has returned, every runnable task runs with the clamp the limits
\* now give it, also one that was queued or moved while the walk went on.
UpToDate ==
    walk = "none" /\ lock = Free =>
        \A p \in Task, id \in Id :
            uclamp[p][id].active => uclamp[p][id].value = uclamp_eff_get(p, id)
=============================================================================
