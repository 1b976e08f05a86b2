----------------------------- MODULE Bandwidth -----------------------------
(***************************************************************************)
(* CFS bandwidth control of a tree of task groups (core.c,                 *)
(* tg_set_cfs_bandwidth() and the cgroup files that call it).              *)
(*                                                                         *)
(* A writer reads what its file does not give without a lock, takes the    *)
(* hotplug lock and cfs_constraints_mutex, walks the tree to check the new *)
(* value, and only then stores it and tells the runqueues of the CPUs that *)
(* are online.  A walk that fails has already updated part of the tree.    *)
(* The fair class, which throttles and which looks after the runqueues of  *)
(* CPUs that come and go, is external.                                     *)
(***************************************************************************)
EXTENDS Integers, FiniteSets

CONSTANTS Group, Root, parent, Above,
          Walk,            \* the groups in the order walk_tg_tree() enters them
          CPU, Writer,
          Pluggable,       \* CPUs that may go down
          Files,           \* bound: the writers and the groups whose files they write
          Throttles,       \* bound: the group and CPU pairs that use up a quota
          QuotaUs, PeriodUs,   \* bound: what is written to the files
          WORD,            \* 2^64
          BW_UNIT, NSEC_PER_USEC,
          min_cfs_quota_period, max_cfs_quota_period, default_period,
          max_cfs_runtime

VARIABLES
    bandwidth,     \* period and quota of each group
    dfl,           \* cgroup_subsys_on_dfl()
    hierarchical_quota,
    runtime_enabled,   \* of the cfs_rq of each group and CPU
    throttled,     \* the pairs whose cfs_rq is throttled
    used,          \* cfs_bandwidth_usage: how many groups have a limit
    online,        \* cpu_online_mask, and rq->online
    cpuhp,         \* the CPU whose plugging has or waits for the hotplug lock, if any
    pc,            \* each writer: its place
    arg,           \* each writer: the group and the new value
    at,            \* how far the walk has come
    todo           \* CPUs the loop has not reached

\* The tree of groups as its owner sees it: a value changes where it is stored.
Q == INSTANCE Quota WITH bandwidth <- bandwidth, dfl <- dfl

vars == <<bandwidth, dfl, hierarchical_quota, runtime_enabled, throttled, used,
          online, cpuhp, pc, arg, at, todo>>

RUNTIME_INF == Q!RUNTIME_INF
NGroups == Cardinality(Group)
U64_MAX == WORD - 1

ASSUME TreeAssumption ==
    /\ Root \in Group
    /\ parent \in [Group \ {Root} -> Group]
    /\ Above \in [Group -> SUBSET Group]
    /\ Above[Root] = {}
    /\ \A g \in Group \ {Root} : Above[g] = Above[parent[g]] \cup {parent[g]}

ASSUME WalkAssumption ==
    /\ IsFiniteSet(Group)
    /\ Walk \in [1..NGroups -> Group]
    /\ Walk[1] = Root
    /\ \A i \in 2..NGroups :
           Walk[i] # Root /\ \E j \in 1 .. i-1 : Walk[j] = parent[Walk[i]]
    /\ \A i, j \in 1..NGroups : Walk[i] = Walk[j] => i = j
    /\ \A g \in Group : \E i \in 1..NGroups : Walk[i] = g

\* max_cfs_runtime, in microseconds, still fits when shifted, and every share is
\* below 2^63.
ASSUME UnitAssumption ==
    /\ NSEC_PER_USEC \in Nat \ {0} /\ BW_UNIT \in Nat \ {0} /\ WORD \in Nat \ {0}
    /\ min_cfs_quota_period \in Nat /\ max_cfs_quota_period \in Nat
    /\ max_cfs_runtime \in Nat
    /\ NSEC_PER_USEC <= min_cfs_quota_period
    /\ default_period \in min_cfs_quota_period .. max_cfs_quota_period
    /\ \A q \in 0 .. max_cfs_runtime : (q \div NSEC_PER_USEC) * BW_UNIT < WORD
    /\ \A q \in 0 .. max_cfs_runtime, p \in min_cfs_quota_period .. max_cfs_quota_period :
           Q!Share([period |-> p, quota |-> q]) < WORD \div 2

ASSUME FileAssumption ==
    /\ QuotaUs \subseteq Int /\ PeriodUs \subseteq Nat
    /\ Files \subseteq Writer \X Group
    /\ Throttles \subseteq Group \X CPU /\ Pluggable \subseteq CPU

Unlimited == [period |-> default_period, quota |-> RUNTIME_INF]
NoArg == [group |-> Root, value |-> Unlimited, was |-> FALSE]

Limited(b) == b.quota # RUNTIME_INF

Init ==
    /\ bandwidth = [g \in Group |-> Unlimited]
    /\ dfl \in BOOLEAN
    /\ hierarchical_quota = [g \in Group |-> RUNTIME_INF]
    /\ runtime_enabled = [g \in Group |-> [c \in CPU |-> FALSE]]
    /\ throttled = {} /\ used = 0
    /\ online = CPU /\ cpuhp = {}
    /\ pc = [w \in Writer |-> "idle"]
    /\ arg = [w \in Writer |-> NoArg]
    /\ at = 1 /\ todo = {}

-----------------------------------------------------------------------------
(* The files. *)

Goto(w, place) == pc' = [pc EXCEPT ![w] = place]

\* The checks at the head of tg_set_cfs_bandwidth(); a request that fails them
\* changes nothing.
Valid(g, b) ==
    /\ g # Root
    /\ Limited(b) => b.quota >= min_cfs_quota_period /\ b.quota <= max_cfs_runtime
    /\ b.period >= min_cfs_quota_period /\ b.period <= max_cfs_quota_period

tg_set_cfs_bandwidth(w, g, b) ==
    /\ Valid(g, b)
    /\ arg' = [arg EXCEPT ![w] = [group |-> g, value |-> b, was |-> FALSE]]
    /\ Goto(w, "lock")
    /\ UNCHANGED <<bandwidth, dfl, hierarchical_quota, runtime_enabled, throttled,
                   used, online, cpuhp, at, todo>>

\* cpu.cfs_quota_us; the period is read without a lock.
tg_set_cfs_quota(w, g, cfs_quota_us) ==
    /\ pc[w] = "idle" /\ ~dfl
    /\ cfs_quota_us <= U64_MAX \div NSEC_PER_USEC
    /\ tg_set_cfs_bandwidth(w, g,
           [period |-> bandwidth[g].period,
            quota  |-> IF cfs_quota_us < 0 THEN RUNTIME_INF
                                           ELSE cfs_quota_us * NSEC_PER_USEC])

\* cpu.cfs_period_us; the quota is read without a lock.
tg_set_cfs_period(w, g, cfs_period_us) ==
    /\ pc[w] = "idle" /\ ~dfl
    /\ cfs_period_us <= U64_MAX \div NSEC_PER_USEC
    /\ tg_set_cfs_bandwidth(w, g,
           [period |-> cfs_period_us * NSEC_PER_USEC, quota |-> bandwidth[g].quota])

tg_get_cfs_period(g) == bandwidth[g].period \div NSEC_PER_USEC

\* cpu.max; nothing keeps the products of cpu_period_quota_parse() from wrapping.
cpu_max_write(w, g, quota_us, period_us) ==
    /\ pc[w] = "idle" /\ dfl
    /\ tg_set_cfs_bandwidth(w, g,
           [period |-> (period_us * NSEC_PER_USEC) % WORD,
            quota  |-> IF quota_us < 0 THEN RUNTIME_INF
                                       ELSE (quota_us * NSEC_PER_USEC) % WORD])

Write(w, g) ==
    \/ \E q \in QuotaUs : tg_set_cfs_quota(w, g, q)
    \/ \E p \in PeriodUs : tg_set_cfs_period(w, g, p)
    \/ \E q \in QuotaUs, p \in PeriodUs \cup {tg_get_cfs_period(g)} : cpu_max_write(w, g, q, p)

-----------------------------------------------------------------------------
(* The locks. *)

InMutex == {"walk", "enable", "store", "loop"}

\* Mutant: plugging does not wait for those who are inside.
NoReaders == {}

\* Between get_online_cpus() and put_online_cpus(), which includes those who wait for
\* the mutex.
Readers == {w \in Writer : pc[w] \in {"mutex"} \cup InMutex}

\* Mutant: the mutex does not exclude.
MutexOpen == TRUE

MutexFree == \A v \in Writer : pc[v] \notin InMutex

\* The hotplug lock, for reading: one who wants to plug keeps new readers out as soon
\* as it asks.
get_online_cpus(w) ==
    /\ pc[w] = "lock" /\ cpuhp = {}
    /\ Goto(w, "mutex")
    /\ UNCHANGED <<bandwidth, dfl, hierarchical_quota, runtime_enabled, throttled,
                   used, online, cpuhp, arg, at, todo>>

\* cfs_constraints_mutex, taken with the hotplug lock held.
mutex_lock(w) ==
    /\ pc[w] = "mutex" /\ MutexFree
    /\ at' = 1
    /\ Goto(w, "walk")
    /\ UNCHANGED <<bandwidth, dfl, hierarchical_quota, runtime_enabled, throttled,
                   used, online, cpuhp, arg, todo>>

Acquire(w) == get_online_cpus(w) \/ mutex_lock(w)

\* Mutant: a failed walk starts over.
WalkAgain(w) == Goto(w, "walk") /\ UNCHANGED arg

\* The locks are released.
out_unlock(w) ==
    /\ Goto(w, "idle")
    /\ arg' = [arg EXCEPT ![w] = NoArg]

-----------------------------------------------------------------------------
(* __cfs_schedulable(): the walk. *)

to_ratio(period, runtime) ==
    IF runtime = RUNTIME_INF THEN BW_UNIT
    ELSE IF period = 0 THEN 0 ELSE ((runtime * BW_UNIT) % WORD) \div period

s64(x) == IF x < WORD \div 2 THEN x ELSE x - WORD

\* What group g has, with the new value for the group that is being changed.
Candidate(w, g) == IF g = arg[w].group THEN arg[w].value ELSE bandwidth[g]

normalize_cfs_quota(w, g) ==
    LET b == Candidate(w, g)
    IN  IF Limited(b)
        THEN s64(to_ratio(b.period \div NSEC_PER_USEC, b.quota \div NSEC_PER_USEC))
        ELSE RUNTIME_INF

\* Any limit is larger than RUNTIME_INF as an s64, so that min() prefers the latter.
Inherited(quota, parent_quota) ==
    IF dfl THEN IF quota < parent_quota THEN quota ELSE parent_quota
           ELSE IF quota = RUNTIME_INF THEN parent_quota ELSE quota

TooMuch(quota, parent_quota) ==
    ~dfl /\ quota # RUNTIME_INF /\ parent_quota # RUNTIME_INF /\ quota > parent_quota

ParentQuota(g) == hierarchical_quota[parent[g]]

\* tg_cfs_schedulable_down() accepts the group.
VisitOk(w) ==
    LET g == Walk[at]
    IN  /\ pc[w] = "walk"
        /\ g # Root => ~TooMuch(normalize_cfs_quota(w, g), ParentQuota(g))
        /\ hierarchical_quota' = [hierarchical_quota EXCEPT ![g] =
               IF g = Root THEN RUNTIME_INF
                           ELSE Inherited(normalize_cfs_quota(w, g), ParentQuota(g))]
        /\ IF at = NGroups THEN at' = 1 /\ Goto(w, "enable") ELSE at' = at + 1 /\ UNCHANGED pc
        /\ UNCHANGED <<bandwidth, dfl, runtime_enabled, throttled, used, online, cpuhp,
                       arg, todo>>

\* It does not: the walk ends with -EINVAL and leaves what it has updated.
VisitFails(w) ==
    LET g == Walk[at]
    IN  /\ pc[w] = "walk" /\ g # Root
        /\ TooMuch(normalize_cfs_quota(w, g), ParentQuota(g))
        /\ at' = 1
        /\ out_unlock(w)
        /\ UNCHANGED <<bandwidth, dfl, hierarchical_quota, runtime_enabled, throttled,
                       used, online, cpuhp, todo>>

-----------------------------------------------------------------------------
(* The change. *)

\* Mutant: the count goes up at the end, with what would take it down.
IncLate(now, was) == 0

IncFor(now, was) == IF now /\ ~was THEN 1 ELSE 0

\* cfs_bandwidth_usage_inc(): off -> on before the related changes.
Enable(w) ==
    LET was == Limited(bandwidth[arg[w].group])
    IN  /\ pc[w] = "enable"
        /\ arg' = [arg EXCEPT ![w].was = was]
        /\ used' = used + IncFor(Limited(arg[w].value), was)
        /\ Goto(w, "store")
        /\ UNCHANGED <<bandwidth, dfl, hierarchical_quota, runtime_enabled, throttled,
                       online, cpuhp, at, todo>>

\* Under cfs_b->lock.
Store(w) ==
    /\ pc[w] = "store"
    /\ bandwidth' = [bandwidth EXCEPT ![arg[w].group] = arg[w].value]
    /\ todo' = online
    /\ Goto(w, "loop")
    /\ UNCHANGED <<dfl, hierarchical_quota, runtime_enabled, throttled, used, online,
                   cpuhp, arg, at>>

\* One turn of for_each_online_cpu(), under the lock of that rq.
LoopCpu(w, c) ==
    LET g == arg[w].group
        now == Limited(arg[w].value)
    IN  /\ pc[w] = "loop" /\ c \in todo
        /\ runtime_enabled' = [runtime_enabled EXCEPT ![g][c] = now]
        /\ throttled' = throttled \ {<<g, c>>}
        /\ todo' = todo \ {c}
        /\ UNCHANGED <<bandwidth, dfl, hierarchical_quota, used, online, cpuhp, pc,
                       arg, at>>

DecFor(now, was) == IF was /\ ~now THEN 1 ELSE 0

\* cfs_bandwidth_usage_dec(), on -> off after the loop, and the locks are released.
Finish(w) ==
    /\ pc[w] = "loop" /\ todo = {}
    /\ used' = used - DecFor(Limited(arg[w].value), arg[w].was)
    /\ out_unlock(w)
    /\ UNCHANGED <<bandwidth, dfl, hierarchical_quota, runtime_enabled, throttled,
                   online, cpuhp, at, todo>>

\* What the writer that has the mutex does.
HolderStep(w) ==
    \/ VisitOk(w) \/ VisitFails(w) \/ Enable(w) \/ Store(w)
    \/ (\E c \in CPU : LoopCpu(w, c)) \/ Finish(w)

WriterStep(w) == Acquire(w) \/ HolderStep(w)

-----------------------------------------------------------------------------
(* The fair class, and CPUs that come and go. *)

\* throttle_cfs_rq(): nothing is looked at while no group has a limit.
Throttle(g, c) ==
    /\ used > 0 /\ c \in online
    /\ runtime_enabled[g][c] /\ <<g, c>> \notin throttled
    /\ throttled' = throttled \cup {<<g, c>>}
    /\ UNCHANGED <<bandwidth, dfl, hierarchical_quota, runtime_enabled, used, online,
                   cpuhp, pc, arg, at, todo>>

\* The period timer, which ends when there is no quota.
Distribute(g, c) ==
    /\ <<g, c>> \in throttled
    /\ Limited(bandwidth[g])
    /\ throttled' = throttled \ {<<g, c>>}
    /\ UNCHANGED <<bandwidth, dfl, hierarchical_quota, runtime_enabled, used, online,
                   cpuhp, pc, arg, at, todo>>

\* percpu_down_write(): new readers wait from now on, and the lock is had when the last
\* of the others has left.
cpus_write_lock(c) ==
    /\ cpuhp = {}
    /\ cpuhp' = {c}
    /\ UNCHANGED <<bandwidth, dfl, hierarchical_quota, runtime_enabled, throttled,
                   used, online, pc, arg, at, todo>>

Locked(c) == c \in cpuhp /\ Readers = {}

cpus_write_unlock(c) ==
    /\ Locked(c)
    /\ cpuhp' = {}
    /\ UNCHANGED <<bandwidth, dfl, hierarchical_quota, runtime_enabled, throttled,
                   used, online, pc, arg, at, todo>>

\* set_rq_online(): rq_online_fair() reads the quota of every group.
RqOnline(c) ==
    /\ Locked(c) /\ c \notin online
    /\ online' = online \cup {c}
    /\ runtime_enabled' = [g \in Group |->
           [runtime_enabled[g] EXCEPT ![c] = Limited(bandwidth[g])]]
    /\ UNCHANGED <<bandwidth, dfl, hierarchical_quota, throttled, used, cpuhp, pc, arg,
                   at, todo>>

\* set_rq_offline(): rq_offline_fair() gives every group back its runtime, so that
\* the tasks of the dying CPU can leave.
RqOffline(c) ==
    /\ Locked(c) /\ c \in online
    /\ online' = online \ {c}
    /\ runtime_enabled' = [g \in Group |-> [runtime_enabled[g] EXCEPT ![c] = FALSE]]
    /\ throttled' = {x \in throttled : x[2] # c}
    /\ UNCHANGED <<bandwidth, dfl, hierarchical_quota, used, cpuhp, pc, arg, at, todo>>

FairStep == \E x \in Throttles : Throttle(x[1], x[2]) \/ Distribute(x[1], x[2])

PlugStep ==
    \E c \in Pluggable : \/ cpus_write_lock(c) \/ cpus_write_unlock(c)
                         \/ RqOnline(c) \/ RqOffline(c)

WriteStep == \/ \E w \in Writer : WriterStep(w)
             \/ \E x \in Files : Write(x[1], x[2])

Next == WriteStep \/ FairStep \/ PlugStep

Spec == Init /\ [][Next]_vars

-----------------------------------------------------------------------------
(* Properties. *)

Place == {"idle", "lock", "mutex"} \cup InMutex

Value == [period : min_cfs_quota_period .. max_cfs_quota_period,
          quota  : (min_cfs_quota_period .. max_cfs_runtime) \cup {RUNTIME_INF}]

TypeOK ==
    /\ bandwidth \in [Group -> Value] /\ dfl \in BOOLEAN
    /\ hierarchical_quota \in [Group -> Int]
    /\ runtime_enabled \in [Group -> [CPU -> BOOLEAN]]
    /\ throttled \subseteq Group \X CPU /\ used \in Int
    /\ online \subseteq CPU /\ cpuhp \subseteq CPU
    /\ pc \in [Writer -> Place]
    /\ arg \in [Writer -> [group : Group, value : Value, was : BOOLEAN]]
    /\ at \in 1..NGroups /\ todo \subseteq CPU

\* The writers, their locks and the walk implement Quota: a group changes in one
\* step, and on the legacy hierarchy no sequence of writes, concurrent or failed
\* half way, leaves a group with more than a group above it ("Ensure
\* max(child_quota) <= parent_quota").
QuotaTree == Q!Spec

\* The loop of a writer is about to reach c.
Reaching(g, c) == \E w \in Writer : pc[w] = "loop" /\ arg[w].group = g /\ c \in todo

\* A cfs_rq is limited exactly if its CPU is online and its group has a quota,
\* whether the CPU came up, went down or stayed while the quota changed, and only one
\* that is limited is throttled, since nothing would release another ("Prevent race
\* between setting of cfs_rq->runtime_enabled and unthrottle_offline_cfs_rqs()").
RuntimeFollows ==
    \A g \in Group, c \in CPU :
        /\ Reaching(g, c) \/ (runtime_enabled[g][c] <=> c \in online /\ Limited(bandwidth[g]))
        /\ <<g, c>> \in throttled => runtime_enabled[g][c]

\* The groups that have a limit, are about to get one or have not quite lost it.
Using ==
    {g \in Group : \/ Limited(bandwidth[g])
                   \/ \E w \in Writer :
                         /\ arg[w].group = g
                         /\ \/ pc[w] = "store" /\ Limited(arg[w].value)
                            \/ pc[w] = "loop" /\ arg[w].was}

\* cfs_bandwidth_usage counts exactly the groups with a limit, from before the first
\* cfs_rq can see it until after the last has forgotten it.
UsageExact == used = Cardinality(Using)
=============================================================================
