---------------------------- MODULE UclampProofs ----------------------------
(***************************************************************************)
(* That the buckets of a runqueue count its clamped tasks exactly, and     *)
(* that a change of a limit reaches every runnable task: for every set of  *)
(* tasks, all values and requests, and every scale and number of buckets   *)
(* for which the bucket of the largest value exists (ScaleAssumption).     *)
(***************************************************************************)
EXTENDS Uclamp, FiniteSetTheorems, WellFoundedInduction, TLAPS

USE ScaleAssumption, InputAssumption
USE DEF Id, Keep, Value

\* An enqueue in progress is of a task that is queued and has a class with clamps.
LockInv ==
    /\ lock.task = "none" => lock = Free
    /\ lock.task # "none" => queued[lock.task] /\ uclamp_enabled(lock.task)

\* The enqueue in progress has not come to this clamp.
Awaited(p, id) == lock.task = p /\ (lock.id = "MIN" \/ id = "MAX")

\* A clamp is active exactly when the task is queued and has clamps, except while
\* the task is being queued.
ActiveInv ==
    \A p \in Task, id \in Id :
        uclamp[p][id].active <=> queued[p] /\ uclamp_enabled(p) /\ ~Awaited(p, id)

\* The counts are exact in every state.
CountInv ==
    \A id \in Id, b \in Bucket :
        uclamp_rq[id].bucket[b].tasks = Cardinality(Holders(id, b))

\* Except while a change of a default is on its way to the child group, the limits of
\* the group are within the defaults, and the clamps of its tasks do not depend on
\* the defaults.
LimitInv ==
    /\ walk = "none" => todo = {}
    /\ walk # "root" => \A id \in Id : tg[id] <= default[id]

\* A clamp is the one the limits give, or it is on the list of a change that has not
\* returned, or the change has not come to the group.
ValueInv ==
    \A p \in Task, id \in Id : uclamp[p][id].active =>
        \/ uclamp[p][id].value = uclamp_eff_get(p, id)
        \/ [task |-> p, id |-> id] \in todo
        \/ /\ walk = "root" /\ group[p] = "child"
           /\ uclamp[p][id].value = uclamp_tg_restrict(p, id)

IInv == TypeOK /\ LockInv /\ ActiveInv /\ CountInv /\ LimitInv /\ ValueInv

----------------------------------------------------------------------------
(* Numbers. *)

\* A set of naturals that is not empty has a least element.
LEMMA LeastNatural ==
  ASSUME NEW S \in SUBSET Nat, S # {}
  PROVE  \E x \in S : \A y \in S : x <= y
<1> DEFINE R == {ss \in Nat \X Nat : ss[1] < ss[2]}
<1>1. IsWellFoundedOn(R, Nat)
  BY NatLessThanWellFounded, Zenon DEF OpToRel
<1> HIDE DEF R
<1>2. PICK x \in S : \A y \in S : ~(<<y, x>> \in R)
  BY <1>1, WFMin
<1>3. \A y \in S : ~(y < x)
  BY <1>2 DEF R
<1> QED
  BY <1>3

\* The maximum of a set of buckets is one of them.
LEMMA MaxOfBuckets ==
  ASSUME NEW S \in SUBSET Bucket, S # {}
  PROVE  Max(S) \in S
<1> DEFINE D == {UCLAMP_BUCKETS - 1 - x : x \in S}
<1>1. D \in SUBSET Nat /\ D # {}
  <2>1. \A x \in S : UCLAMP_BUCKETS - 1 - x \in Nat
    BY DEF Bucket
  <2> QED
    BY <2>1
<1>2. PICK d \in D : \A e \in D : d <= e
  BY <1>1, LeastNatural
<1>3. PICK x \in S : d = UCLAMP_BUCKETS - 1 - x
  OBVIOUS
<1>4. ASSUME NEW y \in S
      PROVE  x >= y
  <2>1. UCLAMP_BUCKETS - 1 - y \in D
    OBVIOUS
  <2>2. UCLAMP_BUCKETS - 1 - x <= UCLAMP_BUCKETS - 1 - y
    BY <1>2, <1>3, <2>1
  <2> QED
    BY <2>2 DEF Bucket
<1> QED
  BY <1>4 DEF Max

\* A value that is within the scale has a bucket.
LEMMA BucketOfValue ==
  ASSUME NEW v \in Value
  PROVE  uclamp_bucket_id(v) \in Bucket
<1> DEFINE D == UCLAMP_BUCKET_DELTA
           S == SCHED_CAPACITY_SCALE
           B == UCLAMP_BUCKETS
<1>1. D \in Nat /\ D > 0 /\ S \in Nat /\ B \in Nat /\ S \div D < B /\ v \in 0..S
  BY DEF UCLAMP_BUCKET_DELTA
<1> HIDE DEF D, S, B
<1>2. v \div D \in Nat
  BY ONLY <1>1, Z3
<1>3. v \div D <= S \div D
  BY ONLY <1>1, Z3
<1>4. v \div D \in 0..(B - 1)
  BY ONLY <1>1, <1>2, <1>3, Z3
<1> QED
  BY <1>4 DEF D, B, Bucket, uclamp_bucket_id

\* The minimum of two values is the smaller one.
LEMMA MinOfTwo ==
  ASSUME NEW a \in Int, NEW b \in Int
  PROVE  Min({a, b}) = IF a <= b THEN a ELSE b
<1>1. \E x \in {a, b} : \A y \in {a, b} : x <= y
  OBVIOUS
<1>2. Min({a, b}) \in {a, b} /\ Min({a, b}) <= a /\ Min({a, b}) <= b
  BY <1>1 DEF Min
<1> QED
  BY <1>2

----------------------------------------------------------------------------
(* The counts of one clamp of the runqueue. *)

Counts == [value : Value, bucket : [Bucket -> [tasks : Nat, value : Value]]]

\* A reference that is taken adds one to the bucket of the value.
LEMMA IncCounts ==
  ASSUME NEW u \in Counts, NEW v \in Value, NEW reset \in BOOLEAN
  PROVE  /\ uclamp_rq_inc_id(u, v, reset) \in Counts
         /\ \A b \in Bucket : uclamp_rq_inc_id(u, v, reset).bucket[b].tasks
              = u.bucket[b].tasks + (IF uclamp_bucket_id(v) = b THEN 1 ELSE 0)
<1> DEFINE k == uclamp_bucket_id(v)
<1>1. k \in Bucket
  BY BucketOfValue
<1>2. u.bucket[k] \in [tasks : Nat, value : Value]
  BY <1>1 DEF Counts
<1>3. /\ BucketInc(u.bucket[k], v) \in [tasks : Nat, value : Value]
      /\ BucketInc(u.bucket[k], v).tasks = u.bucket[k].tasks + 1
  BY <1>2 DEF BucketInc
<1> DEFINE new == BucketInc(u.bucket[k], v)
<1>4. uclamp_rq_inc_id(u, v, reset)
        = [value |-> IF reset \/ v > u.value THEN v ELSE u.value,
           bucket |-> [u.bucket EXCEPT ![k] = new]]
  BY DEF uclamp_rq_inc_id
<1> HIDE DEF k, new
<1>5. (IF reset \/ v > u.value THEN v ELSE u.value) \in Value
  BY DEF Counts
<1>6. [u.bucket EXCEPT ![k] = new] \in [Bucket -> [tasks : Nat, value : Value]]
  BY <1>1, <1>3 DEF Counts, new
<1>7. \A b \in Bucket : [u.bucket EXCEPT ![k] = new][b].tasks
                          = u.bucket[b].tasks + (IF k = b THEN 1 ELSE 0)
  <2> SUFFICES ASSUME NEW b \in Bucket
               PROVE  [u.bucket EXCEPT ![k] = new][b].tasks
                          = u.bucket[b].tasks + (IF k = b THEN 1 ELSE 0)
    OBVIOUS
  <2>1. u.bucket[b].tasks \in Nat /\ u.bucket \in [Bucket -> [tasks : Nat, value : Value]]
    BY DEF Counts
  <2>2. CASE k = b
    BY <2>1, <2>2, <1>1, <1>3 DEF new
  <2>3. CASE k # b
    BY <2>1, <2>3
  <2> QED
    BY <2>2, <2>3
<1> QED
  BY <1>4, <1>5, <1>6, <1>7 DEF Counts, k

\* A reference that is released takes one from the bucket of the value, if it was
\* held.
LEMMA DecCounts ==
  ASSUME NEW u \in Counts, NEW id \in Id, NEW v \in Value,
         u.bucket[uclamp_bucket_id(v)].tasks > 0
  PROVE  /\ uclamp_rq_dec_id(u, id, v) \in Counts
         /\ \A b \in Bucket : uclamp_rq_dec_id(u, id, v).bucket[b].tasks
              = u.bucket[b].tasks - (IF uclamp_bucket_id(v) = b THEN 1 ELSE 0)
<1> DEFINE k == uclamp_bucket_id(v)
           R == Released(u, v)
<1>1. k \in Bucket
  BY BucketOfValue
<1>2. u.bucket \in [Bucket -> [tasks : Nat, value : Value]] /\ u.value \in Value
  BY DEF Counts
<1>3. /\ R \in [Bucket -> [tasks : Nat, value : Value]]
      /\ R[k].tasks = u.bucket[k].tasks - 1
      /\ \A b \in Bucket \ {k} : R[b] = u.bucket[b]
  BY <1>1, <1>2 DEF Released
<1> HIDE DEF R, k
<1>4. uclamp_rq_max_value(R, id, v) \in Value
  <2>1. Occupied(R) \in SUBSET Bucket
    BY DEF Occupied
  <2>2. Occupied(R) # {} => Max(Occupied(R)) \in Bucket
    BY <2>1, MaxOfBuckets
  <2> QED
    BY <1>3, <2>2 DEF uclamp_rq_max_value, uclamp_none
<1>5. uclamp_rq_dec_id(u, id, v)
        = [value |-> IF Recompute(u, v) THEN uclamp_rq_max_value(R, id, v) ELSE u.value,
           bucket |-> R]
  BY DEF uclamp_rq_dec_id, R
<1>6. uclamp_rq_dec_id(u, id, v) \in Counts
  BY <1>2, <1>3, <1>4, <1>5 DEF Counts
<1>7. \A b \in Bucket : R[b].tasks = u.bucket[b].tasks - (IF k = b THEN 1 ELSE 0)
  BY <1>2, <1>3
<1> QED
  BY <1>5, <1>6, <1>7 DEF k

\* Adding or removing one member changes a cardinality by one.
LEMMA CountStep ==
  ASSUME NEW S \in SUBSET Task, NEW T \in SUBSET Task, NEW p \in Task, S \ {p} = T \ {p}
  PROVE  /\ Cardinality(S) \in Nat /\ Cardinality(T) \in Nat
         /\ Cardinality(T) = Cardinality(S) - (IF p \in S THEN 1 ELSE 0)
                                            + (IF p \in T THEN 1 ELSE 0)
<1>1. IsFiniteSet(S) /\ IsFiniteSet(T)
  BY FS_Subset
<1>2. Cardinality(S) \in Nat /\ Cardinality(T) \in Nat
  BY <1>1, FS_CardinalityType
<1>3. Cardinality(S \ {p}) = IF p \in S THEN Cardinality(S) - 1 ELSE Cardinality(S)
  BY <1>1, FS_RemoveElement
<1>4. Cardinality(T \ {p}) = IF p \in T THEN Cardinality(T) - 1 ELSE Cardinality(T)
  BY <1>1, FS_RemoveElement
<1>5. Cardinality(S \ {p}) = Cardinality(T \ {p})
  OBVIOUS
<1> QED
  BY <1>2, <1>3, <1>4, <1>5

\* Whether the task holds a reference in the bucket.
Holds(p, id, b) ==
    uclamp[p][id].active /\ uclamp_bucket_id(uclamp[p][id].value) = b

\* The counts stay exact when they follow the references of the one task whose clamp
\* changes.
LEMMA CountsFollow ==
  ASSUME CountInv, NEW p \in Task, NEW id \in Id,
         \A q \in Task \ {p} : uclamp'[q][id] = uclamp[q][id],
         NEW n, \A b \in Bucket : n[b].tasks = uclamp_rq[id].bucket[b].tasks
                    - (IF Holds(p, id, b) THEN 1 ELSE 0)
                    + (IF Holds(p, id, b)' THEN 1 ELSE 0)
  PROVE  \A b \in Bucket : n[b].tasks = Cardinality(Holders(id, b)')
<1> SUFFICES ASSUME NEW b \in Bucket
             PROVE  n[b].tasks = Cardinality(Holders(id, b)')
  OBVIOUS
<1> DEFINE S == Holders(id, b)
           T == Holders(id, b)'
<1>1. S \in SUBSET Task /\ T \in SUBSET Task /\ S \ {p} = T \ {p}
  BY DEF Holders
<1>2. (p \in S <=> Holds(p, id, b)) /\ (p \in T <=> Holds(p, id, b)')
  BY DEF Holders, Holds
<1>3. uclamp_rq[id].bucket[b].tasks = Cardinality(S)
  BY DEF CountInv
<1> HIDE DEF S, T
<1>4. Cardinality(T) = Cardinality(S) - (IF p \in S THEN 1 ELSE 0)
                                      + (IF p \in T THEN 1 ELSE 0)
  BY <1>1, CountStep
<1>5. n[b].tasks = Cardinality(S) - (IF p \in S THEN 1 ELSE 0) + (IF p \in T THEN 1 ELSE 0)
  BY <1>2, <1>3
<1>6. n[b].tasks = Cardinality(T)
  BY <1>4, <1>5
<1> QED
  BY <1>6 DEF T

\* The bucket of an active clamp is not empty.
LEMMA HeldBucket ==
  ASSUME CountInv, NEW p \in Task, NEW id \in Id, uclamp[p][id].active,
         uclamp[p][id].value \in Value
  PROVE  uclamp_rq[id].bucket[uclamp_bucket_id(uclamp[p][id].value)].tasks > 0
<1> DEFINE b == uclamp_bucket_id(uclamp[p][id].value)
           S == Holders(id, b)
<1>1. b \in Bucket
  BY BucketOfValue
<1>2. S \in SUBSET Task /\ p \in S
  BY DEF Holders
<1>3. uclamp_rq[id].bucket[b].tasks = Cardinality(S)
  BY <1>1 DEF CountInv
<1> HIDE DEF b, S
<1>4. Cardinality(S) \in Nat /\ Cardinality(S \ {p}) = Cardinality(S) - 1
  BY <1>2, FS_Subset, FS_CardinalityType, FS_RemoveElement
<1>5. Cardinality(S \ {p}) \in Nat
  BY <1>2, FS_Subset, FS_CardinalityType
<1>6. Cardinality(S) > 0
  BY <1>4, <1>5
<1> QED
  BY <1>3, <1>6 DEF b

----------------------------------------------------------------------------
(* The effective clamp. *)

RqType == uclamp_rq \in [Id -> Counts] /\ idle \in BOOLEAN
ClampType == uclamp \in [Task -> [Id -> [value : Value, active : BOOLEAN]]]

\* The effective clamp is a value; for a task of the child group it is the request
\* within the limit of the group, if that limit is within the default.
LEMMA EffectiveClamp ==
  ASSUME TypeOK, NEW p \in Task, NEW id \in Id
  PROVE  /\ uclamp_eff_get(p, id) \in Value
         /\ group[p] = "child" /\ tg[id] <= default[id]
              => uclamp_eff_get(p, id) = uclamp_tg_restrict(p, id)
<1> DEFINE r == uclamp_tg_restrict(p, id)
           d == default[id]
<1>1. r \in Value /\ d \in Value
  BY DEF TypeOK, uclamp_tg_restrict
<1>2. group[p] = "child" => r <= tg[id]
  BY DEF TypeOK, uclamp_tg_restrict
<1>3. tg[id] \in Value
  BY DEF TypeOK
<1>4. uclamp_eff_get(p, id) = Min({r, d})
  BY DEF uclamp_eff_get
<1> HIDE DEF r, d
<1>5. uclamp_eff_get(p, id) = IF r <= d THEN r ELSE d
  BY <1>1, <1>4, MinOfTwo
<1>6. uclamp_eff_get(p, id) \in Value
  BY <1>1, <1>5
<1>7. ASSUME group[p] = "child", tg[id] <= d
      PROVE  uclamp_eff_get(p, id) = r
  BY <1>1, <1>2, <1>3, <1>5, <1>7
<1> QED
  BY <1>6, <1>7 DEF r, d

\* The limits of the group are values within the defaults.
LEMMA GroupLimits ==
  ASSUME default \in [Id -> Value], NEW req \in [Id -> Value]
  PROVE  /\ EffectiveClamps(req) \in [Id -> Value]
         /\ \A id \in Id : EffectiveClamps(req)[id] <= default[id]
<1> DEFINE eff == [id \in Id |-> Min({req[id], default[id]})]
<1>1. \A id \in Id : eff[id] \in Value /\ eff[id] <= default[id]
  <2> SUFFICES ASSUME NEW id \in Id
               PROVE  eff[id] \in Value /\ eff[id] <= default[id]
    OBVIOUS
  <2> DEFINE a == req[id]
             b == default[id]
  <2>1. a \in Value /\ b \in Value
    OBVIOUS
  <2>2. eff[id] = Min({a, b})
    OBVIOUS
  <2> HIDE DEF a, b, eff
  <2>3. eff[id] = IF a <= b THEN a ELSE b
    BY <2>1, <2>2, MinOfTwo
  <2>4. eff[id] \in Value /\ eff[id] <= b
    BY <2>1, <2>3
  <2> QED
    BY <2>4 DEF b
<1>2. eff \in [Id -> Value]
  BY <1>1
<1> DEFINE m == Min({eff["MIN"], eff["MAX"]})
<1>3. EffectiveClamps(req) = [eff EXCEPT !["MIN"] = m]
  BY DEF EffectiveClamps
<1> HIDE DEF eff
<1>4. m \in Value /\ m <= eff["MIN"]
  <2>1. eff["MIN"] \in Value /\ eff["MAX"] \in Value
    BY <1>1
  <2>2. m = IF eff["MIN"] <= eff["MAX"] THEN eff["MIN"] ELSE eff["MAX"]
    BY <2>1, MinOfTwo
  <2> QED
    BY <2>1, <2>2
<1> HIDE DEF m
<1>5. [eff EXCEPT !["MIN"] = m] \in [Id -> Value]
  BY <1>2, <1>4
<1>6. \A id \in Id : [eff EXCEPT !["MIN"] = m][id] <= default[id]
  BY <1>1, <1>2, <1>4
<1> QED
  BY <1>3, <1>5, <1>6

----------------------------------------------------------------------------
(* Dequeues. *)

\* One clamp of a dequeue.
LEMMA DecClamp ==
  ASSUME TypeOK, CountInv, NEW p \in Task, NEW id \in Id, uclamp[p][id].active,
         uclamp' = [uclamp EXCEPT ![p] = Inactive]
  PROVE  LET n == uclamp_rq_dec_id(uclamp_rq[id], id, uclamp[p][id].value) IN
         /\ n \in Counts
         /\ \A b \in Bucket : n.bucket[b].tasks = Cardinality(Holders(id, b)')
<1> DEFINE u == uclamp_rq[id]
           v == uclamp[p][id].value
           n == uclamp_rq_dec_id(u, id, v)
<1>1. u \in Counts /\ v \in Value
  BY DEF TypeOK, Counts
<1>2. u.bucket[uclamp_bucket_id(v)].tasks > 0
  BY <1>1, HeldBucket
<1>3. /\ \A q \in Task \ {p} : uclamp'[q][id] = uclamp[q][id]
      /\ ~uclamp'[p][id].active
  BY DEF TypeOK, Inactive
<1>4. \A b \in Bucket : /\ Holds(p, id, b) <=> uclamp_bucket_id(v) = b
                        /\ ~Holds(p, id, b)'
  BY <1>3 DEF Holds
<1> HIDE DEF u, v
<1>5. n \in Counts /\ \A b \in Bucket :
        n.bucket[b].tasks = u.bucket[b].tasks - (IF uclamp_bucket_id(v) = b THEN 1 ELSE 0)
  BY <1>1, <1>2, DecCounts
<1> HIDE DEF n
<1>6. \A b \in Bucket : n.bucket[b].tasks \in Nat /\ u.bucket[b].tasks \in Nat
  BY <1>1, <1>5 DEF Counts
<1>7. \A b \in Bucket : n.bucket[b].tasks = uclamp_rq[id].bucket[b].tasks
                    - (IF Holds(p, id, b) THEN 1 ELSE 0)
                    + (IF Holds(p, id, b)' THEN 1 ELSE 0)
  BY <1>4, <1>5, <1>6 DEF u
<1> DEFINE nb == n.bucket
<1>8. \A b \in Bucket : nb[b].tasks = Cardinality(Holders(id, b)')
  <2>1. \A b \in Bucket : nb[b].tasks = uclamp_rq[id].bucket[b].tasks
                    - (IF Holds(p, id, b) THEN 1 ELSE 0)
                    + (IF Holds(p, id, b)' THEN 1 ELSE 0)
    BY <1>7
  <2> HIDE DEF nb
  <2> QED
    BY <1>3, <2>1, CountsFollow
<1> QED
  BY <1>5, <1>8 DEF n, u, v

\* After uclamp_rq_dec() of a queued task its clamps are inactive and the counts exact.
LEMMA RqDecSound ==
  ASSUME IInv, NEW p \in Task, lock = Free, queued[p], RqDec(p)
  PROVE  /\ RqType' /\ ClampType' /\ CountInv'
         /\ \A q \in Task \ {p} : uclamp'[q] = uclamp[q]
         /\ \A id \in Id : ~uclamp'[p][id].active
<1> USE DEF IInv
<1>1. p # lock.task
  BY DEF Free
<1>2. CASE uclamp_enabled(p)
  <2>1. \A id \in Id : uclamp[p][id].active
    BY <1>1, <1>2 DEF ActiveInv, Awaited
  <2>2. /\ uclamp_rq' = [id \in Id |->
                uclamp_rq_dec_id(uclamp_rq[id], id, uclamp[p][id].value)]
        /\ idle' = (idle \/ GoesIdle(uclamp_rq["MAX"], uclamp[p]["MAX"].value))
        /\ uclamp' = [uclamp EXCEPT ![p] = Inactive]
    BY <1>2 DEF RqDec
  <2>3. \A id \in Id : /\ uclamp_rq'[id] \in Counts
                       /\ \A b \in Bucket : uclamp_rq'[id].bucket[b].tasks
                                              = Cardinality(Holders(id, b)')
    <3> TAKE id \in Id
    <3>1. uclamp_rq'[id] = uclamp_rq_dec_id(uclamp_rq[id], id, uclamp[p][id].value)
      BY <2>2
    <3>2. TypeOK /\ CountInv /\ uclamp[p][id].active /\ uclamp' = [uclamp EXCEPT ![p] = Inactive]
      BY <2>1, <2>2
    <3> QED
      BY ONLY <3>1, <3>2, p \in Task, id \in Id, DecClamp
  <2>4. uclamp_rq' \in [Id -> Counts]
    BY <2>2, <2>3
  <2>5. idle' \in BOOLEAN
    BY <2>2 DEF TypeOK, GoesIdle, Recompute
  <2>6. Inactive \in [Id -> [value : Value, active : BOOLEAN]]
    BY DEF Inactive
  <2>7. uclamp \in [Task -> [Id -> [value : Value, active : BOOLEAN]]]
    BY DEF TypeOK
  <2>8. ClampType' /\ (\A q \in Task \ {p} : uclamp'[q] = uclamp[q]) /\ uclamp'[p] = Inactive
    BY <2>2, <2>6, <2>7 DEF ClampType
  <2> QED
    BY <2>3, <2>4, <2>5, <2>8 DEF CountInv, RqType, Inactive
<1>3. CASE ~uclamp_enabled(p)
  <2>1. UNCHANGED <<uclamp_rq, idle, uclamp>>
    BY <1>3 DEF RqDec, rqVars
  <2>2. \A id \in Id : ~uclamp[p][id].active
    BY <1>3 DEF ActiveInv
  <2>3. CountInv'
    BY <2>1 DEF CountInv, Holders
  <2>4. RqType' /\ ClampType'
    BY <2>1 DEF RqType, ClampType, TypeOK, Counts
  <2> QED
    BY <2>1, <2>2, <2>3, <2>4
<1> QED
  BY <1>2, <1>3

\* The same when the runqueue is left alone, because the task is not queued.
LEMMA NotQueuedSound ==
  ASSUME IInv, NEW p \in Task, ~queued[p], UNCHANGED <<uclamp_rq, idle, uclamp>>
  PROVE  /\ RqType' /\ ClampType' /\ CountInv'
         /\ \A q \in Task \ {p} : uclamp'[q] = uclamp[q]
         /\ \A id \in Id : ~uclamp'[p][id].active
<1>1. CountInv'
  BY DEF IInv, CountInv, Holders
<1>2. RqType' /\ ClampType'
  BY DEF IInv, TypeOK, RqType, ClampType, Counts
<1>3. \A id \in Id : ~uclamp[p][id].active
  BY DEF IInv, ActiveInv
<1> QED
  BY <1>1, <1>2, <1>3

----------------------------------------------------------------------------
(* The actions. *)

\* The clamp that a task may have: a step that leaves the limits alone and changes one
\* task keeps ValueInv, if the clamps of that task are inactive after it.
LEMMA ValueOfOthers ==
  ASSUME ValueInv, NEW p \in Task, UNCHANGED limitVars,
         \A id \in Id : ~uclamp'[p][id].active,
         \A q \in Task \ {p} : /\ uclamp'[q] = uclamp[q]
                               /\ uclamp_req'[q] = uclamp_req[q] /\ group'[q] = group[q]
  PROVE  ValueInv'
<1> SUFFICES ASSUME NEW q \in Task, NEW id \in Id, uclamp'[q][id].active
             PROVE  (\/ uclamp[q][id].value = uclamp_eff_get(q, id)
                     \/ [task |-> q, id |-> id] \in todo
                     \/ /\ walk = "root" /\ group[q] = "child"
                        /\ uclamp[q][id].value = uclamp_tg_restrict(q, id))'
  BY DEF ValueInv
<1>1. q \in Task \ {p}
  OBVIOUS
<1>2. /\ uclamp'[q] = uclamp[q] /\ uclamp_req'[q] = uclamp_req[q] /\ group'[q] = group[q]
      /\ UNCHANGED <<default, tg, walk, todo>>
  BY <1>1 DEF limitVars
<1>3. uclamp_tg_restrict(q, id)' = uclamp_tg_restrict(q, id)
  BY <1>2 DEF uclamp_tg_restrict
<1>4. uclamp_eff_get(q, id)' = uclamp_eff_get(q, id)
  BY <1>2, <1>3 DEF uclamp_eff_get
<1>5. \/ uclamp[q][id].value = uclamp_eff_get(q, id)
      \/ [task |-> q, id |-> id] \in todo
      \/ /\ walk = "root" /\ group[q] = "child"
         /\ uclamp[q][id].value = uclamp_tg_restrict(q, id)
  BY <1>2 DEF ValueInv
<1> QED
  BY ONLY <1>2, <1>3, <1>4, <1>5

\* Every change of a task that starts with the lock free and with its clamps inactive
\* ends with an enqueue in progress, if the task is to be clamped.
LEMMA ActiveOfOthers ==
  ASSUME TypeOK, ActiveInv, lock = Free, NEW p \in Task,
         \A id \in Id : ~uclamp'[p][id].active,
         \A q \in Task \ {p} : /\ uclamp'[q] = uclamp[q]
                               /\ queued'[q] = queued[q] /\ class'[q] = class[q],
         lock' = IF queued'[p] /\ class'[p] # "dl" THEN [task |-> p, id |-> "MIN"] ELSE Free
  PROVE  ActiveInv' /\ LockInv' /\ lock' \in [task : Task \cup {"none"}, id : Id]
<1>1. "none" # p
  OBVIOUS
<1>2. lock' \in [task : Task \cup {"none"}, id : Id]
  BY DEF Free
<1>3. LockInv'
  BY <1>1 DEF LockInv, Free, uclamp_enabled
<1>4. ASSUME NEW q \in Task, NEW id \in Id
      PROVE  (uclamp[q][id].active <=> queued[q] /\ uclamp_enabled(q) /\ ~Awaited(q, id))'
  <2>1. CASE q = p
    BY <2>1, <1>1 DEF Awaited, uclamp_enabled, Free
  <2>2. CASE q # p
    <3>1. q \in Task \ {p} /\ lock.task # q /\ lock'.task # q
      BY <2>2 DEF Free
    <3>2. uclamp[q][id].active <=> queued[q] /\ class[q] # "dl"
      BY <3>1 DEF ActiveInv, Awaited, uclamp_enabled
    <3> QED
      BY <3>1, <3>2 DEF Awaited, uclamp_enabled
  <2> QED
    BY <2>1, <2>2
<1> QED
  BY <1>2, <1>3, <1>4 DEF ActiveInv

\* The types of the variables that a step on one task leaves alone.
LEMMA LimitsUnchanged ==
  ASSUME TypeOK, LimitInv, UNCHANGED limitVars
  PROVE  /\ LimitInv'
         /\ (/\ default \in [Id -> Value] /\ tg \in [Id -> Value] /\ tg_req \in [Id -> Value]
             /\ walk \in {"none", "root", "child"}
             /\ todo \subseteq [task : Task, id : Id])'
<1>1. UNCHANGED <<default, tg, tg_req, walk, todo>>
  BY DEF limitVars
<1> QED
  BY <1>1 DEF LimitInv, TypeOK

\* Enqueue() begins with the clamps of the task inactive.
LEMMA EnqueueInv ==
  ASSUME IInv, NEW p \in Task, Enqueue(p)
  PROVE  IInv'
<1> USE DEF IInv
<1>1. /\ lock = Free /\ ~queued[p] /\ queued' = [queued EXCEPT ![p] = TRUE]
      /\ lock' = IF class[p] = "dl" THEN Free ELSE [task |-> p, id |-> "MIN"]
      /\ UNCHANGED <<uclamp_rq, idle, uclamp, uclamp_req, class, group>>
      /\ UNCHANGED limitVars
  BY DEF Enqueue, StartInc, rqVars
<1>2. /\ RqType' /\ ClampType' /\ CountInv'
      /\ \A q \in Task \ {p} : uclamp'[q] = uclamp[q]
      /\ \A id \in Id : ~uclamp'[p][id].active
  BY <1>1, NotQueuedSound
<1>3. /\ queued' \in [Task -> BOOLEAN] /\ queued'[p]
      /\ \A q \in Task \ {p} : queued'[q] = queued[q]
  BY <1>1 DEF TypeOK
<1>4. ActiveInv' /\ LockInv' /\ lock' \in [task : Task \cup {"none"}, id : Id]
  BY <1>1, <1>2, <1>3, ActiveOfOthers
<1>5. ValueInv'
  BY <1>1, <1>2, ValueOfOthers
<1>6. (uclamp_req \in [Task -> [Id -> [value : Value, user_defined : BOOLEAN]]]
       /\ class \in [Task -> {"fair", "rt", "dl"}] /\ group \in [Task -> {"root", "child"}])'
  BY <1>1 DEF TypeOK
<1>7. TypeOK' /\ LimitInv'
  BY <1>1, <1>2, <1>3, <1>4, <1>6, LimitsUnchanged DEF TypeOK, RqType, ClampType, Counts
<1> QED
  BY <1>2, <1>4, <1>5, <1>7

\* Dequeue() releases what the task holds.
LEMMA DequeueInv ==
  ASSUME IInv, NEW p \in Task, Dequeue(p)
  PROVE  IInv'
<1> USE DEF IInv
<1>1. /\ lock = Free /\ queued[p] /\ queued' = [queued EXCEPT ![p] = FALSE]
      /\ RqDec(p) /\ UNCHANGED <<lock, uclamp_req, class, group>>
      /\ UNCHANGED limitVars
  BY DEF Dequeue
<1>2. /\ RqType' /\ ClampType' /\ CountInv'
      /\ \A q \in Task \ {p} : uclamp'[q] = uclamp[q]
      /\ \A id \in Id : ~uclamp'[p][id].active
  BY <1>1, RqDecSound
<1>3. /\ queued' \in [Task -> BOOLEAN] /\ ~queued'[p]
      /\ \A q \in Task \ {p} : queued'[q] = queued[q]
  BY <1>1 DEF TypeOK
<1>4. ActiveInv' /\ LockInv' /\ lock' \in [task : Task \cup {"none"}, id : Id]
  BY <1>1, <1>2, <1>3, ActiveOfOthers
<1>5. ValueInv'
  BY <1>1, <1>2, ValueOfOthers
<1>6. (uclamp_req \in [Task -> [Id -> [value : Value, user_defined : BOOLEAN]]]
       /\ class \in [Task -> {"fair", "rt", "dl"}] /\ group \in [Task -> {"root", "child"}])'
  BY <1>1 DEF TypeOK
<1>7. TypeOK' /\ LimitInv'
  BY <1>1, <1>2, <1>3, <1>4, <1>6, LimitsUnchanged DEF TypeOK, RqType, ClampType, Counts
<1> QED
  BY <1>2, <1>4, <1>5, <1>7

\* A dequeue and an enqueue around a change of the task, or the change alone.
LEMMA RequeueSound ==
  ASSUME IInv, NEW p \in Task, lock = Free, NEW c,
         IF queued[p] THEN RqDec(p) /\ StartInc(p, c) ELSE UNCHANGED <<rqVars, uclamp, lock>>
  PROVE  /\ RqType' /\ ClampType' /\ CountInv'
         /\ \A q \in Task \ {p} : uclamp'[q] = uclamp[q]
         /\ \A id \in Id : ~uclamp'[p][id].active
         /\ lock' = IF queued[p] /\ c # "dl" THEN [task |-> p, id |-> "MIN"] ELSE Free
<1>1. CASE queued[p]
  BY <1>1, RqDecSound DEF StartInc
<1>2. CASE ~queued[p]
  <2>1. UNCHANGED <<uclamp_rq, idle, uclamp>> /\ lock' = Free
    BY <1>2 DEF rqVars
  <2> QED
    BY <1>2, <2>1, NotQueuedSound
<1> QED
  BY <1>1, <1>2

\* sched_setattr() releases the clamps of the old class and takes those of the new.
LEMMA SetSchedulerInv ==
  ASSUME IInv, NEW p \in Task, NEW c \in Classes, NEW attr \in Attrs, SetScheduler(p, c, attr)
  PROVE  IInv'
<1> USE DEF IInv
<1> DEFINE req == [id \in Id |-> NewRequest(uclamp_req[p][id], id, c, attr[id])]
<1>1. /\ lock = Free
      /\ IF queued[p] THEN RqDec(p) /\ StartInc(p, c) ELSE UNCHANGED <<rqVars, uclamp, lock>>
      /\ class' = [class EXCEPT ![p] = c]
      /\ uclamp_req' = [uclamp_req EXCEPT ![p] = req]
      /\ UNCHANGED <<queued, group>> /\ UNCHANGED limitVars
  BY DEF SetScheduler
<1>2. /\ RqType' /\ ClampType' /\ CountInv'
      /\ \A q \in Task \ {p} : uclamp'[q] = uclamp[q]
      /\ \A id \in Id : ~uclamp'[p][id].active
      /\ lock' = IF queued[p] /\ c # "dl" THEN [task |-> p, id |-> "MIN"] ELSE Free
  BY <1>1, RequeueSound
<1>3. req \in [Id -> [value : Value, user_defined : BOOLEAN]]
  <2> SUFFICES ASSUME NEW id \in Id
               PROVE  NewRequest(uclamp_req[p][id], id, c, attr[id])
                        \in [value : Value, user_defined : BOOLEAN]
    OBVIOUS
  <2>1. /\ uclamp_req[p][id] \in [value : Value, user_defined : BOOLEAN]
        /\ attr[id] \in -1..SCHED_CAPACITY_SCALE
    BY DEF TypeOK
  <2> QED
    BY <2>1 DEF NewRequest, uclamp_none
<1> HIDE DEF req
<1>4. /\ class' \in [Task -> {"fair", "rt", "dl"}] /\ class'[p] = c
      /\ \A q \in Task \ {p} : class'[q] = class[q]
  BY <1>1 DEF TypeOK
<1>5. /\ uclamp_req' \in [Task -> [Id -> [value : Value, user_defined : BOOLEAN]]]
      /\ \A q \in Task \ {p} : uclamp_req'[q] = uclamp_req[q]
  BY <1>1, <1>3 DEF TypeOK
<1>6. ActiveInv' /\ LockInv' /\ lock' \in [task : Task \cup {"none"}, id : Id]
  BY <1>1, <1>2, <1>4, ActiveOfOthers
<1>7. ValueInv'
  BY <1>1, <1>2, <1>5, ValueOfOthers
<1>8. (queued \in [Task -> BOOLEAN] /\ group \in [Task -> {"root", "child"}])'
  BY <1>1 DEF TypeOK
<1>9. TypeOK' /\ LimitInv'
  BY <1>1, <1>2, <1>4, <1>5, <1>6, <1>8, LimitsUnchanged DEF TypeOK, RqType, ClampType, Counts
<1> QED
  BY <1>2, <1>6, <1>7, <1>9

\* A new task holds no reference, whatever its parent holds.
LEMMA ForkInv ==
  ASSUME IInv, NEW p \in Task, NEW q \in Task, NEW reset \in BOOLEAN, Fork(p, q, reset)
  PROVE  IInv'
<1> USE DEF IInv
<1> DEFINE req == IF reset
                  THEN [id \in Id |-> [value |-> uclamp_none(id), user_defined |-> FALSE]]
                  ELSE uclamp_req[q]
           c == IF reset THEN "fair" ELSE class[q]
<1>1. /\ lock = Free /\ ~queued[p]
      /\ uclamp' = [uclamp EXCEPT ![p] = Inactive]
      /\ uclamp_req' = [uclamp_req EXCEPT ![p] = req]
      /\ class' = [class EXCEPT ![p] = c]
      /\ group' = [group EXCEPT ![p] = group[q]]
      /\ UNCHANGED <<uclamp_rq, idle, queued, lock>> /\ UNCHANGED limitVars
  BY DEF Fork, ForkedClamps, rqVars
<1>2. \A id \in Id : ~uclamp[p][id].active
  BY <1>1 DEF ActiveInv
<1>3. Inactive \in [Id -> [value : Value, active : BOOLEAN]] /\ \A id \in Id : ~Inactive[id].active
  BY DEF Inactive
<1>4. uclamp \in [Task -> [Id -> [value : Value, active : BOOLEAN]]]
  BY DEF TypeOK
<1>5. /\ uclamp' \in [Task -> [Id -> [value : Value, active : BOOLEAN]]]
      /\ uclamp'[p] = Inactive /\ \A r \in Task \ {p} : uclamp'[r] = uclamp[r]
  BY <1>1, <1>3, <1>4
<1>6. \A id \in Id : ~uclamp'[p][id].active
  BY <1>3, <1>5
<1>7. CountInv'
  <2>1. \A id \in Id, b \in Bucket : Holders(id, b)' = Holders(id, b)
    BY <1>2, <1>5, <1>6 DEF Holders
  <2> QED
    BY <1>1, <2>1 DEF CountInv
<1>8. req \in [Id -> [value : Value, user_defined : BOOLEAN]] /\ c \in {"fair", "rt", "dl"}
  BY DEF TypeOK, uclamp_none
<1> HIDE DEF req, c
<1>9. /\ uclamp_req' \in [Task -> [Id -> [value : Value, user_defined : BOOLEAN]]]
      /\ \A r \in Task \ {p} : uclamp_req'[r] = uclamp_req[r]
  BY <1>1, <1>8 DEF TypeOK
<1>10. /\ class' \in [Task -> {"fair", "rt", "dl"}] /\ group' \in [Task -> {"root", "child"}]
       /\ \A r \in Task \ {p} : class'[r] = class[r] /\ group'[r] = group[r]
  BY <1>1, <1>8 DEF TypeOK
<1>11. ActiveInv' /\ LockInv' /\ lock' \in [task : Task \cup {"none"}, id : Id]
  BY <1>1, <1>5, <1>6, <1>10, ActiveOfOthers
<1>12. ValueInv'
  BY <1>1, <1>5, <1>6, <1>9, <1>10, ValueOfOthers
<1>13. RqType' /\ queued' \in [Task -> BOOLEAN]
  BY <1>1 DEF TypeOK, RqType, Counts
<1>14. TypeOK' /\ LimitInv'
  BY <1>1, <1>5, <1>9, <1>10, <1>11, <1>13, LimitsUnchanged DEF TypeOK, RqType, Counts
<1> QED
  BY <1>7, <1>11, <1>12, <1>14

\* sched_move_task() releases the clamps and takes those of the new group.
LEMMA MoveTaskInv ==
  ASSUME IInv, NEW p \in Task, NEW g \in {"root", "child"}, MoveTask(p, g)
  PROVE  IInv'
<1> USE DEF IInv
<1>1. /\ lock = Free
      /\ IF queued[p] THEN RqDec(p) /\ StartInc(p, class[p])
         ELSE UNCHANGED <<rqVars, uclamp, lock>>
      /\ group' = [group EXCEPT ![p] = g]
      /\ UNCHANGED <<uclamp_req, queued, class>> /\ UNCHANGED limitVars
  BY DEF MoveTask
<1>2. /\ RqType' /\ ClampType' /\ CountInv'
      /\ \A q \in Task \ {p} : uclamp'[q] = uclamp[q]
      /\ \A id \in Id : ~uclamp'[p][id].active
      /\ lock' = IF queued[p] /\ class[p] # "dl" THEN [task |-> p, id |-> "MIN"] ELSE Free
  BY <1>1, RequeueSound
<1>3. /\ group' \in [Task -> {"root", "child"}]
      /\ \A q \in Task \ {p} : group'[q] = group[q]
  BY <1>1 DEF TypeOK
<1>4. ActiveInv' /\ LockInv' /\ lock' \in [task : Task \cup {"none"}, id : Id]
  BY <1>1, <1>2, ActiveOfOthers
<1>5. ValueInv'
  BY <1>1, <1>2, <1>3, ValueOfOthers
<1>6. (uclamp_req \in [Task -> [Id -> [value : Value, user_defined : BOOLEAN]]]
       /\ queued \in [Task -> BOOLEAN] /\ class \in [Task -> {"fair", "rt", "dl"}])'
  BY <1>1 DEF TypeOK
<1>7. TypeOK' /\ LimitInv'
  BY <1>1, <1>2, <1>3, <1>4, <1>6, LimitsUnchanged DEF TypeOK, RqType, ClampType, Counts
<1> QED
  BY <1>2, <1>4, <1>5, <1>7

\* One clamp of an enqueue: the reference is counted in the bucket of the value that
\* the task keeps.
LEMMA RqIncIdInv ==
  ASSUME IInv, RqIncId
  PROVE  IInv'
<1> USE DEF IInv
<1> DEFINE p == lock.task
           id == lock.id
           v == uclamp_eff_get(p, id)
           n == uclamp_rq_inc_id(uclamp_rq[id], v, idle)
<1>1. /\ lock # Free
      /\ uclamp' = [uclamp EXCEPT ![p][id] = [value |-> v, active |-> TRUE]]
      /\ uclamp_rq' = [uclamp_rq EXCEPT ![id] = n]
      /\ idle' = (idle /\ id = "MIN")
      /\ lock' = IF id = "MIN" THEN [task |-> p, id |-> "MAX"] ELSE Free
      /\ UNCHANGED <<uclamp_req, queued, class, group>> /\ UNCHANGED limitVars
  BY DEF RqIncId, taskVars, FlagAfterInc
<1>2. lock \in [task : Task \cup {"none"}, id : Id]
  BY DEF TypeOK
<1>3. p # "none"
  BY <1>1 DEF LockInv
<1>4. p \in Task /\ id \in Id /\ queued[p] /\ class[p] # "dl"
  BY <1>2, <1>3 DEF LockInv, uclamp_enabled
<1>5. v \in Value
  BY <1>4, EffectiveClamp
<1>6. uclamp_rq[id] \in Counts /\ uclamp_rq \in [Id -> Counts] /\ idle \in BOOLEAN
  BY <1>4 DEF TypeOK, Counts
<1>7. /\ n \in Counts
      /\ \A b \in Bucket : n.bucket[b].tasks
              = uclamp_rq[id].bucket[b].tasks + (IF uclamp_bucket_id(v) = b THEN 1 ELSE 0)
  BY <1>5, <1>6, IncCounts
<1>8. ~uclamp[p][id].active
  BY <1>4 DEF ActiveInv, Awaited
<1>9. uclamp \in [Task -> [Id -> [value : Value, active : BOOLEAN]]]
  BY DEF TypeOK
<1> DEFINE new == [value |-> v, active |-> TRUE]
<1>10. new \in [value : Value, active : BOOLEAN] /\ new.active /\ new.value = v
  BY <1>5
<1>11. uclamp' = [uclamp EXCEPT ![p][id] = new]
  BY <1>1
<1>12. PICK tp : tp = lock.task
  OBVIOUS
<1>13. PICK ti : ti = lock.id
  OBVIOUS
<1>14. uclamp' = [uclamp EXCEPT ![tp][ti] = new] /\ tp \in Task /\ ti \in Id
  BY <1>4, <1>11, <1>12, <1>13
<1> HIDE DEF n, v, new
<1>15. /\ uclamp' \in [Task -> [Id -> [value : Value, active : BOOLEAN]]]
       /\ uclamp'[tp][ti] = new
       /\ \A q \in Task, i \in Id : q # tp \/ i # ti => uclamp'[q][i] = uclamp[q][i]
  BY <1>9, <1>10, <1>14
<1>16. uclamp_rq' \in [Id -> Counts] /\ idle' \in BOOLEAN
  BY <1>1, <1>4, <1>6, <1>7
<1>17. CountInv'
  <2>1. \A b \in Bucket : uclamp_rq[ti].bucket[b].tasks \in Nat
    BY <1>6, <1>13 DEF Counts
  <2>2. \A b \in Bucket : ~Holds(tp, ti, b) /\ (Holds(tp, ti, b)' <=> uclamp_bucket_id(v) = b)
    BY <1>8, <1>10, <1>12, <1>13, <1>15 DEF Holds
  <2> DEFINE nb == n.bucket
  <2>3. \A b \in Bucket : nb[b].tasks = uclamp_rq[ti].bucket[b].tasks
                    - (IF Holds(tp, ti, b) THEN 1 ELSE 0)
                    + (IF Holds(tp, ti, b)' THEN 1 ELSE 0)
    BY <1>7, <1>13, <2>1, <2>2
  <2> HIDE DEF nb
  <2>4. \A b \in Bucket : nb[b].tasks = Cardinality(Holders(ti, b)')
    <3>1. \A q \in Task \ {tp} : uclamp'[q][ti] = uclamp[q][ti]
      BY <1>14, <1>15
    <3>2. tp \in Task /\ ti \in Id
      BY <1>14
    <3> QED
      BY <2>3, <3>1, <3>2, CountsFollow
  <2>5. ASSUME NEW i \in Id, NEW b \in Bucket
        PROVE  uclamp_rq'[i].bucket[b].tasks = Cardinality(Holders(i, b)')
    <3>1. CASE i = ti
      BY <1>1, <1>4, <1>6, <1>13, <2>4, <3>1 DEF nb
    <3>2. CASE i # ti
      <4>1. uclamp_rq'[i] = uclamp_rq[i]
        BY <1>1, <1>6, <1>13, <3>2
      <4>2. Holders(i, b)' = Holders(i, b)
        BY <1>15, <3>2 DEF Holders
      <4> QED
        BY <4>1, <4>2 DEF CountInv
    <3> QED
      BY <3>1, <3>2
  <2> QED
    BY <2>5 DEF CountInv
<1>18. lock' = IF ti = "MIN" THEN [task |-> tp, id |-> "MAX"] ELSE Free
  BY <1>1, <1>12, <1>13
<1>19. LockInv' /\ lock' \in [task : Task \cup {"none"}, id : Id]
  BY <1>1, <1>4, <1>12, <1>14, <1>18 DEF LockInv, Free, uclamp_enabled
<1>20. ActiveInv'
  <2> SUFFICES ASSUME NEW q \in Task, NEW i \in Id
               PROVE  uclamp'[q][i].active
                        <=> queued'[q] /\ class'[q] # "dl" /\ ~Awaited(q, i)'
    BY DEF ActiveInv, uclamp_enabled
  <2>1. uclamp[q][i].active <=> queued[q] /\ class[q] # "dl" /\ ~Awaited(q, i)
    BY DEF ActiveInv, uclamp_enabled
  <2>2. UNCHANGED <<queued, class>> /\ "none" \notin Task
    BY <1>1
  <2>3. CASE q = tp
    <3>1. Awaited(q, i) <=> ti = "MIN" \/ i = "MAX"
      BY <2>3, <1>12, <1>13 DEF Awaited
    <3>2. Awaited(q, i)' <=> ti = "MIN" /\ i = "MAX"
      BY <2>2, <2>3, <1>18 DEF Awaited, Free
    <3>3. queued[q] /\ class[q] # "dl"
      BY <2>3, <1>4, <1>12
    <3>4. CASE i = ti
      BY <3>2, <3>3, <3>4, <2>2, <2>3, <1>10, <1>15
    <3>5. CASE i # ti
      <4>1. uclamp'[q][i] = uclamp[q][i]
        BY <1>15, <3>5
      <4> QED
        BY <4>1, <3>1, <3>2, <3>3, <3>5, <2>1, <2>2, <1>14
    <3> QED
      BY <3>4, <3>5
  <2>4. CASE q # tp
    <3>1. ~Awaited(q, i) /\ ~Awaited(q, i)'
      BY <2>2, <2>4, <1>12, <1>18 DEF Awaited, Free
    <3>2. uclamp'[q][i] = uclamp[q][i]
      BY <1>15, <2>4
    <3> QED
      BY <2>1, <2>2, <3>1, <3>2
  <2> QED
    BY <2>3, <2>4
<1>21. ValueInv'
  <2> SUFFICES ASSUME NEW q \in Task, NEW i \in Id, uclamp'[q][i].active
               PROVE  (\/ uclamp[q][i].value = uclamp_eff_get(q, i)
                       \/ [task |-> q, id |-> i] \in todo
                       \/ /\ walk = "root" /\ group[q] = "child"
                          /\ uclamp[q][i].value = uclamp_tg_restrict(q, i))'
    BY DEF ValueInv
  <2>1. UNCHANGED <<uclamp_req, group, default, tg, walk, todo>>
    BY <1>1 DEF limitVars
  <2>2. uclamp_tg_restrict(q, i)' = uclamp_tg_restrict(q, i)
    BY <2>1 DEF uclamp_tg_restrict
  <2>3. uclamp_eff_get(q, i)' = uclamp_eff_get(q, i)
    BY <2>1, <2>2 DEF uclamp_eff_get
  <2>4. CASE q = tp /\ i = ti
    <3>1. uclamp'[q][i].value = uclamp_eff_get(q, i)
      BY <2>4, <1>10, <1>12, <1>13, <1>15 DEF v
    <3> QED
      BY <3>1, <2>3
  <2>5. CASE ~(q = tp /\ i = ti)
    <3>1. uclamp'[q][i] = uclamp[q][i]
      BY <1>15, <2>5
    <3>2. \/ uclamp[q][i].value = uclamp_eff_get(q, i)
          \/ [task |-> q, id |-> i] \in todo
          \/ /\ walk = "root" /\ group[q] = "child"
             /\ uclamp[q][i].value = uclamp_tg_restrict(q, i)
      BY <3>1 DEF ValueInv
    <3> QED
      BY <3>1, <3>2, <2>1, <2>2, <2>3
  <2> QED
    BY <2>4, <2>5
<1>22. (uclamp_req \in [Task -> [Id -> [value : Value, user_defined : BOOLEAN]]]
        /\ queued \in [Task -> BOOLEAN] /\ class \in [Task -> {"fair", "rt", "dl"}]
        /\ group \in [Task -> {"root", "child"}])'
  BY <1>1 DEF TypeOK
<1>23. TypeOK' /\ LimitInv'
  BY <1>1, <1>15, <1>16, <1>19, <1>22, LimitsUnchanged DEF TypeOK, Counts
<1> QED
  BY <1>17, <1>19, <1>20, <1>21, <1>23

\* An update moves the reference of the task from the bucket of the old value to that
\* of the new one.
LEMMA UpdateActiveInv ==
  ASSUME IInv, NEW p \in Task, NEW id \in Id, uclamp_update_active(p, id)
  PROVE  IInv'
<1> USE DEF IInv
<1> DEFINE v == uclamp[p][id].value
           e == uclamp_eff_get(p, id)
           dec == uclamp_rq_dec_id(uclamp_rq[id], id, v)
           flag == idle \/ (id = "MAX" /\ GoesIdle(uclamp_rq[id], v))
           n == uclamp_rq_inc_id(dec, e, flag)
<1>1. /\ lock = Free /\ todo' = todo \ {[task |-> p, id |-> id]}
      /\ UNCHANGED <<uclamp_req, queued, class, group, lock, default, tg, tg_req, walk>>
  BY DEF uclamp_update_active, taskVars
<1>2. IF uclamp[p][id].active
      THEN /\ uclamp_rq' = [uclamp_rq EXCEPT ![id] = n]
           /\ uclamp' = [uclamp EXCEPT ![p][id].value = e]
           /\ idle' = flag
      ELSE UNCHANGED <<uclamp_rq, idle, uclamp>>
  BY DEF uclamp_update_active, rqVars
<1>3. uclamp \in [Task -> [Id -> [value : Value, active : BOOLEAN]]]
  BY DEF TypeOK
<1>4. uclamp_rq[id] \in Counts /\ uclamp_rq \in [Id -> Counts] /\ idle \in BOOLEAN
  BY DEF TypeOK, Counts
<1>5. v \in Value /\ e \in Value
  BY <1>3, EffectiveClamp
<1>6. /\ uclamp' \in [Task -> [Id -> [value : Value, active : BOOLEAN]]]
      /\ uclamp_rq' \in [Id -> Counts] /\ idle' \in BOOLEAN
      /\ CountInv'
      /\ \A q \in Task, i \in Id : /\ uclamp'[q][i].active <=> uclamp[q][i].active
                                   /\ q # p \/ i # id => uclamp'[q][i] = uclamp[q][i]
      /\ uclamp[p][id].active => uclamp'[p][id].value = e
  <2>1. CASE ~uclamp[p][id].active
    <3>1. UNCHANGED <<uclamp_rq, idle, uclamp>>
      BY <1>2, <2>1
    <3>2. CountInv'
      BY <3>1 DEF CountInv, Holders
    <3> QED
      BY <2>1, <3>1, <3>2, <1>3, <1>4
  <2>2. CASE uclamp[p][id].active
    <3>1. uclamp_rq[id].bucket[uclamp_bucket_id(v)].tasks > 0
      BY <2>2, <1>5, HeldBucket
    <3>2. /\ dec \in Counts
          /\ \A b \in Bucket : dec.bucket[b].tasks
               = uclamp_rq[id].bucket[b].tasks - (IF uclamp_bucket_id(v) = b THEN 1 ELSE 0)
      <4> DEFINE u == uclamp_rq[id]
      <4>1. u \in Counts /\ v \in Value /\ u.bucket[uclamp_bucket_id(v)].tasks > 0
        BY <1>4, <1>5, <3>1
      <4> HIDE DEF u, v
      <4>2. /\ uclamp_rq_dec_id(u, id, v) \in Counts
            /\ \A b \in Bucket : uclamp_rq_dec_id(u, id, v).bucket[b].tasks
                 = u.bucket[b].tasks - (IF uclamp_bucket_id(v) = b THEN 1 ELSE 0)
        BY <4>1, DecCounts
      <4> QED
        BY <4>2 DEF u
    <3>3. flag \in BOOLEAN
      BY <1>4 DEF GoesIdle, Recompute
    <3> HIDE DEF dec, flag, e, v
    <3>4. /\ n \in Counts
          /\ \A b \in Bucket : n.bucket[b].tasks
               = dec.bucket[b].tasks + (IF uclamp_bucket_id(e) = b THEN 1 ELSE 0)
      BY <1>5, <3>2, <3>3, IncCounts
    <3> HIDE DEF n
    <3>5. /\ uclamp_rq' = [uclamp_rq EXCEPT ![id] = n]
          /\ uclamp' = [uclamp EXCEPT ![p][id].value = e]
          /\ idle' = flag
      BY <1>2, <2>2
    <3>6. uclamp_rq' \in [Id -> Counts] /\ idle' \in BOOLEAN
      BY <1>4, <3>3, <3>4, <3>5
    <3>7. /\ uclamp' \in [Task -> [Id -> [value : Value, active : BOOLEAN]]]
          /\ uclamp'[p][id].value = e /\ uclamp'[p][id].active
          /\ \A q \in Task, i \in Id : q # p \/ i # id => uclamp'[q][i] = uclamp[q][i]
      BY <1>3, <1>5, <2>2, <3>5
    <3>8. CountInv'
      <4>1. \A b \in Bucket : /\ uclamp_rq[id].bucket[b].tasks \in Nat
                              /\ dec.bucket[b].tasks \in Nat
        BY <1>4, <3>2 DEF Counts
      <4>2. \A b \in Bucket : /\ Holds(p, id, b) <=> uclamp_bucket_id(v) = b
                              /\ Holds(p, id, b)' <=> uclamp_bucket_id(e) = b
        BY <2>2, <3>7 DEF Holds, v
      <4> DEFINE nb == n.bucket
      <4>3. \A b \in Bucket : nb[b].tasks = uclamp_rq[id].bucket[b].tasks
                    - (IF Holds(p, id, b) THEN 1 ELSE 0)
                    + (IF Holds(p, id, b)' THEN 1 ELSE 0)
        BY <3>2, <3>4, <4>1, <4>2
      <4> HIDE DEF nb
      <4>4. \A b \in Bucket : nb[b].tasks = Cardinality(Holders(id, b)')
        <5>1. \A q \in Task \ {p} : uclamp'[q][id] = uclamp[q][id]
          BY <3>7
        <5> QED
          BY <4>3, <5>1, CountsFollow
      <4>5. ASSUME NEW i \in Id, NEW b \in Bucket
            PROVE  uclamp_rq'[i].bucket[b].tasks = Cardinality(Holders(i, b)')
        <5>1. CASE i = id
          BY <1>4, <3>5, <4>4, <5>1 DEF nb
        <5>2. CASE i # id
          <6>1. uclamp_rq'[i] = uclamp_rq[i]
            BY <1>4, <3>5, <5>2
          <6>2. Holders(i, b)' = Holders(i, b)
            BY <3>7, <5>2 DEF Holders
          <6> QED
            BY <6>1, <6>2 DEF CountInv
        <5> QED
          BY <5>1, <5>2
      <4> QED
        BY <4>5 DEF CountInv
    <3> QED
      BY <2>2, <3>6, <3>7, <3>8
  <2> QED
    BY <2>1, <2>2
<1>7. LockInv'
  BY <1>1 DEF LockInv, uclamp_enabled
<1>8. ActiveInv'
  BY <1>1, <1>6 DEF ActiveInv, Awaited, uclamp_enabled
<1>9. LimitInv'
  BY <1>1 DEF LimitInv
<1>10. ValueInv'
  <2> SUFFICES ASSUME NEW q \in Task, NEW i \in Id, uclamp'[q][i].active
               PROVE  (\/ uclamp[q][i].value = uclamp_eff_get(q, i)
                       \/ [task |-> q, id |-> i] \in todo
                       \/ /\ walk = "root" /\ group[q] = "child"
                          /\ uclamp[q][i].value = uclamp_tg_restrict(q, i))'
    BY DEF ValueInv
  <2>1. uclamp_tg_restrict(q, i)' = uclamp_tg_restrict(q, i)
    BY <1>1 DEF uclamp_tg_restrict
  <2>2. uclamp_eff_get(q, i)' = uclamp_eff_get(q, i)
    BY <1>1, <2>1 DEF uclamp_eff_get
  <2>3. CASE q = p /\ i = id
    BY <2>2, <2>3, <1>6
  <2>4. CASE ~(q = p /\ i = id)
    <3>1. uclamp'[q][i] = uclamp[q][i] /\ uclamp[q][i].active
      BY <1>6, <2>4
    <3>2. [task |-> q, id |-> i] # [task |-> p, id |-> id]
      BY <2>4
    <3>3. \/ uclamp[q][i].value = uclamp_eff_get(q, i)
          \/ [task |-> q, id |-> i] \in todo
          \/ /\ walk = "root" /\ group[q] = "child"
             /\ uclamp[q][i].value = uclamp_tg_restrict(q, i)
      BY <3>1 DEF ValueInv
    <3>4. /\ [task |-> q, id |-> i] \in todo => [task |-> q, id |-> i] \in todo'
          /\ walk' = walk /\ group' = group
      BY <3>2, <1>1
    <3> QED
      BY <3>1, <3>3, <3>4, <2>1, <2>2
  <2> QED
    BY <2>3, <2>4
<1>11. TypeOK'
  <2>1. (uclamp_req \in [Task -> [Id -> [value : Value, user_defined : BOOLEAN]]]
        /\ queued \in [Task -> BOOLEAN] /\ class \in [Task -> {"fair", "rt", "dl"}]
        /\ group \in [Task -> {"root", "child"}]
        /\ lock \in [task : Task \cup {"none"}, id : Id])'
    BY <1>1 DEF TypeOK
  <2>2. (default \in [Id -> Value] /\ tg \in [Id -> Value] /\ tg_req \in [Id -> Value]
         /\ walk \in {"none", "root", "child"} /\ todo \subseteq [task : Task, id : Id])'
    BY <1>1 DEF TypeOK
  <2> QED
    BY <1>6, <2>1, <2>2 DEF TypeOK, Counts
<1> QED
  BY <1>6, <1>7, <1>8, <1>9, <1>10, <1>11

----------------------------------------------------------------------------
(* Changes of the limits. *)

\* A change of a limit leaves the runqueue and the tasks alone.
LEMMA TasksUnchanged ==
  ASSUME IInv, UNCHANGED <<rqVars, uclamp, taskVars, lock>>
  PROVE  /\ LockInv' /\ ActiveInv' /\ CountInv'
         /\ (/\ RqType /\ ClampType
             /\ uclamp_req \in [Task -> [Id -> [value : Value, user_defined : BOOLEAN]]]
             /\ queued \in [Task -> BOOLEAN] /\ class \in [Task -> {"fair", "rt", "dl"}]
             /\ group \in [Task -> {"root", "child"}]
             /\ lock \in [task : Task \cup {"none"}, id : Id])'
<1> USE DEF IInv
<1>1. UNCHANGED <<uclamp_rq, idle, uclamp, uclamp_req, queued, class, group, lock>>
  BY DEF rqVars, taskVars
<1>2. LockInv'
  BY <1>1 DEF LockInv, uclamp_enabled
<1>3. ActiveInv'
  BY <1>1 DEF ActiveInv, Awaited, uclamp_enabled
<1>4. CountInv'
  BY <1>1 DEF CountInv, Holders
<1> QED
  BY <1>1, <1>2, <1>3, <1>4 DEF TypeOK, RqType, ClampType, Counts

\* A new default concerns the tasks of the root group at once; those of the child group
\* keep their clamps until the walk arrives there.
LEMMA SysctlInv ==
  ASSUME IInv, NEW id \in Id, NEW v \in Values, Sysctl(id, v)
  PROVE  IInv'
<1> USE DEF IInv
<1>1. /\ walk = "none" /\ default' = [default EXCEPT ![id] = v]
      /\ walk' = "root" /\ todo' = Updates("root", {id})
      /\ UNCHANGED <<tg, tg_req>>
      /\ UNCHANGED <<rqVars, uclamp, taskVars, lock>>
  BY DEF Sysctl
<1>2. UNCHANGED <<uclamp, uclamp_req, group>>
  BY <1>1 DEF taskVars
<1>3. /\ LockInv' /\ ActiveInv' /\ CountInv'
      /\ (/\ RqType /\ ClampType
          /\ uclamp_req \in [Task -> [Id -> [value : Value, user_defined : BOOLEAN]]]
          /\ queued \in [Task -> BOOLEAN] /\ class \in [Task -> {"fair", "rt", "dl"}]
          /\ group \in [Task -> {"root", "child"}]
          /\ lock \in [task : Task \cup {"none"}, id : Id])'
  BY <1>1, TasksUnchanged
<1>4. default' \in [Id -> Value] /\ \A i \in Id \ {id} : default'[i] = default[i]
  BY <1>1 DEF TypeOK
<1>5. todo' \subseteq [task : Task, id : Id]
  BY <1>1 DEF Updates
<1>6. tg' \in [Id -> Value] /\ tg_req' \in [Id -> Value] /\ walk' \in {"none", "root", "child"}
  BY <1>1 DEF TypeOK
<1>7. TypeOK'
  BY <1>3, <1>4, <1>5, <1>6 DEF TypeOK, RqType, ClampType, Counts
<1>8. LimitInv'
  BY <1>1 DEF LimitInv
<1>9. ValueInv'
  <2> SUFFICES ASSUME NEW q \in Task, NEW i \in Id, uclamp'[q][i].active
               PROVE  (\/ uclamp[q][i].value = uclamp_eff_get(q, i)
                       \/ [task |-> q, id |-> i] \in todo
                       \/ /\ walk = "root" /\ group[q] = "child"
                          /\ uclamp[q][i].value = uclamp_tg_restrict(q, i))'
    BY DEF ValueInv
  <2>1. todo = {} /\ tg[i] <= default[i]
    BY <1>1 DEF LimitInv
  <2>2. uclamp[q][i].value = uclamp_eff_get(q, i)
    BY <1>1, <1>2, <2>1 DEF ValueInv
  <2>3. uclamp_tg_restrict(q, i)' = uclamp_tg_restrict(q, i)
    BY <1>1, <1>2 DEF uclamp_tg_restrict
  <2>4. group[q] \in {"root", "child"}
    BY DEF TypeOK
  <2>5. CASE group[q] = "child"
    <3>1. uclamp_eff_get(q, i) = uclamp_tg_restrict(q, i)
      BY <2>1, <2>5, EffectiveClamp
    <3> QED
      BY <1>1, <1>2, <2>2, <2>3, <2>5, <3>1
  <2>6. CASE group[q] = "root" /\ i = id
    BY <1>1, <2>6 DEF Updates
  <2>7. CASE i # id
    <3>1. uclamp_eff_get(q, i)' = uclamp_eff_get(q, i)
      BY <1>4, <2>3, <2>7 DEF uclamp_eff_get
    <3> QED
      BY <1>2, <2>2, <3>1
  <2> QED
    BY <2>4, <2>5, <2>6, <2>7
<1> QED
  BY <1>3, <1>7, <1>8, <1>9

\* New limits of the child group: a task whose limit has changed is on the list, and a
\* limit that has not changed was already within the new default.
LEMMA UpdateGroupInv ==
  ASSUME IInv, walk = "root" \/ walk = "none", todo = {}, NEW req \in [Id -> Value],
         UpdateGroup(req), tg_req' \in [Id -> Value],
         UNCHANGED <<rqVars, uclamp, taskVars, lock, default>>
  PROVE  IInv'
<1> USE DEF IInv
<1> DEFINE eff == EffectiveClamps(req)
<1>1. tg' = eff /\ walk' = "child" /\ todo' = Updates("child", ChangedIds(eff))
  BY DEF UpdateGroup
<1>2. UNCHANGED <<uclamp, uclamp_req, group, default>>
  BY DEF taskVars
<1>3. /\ LockInv' /\ ActiveInv' /\ CountInv'
      /\ (/\ RqType /\ ClampType
          /\ uclamp_req \in [Task -> [Id -> [value : Value, user_defined : BOOLEAN]]]
          /\ queued \in [Task -> BOOLEAN] /\ class \in [Task -> {"fair", "rt", "dl"}]
          /\ group \in [Task -> {"root", "child"}]
          /\ lock \in [task : Task \cup {"none"}, id : Id])'
  BY TasksUnchanged
<1>4. default \in [Id -> Value]
  BY DEF TypeOK
<1>5. eff \in [Id -> Value] /\ \A i \in Id : eff[i] <= default[i]
  BY <1>4, GroupLimits
<1> HIDE DEF eff
<1>6. todo' \subseteq [task : Task, id : Id]
  BY <1>1 DEF Updates
<1>7. (default \in [Id -> Value] /\ tg \in [Id -> Value] /\ walk \in {"none", "root", "child"})'
  BY <1>1, <1>2, <1>4, <1>5
<1>8. TypeOK'
  BY <1>3, <1>6, <1>7 DEF TypeOK, RqType, ClampType, Counts
<1>9. LimitInv'
  BY <1>1, <1>2, <1>5 DEF LimitInv
<1>10. ValueInv'
  <2> SUFFICES ASSUME NEW q \in Task, NEW i \in Id, uclamp'[q][i].active
               PROVE  (\/ uclamp[q][i].value = uclamp_eff_get(q, i)
                       \/ [task |-> q, id |-> i] \in todo)'
    BY DEF ValueInv
  <2>1. \/ uclamp[q][i].value = uclamp_eff_get(q, i)
        \/ group[q] = "child" /\ uclamp[q][i].value = uclamp_tg_restrict(q, i)
    BY <1>2 DEF ValueInv
  <2>2. group[q] \in {"root", "child"}
    BY DEF TypeOK
  <2>3. CASE group[q] = "root"
    <3>1. uclamp_tg_restrict(q, i)' = uclamp_tg_restrict(q, i)
      BY <1>2, <2>3 DEF uclamp_tg_restrict
    <3>2. uclamp_eff_get(q, i)' = uclamp_eff_get(q, i)
      BY <1>2, <3>1 DEF uclamp_eff_get
    <3> QED
      BY <1>2, <2>1, <2>3, <3>2
  <2>4. CASE group[q] = "child" /\ eff[i] # tg[i]
    <3>1. i \in ChangedIds(eff)
      BY <2>4 DEF ChangedIds
    <3> QED
      BY <1>1, <2>4, <3>1 DEF Updates
  <2>5. CASE group[q] = "child" /\ eff[i] = tg[i]
    <3>1. uclamp_tg_restrict(q, i)' = uclamp_tg_restrict(q, i)
      BY <1>1, <1>2, <2>5 DEF uclamp_tg_restrict
    <3>2. uclamp_eff_get(q, i)' = uclamp_eff_get(q, i)
      BY <1>2, <3>1 DEF uclamp_eff_get
    <3>3. uclamp_eff_get(q, i) = uclamp_tg_restrict(q, i)
      BY <1>5, <2>5, EffectiveClamp
    <3> QED
      BY <1>2, <2>1, <3>2, <3>3
  <2> QED
    BY <2>2, <2>3, <2>4, <2>5
<1> QED
  BY <1>3, <1>8, <1>9, <1>10

\* The two changes that reach the child group, and the end of a walk.
LEMMA WalkInv ==
  ASSUME IInv,
         \/ \E id \in Id, v \in Values : cpu_uclamp_write(id, v)
         \/ WalkToChild \/ WalkEnds
  PROVE  IInv'
<1> USE DEF IInv
<1>1. ASSUME NEW id \in Id, NEW v \in Values, cpu_uclamp_write(id, v)
      PROVE  IInv'
  <2>1. /\ walk = "none" /\ tg_req' = [tg_req EXCEPT ![id] = v] /\ UpdateGroup(tg_req')
        /\ UNCHANGED <<rqVars, uclamp, taskVars, lock, default>>
    BY <1>1 DEF cpu_uclamp_write
  <2>2. tg_req' \in [Id -> Value]
    BY <2>1 DEF TypeOK
  <2>3. todo = {}
    BY <2>1 DEF LimitInv
  <2> QED
    BY <2>1, <2>2, <2>3, UpdateGroupInv
<1>2. CASE WalkToChild
  <2>1. /\ walk = "root" /\ todo = {} /\ UpdateGroup(tg_req) /\ UNCHANGED tg_req
        /\ UNCHANGED <<rqVars, uclamp, taskVars, lock, default>>
    BY <1>2 DEF WalkToChild
  <2>2. tg_req \in [Id -> Value] /\ tg_req' \in [Id -> Value]
    BY <2>1 DEF TypeOK
  <2> QED
    BY <2>1, <2>2, UpdateGroupInv
<1>3. CASE WalkEnds
  <2>1. /\ walk = "child" /\ todo = {} /\ walk' = "none" /\ UNCHANGED <<default, tg, tg_req, todo>>
        /\ UNCHANGED <<rqVars, uclamp, taskVars, lock>>
    BY <1>3 DEF WalkEnds
  <2>2. /\ LockInv' /\ ActiveInv' /\ CountInv'
        /\ (/\ RqType /\ ClampType
            /\ uclamp_req \in [Task -> [Id -> [value : Value, user_defined : BOOLEAN]]]
            /\ queued \in [Task -> BOOLEAN] /\ class \in [Task -> {"fair", "rt", "dl"}]
            /\ group \in [Task -> {"root", "child"}]
            /\ lock \in [task : Task \cup {"none"}, id : Id])'
    BY <2>1, TasksUnchanged
  <2>3. TypeOK'
    <3>1. (default \in [Id -> Value] /\ tg \in [Id -> Value] /\ tg_req \in [Id -> Value]
           /\ walk \in {"none", "root", "child"} /\ todo \subseteq [task : Task, id : Id])'
      BY <2>1 DEF TypeOK
    <3> QED
      BY <2>2, <3>1 DEF TypeOK, RqType, ClampType, Counts
  <2>4. LimitInv'
    BY <2>1 DEF LimitInv
  <2>5. ValueInv'
    <3> SUFFICES ASSUME NEW q \in Task, NEW i \in Id, uclamp'[q][i].active
                 PROVE  uclamp'[q][i].value = uclamp_eff_get(q, i)'
      BY DEF ValueInv
    <3>1. UNCHANGED <<uclamp, uclamp_req, group>>
      BY <2>1 DEF taskVars
    <3>2. uclamp[q][i].value = uclamp_eff_get(q, i)
      BY <2>1, <3>1 DEF ValueInv
    <3>3. uclamp_tg_restrict(q, i)' = uclamp_tg_restrict(q, i)
      BY <2>1, <3>1 DEF uclamp_tg_restrict
    <3>4. uclamp_eff_get(q, i)' = uclamp_eff_get(q, i)
      BY <2>1, <3>3 DEF uclamp_eff_get
    <3> QED
      BY <3>1, <3>2, <3>4
  <2> QED
    BY <2>2, <2>3, <2>4, <2>5
<1> QED
  BY <1>1, <1>2, <1>3

----------------------------------------------------------------------------
(* The theorems. *)

\* Nobody is queued when the system comes up, so nothing is counted.
LEMMA InitInv == Init => IInv
<1> SUFFICES ASSUME Init
             PROVE  IInv
  OBVIOUS
<1> USE DEF Init
<1>1. TypeOK
  <2>1. Inactive \in [Id -> [value : Value, active : BOOLEAN]]
    BY DEF Inactive
  <2>2. uclamp \in [Task -> [Id -> [value : Value, active : BOOLEAN]]]
    BY <2>1
  <2>3. uclamp_rq \in [Id -> [value : Value,
                              bucket : [Bucket -> [tasks : Nat, value : Value]]]]
    OBVIOUS
  <2>4. uclamp_req \in [Task -> [Id -> [value : Value, user_defined : BOOLEAN]]]
    BY DEF uclamp_none
  <2>5. default \in [Id -> Value] /\ tg \in [Id -> Value] /\ tg_req \in [Id -> Value]
    BY DEF uclamp_none
  <2>6. /\ lock \in [task : Task \cup {"none"}, id : Id]
        /\ idle \in BOOLEAN /\ queued \in [Task -> BOOLEAN]
        /\ class \in [Task -> {"fair", "rt", "dl"}] /\ group \in [Task -> {"root", "child"}]
        /\ walk \in {"none", "root", "child"} /\ todo \subseteq [task : Task, id : Id]
    BY DEF Free
  <2> QED
    BY <2>2, <2>3, <2>4, <2>5, <2>6 DEF TypeOK
<1>2. \A p \in Task, id \in Id : ~uclamp[p][id].active
  BY DEF Inactive
<1>3. LockInv
  BY DEF LockInv, Free
<1>4. ActiveInv
  BY <1>2 DEF ActiveInv
<1>5. CountInv
  <2>1. \A id \in Id, b \in Bucket : Holders(id, b) = {}
    BY <1>2 DEF Holders
  <2>2. \A id \in Id, b \in Bucket : uclamp_rq[id].bucket[b].tasks = 0
    OBVIOUS
  <2> QED
    BY <2>1, <2>2, FS_EmptySet DEF CountInv
<1>6. LimitInv
  BY DEF LimitInv, uclamp_none
<1>7. ValueInv
  BY <1>2 DEF ValueInv
<1> QED
  BY <1>1, <1>3, <1>4, <1>5, <1>6, <1>7 DEF IInv

\* Every step keeps the invariant.
LEMMA NextInv == IInv /\ [Next]_vars => IInv'
<1> SUFFICES ASSUME IInv, [Next]_vars
             PROVE  IInv'
  OBVIOUS
<1>1. ASSUME NEW p \in Task, TaskStep(p)
      PROVE  IInv'
  BY <1>1, EnqueueInv, DequeueInv, SetSchedulerInv, ForkInv, MoveTaskInv, UpdateActiveInv
     DEF TaskStep
<1>2. CASE RqIncId
  BY <1>2, RqIncIdInv
<1>3. ASSUME NEW id \in Id, NEW v \in Values, Sysctl(id, v)
      PROVE  IInv'
  BY <1>3, SysctlInv
<1>4. ASSUME NEW id \in Id, NEW v \in Values, cpu_uclamp_write(id, v)
      PROVE  IInv'
  BY <1>4, WalkInv
<1>5. CASE WalkToChild \/ WalkEnds
  BY <1>5, WalkInv
<1>6. CASE UNCHANGED vars
  <2>1. UNCHANGED <<uclamp_rq, idle, uclamp, uclamp_req, queued, class, group, lock,
                    default, tg, tg_req, walk, todo>>
    BY <1>6 DEF vars, rqVars, taskVars, limitVars
  <2>2. TypeOK'
    BY <2>1 DEF IInv, TypeOK
  <2>3. LockInv' /\ ActiveInv' /\ CountInv' /\ LimitInv'
    BY <2>1 DEF IInv, LockInv, ActiveInv, CountInv, LimitInv, Holders, Awaited, uclamp_enabled
  <2>4. ValueInv'
    <3>1. \A p \in Task, id \in Id : uclamp_tg_restrict(p, id)' = uclamp_tg_restrict(p, id)
      BY <2>1 DEF uclamp_tg_restrict
    <3>2. \A p \in Task, id \in Id : uclamp_eff_get(p, id)' = uclamp_eff_get(p, id)
      BY <2>1, <3>1 DEF uclamp_eff_get
    <3>3. ValueInv
      BY DEF IInv
    <3> QED
      BY ONLY <2>1, <3>1, <3>2, <3>3 DEF ValueInv
  <2> QED
    BY <2>2, <2>3, <2>4 DEF IInv
<1> QED
  BY <1>1, <1>2, <1>3, <1>4, <1>5, <1>6 DEF Next

\* The strengthened invariant of utilisation clamps holds in every reachable state: the
\* counts are exact even in the middle of an enqueue, and every clamp that is not up to
\* date is accounted for by the walk (core.c:944-1279).
THEOREM UclampInvariance == Spec => []IInv
<1> QED
  BY InitInv, NextInv, PTL DEF Spec

\* All variables keep their types; in particular a runqueue's clamp is always a value
\* within the scale (core.c:887-1048).
THEOREM UclampTypes == Spec => []TypeOK
<1>1. IInv => TypeOK
  BY DEF IInv
<1> QED
  BY <1>1, UclampInvariance, PTL

\* With the rq lock free every bucket counts exactly the runnable clamped tasks in it,
\* so the SCHED_WARN_ON(!bucket->tasks) of uclamp_rq_dec_id() never fires, however
\* class changes, forks, moves and limit changes mix (core.c:944-1018).  ScaleAssumption
\* excludes the numbers of buckets for which uclamp_bucket_id() leaves the array.
THEOREM RefcountsExact == Spec => []RefcountExact
<1>1. IInv => RefcountExact
  <2> SUFFICES ASSUME IInv, lock = Free
               PROVE  RefcountExact
    BY DEF RefcountExact
  <2>1. \A p \in Task : lock.task # p
    BY DEF Free
  <2> QED
    BY <2>1 DEF IInv, ActiveInv, CountInv, Awaited, RefcountExact
<1> QED
  BY <1>1, UclampInvariance, PTL

\* When a change of a default or of a group's limit has returned, every runnable task
\* has the clamp that the limits now give it: "Immediately update descendants RUNNABLE
\* tasks" (core.c:7377), although the updates and enqueues interleave.
THEOREM LimitsReachTasks == Spec => []UpToDate
<1>1. IInv => UpToDate
  <2> SUFFICES ASSUME IInv, walk = "none", NEW p \in Task, NEW id \in Id,
                      uclamp[p][id].active
               PROVE  uclamp[p][id].value = uclamp_eff_get(p, id)
    BY DEF UpToDate
  <2>1. todo = {}
    BY DEF IInv, LimitInv
  <2> QED
    BY <2>1 DEF IInv, ValueInv
<1> QED
  BY <1>1, UclampInvariance, PTL

=============================================================================
