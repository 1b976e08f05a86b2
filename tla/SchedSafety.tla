---------------------------- MODULE SchedSafety ----------------------------
(***************************************************************************)
(* What the scheduling core promises to the tasks it runs: wakeups are not *)
(* lost, nobody resumes asleep, the last reference is dropped once, and    *)
(* nr_iowait, nr_uninterruptible and process_switches_count are exact;     *)
(* with TTWU_QUEUE off, affinity masks are honoured; and what              *)
(* wait_task_inactive() (TaskWait) may conclude from nvcsw.  Each          *)
(* invariant used here is inductive given IndInv, which SchedProofs shows  *)
(* to be invariant; only the actions that write a variable of an invariant *)
(* have a step in its proof.                                               *)
(*                                                                         *)
(* The first sections are about the answers that need no scheduler (see    *)
(* Observed): values read back from the files of a group (Conversions),    *)
(* and physical addresses (PhysAddr).                                      *)
(***************************************************************************)
EXTENDS SchedProofs, Observed, WellFoundedInduction

(***************************************************************************)
(* Numbers.                                                                *)
(***************************************************************************)

\* A set of naturals that is not empty has a least element.
LEMMA LeastNatural ==
  ASSUME NEW S \in SUBSET Nat, S # {}
  PROVE  \E x \in S : \A y \in S : x <= y
<1> DEFINE R == {ss \in Nat \X Nat : ss[1] < ss[2]}
<1>1. IsWellFoundedOn(R, Nat)
  BY NatLessThanWellFounded, Zenon DEF OpToRel
<1> HIDE DEF R
<1>2. PICK x \in S : \A y \in S : ~(<<y, x>> \in R)
  BY <1>1, WFMin
<1>3. \A y \in S : ~(y < x)
  BY <1>2 DEF R
<1> QED
  BY <1>3

\* Products with a positive factor are ordered as the other factors are.
LEMMA MulMono ==
  ASSUME NEW x \in Int, NEW y \in Int, NEW d \in Int, d > 0, x <= y
  PROVE  x * d <= y * d
  BY SMT

\* A larger factor makes the product larger by the other one at least.
LEMMA MulStep ==
  ASSUME NEW x \in Int, NEW y \in Int, NEW d \in Int, d > 0, x < y
  PROVE  x * d + d <= y * d
<1>1. (x + 1) * d <= y * d
  BY MulMono
<1>2. (x + 1) * d = x * d + d
  BY SMT
<1> QED
  BY <1>1, <1>2

\* Quotient and remainder.
LEMMA Division ==
  ASSUME NEW a \in Int, NEW d \in Int, d > 0
  PROVE  /\ a \div d \in Int /\ a % d \in Int
         /\ a = (a \div d) * d + (a % d)
         /\ 0 <= a % d /\ a % d < d
  BY SMT

\* A product of integers is one.
LEMMA MulType ==
  ASSUME NEW x \in Int, NEW y \in Int
  PROVE  x * y \in Int
  BY SMT

\* There is one quotient and one remainder.
LEMMA DivUnique ==
  ASSUME NEW a \in Int, NEW d \in Int, d > 0, NEW q \in Int, NEW r \in Int,
         a = q * d + r, 0 <= r, r < d
  PROVE  a \div d = q /\ a % d = r
<1> DEFINE p == a \div d
           s == a % d
<1>1. p \in Int /\ s \in Int /\ a = p * d + s /\ 0 <= s /\ s < d
  BY Division
<1> HIDE DEF p, s
<1>2. PICK pd \in Int, qd \in Int : pd = p * d /\ qd = q * d
  BY <1>1, MulType
<1>3. a = pd + s /\ a = qd + r
  BY <1>1, <1>2
<1>4. ~(p < q)
  <2> SUFFICES ASSUME p < q PROVE FALSE
    OBVIOUS
  <2>1. pd + d <= qd
    BY <1>1, <1>2, MulStep
  <2> QED
    BY <1>1, <1>2, <1>3, <2>1
<1>5. ~(q < p)
  <2> SUFFICES ASSUME q < p PROVE FALSE
    OBVIOUS
  <2>1. qd + d <= pd
    BY <1>1, <1>2, MulStep
  <2> QED
    BY <1>1, <1>2, <1>3, <2>1
<1>6. p = q
  BY <1>1, <1>4, <1>5
<1> QED
  BY <1>1, <1>2, <1>3, <1>6 DEF p, s

\* Dividing twice is dividing by the product.
LEMMA DivDiv ==
  ASSUME NEW a \in Int, NEW d \in Int, d > 0, NEW e \in Int, e > 0
  PROVE  /\ d * e \in Int /\ d * e > 0
         /\ a \div (d * e) = (a \div d) \div e
<1> DEFINE x == a \div d
           r == a % d
           q == x \div e
           u == x % e
<1>1. x \in Int /\ r \in Int /\ a = x * d + r /\ 0 <= r /\ r < d
  BY Division
<1> HIDE DEF x, r
<1>2. q \in Int /\ u \in Int /\ x = q * e + u /\ 0 <= u /\ u < e
  BY <1>1, Division
<1> HIDE DEF q, u
<1>3. d * e \in Int /\ d * e > 0
  BY SMT
<1>4. x * d = q * (d * e) + u * d
  BY <1>2, SMT
<1>5. u * d \in Int /\ 0 <= u * d /\ u * d + d <= e * d /\ e * d = d * e
  <2>1. 0 * d <= u * d
    BY <1>2, MulMono
  <2>2. u * d + d <= e * d
    BY <1>2, MulStep
  <2> QED
    BY <1>2, <2>1, <2>2, SMT
<1>6. PICK D \in Int, w \in Int, qD \in Int : D = d * e /\ w = u * d /\ qD = q * D
  BY <1>2, <1>3, <1>5, MulType
<1>7. w + r \in Int /\ 0 <= w + r /\ w + r < D
  BY <1>1, <1>3, <1>5, <1>6
<1>8. a = q * D + (w + r)
  <2>1. a = x * d + r /\ x * d = q * D + w
    BY <1>1, <1>4, <1>6
  <2>2. PICK xd \in Int : xd = x * d
    BY <1>1, MulType
  <2>3. a = xd + r /\ xd = qD + w
    BY <1>6, <2>1, <2>2
  <2>4. r \in Int /\ qD = q * D
    BY <1>1, <1>6
  <2>5. a = qD + (w + r)
    BY <2>3, <2>4
  <2> QED
    BY <2>4, <2>5
<1>9. D > 0
  BY <1>3, <1>6
<1>10. a \div D = q
  <2>1. PICK z \in Int : z = w + r
    BY <1>7
  <2>2. 0 <= z /\ z < D /\ a = q * D + z
    BY <1>7, <1>8, <2>1
  <2>3. q \in Int
    BY <1>2
  <2> QED
    BY <1>9, <2>2, <2>3, DivUnique
<1> QED
  BY <1>3, <1>6, <1>10 DEF q, x

\* A bound of the quotient.
LEMMA DivBound ==
  ASSUME NEW a \in Int, NEW c \in Int, NEW d \in Int, d > 0, 0 <= a, a < c * d
  PROVE  a \div d \in Int /\ 0 <= a \div d /\ a \div d < c
<1> DEFINE q == a \div d
<1>1. PICK r \in Int : q \in Int /\ a = q * d + r /\ 0 <= r /\ r < d
  BY Division
<1> HIDE DEF q
<1>2. PICK qd \in Int, cd \in Int : qd = q * d /\ cd = c * d
  BY <1>1, MulType
<1>3. a = qd + r /\ a < cd
  BY <1>1, <1>2
<1>4. ~(c <= q)
  <2> SUFFICES ASSUME c <= q PROVE FALSE
    OBVIOUS
  <2>1. cd <= qd
    BY <1>1, <1>2, MulMono
  <2> QED
    BY <1>1, <1>3, <2>1
<1>5. ~(q < 0)
  <2> SUFFICES ASSUME q < 0 PROVE FALSE
    OBVIOUS
  <2>1. q * d + d <= 0 * d
    BY <1>1, MulStep
  <2>2. qd + d <= 0
    BY <1>2, <2>1
  <2> QED
    BY <1>1, <1>3, <2>2
<1> QED
  BY <1>1, <1>4, <1>5 DEF q

\* What is below the divisor is its own remainder.
LEMMA SmallMod ==
  ASSUME NEW a \in Int, NEW d \in Int, 0 <= a, a < d
  PROVE  a % d = a
<1>1. a = 0 * d + a /\ d > 0
  OBVIOUS
<1> QED
  BY <1>1, DivUnique

(***************************************************************************)
(* The files of a group (Conversions).                                     *)
(***************************************************************************)

\* The table of weights has an entry for each nice value.
LEMMA TableLen == Len(sched_prio_to_weight) = 40
  BY SMT DEF sched_prio_to_weight

\* Its entries are numbers.
LEMMA TableInt == \A i \in 1..40 : sched_prio_to_weight[i] \in Int
  BY SMT DEF sched_prio_to_weight

\* The heaviest and the lightest.
LEMMA TableEnds == sched_prio_to_weight[1] = 88761 /\ sched_prio_to_weight[40] = 15
  BY SMT DEF sched_prio_to_weight

\* Every entry is heavier than the next.
LEMMA TableFalls ==
  \A i \in 1..39 : sched_prio_to_weight[i + 1] < sched_prio_to_weight[i]
  BY SMT DEF sched_prio_to_weight

\* The weights fall along the table.
LEMMA TableDecreases ==
  ASSUME NEW i \in Int, NEW j \in Int, 1 <= i, i < j, j <= 40
  PROVE  sched_prio_to_weight[j] < sched_prio_to_weight[i]
<1> DEFINE Bad == {k \in 1..40 : i < k /\ ~(sched_prio_to_weight[k] < sched_prio_to_weight[i])}
<1> SUFFICES ASSUME Bad # {} PROVE FALSE
  OBVIOUS
<1>1. Bad \in SUBSET Nat
  OBVIOUS
<1> HIDE DEF Bad
<1>2. PICK k \in Bad : \A y \in Bad : k <= y
  BY <1>1, LeastNatural
<1>3. k \in 1..40 /\ i < k /\ ~(sched_prio_to_weight[k] < sched_prio_to_weight[i])
  BY <1>2 DEF Bad
<1>4. k - 1 \in 1..39 /\ k - 1 \in 1..40 /\ (k - 1) + 1 = k /\ k - 1 \notin Bad
  BY <1>2, <1>3
<1>5. sched_prio_to_weight[k] < sched_prio_to_weight[k - 1]
  BY <1>4, TableFalls, SMT
<1>6. k - 1 = i \/ sched_prio_to_weight[k - 1] < sched_prio_to_weight[i]
  BY <1>3, <1>4, SMT DEF Bad
<1> QED
  BY <1>3, <1>4, <1>5, <1>6, TableInt, SMT

\* Every weight of the table is between the bounds of the shares.
LEMMA TableRange ==
  ASSUME NEW i \in 1..40
  PROVE  /\ sched_prio_to_weight[i] \in Int
         /\ 2 <= sched_prio_to_weight[i] /\ sched_prio_to_weight[i] <= 88761
<1>1. sched_prio_to_weight[i] \in Int
  BY TableInt
<1>2. i = 1 \/ sched_prio_to_weight[i] < sched_prio_to_weight[1]
  <2>1. i \in Int /\ (i = 1 \/ 1 < i) /\ i <= 40
    OBVIOUS
  <2> QED
    BY <2>1, TableDecreases, SMT
<1>3. i = 40 \/ sched_prio_to_weight[40] < sched_prio_to_weight[i]
  <2>1. i \in Int /\ (i = 40 \/ i < 40) /\ 1 <= i
    OBVIOUS
  <2> QED
    BY <2>1, TableDecreases, SMT
<1> QED
  BY <1>1, <1>2, <1>3, TableEnds, SMT

\* The distance of an entry of the table from a weight.
LEMMA DeltaIs ==
  ASSUME NEW i \in 1..40, NEW w \in Int
  PROVE  /\ delta(i, w) \in Nat
         /\ w <= sched_prio_to_weight[i] => delta(i, w) = sched_prio_to_weight[i] - w
         /\ sched_prio_to_weight[i] <= w => delta(i, w) = w - sched_prio_to_weight[i]
<1>1. sched_prio_to_weight[i] \in Int
  BY TableInt
<1> QED
  BY <1>1, SMT DEF delta

\* Where the loop of cpu_weight_nice_read() stops.
LEMMA NiceLoop ==
  ASSUME NEW w \in Int
  PROVE  LET ends == {i \in 2..40 : delta(i, w) >= delta(i - 1, w)} \cup {41}
         IN  /\ Min(ends) \in 2..41
             /\ \A i \in 2..(Min(ends) - 1) : delta(i, w) < delta(i - 1, w)
             /\ Min(ends) # 41 => delta(Min(ends), w) >= delta(Min(ends) - 1, w)
<1> DEFINE ends == {i \in 2..40 : delta(i, w) >= delta(i - 1, w)} \cup {41}
           P(x) == x \in ends /\ \A y \in ends : x <= y
<1>1. ends \in SUBSET Nat /\ ends # {} /\ ends \in SUBSET (2..41)
  OBVIOUS
<1> HIDE DEF ends
<1>2. \E x : P(x)
  BY <1>1, LeastNatural
<1>3. Min(ends) = CHOOSE x : P(x)
  BY Zenon DEF Min
<1>4. P(Min(ends))
  <2> HIDE DEF P
  <2> QED
    BY <1>2, <1>3
<1>5. Min(ends) \in 2..41
  BY <1>1, <1>4
<1>6. ASSUME NEW i \in 2..(Min(ends) - 1)
      PROVE  delta(i, w) < delta(i - 1, w)
  <2>1. i \in 2..40 /\ i \notin ends /\ i \in 1..40 /\ i - 1 \in 1..40
    BY <1>4, <1>5
  <2>2. delta(i, w) \in Nat /\ delta(i - 1, w) \in Nat
    BY <2>1, DeltaIs
  <2>3. ~(delta(i, w) >= delta(i - 1, w))
    BY <2>1 DEF ends
  <2> QED
    BY <2>2, <2>3
<1>7. Min(ends) # 41 => delta(Min(ends), w) >= delta(Min(ends) - 1, w)
  BY <1>4 DEF ends
<1> QED
  BY <1>5, <1>6, <1>7 DEF ends

\* The entry at which the loop stops is closest to the weight.
LEMMA NiceClosest ==
  ASSUME NEW shares, scale_load_down(shares) \in Int
  PROVE  LET here == cpu_weight_nice_read(shares) - MIN_NICE + 1
         IN  /\ here \in 1..40
             /\ cpu_weight_nice_read(shares) = here + MIN_NICE - 1
             /\ \A i \in 1..40 :
                   delta(here, scale_load_down(shares)) <= delta(i, scale_load_down(shares))
<1> DEFINE w == scale_load_down(shares)
           ends == {i \in 2..40 : delta(i, w) >= delta(i - 1, w)} \cup {41}
<1>1. cpu_weight_nice_read(shares) = Min(ends) - 2 + MIN_NICE
  BY TableLen, 40 + 1 = 41, SMT DEF cpu_weight_nice_read
<1>2. w \in Int
  OBVIOUS
<1> HIDE DEF w
<1>3. /\ Min(ends) \in 2..41
      /\ \A i \in 2..(Min(ends) - 1) : delta(i, w) < delta(i - 1, w)
      /\ Min(ends) # 41 => delta(Min(ends), w) >= delta(Min(ends) - 1, w)
  BY <1>2, NiceLoop
<1> HIDE DEF ends
<1>4. PICK here \in 1..40 : here = Min(ends) - 1
  BY <1>3
<1>5. /\ here >= 2 => delta(here, w) < delta(here - 1, w)
      /\ here # 40 => delta(here + 1, w) >= delta(here, w)
  BY <1>3, <1>4
<1>6. ASSUME NEW i \in 1..40
      PROVE  delta(here, w) <= delta(i, w)
  <2> DEFINE t == sched_prio_to_weight
  <2>1. t[i] \in Int /\ t[here] \in Int /\ delta(i, w) \in Nat /\ delta(here, w) \in Nat
    BY <1>2, TableInt, DeltaIs
  <2>2. CASE i < here
    <3>1. here - 1 \in 1..40 /\ here >= 2
      BY <2>2
    <3>2. t[here - 1] \in Int /\ t[here] < t[here - 1] /\ (i = here - 1 \/ t[here - 1] < t[i])
      <4>1. PICK g \in Int : g = here - 1 /\ 1 <= i /\ i <= g /\ g < here /\ here <= 40
        BY <2>2, <3>1
      <4>2. i \in Int /\ here \in Int
        OBVIOUS
      <4>3. t[g] \in Int
        BY <3>1, <4>1, TableInt
      <4>4. t[here] < t[g]
        BY <4>1, <4>2, TableDecreases
      <4>5. i = g \/ t[g] < t[i]
        <5> SUFFICES ASSUME i # g PROVE t[g] < t[i]
          OBVIOUS
        <5>1. i < g /\ g <= 40
          BY <4>1, <4>2
        <5> QED
          BY <4>1, <4>2, <5>1, TableDecreases
      <4> QED
        BY <4>1, <4>3, <4>4, <4>5
    <3>3. delta(here, w) < delta(here - 1, w)
      BY <1>5, <3>1
    <3>4. w < t[here - 1]
      <4> SUFFICES ASSUME t[here - 1] <= w PROVE FALSE
        BY <1>2, <3>2
      <4>1. t[here - 1] <= w /\ t[here] <= w
        BY <1>2, <2>1, <3>2
      <4>2. delta(here - 1, w) = w - t[here - 1]
        BY <1>2, <3>1, <4>1, DeltaIs
      <4>3. delta(here, w) = w - t[here]
        BY <1>2, <4>1, DeltaIs
      <4> QED
        BY <1>2, <2>1, <3>2, <3>3, <4>2, <4>3
    <3>5. w <= t[here - 1] /\ w <= t[i]
      BY <1>2, <2>1, <3>2, <3>4
    <3>6. delta(here - 1, w) = t[here - 1] - w
      BY <1>2, <3>1, <3>5, DeltaIs
    <3>7. delta(i, w) = t[i] - w
      BY <1>2, <3>5, DeltaIs
    <3> QED
      BY <1>2, <2>1, <3>2, <3>3, <3>6, <3>7
  <2>3. CASE i > here
    <3>1. here + 1 \in 1..40 /\ here # 40
      BY <2>3
    <3>2. t[here + 1] \in Int /\ t[here + 1] < t[here] /\ (i = here + 1 \/ t[i] < t[here + 1])
      <4>1. PICK g \in Int : g = here + 1 /\ 1 <= here /\ here < g /\ g <= i /\ i <= 40
        BY <2>3, <3>1
      <4>2. i \in Int /\ here \in Int
        OBVIOUS
      <4>3. t[g] \in Int
        BY <3>1, <4>1, TableInt
      <4>4. t[g] < t[here]
        <5>1. g <= 40
          BY <4>1, <4>2
        <5> QED
          BY <4>1, <4>2, <5>1, TableDecreases
      <4>5. i = g \/ t[i] < t[g]
        <5> SUFFICES ASSUME i # g PROVE t[i] < t[g]
          OBVIOUS
        <5>1. g < i /\ 1 <= g
          BY <4>1, <4>2
        <5> QED
          BY <4>1, <4>2, <5>1, TableDecreases
      <4> QED
        BY <4>1, <4>3, <4>4, <4>5
    <3>3. delta(here + 1, w) >= delta(here, w)
      BY <1>5, <3>1
    <3>4. t[here + 1] < w
      <4> SUFFICES ASSUME w <= t[here + 1] PROVE FALSE
        BY <1>2, <3>2
      <4>1. w <= t[here + 1] /\ w <= t[here]
        BY <1>2, <2>1, <3>2
      <4>2. delta(here + 1, w) = t[here + 1] - w
        BY <1>2, <3>1, <4>1, DeltaIs
      <4>3. delta(here, w) = t[here] - w
        BY <1>2, <4>1, DeltaIs
      <4> QED
        BY <1>2, <2>1, <3>2, <3>3, <4>2, <4>3
    <3>5. t[here + 1] <= w /\ t[i] <= w
      BY <1>2, <2>1, <3>2, <3>4
    <3>6. delta(here + 1, w) = w - t[here + 1]
      BY <1>2, <3>1, <3>5, DeltaIs
    <3>7. delta(i, w) = w - t[i]
      BY <1>2, <3>5, DeltaIs
    <3> QED
      BY <1>2, <2>1, <3>2, <3>3, <3>6, <3>7
  <2> QED
    BY <2>1, <2>2, <2>3
<1>7. cpu_weight_nice_read(shares) - MIN_NICE + 1 = here
  BY <1>1, <1>3, <1>4 DEF MIN_NICE
<1>8. cpu_weight_nice_read(shares) = here + MIN_NICE - 1
  BY <1>1, <1>3, <1>4 DEF MIN_NICE
<1> QED
  BY <1>6, <1>7, <1>8 DEF w

\* The larger of two.
LEMMA MaxOfTwo ==
  ASSUME NEW x \in Int, NEW y \in Int
  PROVE  Max({x, y}) = IF x >= y THEN x ELSE y
<1> DEFINE P(z) == z \in {x, y} /\ \A w \in {x, y} : z >= w
<1>1. \E z : P(z)
  <2>1. CASE x >= y
    BY <2>1
  <2>2. CASE y >= x
    BY <2>2
  <2> QED
    BY <2>1, <2>2
<1>2. P(Max({x, y}))
  <2>1. Max({x, y}) = CHOOSE z : P(z)
    BY Zenon DEF Max
  <2> HIDE DEF P
  <2> QED
    BY <1>1, <2>1
<1> QED
  BY <1>2

\* The smaller of two.
LEMMA MinOfTwo ==
  ASSUME NEW x \in Int, NEW y \in Int
  PROVE  Min({x, y}) = IF x <= y THEN x ELSE y
<1> DEFINE P(z) == z \in {x, y} /\ \A w \in {x, y} : z <= w
<1>1. \E z : P(z)
  <2>1. CASE x <= y
    BY <2>1
  <2>2. CASE y <= x
    BY <2>2
  <2> QED
    BY <2>1, <2>2
<1>2. P(Min({x, y}))
  <2>1. Min({x, y}) = CHOOSE z : P(z)
    BY Zenon DEF Min
  <2> HIDE DEF P
  <2> QED
    BY <1>1, <2>1
<1> QED
  BY <1>2

\* The constants of the bounds.
LEMMA ShareBounds == MAX_SHARES \in Int /\ MAX_SHARES >= 102400 /\ MIN_SHARES = 2
<1>1. MAX_SHARES = 2^18
  BY DEF MAX_SHARES
<1> QED
  BY <1>1 DEF MIN_SHARES

\* The scaling is exact.
LEMMA ScaleDown ==
  ASSUME NEW s \in Int, 2 <= s
  PROVE  scale_load_down(scale_load(s)) = s
<1>1. PICK w \in Int : w = scale_load(s)
  BY SMT DEF scale_load
<1>2. w # 0 /\ w \div 1024 = s
  BY <1>1, SMT DEF scale_load
<1>3. scale_load_down(w) = Max({2, s})
  BY <1>2, SMT DEF scale_load_down
<1>4. Max({2, s}) = s
  BY MaxOfTwo, SMT
<1> QED
  BY <1>1, <1>3, <1>4

\* Shares within the bounds are kept as they are, others are cut to them.
LEMMA SharesCut ==
  ASSUME NEW v \in Int
  PROVE  \E s \in MIN_SHARES .. MAX_SHARES :
            /\ sched_group_set_shares(scale_load(v)) = scale_load(s)
            /\ v \in MIN_SHARES .. MAX_SHARES => s = v
<1> USE ShareBounds
<1>1. PICK w \in Int, lo \in Int, hi \in Int :
        w = scale_load(v) /\ lo = scale_load(MIN_SHARES) /\ hi = scale_load(MAX_SHARES)
  BY SMT DEF scale_load
<1>2. /\ v <= MIN_SHARES => w <= lo
      /\ v >= MIN_SHARES => w >= lo
      /\ v <= MAX_SHARES => w <= hi
      /\ v >= MAX_SHARES => w >= hi
      /\ lo < hi
  BY <1>1, SMT DEF scale_load
<1>3. Max({w, lo}) = IF w >= lo THEN w ELSE lo
  BY MaxOfTwo
<1>4. CASE v < MIN_SHARES
  <2>1. w # lo => Max({w, lo}) = lo
    BY <1>2, <1>3, <1>4, SMT
  <2>2. Max({w, lo}) = lo
    BY <1>3, <2>1, SMT
  <2>3. Min({lo, hi}) = lo
    BY <1>2, MinOfTwo, SMT
  <2>4. sched_group_set_shares(w) = lo
    BY <1>1, <2>2, <2>3 DEF sched_group_set_shares
  <2> QED
    BY <1>1, <1>4, <2>4, SMT
<1>5. CASE v \in MIN_SHARES .. MAX_SHARES
  <2>1. Max({w, lo}) = w
    BY <1>2, <1>3, <1>5, SMT
  <2>2. Min({w, hi}) = w
    BY <1>2, <1>5, MinOfTwo, SMT
  <2>3. sched_group_set_shares(w) = w
    BY <1>1, <2>1, <2>2 DEF sched_group_set_shares
  <2> QED
    BY <1>1, <1>5, <2>3
<1>6. CASE v > MAX_SHARES
  <2>1. Max({w, lo}) = w
    BY <1>2, <1>3, <1>6, SMT
  <2>2. Min({w, hi}) = hi
    <3>1. Min({w, hi}) = IF w <= hi THEN w ELSE hi
      BY MinOfTwo
    <3> QED
      BY <1>2, <1>6, <3>1, SMT
  <2>3. sched_group_set_shares(w) = hi
    BY <1>1, <2>1, <2>2 DEF sched_group_set_shares
  <2> QED
    BY <1>1, <1>6, <2>3, SMT
<1> QED
  BY <1>4, <1>5, <1>6, SMT

\* Rounding to shares and back is exact for weights, as one unit of a weight is more than
\* ten of the shares.
LEMMA WeightRange ==
  ASSUME NEW v \in Int, 1 <= v, v <= 10000
  PROVE  /\ DIV_ROUND_CLOSEST(v * 1024, 100) \in MIN_SHARES .. MAX_SHARES
         /\ DIV_ROUND_CLOSEST(DIV_ROUND_CLOSEST(v * 1024, 100) * 100, 1024) = v
<1>1. DIV_ROUND_CLOSEST(v * 1024, 100) = (v * 1024 + 50) \div 100
  BY SMT DEF DIV_ROUND_CLOSEST
<1>2. PICK s \in Int : s = (v * 1024 + 50) \div 100
  BY SMT
<1>3. 100 * s <= v * 1024 + 50 /\ v * 1024 + 50 < 100 * s + 100
  BY <1>2, SMT
<1>4. 2 <= s
  BY <1>3, SMT
<1>5. s <= MAX_SHARES
  BY <1>3, ShareBounds, SMT
<1>6. (s * 100 + 512) \div 1024 = v
  BY <1>3, SMT
<1>7. DIV_ROUND_CLOSEST(s * 100, 1024) = (s * 100 + 512) \div 1024
  BY SMT DEF DIV_ROUND_CLOSEST
<1>8. s \in MIN_SHARES .. MAX_SHARES
  BY <1>4, <1>5, ShareBounds, SMT
<1> QED
  BY <1>1, <1>2, <1>6, <1>7, <1>8, SMT


\* The bounds of a weight.
LEMMA WeightBounds ==
  /\ CGROUP_WEIGHT_MIN \in Int /\ CGROUP_WEIGHT_MAX \in Int
  /\ 1 <= CGROUP_WEIGHT_MIN /\ CGROUP_WEIGHT_MAX <= 10000
  BY SMT DEF CGROUP_WEIGHT_MIN, CGROUP_WEIGHT_MAX

\* Whatever is written to a file of the group, its shares are between the bounds; a
\* value that the file can hold gives exactly the shares it stands for.
LEMMA SharesWritten ==
  ASSUME input.value \in Int
  PROVE  \E s \in MIN_SHARES .. MAX_SHARES :
            /\ Shares = scale_load(s)
            /\ input.file = "weight" /\ input.value \in CGROUP_WEIGHT_MIN .. CGROUP_WEIGHT_MAX
                 => s = DIV_ROUND_CLOSEST(input.value * 1024, 100)
            /\ input.file = "nice" /\ input.value \in MIN_NICE .. MAX_NICE
                 => s = sched_prio_to_weight[input.value - MIN_NICE + 1]
            /\ input.file = "shares" /\ input.value \in MIN_SHARES .. MAX_SHARES
                 => s = input.value
<1>1. CASE input.file = "weight" /\ input.value \in CGROUP_WEIGHT_MIN .. CGROUP_WEIGHT_MAX
  <2>1. 1 <= input.value /\ input.value <= 10000
    BY <1>1, WeightBounds, SMT
  <2>2. PICK v \in MIN_SHARES .. MAX_SHARES : v = DIV_ROUND_CLOSEST(input.value * 1024, 100)
    BY <2>1, WeightRange, SMT
  <2>3. Shares = sched_group_set_shares(scale_load(v))
    BY <1>1, <2>2, SMT DEF Shares, cpu_weight_write, CGROUP_WEIGHT_DFL
  <2>4. Shares = scale_load(v)
    BY <2>2, <2>3, ShareBounds, SharesCut
  <2> QED
    BY <1>1, <2>2, <2>4
<1>2. CASE input.file = "nice" /\ input.value \in MIN_NICE .. MAX_NICE
  <2>1. input.value - MIN_NICE + 1 \in 1..40
    BY <1>2, SMT DEF MIN_NICE, MAX_NICE
  <2>2. PICK v \in Int : v = sched_prio_to_weight[input.value - MIN_NICE + 1]
    BY <2>1, TableInt
  <2>3. v \in MIN_SHARES .. MAX_SHARES
    BY <2>1, <2>2, TableRange, ShareBounds, SMT
  <2>4. Shares = sched_group_set_shares(scale_load(v))
    BY <1>2, <2>2, Zenon DEF Shares, cpu_weight_nice_write
  <2>5. Shares = scale_load(v)
    BY <2>3, <2>4, SharesCut
  <2> QED
    BY <1>2, <2>2, <2>3, <2>5
<1>3. CASE /\ input.file = "weight" /\ input.value \notin CGROUP_WEIGHT_MIN .. CGROUP_WEIGHT_MAX
  <2>1. Shares = scale_load(1024)
    BY <1>3, SMT DEF Shares, cpu_weight_write, root_task_group_load
  <2> QED
    BY <1>3, <2>1, ShareBounds, SMT
<1>4. CASE /\ input.file = "nice" /\ input.value \notin MIN_NICE .. MAX_NICE
  <2>1. Shares = scale_load(1024)
    BY <1>4, SMT DEF Shares, cpu_weight_nice_write, root_task_group_load
  <2> QED
    BY <1>4, <2>1, ShareBounds, SMT
<1>5. CASE input.file \notin {"weight", "nice"}
  <2>1. Shares = sched_group_set_shares(scale_load(input.value))
    BY <1>5 DEF Shares, cpu_shares_write
  <2> QED
    BY <1>5, <2>1, SharesCut
<1> QED
  BY <1>1, <1>2, <1>3, <1>4, <1>5, Zenon

\* FilesRoundTrip holds whatever number is written.
LEMMA FilesAnswer ==
  ASSUME input.value \in Int
  PROVE  FilesRoundTrip
<1>1. PICK s \in MIN_SHARES .. MAX_SHARES :
        /\ Shares = scale_load(s)
        /\ input.file = "weight" /\ input.value \in CGROUP_WEIGHT_MIN .. CGROUP_WEIGHT_MAX
             => s = DIV_ROUND_CLOSEST(input.value * 1024, 100)
        /\ input.file = "nice" /\ input.value \in MIN_NICE .. MAX_NICE
             => s = sched_prio_to_weight[input.value - MIN_NICE + 1]
        /\ input.file = "shares" /\ input.value \in MIN_SHARES .. MAX_SHARES
             => s = input.value
  BY SharesWritten
<1>2. s \in Int /\ 2 <= s
  BY ShareBounds
<1>3. scale_load_down(Shares) = s
  BY <1>1, <1>2, ScaleDown
<1>4. PICK here \in 1..40 :
        /\ here = cpu_weight_nice_read(Shares) - MIN_NICE + 1
        /\ cpu_weight_nice_read(Shares) = here + MIN_NICE - 1
        /\ \A i \in 1..40 : delta(here, s) <= delta(i, s)
  BY <1>2, <1>3, NiceClosest
<1>5. ASSUME input.file = "weight", input.value \in CGROUP_WEIGHT_MIN .. CGROUP_WEIGHT_MAX
      PROVE  cpu_weight_read(Shares) = input.value
  <2>1. cpu_weight_read(Shares) = DIV_ROUND_CLOSEST(s * 100, 1024)
    BY <1>3, SMT DEF cpu_weight_read, CGROUP_WEIGHT_DFL
  <2>2. s = DIV_ROUND_CLOSEST(input.value * 1024, 100)
    BY <1>1, <1>5
  <2>3. 1 <= input.value /\ input.value <= 10000
    BY <1>5, WeightBounds, SMT
  <2> QED
    BY <2>1, <2>2, <2>3, WeightRange
<1>6. ASSUME input.file = "nice", input.value \in MIN_NICE .. MAX_NICE
      PROVE  cpu_weight_nice_read(Shares) = input.value
  <2>1. PICK k \in 1..40 : k = input.value - MIN_NICE + 1
    BY <1>6, SMT DEF MIN_NICE, MAX_NICE
  <2>2. sched_prio_to_weight[k] = s /\ sched_prio_to_weight[here] \in Int
    BY <1>1, <1>6, <2>1, TableInt
  <2>3. delta(k, s) = 0
    BY <1>2, <2>2, s - s = 0, SMT DEF delta
  <2>4. delta(here, s) = 0
    <3>1. delta(here, s) \in Nat /\ delta(here, s) <= delta(k, s)
      BY <1>2, <1>4, DeltaIs
    <3> QED
      BY <2>3, <3>1, SMT
  <2>5. sched_prio_to_weight[here] = s
    <3>1. \/ delta(here, s) = sched_prio_to_weight[here] - s
          \/ delta(here, s) = s - sched_prio_to_weight[here]
      BY <1>2, <2>2, SMT DEF delta
    <3> QED
      BY <1>2, <2>2, <2>4, <3>1, SMT
  <2>6. here = k
    <3>1. /\ here \in Int /\ k \in Int /\ 1 <= here /\ here <= 40 /\ 1 <= k /\ k <= 40
      OBVIOUS
    <3>2. ~(here < k)
      BY <1>2, <2>2, <2>5, <3>1, TableDecreases
    <3>3. ~(k < here)
      BY <1>2, <2>2, <2>5, <3>1, TableDecreases
    <3> QED
      BY <3>1, <3>2, <3>3
  <2> QED
    BY <1>4, <2>1, <2>6, SMT DEF MIN_NICE
<1>7. ASSUME input.file = "shares", input.value \in MIN_SHARES .. MAX_SHARES
      PROVE  cpu_shares_read(Shares) = input.value
  BY <1>1, <1>3, <1>7 DEF cpu_shares_read
<1> QED
  BY <1>3, <1>4, <1>5, <1>6, <1>7, TableLen, Zenon DEF FilesRoundTrip

(***************************************************************************)
(* The walk through the page tables (PhysAddr).                            *)
(***************************************************************************)

\* The sizes that tables and pages have.
LEMMA TableSizes ==
  /\ PTRS \in Int /\ PTRS > 0 /\ PAGE_SIZE \in Int /\ PAGE_SIZE > 1 /\ NX \in Int /\ NX >= 0
  /\ PTRS * PTRS \in Int /\ PTRS * PTRS > 0
  /\ PTRS * PTRS * PTRS \in Int /\ PTRS * PTRS * PTRS > 0
<1>1. /\ PTRS \in Int /\ PTRS > 0 /\ PAGE_SIZE \in Int /\ PAGE_SIZE > 1 /\ NX \in Int
      /\ NX >= 0
  BY TableAssumption
<1>2. PTRS * PTRS \in Int /\ PTRS * PTRS > 0
  BY <1>1, SMT
<1>3. PICK q \in Int : q = PTRS * PTRS /\ q > 0
  BY <1>2
<1>4. q * PTRS \in Int /\ q * PTRS > 0
  BY <1>1, <1>3, SMT
<1> QED
  BY <1>1, <1>2, <1>3, <1>4

\* The span of a level is that of an entry of the level above.
LEMMA SpanOf ==
  /\ Span[1] = 1 /\ Span[2] = PTRS /\ Span[3] = PTRS * PTRS /\ Span[4] = PTRS * PTRS * PTRS
  /\ \A l \in 1..4 : Span[l] \in Int /\ Span[l] > 0
  /\ \A l \in 2..4 : PTRS * Span[l - 1] = Span[l]
<1>1. /\ Span[1] = 1 /\ Span[2] = PTRS /\ Span[3] = PTRS * PTRS
      /\ Span[4] = PTRS * PTRS * PTRS
  BY DEF Span
<1>2. \A l \in 1..4 : Span[l] \in Int /\ Span[l] > 0
  <2> TAKE l \in 1..4
  <2>1. l = 1 \/ l = 2 \/ l = 3 \/ l = 4
    OBVIOUS
  <2> QED
    BY <1>1, <2>1, TableSizes
<1>3. PTRS * Span[1] = Span[2]
  BY <1>1, TableSizes
<1>4. PTRS * Span[2] = Span[3]
  BY <1>1
<1>5. PTRS * Span[3] = Span[4]
  <2>1. PICK q \in Int : q = PTRS * PTRS
    BY TableSizes
  <2>2. PTRS * q = q * PTRS
    BY TableSizes, SMT
  <2> QED
    BY <1>1, <2>1, <2>2
<1>6. \A l \in 2..4 : PTRS * Span[l - 1] = Span[l]
  <2> TAKE l \in 2..4
  <2>1. (l = 2 /\ l - 1 = 1) \/ (l = 3 /\ l - 1 = 2) \/ (l = 4 /\ l - 1 = 3)
    OBVIOUS
  <2> QED
    BY <1>3, <1>4, <1>5, <2>1
<1> QED
  BY <1>1, <1>2, <1>6

\* The page of an address, and the offset in it.
LEMMA AddressParts ==
  ASSUME NEW page \in Int, NEW offset \in 0 .. PAGE_SIZE - 1
  PROVE  /\ page * PAGE_SIZE + offset \in Int
         /\ (page * PAGE_SIZE + offset) \div PAGE_SIZE = page
         /\ (page * PAGE_SIZE + offset) % PAGE_SIZE = offset
<1>1. page * PAGE_SIZE \in Int
  BY TableSizes, MulType
<1>2. PICK a \in Int : a = page * PAGE_SIZE + offset
  BY <1>1, TableSizes
<1>3. offset \in Int /\ 0 <= offset /\ offset < PAGE_SIZE /\ PAGE_SIZE > 0
  BY TableSizes
<1>4. a \div PAGE_SIZE = page /\ a % PAGE_SIZE = offset
  BY <1>2, <1>3, TableSizes, DivUnique
<1> QED
  BY <1>2, <1>4

\* The index into a table of a level depends on the page only.
LEMMA IndexOf ==
  ASSUME NEW level \in 1..4, NEW page \in Int, NEW offset \in 0 .. PAGE_SIZE - 1
  PROVE  TableIndex(level, page * PAGE_SIZE + offset) = (page \div Span[level]) % PTRS
<1>1. PICK a \in Int : a = page * PAGE_SIZE + offset /\ a \div PAGE_SIZE = page
  BY AddressParts
<1>2. PICK s \in Int : s = Span[level] /\ s > 0
  BY SpanOf
<1>3. a \div (PAGE_SIZE * s) = (a \div PAGE_SIZE) \div s
  <2>1. PAGE_SIZE > 0
    BY TableSizes
  <2> QED
    BY <1>2, <2>1, TableSizes, DivDiv
<1> QED
  BY <1>1, <1>2, <1>3 DEF TableIndex

\* The index of a page.
LEMMA IndexOfPage ==
  ASSUME NEW level \in 1..4, NEW page \in Int
  PROVE  /\ TableIndex(level, page * PAGE_SIZE) = (page \div Span[level]) % PTRS
         /\ TableIndex(level, page * PAGE_SIZE) \in 0 .. PTRS - 1
<1>1. page * PAGE_SIZE \in Int /\ 0 \in 0 .. PAGE_SIZE - 1
  BY TableSizes, MulType
<1>2. page * PAGE_SIZE + 0 = page * PAGE_SIZE
  BY <1>1
<1>3. TableIndex(level, page * PAGE_SIZE) = (page \div Span[level]) % PTRS
  BY <1>1, <1>2, IndexOf
<1>4. PICK q \in Int : q = page \div Span[level]
  BY SpanOf, Division
<1>5. q % PTRS \in Int /\ 0 <= q % PTRS /\ q % PTRS < PTRS
  BY TableSizes, Division
<1> QED
  BY <1>3, <1>4, <1>5, TableSizes

\* The table of a page: its level can be told from its number.
LEMMA NodeRange ==
  ASSUME NEW page \in Pages
  PROVE  /\ page \in Int
         /\ \A l \in 1..4 : page \div (PTRS * Span[l]) \in Int /\ 0 <= page \div (PTRS * Span[l])
         /\ page \div (PTRS * Span[1]) < PTRS * PTRS * PTRS
         /\ page \div (PTRS * Span[2]) < PTRS * PTRS
         /\ page \div (PTRS * Span[3]) < PTRS
         /\ page \div (PTRS * Span[4]) < 1
<1>1. PICK p2 \in Int, p3 \in Int, p4 \in Int :
        p2 = PTRS * PTRS /\ p3 = p2 * PTRS /\ p4 = PTRS * p3 /\ p2 > 0 /\ p3 > 0
  BY TableSizes, MulType
<1>2. /\ PTRS * Span[1] = PTRS /\ PTRS * Span[2] = p2 /\ PTRS * Span[3] = p3
      /\ PTRS * Span[4] = p4
  <2>1. PTRS * Span[1] = PTRS /\ PTRS * Span[2] = p2 /\ PTRS * Span[4] = p4
    BY <1>1, SpanOf, TableSizes
  <2>2. PTRS * Span[3] = Span[4]
    BY SpanOf, 4 - 1 = 3
  <2> QED
    BY <1>1, <2>1, <2>2, SpanOf
<1>3. page \in Int /\ 0 <= page /\ page < p4
  BY <1>1, <1>2 DEF Pages, Levels
<1>4. p4 = p3 * PTRS /\ p4 = p2 * p2 /\ p4 = PTRS * p3
  BY <1>1, TableSizes, SMT
<1>5. p4 > 0 /\ p4 = 1 * p4
  BY <1>1, <1>4, TableSizes, SMT
<1>6. page \div PTRS \in Int /\ 0 <= page \div PTRS /\ page \div PTRS < p3
  BY <1>1, <1>3, <1>4, TableSizes, DivBound
<1>7. page \div p2 \in Int /\ 0 <= page \div p2 /\ page \div p2 < p2
  BY <1>1, <1>3, <1>4, DivBound
<1>8. page \div p3 \in Int /\ 0 <= page \div p3 /\ page \div p3 < PTRS
  BY <1>1, <1>3, <1>4, TableSizes, DivBound
<1>9. page \div p4 \in Int /\ 0 <= page \div p4 /\ page \div p4 < 1
  BY <1>1, <1>3, <1>5, DivBound
<1>10. \A l \in 1..4 : page \div (PTRS * Span[l]) \in Int /\ 0 <= page \div (PTRS * Span[l])
  <2> TAKE l \in 1..4
  <2>1. l = 1 \/ l = 2 \/ l = 3 \/ l = 4
    OBVIOUS
  <2> QED
    BY <1>2, <1>6, <1>7, <1>8, <1>9, <2>1, Zenon
<1> QED
  BY <1>1, <1>2, <1>3, <1>6, <1>7, <1>8, <1>9, <1>10, Zenon

\* The numbers of the tables of each level.
LEMMA NodeIs ==
  ASSUME NEW page \in Pages
  PROVE  /\ \A l \in 1..4 : Node(l, page) \in Int
         /\ Node(4, page) = 1
         /\ Node(3, page) >= 2 /\ Node(3, page) < 2 + PTRS
         /\ Node(2, page) >= 2 + PTRS /\ Node(2, page) < 2 + PTRS + PTRS * PTRS
         /\ Node(1, page) >= 2 + PTRS + PTRS * PTRS
         /\ Node(1, page) < 2 + PTRS + PTRS * PTRS + PTRS * PTRS * PTRS
<1>1. PICK p2 \in Int, p3 \in Int : p2 = PTRS * PTRS /\ p3 = PTRS * PTRS * PTRS
  BY TableSizes
<1>2. /\ FirstTable[1] = 2 + PTRS + p2 /\ FirstTable[2] = 2 + PTRS /\ FirstTable[3] = 2
      /\ FirstTable[4] = 1
  BY <1>1 DEF FirstTable, Root
<1>3. PICK q \in [1..4 -> Int] : \A l \in 1..4 : q[l] = page \div (PTRS * Span[l])
  <2> DEFINE f == [l \in 1..4 |-> page \div (PTRS * Span[l])]
  <2>1. f \in [1..4 -> Int]
    BY NodeRange
  <2> QED
    BY <2>1
<1>4. \A l \in 1..4 : Node(l, page) = FirstTable[l] + q[l]
  BY <1>3 DEF Node
<1>5. /\ \A l \in 1..4 : 0 <= q[l]
      /\ q[1] < p3 /\ q[2] < p2 /\ q[3] < PTRS /\ q[4] < 1
  BY <1>1, <1>3, NodeRange
<1>6. /\ Node(1, page) = 2 + PTRS + p2 + q[1] /\ Node(2, page) = 2 + PTRS + q[2]
      /\ Node(3, page) = 2 + q[3] /\ Node(4, page) = 1 + q[4]
  BY <1>2, <1>4
<1>7. q[1] \in Int /\ q[2] \in Int /\ q[3] \in Int /\ q[4] \in Int
  OBVIOUS
<1>8. /\ Node(1, page) \in Int /\ Node(2, page) \in Int /\ Node(3, page) \in Int
      /\ Node(4, page) \in Int
  BY <1>1, <1>6, <1>7, TableSizes
<1>9. \A l \in 1..4 : Node(l, page) \in Int
  <2> TAKE l \in 1..4
  <2>1. l = 1 \/ l = 2 \/ l = 3 \/ l = 4
    OBVIOUS
  <2> QED
    BY <1>8, <2>1
<1>10. /\ Node(4, page) = 1 /\ Node(3, page) >= 2 /\ Node(3, page) < 2 + PTRS
       /\ Node(2, page) >= 2 + PTRS /\ Node(2, page) < 2 + PTRS + p2
       /\ Node(1, page) >= 2 + PTRS + p2 /\ Node(1, page) < 2 + PTRS + p2 + p3
  BY <1>1, <1>5, <1>6, <1>7, TableSizes
<1> QED
  BY <1>1, <1>9, <1>10

\* A number belongs to one level, and to one table of it.
LEMMA NodeUnique ==
  ASSUME NEW k \in 1..4, NEW l \in 1..4, NEW x \in Pages, NEW y \in Pages,
         Node(k, x) = Node(l, y)
  PROVE  k = l /\ x \div (PTRS * Span[l]) = y \div (PTRS * Span[l])
<1>1. PICK p2 \in Int, p3 \in Int : p2 = PTRS * PTRS /\ p3 = PTRS * PTRS * PTRS /\ p2 > 0
  BY TableSizes
<1>2. k = l
  <2>1. ASSUME NEW p \in Pages
        PROVE  /\ \A j \in 1..4 : Node(j, p) \in Int
               /\ Node(4, p) = 1 /\ Node(3, p) >= 2 /\ Node(3, p) < 2 + PTRS
               /\ Node(2, p) >= 2 + PTRS /\ Node(2, p) < 2 + PTRS + p2
               /\ Node(1, p) >= 2 + PTRS + p2
    BY <1>1, NodeIs
  <2>2. k \in {1, 2, 3, 4} /\ l \in {1, 2, 3, 4}
    OBVIOUS
  <2> QED
    BY <1>1, <2>1, <2>2, TableSizes
<1>3. PICK q \in Int, r \in Int : q = x \div (PTRS * Span[l]) /\ r = y \div (PTRS * Span[l])
  BY NodeRange
<1>4. FirstTable[l] \in Int
  <2>1. l = 1 \/ l = 2 \/ l = 3 \/ l = 4
    OBVIOUS
  <2> QED
    BY <1>1, <2>1, TableSizes DEF FirstTable, Root
<1>5. FirstTable[l] + q = FirstTable[l] + r
  BY <1>2, <1>3 DEF Node
<1>6. q = r
  BY <1>4, <1>5
<1> QED
  BY <1>2, <1>3, <1>6

\* Two pages with the same table and the same index in it are under the same entry.
LEMMA SameEntry ==
  ASSUME NEW l \in 1..4, NEW x \in Int, NEW y \in Int,
         x \div (PTRS * Span[l]) = y \div (PTRS * Span[l]),
         (x \div Span[l]) % PTRS = (y \div Span[l]) % PTRS
  PROVE  x \div Span[l] = y \div Span[l]
<1>1. PICK s \in Int : s = Span[l] /\ s > 0
  BY SpanOf
<1>2. PTRS * s = s * PTRS
  BY TableSizes, SMT
<1>3. x \div (s * PTRS) = (x \div s) \div PTRS /\ y \div (s * PTRS) = (y \div s) \div PTRS
  BY <1>1, TableSizes, DivDiv
<1>4. PICK a \in Int, b \in Int : a = x \div s /\ b = y \div s
  BY <1>1, Division
<1>5. a \div PTRS = b \div PTRS /\ a % PTRS = b % PTRS
  BY <1>1, <1>2, <1>3, <1>4
<1>6. /\ a = (a \div PTRS) * PTRS + (a % PTRS)
      /\ b = (b \div PTRS) * PTRS + (b % PTRS)
  BY TableSizes, Division
<1> QED
  BY <1>1, <1>4, <1>5, <1>6

\* An entry on the way to a page in memory is right whatever other pages are under it.
LEMMA EntryOf ==
  ASSUME NEW m, DOMAIN m \in SUBSET Pages, NEW page \in DOMAIN m, NEW l \in 1..4
  PROVE  Entry(m, Node(l, page), TableIndex(l, page * PAGE_SIZE))
            = IF l = 1 THEN PageEntry(m, page) ELSE Node(l - 1, page) * PAGE_SIZE + PRESENT
<1> DEFINE table == Node(l, page)
           i == TableIndex(l, page * PAGE_SIZE)
           under == {x \in (DOMAIN m) \X (1..Levels) :
                        /\ Node(x[2], x[1]) = table
                        /\ TableIndex(x[2], x[1] * PAGE_SIZE) = i}
           x == CHOOSE y \in under : TRUE
<1>1. <<page, l>> \in under
  BY DEF Levels
<1>2. x \in under
  <2> HIDE DEF under
  <2> QED
    BY <1>1
<1>3. Entry(m, table, i) = IF x[2] = 1 THEN PageEntry(m, x[1])
                           ELSE Node(x[2] - 1, x[1]) * PAGE_SIZE + PRESENT
  <2>1. under # {}
    BY <1>1
  <2> QED
    BY <2>1, Zenon DEF Entry
<1>4. /\ x[1] \in DOMAIN m /\ x[2] \in 1..4 /\ Node(x[2], x[1]) = Node(l, page)
      /\ TableIndex(x[2], x[1] * PAGE_SIZE) = TableIndex(l, page * PAGE_SIZE)
  <2> HIDE DEF x
  <2> QED
    BY <1>2 DEF Levels
<1> HIDE DEF x
<1>5. PICK p \in Pages : p = x[1]
  BY <1>4
<1>6. page \in Pages /\ page \in Int /\ p \in Int
  BY NodeRange
<1>7. x[2] = l /\ p \div (PTRS * Span[l]) = page \div (PTRS * Span[l])
  BY <1>4, <1>5, <1>6, NodeUnique
<1>8. (p \div Span[l]) % PTRS = (page \div Span[l]) % PTRS
  BY <1>4, <1>5, <1>6, <1>7, IndexOfPage
<1>9. p \div Span[l] = page \div Span[l]
  BY <1>6, <1>7, <1>8, SameEntry
<1>10. CASE l = 1
  <2>1. p \div 1 = page \div 1
    BY <1>9, <1>10, SpanOf
  <2>2. p = page
    BY <1>6, <2>1, SMT
  <2> QED
    BY <1>3, <1>5, <1>7, <1>10, <2>2
<1>11. CASE l # 1
  <2>1. l \in 2..4
    BY <1>11
  <2>2. p \div (PTRS * Span[l - 1]) = page \div (PTRS * Span[l - 1])
    BY <1>9, <2>1, SpanOf
  <2>3. Node(l - 1, p) = Node(l - 1, page)
    BY <2>2 DEF Node
  <2> QED
    BY <1>3, <1>5, <1>7, <1>11, <2>3
<1> QED
  BY <1>10, <1>11

\* The frame of an entry of an upper table is the lower table.
LEMMA FrameOf ==
  ASSUME NEW page \in Pages, NEW l \in 1..4
  PROVE  /\ Node(l, page) \in Tables
         /\ Frame(Node(l, page) * PAGE_SIZE + PRESENT) = Node(l, page)
<1>1. PICK p2 \in Int, p3 \in Int : p2 = PTRS * PTRS /\ p3 = PTRS * PTRS * PTRS
                                      /\ p2 > 0 /\ p3 > 0
  BY TableSizes
<1>2. PICK n \in Int, top \in Int : n = Node(l, page) /\ top = 2 + PTRS + p2 + p3
  BY NodeIs, <1>1, TableSizes
<1>3. 0 < n /\ n < top
  <2>1. /\ Node(4, page) = 1 /\ Node(3, page) >= 2 /\ Node(3, page) < 2 + PTRS
        /\ Node(2, page) >= 2 + PTRS /\ Node(2, page) < 2 + PTRS + p2
        /\ Node(1, page) >= 2 + PTRS + p2 /\ Node(1, page) < 2 + PTRS + p2 + p3
    BY <1>1, NodeIs
  <2>2. l = 1 \/ l = 2 \/ l = 3 \/ l = 4
    OBVIOUS
  <2> QED
    BY <1>1, <1>2, <2>1, <2>2, TableSizes
<1>4. n \in Tables
  <2>1. FirstTable[1] + (Span[Levels] - 1) = top - 1
    BY <1>1, <1>2, SpanOf, TableSizes DEF FirstTable, Levels
  <2>2. Tables = 0 .. top - 1
    BY <2>1, Zenon DEF Tables
  <2> QED
    BY <1>3, <2>2
<1>5. PICK e \in Int : e = n * PAGE_SIZE + 1
  BY TableSizes, MulType
<1>6. 0 <= e /\ e < NX
  <2>1. PICK t \in Int, u \in Int : t = top * PAGE_SIZE /\ u = n * PAGE_SIZE
    BY TableSizes, MulType
  <2>2. u + PAGE_SIZE <= t
    BY <1>3, <2>1, TableSizes, MulStep
  <2>3. t <= NX
    BY <1>1, <1>2, <2>1, TableAssumption
  <2>4. 0 <= u
    <3>1. 0 * PAGE_SIZE <= n * PAGE_SIZE
      BY <1>3, TableSizes, MulMono
    <3> QED
      BY <2>1, <3>1, TableSizes
  <2> QED
    BY <1>5, <2>1, <2>2, <2>3, <2>4, TableSizes
<1>7. e % NX = e
  BY <1>6, TableSizes, SmallMod
<1>8. e \div PAGE_SIZE = n
  BY <1>5, TableSizes, AddressParts
<1> QED
  BY <1>2, <1>4, <1>5, <1>7, <1>8 DEF Frame, PRESENT

\* The walk ends at the entry of the page.
LEMMA WalkEnds ==
  ASSUME NEW m, DOMAIN m \in SUBSET Pages, NEW page \in DOMAIN m,
         NEW offset \in 0 .. PAGE_SIZE - 1
  PROVE  my_other_get_phy_addr(TablesOf(m), Root, page * PAGE_SIZE + offset)
            = PageMask(PageEntry(m, page)) + offset
<1> DEFINE a == page * PAGE_SIZE + offset
           mem == TablesOf(m)
           at(l) == <<Node(l, page), TableIndex(l, a)>>
<1>1. page \in Pages /\ page \in Int
  BY NodeRange
<1>2. \A l \in 1..4 : TableIndex(l, a) = TableIndex(l, page * PAGE_SIZE)
  BY <1>1, IndexOf, IndexOfPage
<1>3. \A l \in 1..4 : Node(l, page) \in Tables /\ TableIndex(l, a) \in 0 .. PTRS - 1
  BY <1>1, <1>2, FrameOf, IndexOfPage
<1>4. \A l \in 1..4 : mem[at(l)] = Entry(m, Node(l, page), TableIndex(l, page * PAGE_SIZE))
  BY <1>2, <1>3 DEF TablesOf
<1>5. ASSUME NEW l \in 2..4
      PROVE  Frame(mem[at(l)]) = Node(l - 1, page)
  <2>1. mem[at(l)] = Node(l - 1, page) * PAGE_SIZE + PRESENT
    BY <1>4, EntryOf
  <2> QED
    BY <1>1, <2>1, FrameOf
<1>6. mem[at(1)] = PageEntry(m, page)
  BY <1>4, EntryOf
<1>7. Node(4, page) = Root
  BY <1>1, NodeIs DEF Root
<1> HIDE DEF mem
<1>8. pgd_offset(Root, a) = at(4)
  BY <1>7 DEF pgd_offset
<1>9. pud_offset(mem, at(4), a) = at(3)
  BY <1>5, 4 - 1 = 3 DEF pud_offset
<1>10. pmd_offset(mem, at(3), a) = at(2)
  BY <1>5, 3 - 1 = 2 DEF pmd_offset
<1>11. pte_offset_kernel(mem, at(2), a) = at(1)
  BY <1>5, 2 - 1 = 1 DEF pte_offset_kernel
<1>12. a % PAGE_SIZE = offset
  BY <1>1, AddressParts
<1> HIDE DEF a, at
<1>13. my_other_get_phy_addr(mem, Root, a) = PageMask(mem[at(1)]) + (a % PAGE_SIZE)
  BY <1>8, <1>9, <1>10, <1>11, Zenon DEF my_other_get_phy_addr, p4d_offset
<1> QED
  BY <1>6, <1>12, <1>13 DEF a, mem

\* The result, from the entry of a page.
LEMMA AddressOf ==
  ASSUME NEW frame \in Nat, NEW offset \in 0 .. PAGE_SIZE - 1, NEW top \in {0, NX}
  PROVE  PageMask(frame * PAGE_SIZE + PRESENT + top) + offset = frame * PAGE_SIZE + offset + top
<1>1. PICK f \in Int : f = frame * PAGE_SIZE
  BY TableSizes, MulType
<1>2. top \in Int /\ offset \in Int
  BY TableSizes
<1>3. PICK k \in Int : top = k * PAGE_SIZE
  <2>1. NX = (NX \div PAGE_SIZE) * PAGE_SIZE + (NX % PAGE_SIZE) /\ NX \div PAGE_SIZE \in Int
    BY TableSizes, Division
  <2>2. PICK j \in Int : j * PAGE_SIZE \in Int /\ NX = j * PAGE_SIZE + 0
    BY <2>1, TableSizes, MulType, TableAssumption
  <2>3. NX = j * PAGE_SIZE /\ 0 = 0 * PAGE_SIZE
    BY <2>2, TableSizes
  <2> QED
    BY <2>3
<1>4. PICK e \in Int : e = f + 1 + top
  BY <1>2
<1>5. e % PAGE_SIZE = 1
  <2>1. (frame + k) * PAGE_SIZE = f + top
    BY <1>1, <1>3, TableSizes, SMT
  <2>2. PICK h \in Int : h = frame + k
    OBVIOUS
  <2>3. e = h * PAGE_SIZE + 1
    BY <1>1, <1>2, <1>4, <2>1, <2>2
  <2>4. 1 \in 0 .. PAGE_SIZE - 1
    BY TableSizes
  <2> QED
    BY <2>3, <2>4, AddressParts
<1>6. PageMask(e) + offset = f + offset + top
  BY <1>1, <1>2, <1>4, <1>5 DEF PageMask
<1>7. frame * PAGE_SIZE + PRESENT + top = e
  BY <1>1, <1>4 DEF PRESENT
<1> QED
  BY <1>1, <1>6, <1>7

(***************************************************************************)
(* What is written, or asked for, stays the same (Observed).               *)
(***************************************************************************)

InputInv == input \in {NoInput, Examined} \/ FileInput \/ ProcessInput

\* No step changes the input.
LEMMA InputStays == ObservedSpec => []InputInv
<1>1. ObservedInit => InputInv
  BY Zenon DEF ObservedInit, InputInv
<1>2. InputInv /\ [ObservedNext]_<<vars, waitVars, input>> => InputInv'
  <2> SUFFICES ASSUME InputInv, [ObservedNext]_<<vars, waitVars, input>>
               PROVE  InputInv'
    OBVIOUS
  <2>1. input' = input
    BY Zenon DEF ObservedNext
  <2> QED
    BY <2>1, Zenon DEF InputInv, FileInput, ProcessInput
<1> QED
  BY <1>1, <1>2, PTL DEF ObservedSpec

\* What is written to a file is a number.
LEMMA InputKinds ==
  ASSUME InputInv
  PROVE  (input.value \in Int /\ input.file # "process") \/ (ProcessInput /\ input.file = "process")
<1>1. CASE input \in {NoInput, Examined}
  BY <1>1 DEF NoInput, Examined
<1>2. CASE FileInput
  <2>1. input \in [file : {"weight", "nice", "shares"}, value : Int]
    BY <1>2, WrittenAssumption DEF FileInput
  <2> QED
    BY <2>1
<1>3. CASE ProcessInput
  BY <1>3 DEF ProcessInput
<1> QED
  BY <1>1, <1>2, <1>3 DEF InputInv

\* Whatever is written to cpu.weight, cpu.weight.nice or cpu.shares, the files show it again as
\* they should: a weight or a nice value in range exactly, shares between the bounds exactly,
\* and as cpu.weight.nice the nice value closest to the weight.
THEOREM FilesSafe == ObservedSpec => []FilesRoundTrip
<1>1. InputInv => FilesRoundTrip
  <2> SUFFICES ASSUME InputInv PROVE FilesRoundTrip
    OBVIOUS
  <2>1. CASE input.value \in Int
    BY <2>1, FilesAnswer
  <2>2. CASE input.file = "process"
    BY <2>2 DEF FilesRoundTrip
  <2> QED
    BY <2>1, <2>2, InputKinds
<1> QED
  BY <1>1, InputStays, PTL

\* A process with some pages in memory, and one of them.
LEMMA ProcessPages ==
  ASSUME NEW m \in Memories, NEW page \in DOMAIN m
  PROVE  /\ DOMAIN m \in SUBSET Pages
         /\ m[page].frame \in Nat /\ (m[page].frame + 1) * PAGE_SIZE <= NX
         /\ m[page].nx \in BOOLEAN
<1>1. PICK s \in kSubset(Mapped, Pages) : m \in [s -> [frame : Frames, nx : BOOLEAN]]
  BY Zenon DEF Memories
<1>2. s \in SUBSET Pages
  BY <1>1, Zenon DEF kSubset
<1>3. DOMAIN m = s /\ m[page] \in [frame : Frames, nx : BOOLEAN]
  BY <1>1
<1>4. m[page].frame \in Frames /\ m[page].nx \in BOOLEAN
  BY <1>3
<1> QED
  BY <1>2, <1>3, <1>4, FrameAssumption

\* For every size of the tables and pages, my_other_get_phy_addr() finds the frame of every
\* page in memory, whatever other pages are in memory, and adds the offset of the address;
\* _PAGE_NX is all by which its result differs from the physical address.
THEOREM PhysAddrSafe == ObservedSpec => []PhysAddrRight
<1>1. InputInv => PhysAddrRight
  <2> SUFFICES ASSUME InputInv, input.file = "process" PROVE PhysAddrRight
    BY Zenon DEF PhysAddrRight
  <2>1. ProcessInput
    BY InputKinds
  <2>2. PICK m \in Memories : \E page \in DOMAIN m, offset \in 0 .. PAGE_SIZE - 1 :
          input = [file |-> "process", memory |-> m, page |-> page, offset |-> offset]
    BY <2>1, Zenon DEF ProcessInput
  <2>3. PICK page \in DOMAIN m, offset \in 0 .. PAGE_SIZE - 1 :
          input = [file |-> "process", memory |-> m, page |-> page, offset |-> offset]
    BY <2>2
  <2>4. input.memory = m /\ input.page = page /\ input.offset = offset
    BY <2>3
  <2> DEFINE top == IF m[page].nx THEN NX ELSE 0
             r == my_other_get_phy_addr(TablesOf(m), Root, page * PAGE_SIZE + offset)
  <2>5. PICK frame \in Nat : frame = m[page].frame
    BY ProcessPages
  <2>6. PageEntry(m, page) = frame * PAGE_SIZE + PRESENT + top
    BY <2>5, Zenon DEF PageEntry
  <2>7. r = PageMask(frame * PAGE_SIZE + PRESENT + top) + offset
    BY <2>6, ProcessPages, WalkEnds
  <2>8. top \in {0, NX}
    BY Zenon
  <2>9. r = m[page].frame * PAGE_SIZE + offset + top
    BY <2>5, <2>7, <2>8, AddressOf
  <2> QED
    BY <2>4, <2>9, Zenon DEF PhysAddrRight, Result, Byte
<1> QED
  BY <1>1, InputStays, PTL

(***************************************************************************)
(* Sums over the CPUs.                                                     *)
(***************************************************************************)

\* The member that a sum takes from a set, and the members that are left.
First(s) == CHOOSE x \in s : TRUE
Rest(s) == s \ {First(s)}

\* A set gets smaller by one.
LEMMA RestSmaller ==
  ASSUME NEW S, IsFiniteSet(S), NEW s \in SUBSET S, s # {}
  PROVE  /\ First(s) \in s /\ Rest(s) \in SUBSET S
         /\ Cardinality(s) \in Nat /\ Cardinality(Rest(s)) = Cardinality(s) - 1
         /\ Cardinality(Rest(s)) \in Nat
<1>1. First(s) \in s
  BY DEF First
<1>2. IsFiniteSet(s)
  BY FS_Subset
<1>3. Cardinality(s) \in Nat /\ Cardinality(s \ {First(s)}) = Cardinality(s) - 1
  BY <1>1, <1>2, FS_CardinalityType, FS_RemoveElement
<1>4. IsFiniteSet(s \ {First(s)})
  BY <1>1, <1>2, FS_RemoveElement
<1>5. Cardinality(s \ {First(s)}) \in Nat
  BY <1>4, FS_CardinalityType
<1> QED
  BY <1>1, <1>3, <1>5 DEF Rest

\* Induction over the subsets of a finite set, for a set T of subsets.
LEMMA SubsetInduction ==
  ASSUME NEW S, IsFiniteSet(S), NEW T, {} \in T,
         \A s \in SUBSET S : s # {} /\ Rest(s) \in T => s \in T
  PROVE  \A s \in SUBSET S : s \in T
<1> DEFINE Sizes == {Cardinality(s) : s \in {u \in SUBSET S : u \notin T}}
<1> SUFFICES ASSUME \E s \in SUBSET S : s \notin T PROVE FALSE
  OBVIOUS
<1>1. Sizes \in SUBSET Nat /\ Sizes # {}
  <2>1. \A s \in SUBSET S : Cardinality(s) \in Nat
    BY FS_Subset, FS_CardinalityType
  <2> QED
    BY <2>1
<1>2. PICK n \in Sizes : \A m \in Sizes : n <= m
  BY <1>1, LeastNatural
<1>3. PICK s \in SUBSET S : s \notin T /\ n = Cardinality(s)
  BY <1>2
<1>4. s # {}
  BY <1>3
<1>5. /\ Rest(s) \in SUBSET S /\ Cardinality(Rest(s)) = Cardinality(s) - 1
      /\ Cardinality(s) \in Nat
  BY <1>4, RestSmaller
<1>6. Rest(s) \notin T
  BY <1>3, <1>4
<1>7. Cardinality(Rest(s)) \in Sizes
  BY <1>5, <1>6
<1>8. Cardinality(s) <= Cardinality(Rest(s))
  BY <1>2, <1>3, <1>7
<1> HIDE DEF Sizes
<1> QED
  BY <1>5, <1>8

\* h adds up f over every subset of S.
AddsUp(S, f, h) ==
    h = [s \in SUBSET S |-> IF s = {} THEN 0 ELSE f[First(s)] + h[Rest(s)]]
Total(S, f) == (CHOOSE h : AddsUp(S, f, h))[S]

\* What the fold of the library computes.
LEMMA SumIsTotal ==
  ASSUME NEW S, NEW f
  PROVE  MapThenSumSet(LAMBDA c : f[c], S) = Total(S, f)
BY Zenon DEF MapThenSumSet, MapThenFoldSet, Total, AddsUp, First, Rest

\* There is such a function: those on the sets of at most n members extend each other.
LEMMA TotalExists ==
  ASSUME NEW S, IsFiniteSet(S), NEW f
  PROVE  \E h : AddsUp(S, f, h)
<1> DEFINE C(n) == {s \in SUBSET S : Cardinality(s) <= n}
           Next1(s, g) == IF s = {} THEN 0 ELSE f[First(s)] + g[Rest(s)]
           P(n, g) == g = [s \in C(n) |-> Next1(s, g)]
           Bad == {n \in Nat : ~ \E g : P(n, g)}
<1>c. \A s \in SUBSET S : Cardinality(s) \in Nat
  BY FS_Subset, FS_CardinalityType
<1>1. Bad = {}
  <2> SUFFICES ASSUME Bad # {} PROVE FALSE
    OBVIOUS
  <2>1. PICK m \in Bad : \A n \in Bad : m <= n
    <3>1. Bad \in SUBSET Nat
      OBVIOUS
    <3> HIDE DEF Bad
    <3> QED
      BY <3>1, LeastNatural
  <2>m. m \in Nat /\ ~ \E g : P(m, g)
    BY <2>1
  <2>2. CASE m = 0
    <3> DEFINE g == [s \in C(m) |-> 0]
    <3>1. \A s \in C(m) : s = {}
      <4> SUFFICES ASSUME NEW s \in C(m), s # {} PROVE FALSE
        OBVIOUS
      <4>1. s \in SUBSET S /\ Cardinality(s) <= 0
        BY <2>2
      <4>2. Cardinality(Rest(s)) = Cardinality(s) - 1 /\ Cardinality(Rest(s)) \in Nat
            /\ Cardinality(s) \in Nat
        BY <4>1, RestSmaller
      <4> QED
        BY <4>1, <4>2
    <3>2. \A s \in C(m) : Next1(s, g) = 0
      BY <3>1
    <3>3. P(m, g)
      <4> HIDE DEF C, Next1
      <4> QED BY <3>2
    <3> HIDE DEF P, g
    <3> QED
      BY <2>m, <3>3
  <2>3. CASE m # 0
    <3>1. m - 1 \in Nat /\ m - 1 \notin Bad
      <4>1. m - 1 \in Nat /\ ~(m <= m - 1)
        BY <2>3, <2>m
      <4> HIDE DEF Bad
      <4> QED
        BY <2>1, <4>1
    <3>2. PICK g : P(m - 1, g)
      <4> HIDE DEF P
      <4> QED BY <3>1
    <3> DEFINE k == [s \in C(m) |-> Next1(s, g)]
    <3>3. ASSUME NEW s \in C(m) PROVE Next1(s, k) = Next1(s, g)
      <4>1. CASE s = {}
        BY <4>1
      <4>2. CASE s # {}
        <5>1. /\ Rest(s) \in SUBSET S /\ Cardinality(Rest(s)) = Cardinality(s) - 1
              /\ Cardinality(s) \in Nat /\ Cardinality(s) <= m
          BY <4>2, RestSmaller
        <5>2. Rest(s) \in C(m - 1) /\ Rest(s) \in C(m)
          BY <2>m, <5>1
        <5>3. k[Rest(s)] = Next1(Rest(s), g)
          BY <5>2
        <5>4. g[Rest(s)] = Next1(Rest(s), g)
          <6> HIDE DEF C, Next1
          <6>1. g = [u \in C(m - 1) |-> Next1(u, g)]
            BY <3>2
          <6> QED BY <5>2, <6>1
        <5>5. k[Rest(s)] = g[Rest(s)]
          BY <5>3, <5>4
        <5> HIDE DEF k
        <5> QED
          BY <4>2, <5>5
      <4> QED
        BY <4>1, <4>2
    <3>4. P(m, k)
      <4> HIDE DEF C, Next1
      <4> QED BY <3>3
    <3> HIDE DEF P, k
    <3> QED
      BY <2>m, <3>4
  <2> QED
    BY <2>2, <2>3
<1> DEFINE n == Cardinality(S)
<1>2. n \in Nat
  BY <1>c
<1>3. PICK g : P(n, g)
  <2> HIDE DEF P
  <2> QED BY <1>1, <1>2
<1>4. C(n) = SUBSET S
  <2>1. \A s \in SUBSET S : Cardinality(s) <= Cardinality(S)
    BY FS_Subset
  <2> QED
    BY <2>1
<1>5. AddsUp(S, f, g)
  <2>1. g = [s \in C(n) |-> Next1(s, g)]
    BY <1>3
  <2> HIDE DEF C
  <2> QED
    BY <1>4, <2>1 DEF AddsUp
<1> QED
  BY <1>5

\* The equations of a total.
LEMMA TotalEquations ==
  ASSUME NEW S, IsFiniteSet(S), NEW f
  PROVE  \E h : /\ Total(S, f) = h[S] /\ h[{}] = 0
               /\ \A s \in SUBSET S : s # {} => h[s] = f[First(s)] + h[Rest(s)]
<1> DEFINE h == CHOOSE g : AddsUp(S, f, g)
<1>1. AddsUp(S, f, h)
  BY TotalExists, Zenon
<1>2. Total(S, f) = h[S]
  BY Zenon DEF Total
<1> HIDE DEF h
<1>3. \A s \in SUBSET S : h[s] = IF s = {} THEN 0 ELSE f[First(s)] + h[Rest(s)]
  BY <1>1, Zenon DEF AddsUp
<1>4. h[{}] = 0 /\ \A s \in SUBSET S : s # {} => h[s] = f[First(s)] + h[Rest(s)]
  BY <1>3
<1> QED
  BY <1>2, <1>4

\* One term changes, and so does the total.
LEMMA TotalUpdate ==
  ASSUME NEW S, IsFiniteSet(S), NEW f \in [S -> Int], NEW c \in S, NEW v \in Int
  PROVE  Total(S, f) \in Int /\ Total(S, [f EXCEPT ![c] = v]) = Total(S, f) + (v - f[c])
<1> DEFINE e == [f EXCEPT ![c] = v]
<1>1. PICK h : /\ Total(S, f) = h[S] /\ h[{}] = 0
               /\ \A s \in SUBSET S : s # {} => h[s] = f[First(s)] + h[Rest(s)]
  BY TotalEquations
<1>2. PICK k : /\ Total(S, e) = k[S] /\ k[{}] = 0
               /\ \A s \in SUBSET S : s # {} => k[s] = e[First(s)] + k[Rest(s)]
  <2> HIDE DEF e
  <2> QED BY TotalEquations
<1> DEFINE D(s) == IF c \in s THEN v - f[c] ELSE 0
           T == {s \in SUBSET S : h[s] \in Int /\ k[s] = h[s] + D(s)}
<1>3. {} \in T
  BY <1>1, <1>2
<1>4. ASSUME NEW s \in SUBSET S, s # {}, Rest(s) \in T PROVE s \in T
  <2>1. First(s) \in s /\ First(s) \in S
    BY <1>4, RestSmaller
  <2>2. h[Rest(s)] \in Int /\ k[Rest(s)] = h[Rest(s)] + D(Rest(s))
    BY <1>4
  <2>3. h[s] = f[First(s)] + h[Rest(s)] /\ k[s] = e[First(s)] + k[Rest(s)]
    BY <1>1, <1>2, <1>4
  <2>4. f[First(s)] \in Int /\ f[c] \in Int
    BY <2>1
  <2>5. CASE First(s) = c
    <3>1. e[First(s)] = v /\ D(s) = v - f[c] /\ D(Rest(s)) = 0
      BY <2>1, <2>5 DEF Rest
    <3> QED
      BY <2>2, <2>3, <2>4, <2>5, <3>1
  <2>6. CASE First(s) # c
    <3>1. e[First(s)] = f[First(s)] /\ D(s) = D(Rest(s)) /\ D(s) \in Int
      BY <2>1, <2>4, <2>6 DEF Rest
    <3> HIDE DEF D
    <3> QED
      BY <2>2, <2>3, <2>4, <3>1
  <2> QED
    BY <2>5, <2>6
<1>5. S \in T
  <2> HIDE DEF T
  <2> QED BY <1>3, <1>4, SubsetInduction
<1> QED
  BY <1>1, <1>2, <1>5

\* Nothing adds up to zero.
LEMMA TotalZero ==
  ASSUME NEW S, IsFiniteSet(S)
  PROVE  Total(S, [s \in S |-> 0]) = 0
<1> DEFINE f == [s \in S |-> 0]
<1>1. PICK h : /\ Total(S, f) = h[S] /\ h[{}] = 0
               /\ \A s \in SUBSET S : s # {} => h[s] = f[First(s)] + h[Rest(s)]
  <2> HIDE DEF f
  <2> QED BY TotalEquations
<1> DEFINE T == {s \in SUBSET S : h[s] = 0}
<1>2. {} \in T
  BY <1>1
<1>3. ASSUME NEW s \in SUBSET S, s # {}, Rest(s) \in T PROVE s \in T
  <2>1. First(s) \in S
    BY <1>3, RestSmaller
  <2> QED
    BY <1>1, <1>3, <2>1
<1>4. S \in T
  <2> HIDE DEF T
  <2> QED BY <1>2, <1>3, SubsetInduction
<1> QED
  BY <1>1, <1>4

\* The same, for the counts that the CPUs keep.
LEMMA CpuTotal ==
  ASSUME NEW f \in [Cpu -> Int], NEW c \in Cpu, NEW v \in Int
  PROVE  Total(Cpu, f) \in Int /\ Total(Cpu, [f EXCEPT ![c] = v]) = Total(Cpu, f) + (v - f[c])
<1>1. IsFiniteSet(Cpu)
  BY CpuAssumption
<1> QED
  BY <1>1, TotalUpdate

USE CpuAssumption, TaskAssumption, ProgramAssumption
USE DEF taskVars, lockVars, rqVars, loadVars, ioVars, cntVars, listVars, progVars,
        evtVars, ctlVars
USE DEF Idle, Stopper, None, TASK_ON_RQ_QUEUED, TASK_ON_RQ_MIGRATING, TtwuPc, SwitchPc,
        StopPc, SleepMask, SchedState, set_task_cpu, IrqsEnabled, ttwu_queue_wakelist

(***************************************************************************)
(* What a step leaves alone.                                               *)
(***************************************************************************)

\* Another CPU keeps its current task and its place in the kernel.
OthersKept(c) ==
    \A d \in Cpu \ {c} :
        /\ pc'[d] = pc[d] /\ tgt'[d] = tgt[d] /\ curr'[d] = curr[d] /\ mask'[d] = mask[d]
        /\ lrq'[d] = lrq[d] /\ voluntary'[d] = voluntary[d] /\ prev_state'[d] = prev_state[d]

\* A CPU writes its own locals and its own rq->curr only.
LEMMA OwnLocals ==
  ASSUME IndInv, NEW c \in Cpu,
         (\E t \in Task : Program(c, t)) \/ Kernel(c) \/ Interrupt(c) \/ Reschedule(c)
  PROVE  OthersKept(c)
<1>t. /\ DOMAIN pc = Cpu /\ DOMAIN tgt = Cpu /\ DOMAIN curr = Cpu /\ DOMAIN mask = Cpu
      /\ DOMAIN lrq = Cpu /\ DOMAIN voluntary = Cpu /\ DOMAIN prev_state = Cpu
  BY DEF IndInv, TypeOK, CtlType, RqType
<1> USE DEF OthersKept
<1>1. UNCHANGED <<ctlVars, curr>> => OthersKept(c)
  OBVIOUS
<1>2. \A t \in Task : Program(c, t) => OthersKept(c)
  <2>1. \A t, s : SetCurrentState(c, t, s) \/ ConditionFalse(c, t, s) \/ SchedExec(c, t, s)
                     \/ SchedFork(c, t, s) \/ WakeUpNewTask(c, t, s)
          => UNCHANGED <<ctlVars, curr>>
    BY DEF SetCurrentState, ConditionFalse, SchedExec, SchedFork, WakeUpNewTask
  <2>2. \A t : ConditionTrue(c, t) \/ ScheduleReturn(c, t) \/ SetSpecialState(c, t)
                  \/ start_to_count(c, t) \/ StopOneCpu(c, t)
          => UNCHANGED <<ctlVars, curr>>
    BY DEF ConditionTrue, ScheduleReturn, SetSpecialState, start_to_count, StopOneCpu
  <2>3. \A t, p, m, dest : SetCpusAllowed(c, t, p, m, dest) => OthersKept(c)
    BY <1>t DEF SetCpusAllowed, MaskOnly, AskStopper, MoveNow, move_queued_task
  <2> HIDE DEF OthersKept
  <2> QED
    BY <1>1, <2>1, <2>2, <2>3 DEF Program
<1>3. Kernel(c) => OthersKept(c)
  <2>1. IowaitInc(c) \/ NoSwitch(c) \/ FinishTaskSwitch(c) \/ Reap(c) => OthersKept(c)
    BY <1>t DEF IowaitInc, NoSwitch, FinishTaskSwitch, Reap, Return
  <2>2. \A next : Switch(c, next) => OthersKept(c)
    BY <1>t DEF Switch
  <2>3. TtwuLock(c) \/ TtwuOnRq(c) => OthersKept(c)
    BY <1>t DEF TtwuLock, TtwuMatch, TtwuNoMatch, Return, TtwuOnRq
  <2>9. TtwuWaking(c) \/ TtwuOnCpu(c) => OthersKept(c)
    BY <1>t DEF TtwuWaking, TtwuOnCpu
  <2>4. TtwuRemote(c) => OthersKept(c)
    BY <1>t DEF TtwuRemote, TtwuChase, TtwuFlip, TtwuMissed, Return
  <2>5. TtwuWakelist(c) \/ TtwuQueue(c) \/ SchedTtwuPending(c) => OthersKept(c)
    BY <1>t DEF TtwuWakelist, TtwuQueue, SchedTtwuPending, Return
  <2>6. \A dest : TtwuSelect(c, dest) => OthersKept(c)
    BY <1>t DEF TtwuSelect
  <2>7. MigrationCpuStop(c) => OthersKept(c)
    BY <1>t DEF MigrationCpuStop, StopMove, StopNothing, move_queued_task, Return
  <2>8. MoveEnqueue(c) \/ AttachTask(c) => OthersKept(c)
    BY <1>t DEF MoveEnqueue, AttachTask, Return
  <2> HIDE DEF OthersKept
  <2> QED
    BY <2>1, <2>2, <2>3, <2>4, <2>5, <2>6, <2>7, <2>8, <2>9 DEF Kernel
<1>4. Interrupt(c) => OthersKept(c)
  <2>1. \A p, kind : WakeCurrent(c, p, kind) => UNCHANGED <<ctlVars, curr>>
    BY DEF WakeCurrent
  <2>2. \A p, kind : Wake(c, p, kind) => OthersKept(c)
    BY <1>t DEF Wake
  <2>3. \A p : DetachTask(c, p) => OthersKept(c)
    BY <1>t DEF DetachTask
  <2>4. TtwuIpi(c) => OthersKept(c)
    BY <1>t DEF TtwuIpi
  <2> HIDE DEF OthersKept
  <2> QED
    BY <1>1, <2>1, <2>2, <2>3, <2>4 DEF Interrupt
<1>5. Reschedule(c) => OthersKept(c)
  <2>1. \A t : Schedule(c, t) => OthersKept(c)
    BY <1>t DEF Schedule, KeepRunnable, CancelSleep, Deactivate
  <2>2. \A t : Preempt(c, t) => OthersKept(c)
    BY <1>t DEF Preempt
  <2>3. PseudoSchedule(c) \/ StopFlush(c) => OthersKept(c)
    BY <1>t DEF PseudoSchedule, StopFlush
  <2> HIDE DEF OthersKept
  <2> QED
    BY <2>1, <2>2, <2>3 DEF Reschedule
<1> QED
  BY <1>2, <1>3, <1>4, <1>5

\* Besides the programs themselves only schedule() and a stopper that has done
\* its work move a program.
LEMMA ProgFrame ==
  ASSUME NEW c \in Cpu, Kernel(c) \/ Interrupt(c) \/ Reschedule(c)
  PROVE  \/ UNCHANGED <<tpc, targ, stopq>>
         \/ MigrationCpuStop(c) \/ MoveEnqueue(c) \/ (\E t \in Task : Schedule(c, t))
<1> DEFINE Kept == UNCHANGED <<tpc, targ, stopq>>
<1>1. IowaitInc(c) \/ NoSwitch(c) \/ FinishTaskSwitch(c) \/ Reap(c) => Kept
  BY DEF IowaitInc, NoSwitch, FinishTaskSwitch, Reap
<1>2. \A next : Switch(c, next) => Kept
  BY DEF Switch
<1>3. TtwuLock(c) \/ TtwuOnRq(c) \/ TtwuRemote(c) \/ TtwuWaking(c) => Kept
  BY DEF TtwuLock, TtwuOnRq, TtwuRemote, TtwuWaking
<1>4. TtwuOnCpu(c) \/ TtwuWakelist(c) \/ TtwuQueue(c) \/ SchedTtwuPending(c) => Kept
  BY DEF TtwuOnCpu, TtwuWakelist, TtwuQueue, SchedTtwuPending
<1>5. \A dest : TtwuSelect(c, dest) => Kept
  BY DEF TtwuSelect
<1>6. \A p, kind : WakeCurrent(c, p, kind) \/ Wake(c, p, kind) => Kept
  BY DEF WakeCurrent, Wake
<1>7. \A p : DetachTask(c, p) \/ Preempt(c, p) => Kept
  BY DEF DetachTask, Preempt
<1>8. AttachTask(c) \/ TtwuIpi(c) \/ PseudoSchedule(c) \/ StopFlush(c) => Kept
  BY DEF AttachTask, TtwuIpi, PseudoSchedule, StopFlush
<1> HIDE DEF Kept
<1>9. Kept \/ MigrationCpuStop(c) \/ MoveEnqueue(c) \/ (\E t \in Task : Schedule(c, t))
  BY <1>1, <1>2, <1>3, <1>4, <1>5, <1>6, <1>7, <1>8 DEF Kernel, Interrupt, Reschedule
<1> QED
  BY <1>9 DEF Kept

\* Whoever waits for a stopper does not run its program.
LEMMA ProgramWaits ==
  ASSUME IndInv, NEW c \in Cpu, NEW t \in Task, Program(c, t), ~StopOneCpu(c, t)
  PROVE  /\ UNCHANGED stopq
         /\ \A u \in Task : tpc[u] = "stop_wait" => tpc'[u] = "stop_wait"
<1> HIDE DEF IndInv
<1>t. tpc \in [Task -> {"free", "new", "work", "test", "sleep", "woken", "dying",
                       "dead", "stop_one", "stop_wait", "forked"}]
  BY DEF IndInv, TypeOK, ProgType
<1> DEFINE Waits == \A u \in Task : tpc[u] = "stop_wait" => tpc'[u] = "stop_wait"
<1>1. \A s : SetCurrentState(c, t, s) => UNCHANGED stopq /\ Waits
  BY <1>t DEF SetCurrentState, AtWork
<1>2. \A io : ConditionFalse(c, t, io) => UNCHANGED stopq /\ Waits
  BY <1>t DEF ConditionFalse
<1>3. \A p, m, dest : SetCpusAllowed(c, t, p, m, dest) => UNCHANGED stopq /\ Waits
  BY <1>t DEF SetCpusAllowed, MaskOnly, AskStopper, MoveNow, AtWork
<1>4. \A p \in Task : SchedFork(c, t, p) => UNCHANGED stopq /\ Waits
  BY <1>t DEF SchedFork, AtWork
<1>5. \A dest : SchedExec(c, t, dest) => UNCHANGED stopq /\ Waits
  BY <1>t DEF SchedExec, AtWork
<1>6. \A dest : WakeUpNewTask(c, t, dest) => UNCHANGED stopq /\ Waits
  <2>1. tpc[t] = "forked" => targ[t].task \in Task /\ tpc[targ[t].task] = "new"
    BY DEF IndInv, ProgInv
  <2> QED
    BY <1>t, <2>1 DEF WakeUpNewTask
<1>7. ConditionTrue(c, t) \/ ScheduleReturn(c, t) => UNCHANGED stopq /\ Waits
  BY <1>t DEF ConditionTrue, ScheduleReturn
<1>8. SetSpecialState(c, t) \/ start_to_count(c, t) => UNCHANGED stopq /\ Waits
  BY <1>t DEF SetSpecialState, start_to_count, AtWork
<1> HIDE DEF Waits
<1>9. UNCHANGED stopq /\ Waits
  BY <1>1, <1>2, <1>3, <1>4, <1>5, <1>6, <1>7, <1>8 DEF Program
<1> QED
  BY <1>9 DEF Waits

(***************************************************************************)
(* Work for the stoppers.                                                  *)
(***************************************************************************)

\* Where appended work is.
LEMMA AppendIndex ==
  ASSUME NEW s \in Seq(Work), NEW e \in Work
  PROVE  /\ DOMAIN s = 1 .. Len(s) /\ Len(s) \in Nat
         /\ DOMAIN Append(s, e) = 1 .. Len(s) + 1
         /\ Append(s, e)[Len(s) + 1] = e
         /\ \A i \in DOMAIN s : Append(s, e)[i] = s[i]
BY AppendProperties, LenProperties

\* Where work is once the first item is done.
LEMMA TailIndex ==
  ASSUME NEW s \in Seq(Work), s # <<>>
  PROVE  /\ Head(s) \in Work /\ Tail(s) \in Seq(Work)
         /\ DOMAIN s = 1 .. Len(s) /\ Len(s) \in Nat \ {0} /\ Head(s) = s[1]
         /\ DOMAIN Tail(s) = 1 .. Len(s) - 1
         /\ \A i \in DOMAIN Tail(s) : i + 1 \in DOMAIN s /\ Tail(s)[i] = s[i + 1]
<1>1. Head(s) \in Work /\ Tail(s) \in Seq(Work) /\ Head(s) = s[1]
  BY HeadTailProperties, EmptySeq, LenProperties
<1>2. DOMAIN s = 1 .. Len(s) /\ Len(s) \in Nat \ {0}
  BY EmptySeq, LenProperties
<1>3. Len(Tail(s)) = Len(s) - 1 /\ DOMAIN Tail(s) = 1 .. Len(s) - 1
  BY <1>1, HeadTailProperties, LenProperties
<1>4. \A i \in DOMAIN Tail(s) : i + 1 \in DOMAIN s /\ Tail(s)[i] = s[i + 1]
  BY <1>2, <1>3, HeadTailProperties
<1> QED
  BY <1>1, <1>2, <1>3, <1>4

\* StopInv depends on the work lists and on their callers only.
LEMMA StopKept ==
  ASSUME IndInv, StopInv, UNCHANGED stopq,
         \A u \in Task : tpc[u] = "stop_wait" => tpc'[u] = "stop_wait"
  PROVE  StopInv'
<1>1. \A d \in Cpu : \A i \in DOMAIN stopq[d] : stopq[d][i].caller \in Task
  BY StopCaller
<1> QED
  BY <1>1 DEF StopInv

\* stop_one_cpu() adds work for a caller that had none.
LEMMA StopOneCpuStop ==
  ASSUME IndInv, StopInv, NEW c \in Cpu, NEW t \in Task, StopOneCpu(c, t)
  PROVE  StopInv'
<1> DEFINE src == targ[t].src
           w == [task |-> targ[t].task, dest |-> targ[t].dest, caller |-> t]
           n == Len(stopq[src])
<1>1. tpc[t] = "stop_one" /\ targ[t] \in [task : Task, dest : Cpu, src : Cpu]
  BY DEF StopOneCpu, IndInv, ProgInv
<1>2. stopq[src] \in Seq(Work) /\ w \in Work /\ w.caller = t /\ src \in Cpu
  BY <1>1 DEF Work, IndInv, TypeOK, ProgType
<1>3. /\ stopq' = [stopq EXCEPT ![src] = Append(stopq[src], w)]
      /\ \A u \in Task : tpc[u] = "stop_wait" => tpc'[u] = "stop_wait"
      /\ tpc'[t] = "stop_wait"
  BY <1>1 DEF StopOneCpu, IndInv, TypeOK, ProgType
<1>4. /\ DOMAIN stopq[src] = 1 .. n /\ n \in Nat
      /\ DOMAIN Append(stopq[src], w) = 1 .. n + 1
      /\ Append(stopq[src], w)[n + 1] = w
      /\ \A i \in DOMAIN stopq[src] : Append(stopq[src], w)[i] = stopq[src][i]
  <2> HIDE DEF src, w
  <2> QED BY <1>2, AppendIndex
<1>5. \A d \in Cpu : \A i \in DOMAIN stopq[d] :
        stopq[d][i].caller \in Task /\ tpc[stopq[d][i].caller] = "stop_wait"
  BY StopCaller DEF StopInv
<1> HIDE DEF src, w, n
<1>6. \A d \in Cpu : stopq'[d] = IF d = src THEN Append(stopq[src], w) ELSE stopq[d]
  BY <1>2, <1>3 DEF IndInv, TypeOK, ProgType
<1>7. \A d \in Cpu : \A i \in DOMAIN stopq'[d] :
        \/ i \in DOMAIN stopq[d] /\ stopq'[d][i] = stopq[d][i]
        \/ d = src /\ i = n + 1 /\ stopq'[d][i].caller = t
  <2> SUFFICES ASSUME NEW d \in Cpu, NEW i \in DOMAIN stopq'[d]
               PROVE  \/ i \in DOMAIN stopq[d] /\ stopq'[d][i] = stopq[d][i]
                      \/ d = src /\ i = n + 1 /\ stopq'[d][i].caller = t
    OBVIOUS
  <2>1. CASE d = src
    <3>1. stopq'[d] = Append(stopq[src], w)
      BY <1>6, <2>1
    <3>2. i \in DOMAIN stopq[src] \/ i = n + 1
      BY <1>4, <3>1
    <3> QED
      BY <1>2, <1>4, <2>1, <3>1, <3>2
  <2>2. CASE d # src
    BY <1>6, <2>2
  <2> QED
    BY <2>1, <2>2
<1>8. \A d \in Cpu : \A i \in DOMAIN stopq'[d] : tpc'[stopq'[d][i].caller] = "stop_wait"
  BY <1>3, <1>5, <1>7
<1>9. ASSUME NEW d \in Cpu, NEW e \in Cpu, NEW i \in DOMAIN stopq'[d],
             NEW j \in DOMAIN stopq'[e], stopq'[d][i].caller = stopq'[e][j].caller
      PROVE  d = e /\ i = j
  BY <1>1, <1>5, <1>7, <1>9 DEF StopInv
<1> QED
  BY <1>8, <1>9 DEF StopInv

\* Completing work releases its caller, which waited for that work only.
LEMMA StopDoneStop ==
  ASSUME IndInv, StopInv, NEW c \in Cpu, StopDone(c),
         pc[c] \in StopPc \/ (pc[c] = "move" /\ curr[c] = Stopper)
  PROVE  StopInv'
<1> DEFINE u == Head(stopq[c]).caller
<1>1. stopq[c] \in Seq(Work) /\ stopq[c] # <<>>
  BY DEF LocalsInv, ProgType, Work, IndInv, TypeOK
<1>2. /\ Head(stopq[c]) \in Work /\ 1 \in DOMAIN stopq[c] /\ Head(stopq[c]) = stopq[c][1]
      /\ \A i \in DOMAIN Tail(stopq[c]) :
            /\ i \in Nat \ {0} /\ i + 1 \in DOMAIN stopq[c]
            /\ Tail(stopq[c])[i] = stopq[c][i + 1]
  BY <1>1, TailIndex
<1>3. /\ u \in Task
      /\ \A x \in Task : x # u => tpc'[x] = tpc[x]
      /\ \A d \in Cpu : stopq'[d] = IF d = c THEN Tail(stopq[c]) ELSE stopq[d]
  BY <1>2 DEF StopDone, Work, IndInv, TypeOK, ProgType
<1>4. \A d \in Cpu : \A i \in DOMAIN stopq[d] : stopq[d][i].caller \in Task
  BY StopCaller
<1>5. u = stopq[c][1].caller
  BY <1>2
<1> HIDE DEF u
<1>6. \A d \in Cpu : \A i \in DOMAIN stopq'[d] :
        /\ i \in DOMAIN stopq[d] /\ d # c => stopq'[d][i] = stopq[d][i]
        /\ d = c => i \in Nat \ {0} /\ i + 1 \in DOMAIN stopq[d] /\ stopq'[d][i] = stopq[d][i + 1]
  BY <1>2, <1>3
<1>7. ASSUME NEW d \in Cpu, NEW i \in DOMAIN stopq'[d]
      PROVE  tpc'[stopq'[d][i].caller] = "stop_wait"
  <2>1. CASE d = c
    <3>1. i \in Nat \ {0} /\ i + 1 \in DOMAIN stopq[c] /\ stopq'[d][i] = stopq[c][i + 1]
      BY <2>1, <1>6
    <3>2. stopq[c][i + 1].caller # u
      BY <3>1, <1>2, <1>5 DEF StopInv
    <3> QED
      BY <3>1, <3>2, <1>3, <1>4 DEF StopInv
  <2>2. CASE d # c
    <3>1. i \in DOMAIN stopq[d] /\ stopq'[d][i] = stopq[d][i]
      BY <2>2, <1>3
    <3>2. stopq[d][i].caller # u
      BY <3>1, <2>2, <1>2, <1>5 DEF StopInv
    <3> QED
      BY <3>1, <3>2, <1>3, <1>4 DEF StopInv
  <2> QED
    BY <2>1, <2>2
<1>8. ASSUME NEW d \in Cpu, NEW e \in Cpu, NEW i \in DOMAIN stopq'[d],
             NEW j \in DOMAIN stopq'[e], stopq'[d][i].caller = stopq'[e][j].caller
      PROVE  d = e /\ i = j
  <2>1. CASE d = c /\ e = c
    BY <2>1, <1>6, <1>8 DEF StopInv
  <2>2. CASE d = c /\ e # c
    BY <2>2, <1>3, <1>6, <1>8 DEF StopInv
  <2>3. CASE d # c /\ e = c
    BY <2>3, <1>3, <1>6, <1>8 DEF StopInv
  <2>4. CASE d # c /\ e # c
    BY <2>4, <1>3, <1>8 DEF StopInv
  <2> QED
    BY <2>1, <2>2, <2>3, <2>4
<1> QED
  BY <1>7, <1>8 DEF StopInv

\* Every step preserves StopInv.
LEMMA StopStep ==
  ASSUME IndInv, StopInv, [Next]_vars
  PROVE  StopInv'
<1>1. CASE UNCHANGED vars
  BY <1>1 DEF vars, StopInv
<1>2. ASSUME NEW c \in Cpu, NEW t \in Task, Program(c, t) PROVE StopInv'
  BY <1>2, ProgramWaits, StopKept, StopOneCpuStop
<1>3. ASSUME NEW c \in Cpu, Kernel(c) \/ Interrupt(c) \/ Reschedule(c) PROVE StopInv'
  <2>1. CASE UNCHANGED <<tpc, targ, stopq>>
    BY <2>1 DEF StopInv
  <2>2. CASE MigrationCpuStop(c)
    <3>1. UNCHANGED <<tpc, stopq>> \/ (StopDone(c) /\ pc[c] \in StopPc)
      BY <2>2 DEF MigrationCpuStop, StopMove, StopNothing
    <3> QED
      BY <3>1, StopKept, StopDoneStop
  <2>3. CASE MoveEnqueue(c)
    <3>1. UNCHANGED <<tpc, stopq>> \/ (StopDone(c) /\ pc[c] = "move" /\ curr[c] = Stopper)
      BY <2>3 DEF MoveEnqueue
    <3> QED
      BY <3>1, StopKept, StopDoneStop
  <2>4. ASSUME NEW t \in Task, Schedule(c, t) PROVE StopInv'
    <3>1. /\ UNCHANGED stopq
          /\ \A u \in Task : tpc[u] = "stop_wait" => tpc'[u] = "stop_wait"
      BY <2>4 DEF Schedule, IndInv, TypeOK, ProgType
    <3> QED
      BY <3>1, StopKept
  <2> QED
    BY <1>3, <2>1, <2>2, <2>3, <2>4, ProgFrame
<1> QED
  BY <1>1, <1>2, <1>3 DEF Next

(***************************************************************************)
(* Programs and states.                                                    *)
(***************************************************************************)

\* Whose work is done waited in stop_wait.
LEMMA DoneCaller ==
  ASSUME IndInv, StopInv, NEW c \in Cpu, StopDone(c),
         pc[c] \in StopPc \/ (pc[c] = "move" /\ curr[c] = Stopper)
  PROVE  \E u \in Task : tpc[u] = "stop_wait" /\ tpc' = [tpc EXCEPT ![u] = "work"]
<1>1. stopq[c] \in Seq(Work) /\ stopq[c] # <<>>
  BY DEF LocalsInv, ProgType, Work, IndInv, TypeOK
<1>2. Head(stopq[c]) \in Work /\ 1 \in DOMAIN stopq[c] /\ Head(stopq[c]) = stopq[c][1]
  BY <1>1, HeadWork
<1>3. /\ Head(stopq[c]).caller \in Task /\ tpc[Head(stopq[c]).caller] = "stop_wait"
      /\ tpc' = [tpc EXCEPT ![Head(stopq[c]).caller] = "work"]
  BY <1>2 DEF StopDone, StopInv, Work
<1> QED
  BY <1>3

\* The steps of programs preserve AwakeInv.
LEMMA ProgramAwake ==
  ASSUME IndInv, AwakeInv, NEW c \in Cpu, NEW t \in Task, Program(c, t)
  PROVE  AwakeInv'
<1> USE DEF AtWork, Running
<1> HIDE DEF IndInv
<1>t. /\ tpc \in [Task -> {"free", "new", "work", "test", "sleep", "woken", "dying",
                          "dead", "stop_one", "stop_wait", "forked"}]
      /\ state \in [Task -> SchedState]
      /\ on_rq \in [Task -> {0, 1, 2}]
  BY DEF IndInv, TypeOK, ProgType, TaskType
<1>a. Running(c, t) => on_rq[t] = 1
  BY CurrentTask DEF CurrentFacts
<1>1. \A s \in SleepStates : SetCurrentState(c, t, s) => AwakeInv'
  BY <1>t, <1>a DEF SetCurrentState, AwakeInv
<1>2. \A io : ConditionFalse(c, t, io) => AwakeInv'
  BY <1>t, <1>a DEF ConditionFalse, AwakeInv
<1>3. ASSUME NEW p \in Task, NEW m \in NewMasks, NEW dest \in Cpu,
             SetCpusAllowed(c, t, p, m, dest)
      PROVE  AwakeInv'
  <2>1. CASE MaskOnly(p, m)
    BY <1>3, <2>1 DEF SetCpusAllowed, MaskOnly, AwakeInv
  <2>2. CASE AskStopper(t, p, m, dest)
    BY <1>t, <1>a, <1>3, <2>2 DEF SetCpusAllowed, AskStopper, AwakeInv
  <2>3. CASE MoveNow(c, p, m, dest)
    BY <1>t, <1>3, <2>3 DEF SetCpusAllowed, MoveNow, move_queued_task, task_on_rq_queued, AwakeInv
  <2> QED
    BY <1>3, <2>1, <2>2, <2>3 DEF SetCpusAllowed
<1>4. \A p \in Task : SchedFork(c, t, p) => AwakeInv'
  BY <1>t, <1>a DEF SchedFork, AwakeInv
<1>5. \A dest : SchedExec(c, t, dest) => AwakeInv'
  BY <1>t, <1>a DEF SchedExec, AwakeInv
<1>6. \A dest : WakeUpNewTask(c, t, dest) => AwakeInv'
  <2>1. tpc[t] = "forked" => targ[t].task \in Task /\ tpc[targ[t].task] = "new"
    BY DEF IndInv, ProgInv
  <2> QED
    BY <1>t, <1>a, <2>1 DEF WakeUpNewTask, AwakeInv
<1>7. ConditionTrue(c, t) \/ ScheduleReturn(c, t) => AwakeInv'
  BY <1>t, <1>a DEF ConditionTrue, ScheduleReturn, AwakeInv
<1>8. SetSpecialState(c, t) => AwakeInv'
  BY <1>t, <1>a DEF SetSpecialState, AwakeInv
<1>9. start_to_count(c, t) => AwakeInv'
  BY DEF start_to_count, AwakeInv
<1>10. StopOneCpu(c, t) => AwakeInv'
  BY <1>t, <1>a DEF StopOneCpu, AwakeInv
<1> HIDE DEF AtWork, Running
<1> QED
  BY <1>1, <1>2, <1>3, <1>4, <1>5, <1>6, <1>7, <1>8, <1>9, <1>10 DEF Program

\* The actions of the kernel that write the state of a task, or its place on a
\* queue or in its program.
StateStep(c) ==
    \/ TtwuRemote(c) \/ TtwuWaking(c) \/ TtwuQueue(c) \/ SchedTtwuPending(c)
    \/ MigrationCpuStop(c) \/ MoveEnqueue(c) \/ AttachTask(c)
    \/ \E p \in Task, kind \in WakeKinds : WakeCurrent(c, p, kind)
    \/ \E p \in Task : DetachTask(c, p)
    \/ \E t \in Task : Schedule(c, t)

\* No others do.
LEMMA StateFrame ==
  ASSUME NEW c \in Cpu, Kernel(c) \/ Interrupt(c) \/ Reschedule(c)
  PROVE  UNCHANGED <<state, on_rq, tpc>> \/ StateStep(c)
<1> DEFINE Kept == UNCHANGED <<state, on_rq, tpc>>
<1>1. IowaitInc(c) \/ NoSwitch(c) \/ FinishTaskSwitch(c) \/ Reap(c) => Kept
  BY DEF IowaitInc, NoSwitch, FinishTaskSwitch, Reap
<1>2. \A next : Switch(c, next) => Kept
  BY DEF Switch
<1>3. TtwuLock(c) \/ TtwuOnRq(c) \/ TtwuOnCpu(c) \/ TtwuWakelist(c) => Kept
  BY DEF TtwuLock, TtwuOnRq, TtwuOnCpu, TtwuWakelist
<1>4. \A dest : TtwuSelect(c, dest) => Kept
  BY DEF TtwuSelect
<1>5. \A p, kind : Wake(c, p, kind) => Kept
  BY DEF Wake
<1>6. \A p : Preempt(c, p) => Kept
  BY DEF Preempt
<1>7. TtwuIpi(c) \/ PseudoSchedule(c) \/ StopFlush(c) => Kept
  BY DEF TtwuIpi, PseudoSchedule, StopFlush
<1> HIDE DEF Kept
<1>8. Kept \/ StateStep(c)
  BY <1>1, <1>2, <1>3, <1>4, <1>5, <1>6, <1>7
     DEF Kernel, Interrupt, Reschedule, StateStep
<1> QED
  BY <1>8 DEF Kept

\* Wakeups and activations reach a task that schedule() took off its queue, not
\* one that died; the stopper resumes a caller that is TASK_RUNNING.
LEMMA StateAwake ==
  ASSUME IndInv, StopInv, AwakeInv, NEW c \in Cpu, StateStep(c)
  PROVE  AwakeInv'
<1>t. /\ tpc \in [Task -> {"free", "new", "work", "test", "sleep", "woken", "dying",
                          "dead", "stop_one", "stop_wait", "forked"}]
      /\ state \in [Task -> SchedState]
      /\ on_rq \in [Task -> {0, 1, 2}]
  BY DEF IndInv, TypeOK, ProgType, TaskType
<1>1. CASE TtwuRemote(c)
  <2>1. tgt[c] \in Task /\ state[tgt[c]] \in SleepMask \cup {"RUNNING"}
    BY <1>1 DEF TtwuRemote, IndInv, LocalsInv, WakerInv
  <2> QED
    BY <1>t, <1>1, <2>1 DEF TtwuRemote, TtwuChase, TtwuFlip, TtwuMissed, AwakeInv
<1>2. CASE TtwuWaking(c)
  <2>1. tgt[c] \in Task /\ state[tgt[c]] \in SleepMask /\ on_rq[tgt[c]] = 0
    BY <1>2 DEF TtwuWaking, IndInv, LocalsInv, WakerInv
  <2> QED
    BY <1>t, <1>2, <2>1 DEF TtwuWaking, AwakeInv
<1>3. CASE TtwuQueue(c)
  <2>1. tgt[c] \in Task /\ state[tgt[c]] = "WAKING" /\ on_rq[tgt[c]] = 0
    BY <1>3 DEF TtwuQueue, IndInv, LocalsInv, WakerInv
  <2>2. tpc[tgt[c]] \notin {"free", "new", "dead"}
    BY <2>1 DEF IndInv, ProgInv, AwakeInv
  <2> QED
    BY <1>t, <1>3, <2>1, <2>2 DEF TtwuQueue, ttwu_do_activate, AwakeInv
<1>4. CASE SchedTtwuPending(c)
  <2>1. \A p \in pending[c] : p \in Task /\ state[p] = "WAKING" /\ on_rq[p] = 0
    BY DEF IndInv, ListInv, TypeOK, RqType
  <2>2. \A p \in pending[c] : tpc[p] \notin {"free", "new", "dead"}
    BY <2>1 DEF IndInv, ProgInv, AwakeInv
  <2> QED
    BY <1>t, <1>4, <2>1, <2>2 DEF SchedTtwuPending, ttwu_do_activate, AwakeInv
<1>5. CASE MigrationCpuStop(c)
  <2> DEFINE p == Head(stopq[c]).task
             dest == Head(stopq[c]).dest
  <2>1. CASE StopMove(c, p, dest)
    <3>1. Head(stopq[c]) \in Work
      BY <1>5, StopWork DEF StopFacts, MigrationCpuStop
    <3>2. p \in Task /\ UNCHANGED <<state, tpc>> /\ on_rq[p] = 1 /\ on_rq' = [on_rq EXCEPT ![p] = 2]
      BY <1>5, <2>1, <3>1
         DEF MigrationCpuStop, StopMove, move_queued_task, task_on_rq_queued, Work
    <3> HIDE DEF p
    <3> QED
      BY <1>t, <3>2 DEF AwakeInv
  <2>2. CASE StopNothing(c, p, dest)
    <3>1. PICK u \in Task : tpc[u] = "stop_wait" /\ tpc' = [tpc EXCEPT ![u] = "work"]
      BY <1>5, <2>2, DoneCaller DEF MigrationCpuStop, StopNothing
    <3>2. UNCHANGED <<state, on_rq>>
      BY <1>5, <2>2 DEF MigrationCpuStop, StopNothing
    <3> QED
      BY <1>t, <3>1, <3>2 DEF AwakeInv
  <2> QED
    BY <1>5, <2>1, <2>2 DEF MigrationCpuStop
<1>6. CASE MoveEnqueue(c)
  <2>1. tgt[c] \in Task /\ on_rq[tgt[c]] = 2
    BY <1>6 DEF MoveEnqueue, IndInv, LocalsInv, QueueInv, task_on_rq_migrating
  <2>2. UNCHANGED state /\ on_rq' = [on_rq EXCEPT ![tgt[c]] = 1]
    BY <1>6 DEF MoveEnqueue
  <2>3. UNCHANGED tpc
        \/ \E u \in Task : tpc[u] = "stop_wait" /\ tpc' = [tpc EXCEPT ![u] = "work"]
    BY <1>6, DoneCaller DEF MoveEnqueue
  <2> QED
    BY <1>t, <2>1, <2>2, <2>3 DEF AwakeInv
<1>7. CASE AttachTask(c)
  <2>1. tgt[c] \in Task /\ on_rq[tgt[c]] = 2
    BY <1>7 DEF AttachTask, IndInv, LocalsInv, QueueInv, task_on_rq_migrating
  <2> QED
    BY <1>t, <1>7, <2>1 DEF AttachTask, AwakeInv
<1>8. ASSUME NEW p \in Task, NEW kind \in WakeKinds, WakeCurrent(c, p, kind)
      PROVE  AwakeInv'
  BY <1>t, <1>8 DEF WakeCurrent, WakeMask, AwakeInv
<1>9. ASSUME NEW p \in Task, DetachTask(c, p) PROVE AwakeInv'
  BY <1>t, <1>9 DEF DetachTask, task_on_rq_queued, AwakeInv
<1>10. ASSUME NEW t \in Task, Schedule(c, t) PROVE AwakeInv'
  <2>1. on_rq[t] = 1 /\ tpc[t] \in {"sleep", "dying"}
    BY <1>10, CurrentTask DEF CurrentFacts, Schedule
  <2>2. tpc' = [tpc EXCEPT ![t] = AfterSchedule(t)]
    BY <1>10 DEF Schedule
  <2>3. CASE KeepRunnable(c, t)
    BY <1>t, <2>1, <2>2, <2>3 DEF KeepRunnable, AfterSchedule, AwakeInv
  <2>4. CASE CancelSleep(c, t)
    BY <1>t, <2>1, <2>2, <2>4 DEF CancelSleep, signal_pending_state, AfterSchedule, AwakeInv
  <2>5. CASE Deactivate(c, t)
    BY <1>t, <2>1, <2>2, <2>5 DEF Deactivate, AfterSchedule, AwakeInv
  <2> QED
    BY <1>10, <2>3, <2>4, <2>5 DEF Schedule
<1> QED
  BY <1>1, <1>2, <1>3, <1>4, <1>5, <1>6, <1>7, <1>8, <1>9, <1>10 DEF StateStep

\* Every step preserves AwakeInv.
LEMMA AwakeStep ==
  ASSUME IndInv, StopInv, AwakeInv, [Next]_vars
  PROVE  AwakeInv'
<1>1. CASE UNCHANGED <<state, on_rq, tpc>>
  BY <1>1 DEF AwakeInv
<1>2. UNCHANGED vars => UNCHANGED <<state, on_rq, tpc>>
  BY DEF vars
<1>3. ASSUME NEW c \in Cpu, NEW t \in Task, Program(c, t) PROVE AwakeInv'
  BY <1>3, ProgramAwake
<1>4. ASSUME NEW c \in Cpu, Kernel(c) \/ Interrupt(c) \/ Reschedule(c) PROVE AwakeInv'
  BY <1>4, <1>1, StateFrame, StateAwake
<1> QED
  BY <1>1, <1>2, <1>3, <1>4 DEF Next

(***************************************************************************)
(* The end of a task.                                                      *)
(***************************************************************************)

\* A CPU inside __schedule() still executes the task it switches from.
LEMMA SwitchesCurrent ==
  ASSUME IndInv, NEW c \in Cpu, pc[c] \in SwitchPc, tgt[c] \in Task
  PROVE  /\ Executes(c, tgt[c]) /\ on_cpu[tgt[c]] /\ cpu[tgt[c]] = c
         /\ \A d \in Cpu : curr[d] = tgt[c] => d = c
<1>1. Executes(c, tgt[c])
  BY DEF IndInv, LocalsInv, Executes
<1> QED
  BY <1>1 DEF IndInv, ExecInv, Executes

\* Every step preserves DyingInv: nobody but the task itself, on the CPU where it
\* runs, starts to die.
LEMMA DyingStep ==
  ASSUME IndInv, StopInv, AwakeInv, DyingInv, [Next]_vars
  PROVE  DyingInv'
<1>t. /\ tpc \in [Task -> {"free", "new", "work", "test", "sleep", "woken", "dying",
                          "dead", "stop_one", "stop_wait", "forked"}]
      /\ tgt \in [Cpu -> Task \cup {Idle, Stopper, None}] /\ DOMAIN pc = Cpu
  BY DEF IndInv, TypeOK, ProgType, CtlType
<1>1. CASE UNCHANGED <<pc, tgt, tpc>>
  BY <1>1 DEF DyingInv
<1>2. UNCHANGED vars => UNCHANGED <<pc, tgt, tpc>>
  BY DEF vars
\* The start: t runs on c, so no other CPU is switching from it.
<1>3. ASSUME NEW c \in Cpu, NEW t \in Task, SetSpecialState(c, t) PROVE DyingInv'
  <2>1. pc[c] = "run" /\ curr[c] = t /\ UNCHANGED <<pc, tgt>>
    BY <1>3 DEF SetSpecialState, AtWork, Running
  <2>2. \A d \in Cpu : pc[d] \in SwitchPc => tgt[d] # t
    BY <2>1, SwitchesCurrent
  <2>3. \A u \in Task \ {t} : tpc'[u] = tpc[u]
    BY <1>t, <1>3 DEF SetSpecialState
  <2> QED
    BY <2>1, <2>2, <2>3 DEF DyingInv
\* Otherwise nobody starts to die, and a CPU enters __schedule() with a task that
\* does not, or turns dying into dead.
<1>4. ASSUME NEW c \in Cpu, OthersKept(c),
             \A u \in Task : tpc'[u] = "dying" => tpc[u] = "dying",
             \/ pc'[c] \notin SwitchPc
             \/ tgt'[c] \notin Task
             \/ pc[c] \in SwitchPc /\ tgt'[c] = tgt[c]
             \/ tpc'[tgt'[c]] # "dying"
      PROVE  DyingInv'
  BY <1>4, <1>t DEF DyingInv, OthersKept
<1>5. ASSUME NEW c \in Cpu, NEW t \in Task, Program(c, t) PROVE DyingInv'
  <2>1. CASE SetSpecialState(c, t)
    BY <1>3, <2>1
  <2>2. CASE ~SetSpecialState(c, t)
    <3>1. \A u \in Task : tpc'[u] = "dying" => tpc[u] = "dying"
      <4> DEFINE Kept == \A u \in Task : tpc'[u] = "dying" => tpc[u] = "dying"
      <4>1. \A s : SetCurrentState(c, t, s) \/ ConditionFalse(c, t, s) => Kept
        BY <1>t DEF SetCurrentState, ConditionFalse
      <4>2. \A s : SchedExec(c, t, s) \/ SchedFork(c, t, s) => Kept
        BY <1>t DEF SchedExec, SchedFork
      <4>3. \A dest : WakeUpNewTask(c, t, dest) => Kept
        BY <1>t DEF WakeUpNewTask
      <4>4. \A p, m, dest : SetCpusAllowed(c, t, p, m, dest) => Kept
        BY <1>t DEF SetCpusAllowed, MaskOnly, AskStopper, MoveNow
      <4>5. ConditionTrue(c, t) \/ ScheduleReturn(c, t) \/ start_to_count(c, t)
              \/ StopOneCpu(c, t) => Kept
        BY <1>t DEF ConditionTrue, ScheduleReturn, start_to_count, StopOneCpu
      <4> HIDE DEF Kept
      <4>6. Kept
        BY <1>5, <2>2, <4>1, <4>2, <4>3, <4>4, <4>5 DEF Program
      <4> QED
        BY <4>6 DEF Kept
    <3>2. OthersKept(c)
      BY <1>5, OwnLocals
    <3>3. pc[c] = "run" /\ (pc'[c] = "run" \/ pc'[c] = "move")
      <4> DEFINE R == pc[c] = "run" /\ (pc'[c] = "run" \/ pc'[c] = "move")
      <4>1. \A s : SetCurrentState(c, t, s) \/ ConditionFalse(c, t, s) => R
        BY <1>t DEF SetCurrentState, ConditionFalse, AtWork, Running
      <4>2. \A s : SchedExec(c, t, s) \/ SchedFork(c, t, s) => R
        BY <1>t DEF SchedExec, SchedFork, AtWork, Running
      <4>3. \A dest : WakeUpNewTask(c, t, dest) => R
        BY <1>t DEF WakeUpNewTask, Running
      <4>4. \A p, m, dest : SetCpusAllowed(c, t, p, m, dest) => R
        BY <1>t DEF SetCpusAllowed, MaskOnly, AskStopper, MoveNow, move_queued_task, AtWork, Running
      <4>5. ConditionTrue(c, t) \/ ScheduleReturn(c, t) \/ start_to_count(c, t)
              \/ StopOneCpu(c, t) => R
        BY <1>t DEF ConditionTrue, ScheduleReturn, start_to_count, StopOneCpu, AtWork, Running
      <4> HIDE DEF R
      <4>6. R
        BY <1>5, <2>2, <4>1, <4>2, <4>3, <4>4, <4>5 DEF Program
      <4> QED
        BY <4>6 DEF R
    <3> QED
      BY <1>4, <3>1, <3>2, <3>3
  <2> QED
    BY <2>1, <2>2
<1>6. ASSUME NEW c \in Cpu, Kernel(c) \/ Interrupt(c) \/ Reschedule(c) PROVE DyingInv'
  <2>a. OthersKept(c)
    BY <1>6, OwnLocals
  <2>1. CASE \E t \in Task : Schedule(c, t)
    <3> PICK t \in Task : Schedule(c, t)
      BY <2>1
    <3>1. tgt'[c] = t /\ tpc'[t] \in {"dead", "woken"} /\ \A u \in Task \ {t} : tpc'[u] = tpc[u]
      BY <1>t DEF Schedule, AfterSchedule
    <3> QED
      BY <1>4, <2>a, <3>1
  <2>2. CASE \E t \in Task : Preempt(c, t)
    BY <1>t, <1>4, <2>a, <2>2 DEF Preempt
  <2>3. CASE ~(\E t \in Task : Schedule(c, t) \/ Preempt(c, t))
    <3>1. \A u \in Task : tpc'[u] = "dying" => tpc[u] = "dying"
      <4>1. UNCHANGED tpc \/ MigrationCpuStop(c) \/ MoveEnqueue(c)
        BY <1>6, <2>3, ProgFrame
      <4>2. MigrationCpuStop(c) \/ MoveEnqueue(c) => UNCHANGED tpc \/ StopDone(c)
        BY DEF MigrationCpuStop, StopMove, StopNothing, MoveEnqueue
      <4>3. UNCHANGED tpc \/ StopDone(c)
        BY <4>1, <4>2
      <4> QED
        BY <1>t, <4>3 DEF StopDone
    <3>2. \/ pc'[c] \notin SwitchPc \/ tgt'[c] \notin Task
          \/ pc[c] \in SwitchPc /\ tgt'[c] = tgt[c]
      <4> DEFINE G == \/ pc'[c] \notin SwitchPc \/ tgt'[c] \notin Task
                      \/ pc[c] \in SwitchPc /\ tgt'[c] = tgt[c]
      <4>1. IowaitInc(c) \/ NoSwitch(c) \/ FinishTaskSwitch(c) \/ Reap(c) => G
        BY <1>t DEF IowaitInc, NoSwitch, FinishTaskSwitch, Reap, Return
      <4>2. \A next : Switch(c, next) => G
        BY DEF Switch
      <4>3. TtwuLock(c) \/ TtwuOnRq(c) \/ TtwuWaking(c) => G
        BY <1>t DEF TtwuLock, TtwuMatch, TtwuNoMatch, Return, TtwuOnRq, TtwuWaking
      <4>3a. TtwuOnCpu(c) => G
        BY <1>t DEF TtwuOnCpu
      <4>4. TtwuRemote(c) => G
        BY <1>t DEF TtwuRemote, TtwuChase, TtwuFlip, TtwuMissed, Return
      <4>5. TtwuWakelist(c) \/ TtwuQueue(c) \/ SchedTtwuPending(c) => G
        BY <1>t DEF TtwuWakelist, TtwuQueue, SchedTtwuPending, Return
      <4>6. \A dest : TtwuSelect(c, dest) => G
        BY <1>t DEF TtwuSelect
      <4>7. MigrationCpuStop(c) => G
        BY <1>t DEF MigrationCpuStop, StopMove, StopNothing, move_queued_task, Return
      <4>7a. MoveEnqueue(c) \/ AttachTask(c) => G
        BY <1>t DEF MoveEnqueue, AttachTask, Return
      <4>8. \A p, kind : WakeCurrent(c, p, kind) \/ Wake(c, p, kind) => G
        BY <1>t DEF WakeCurrent, Running, Wake
      <4>9. \A p : DetachTask(c, p) => G
        BY <1>t DEF DetachTask
      <4>10. TtwuIpi(c) \/ StopFlush(c) => G
        BY <1>t DEF TtwuIpi, StopFlush
      <4>11. PseudoSchedule(c) => G
        BY <1>t DEF PseudoSchedule
      <4> HIDE DEF G
      <4>12. G
        BY <1>6, <2>3, <4>1, <4>2, <4>3, <4>3a, <4>4, <4>5, <4>6, <4>7, <4>7a, <4>8, <4>9, <4>10, <4>11
           DEF Kernel, Interrupt, Reschedule
      <4> QED
        BY <4>12 DEF G
    <3> QED
      BY <1>4, <2>a, <3>1, <3>2
  <2> QED
    BY <2>1, <2>2, <2>3
<1> QED
  BY <1>1, <1>2, <1>5, <1>6 DEF Next

\* A step that is not one of those that begin or end a life keeps who is free and
\* who is dead.
LifeKept ==
    \A u \in Task : (tpc'[u] = "free" <=> tpc[u] = "free") /\ (tpc'[u] = "dead" <=> tpc[u] = "dead")

\* Forking and the last schedule() are the only such steps of programs ...
LEMMA ProgramLives ==
  ASSUME IndInv, NEW c \in Cpu, NEW t \in Task, Program(c, t),
         ~\E p \in Task : SchedFork(c, t, p)
  PROVE  LifeKept /\ UNCHANGED <<usage, on_cpu>> /\ pc'[c] # "reap"
<1>t. /\ tpc \in [Task -> {"free", "new", "work", "test", "sleep", "woken", "dying",
                          "dead", "stop_one", "stop_wait", "forked"}]
      /\ DOMAIN pc = Cpu
  BY DEF IndInv, TypeOK, ProgType, CtlType
<1> DEFINE G == LifeKept /\ UNCHANGED <<usage, on_cpu>> /\ pc'[c] # "reap"
<1> USE DEF LifeKept, AtWork, Running
<1>1. \A s : SetCurrentState(c, t, s) \/ ConditionFalse(c, t, s) => G
  BY <1>t DEF SetCurrentState, ConditionFalse
<1>2. \A s : SchedExec(c, t, s) => G
  BY <1>t DEF SchedExec
<1>3. \A dest : WakeUpNewTask(c, t, dest) => G
  <2>1. tpc[t] = "forked" => targ[t].task \in Task /\ tpc[targ[t].task] = "new"
    BY DEF IndInv, ProgInv
  <2> QED
    BY <1>t, <2>1 DEF WakeUpNewTask
<1>4. \A p, m, dest : SetCpusAllowed(c, t, p, m, dest) => G
  BY <1>t DEF SetCpusAllowed, MaskOnly, AskStopper, MoveNow, move_queued_task
<1>5. ConditionTrue(c, t) \/ ScheduleReturn(c, t) \/ SetSpecialState(c, t) => G
  BY <1>t DEF ConditionTrue, ScheduleReturn, SetSpecialState
<1>6. start_to_count(c, t) \/ StopOneCpu(c, t) => G
  BY <1>t DEF start_to_count, StopOneCpu
<1> HIDE DEF G
<1>7. G
  BY <1>1, <1>2, <1>3, <1>4, <1>5, <1>6 DEF Program
<1> QED
  BY <1>7 DEF G

\* ... and of the kernel.
LEMMA KernelLives ==
  ASSUME IndInv, StopInv, NEW c \in Cpu, Kernel(c) \/ Interrupt(c) \/ Reschedule(c)
  PROVE  \/ \E t \in Task : Schedule(c, t)
         \/ \E next \in Task \cup {Idle, Stopper} : Switch(c, next)
         \/ FinishTaskSwitch(c)
         \/ Reap(c)
         \/ LifeKept /\ UNCHANGED <<usage, on_cpu>> /\ pc'[c] # "reap"
<1>t. /\ tpc \in [Task -> {"free", "new", "work", "test", "sleep", "woken", "dying",
                          "dead", "stop_one", "stop_wait", "forked"}]
      /\ DOMAIN pc = Cpu
  BY DEF IndInv, TypeOK, ProgType, CtlType
<1> DEFINE G == LifeKept /\ UNCHANGED <<usage, on_cpu>> /\ pc'[c] # "reap"
<1>1. IowaitInc(c) \/ NoSwitch(c) => G
  BY <1>t DEF IowaitInc, NoSwitch, Return, LifeKept
<1>2. TtwuLock(c) \/ TtwuOnRq(c) \/ TtwuWaking(c) \/ TtwuOnCpu(c) => G
  <2>1. TtwuLock(c) \/ TtwuOnRq(c) \/ TtwuWaking(c) \/ TtwuOnCpu(c)
          => UNCHANGED <<tpc, usage, on_cpu>>
    BY DEF TtwuLock, TtwuOnRq, TtwuWaking, TtwuOnCpu
  <2>2. TtwuLock(c) \/ TtwuOnRq(c) => pc'[c] # "reap"
    BY <1>t DEF TtwuLock, TtwuMatch, TtwuNoMatch, Return, TtwuOnRq
  <2>3. TtwuWaking(c) \/ TtwuOnCpu(c) => pc'[c] # "reap"
    BY <1>t DEF TtwuWaking, TtwuOnCpu
  <2> QED
    BY <2>1, <2>2, <2>3 DEF LifeKept
<1>3. TtwuRemote(c) => G
  BY <1>t DEF TtwuRemote, TtwuChase, TtwuFlip, TtwuMissed, Return, LifeKept
<1>4. TtwuWakelist(c) \/ TtwuQueue(c) \/ SchedTtwuPending(c) => G
  BY <1>t DEF TtwuWakelist, TtwuQueue, SchedTtwuPending, Return, LifeKept
<1>5. \A dest : TtwuSelect(c, dest) => G
  BY <1>t DEF TtwuSelect, LifeKept
<1>6. StopDone(c) /\ (pc[c] \in StopPc \/ (pc[c] = "move" /\ curr[c] = Stopper)) => LifeKept
  BY <1>t, DoneCaller DEF LifeKept
<1>7. MigrationCpuStop(c) => G
  <2>1. MigrationCpuStop(c) => UNCHANGED tpc \/ (StopDone(c) /\ pc[c] \in StopPc)
    BY DEF MigrationCpuStop, StopMove, StopNothing
  <2>2. MigrationCpuStop(c) => UNCHANGED <<usage, on_cpu>> /\ pc'[c] # "reap"
    BY <1>t DEF MigrationCpuStop, StopMove, StopNothing, move_queued_task, Return
  <2> QED
    BY <1>6, <2>1, <2>2 DEF LifeKept
<1>8. MoveEnqueue(c) => G
  <2>1. MoveEnqueue(c) => UNCHANGED tpc \/ (StopDone(c) /\ pc[c] = "move" /\ curr[c] = Stopper)
    BY DEF MoveEnqueue
  <2>2. MoveEnqueue(c) => UNCHANGED <<usage, on_cpu>> /\ pc'[c] # "reap"
    BY <1>t DEF MoveEnqueue, Return
  <2> QED
    BY <1>6, <2>1, <2>2 DEF LifeKept
<1>9. AttachTask(c) => G
  BY <1>t DEF AttachTask, Return, LifeKept
<1>10. \A p, kind : WakeCurrent(c, p, kind) \/ Wake(c, p, kind) => G
  BY <1>t DEF WakeCurrent, Running, Wake, LifeKept
<1>11. \A p : DetachTask(c, p) \/ Preempt(c, p) => G
  BY <1>t DEF DetachTask, Preempt, LifeKept
<1>12. TtwuIpi(c) \/ StopFlush(c) \/ PseudoSchedule(c) => G
  BY <1>t DEF TtwuIpi, StopFlush, PseudoSchedule, LifeKept
<1> HIDE DEF G
<1>13. \/ \E t \in Task : Schedule(c, t)
       \/ \E next \in Task \cup {Idle, Stopper} : Switch(c, next)
       \/ FinishTaskSwitch(c) \/ Reap(c) \/ G
  BY <1>1, <1>2, <1>3, <1>4, <1>5, <1>7, <1>8, <1>9, <1>10, <1>11, <1>12
     DEF Kernel, Interrupt, Reschedule
<1> QED
  BY <1>13 DEF G

\* Every step preserves RefInv.
LEMMA RefStep ==
  ASSUME IndInv, StopInv, AwakeInv, DyingInv, RefInv, [Next]_vars
  PROVE  RefInv'
<1>t. /\ tpc \in [Task -> {"free", "new", "work", "test", "sleep", "woken", "dying",
                          "dead", "stop_one", "stop_wait", "forked"}]
      /\ tgt \in [Cpu -> Task \cup {Idle, Stopper, None}] /\ DOMAIN pc = Cpu
      /\ usage \in [Task -> Int] /\ on_cpu \in [Task -> BOOLEAN] /\ DOMAIN prev_state = Cpu
  BY DEF IndInv, TypeOK, ProgType, CtlType, AccountType, TaskType
<1>1. CASE UNCHANGED vars
  BY <1>1 DEF vars, RefInv, Reaps
<1>2. ASSUME NEW c \in Cpu, OthersKept(c), LifeKept, UNCHANGED <<usage, on_cpu>>, pc'[c] # "reap"
      PROVE  RefInv'
  BY <1>2 DEF RefInv, Reaps, OthersKept, LifeKept
\* A new task gets its first reference.
<1>3. ASSUME NEW c \in Cpu, NEW t \in Task, NEW p \in Task, SchedFork(c, t, p)
      PROVE  RefInv'
  <2>1. /\ UNCHANGED <<on_cpu, pc, tgt, prev_state>> /\ usage' = [usage EXCEPT ![p] = 1]
        /\ tpc' = [tpc EXCEPT ![p] = "new", ![t] = "forked"]
        /\ tpc[p] = "free" /\ tpc[t] = "work"
    BY <1>3 DEF SchedFork, AtWork
  <2> QED
    BY <1>t, <2>1 DEF RefInv, Reaps
<1>4. ASSUME NEW c \in Cpu, NEW t \in Task, Program(c, t) PROVE RefInv'
  BY <1>2, <1>3, <1>4, ProgramLives, OwnLocals
\* The last schedule() of a task: it is current, so it has its reference.
<1>5. ASSUME NEW c \in Cpu, NEW t \in Task, Schedule(c, t) PROVE RefInv'
  <2>1. on_cpu[t] /\ tpc[t] \in {"sleep", "dying"}
    BY <1>5, CurrentTask DEF CurrentFacts, Schedule
  <2>2. /\ tpc' = [tpc EXCEPT ![t] = AfterSchedule(t)] /\ UNCHANGED <<usage, on_cpu>>
        /\ OthersKept(c)
    BY <1>5, OwnLocals DEF Schedule, Reschedule
  <2>3. pc'[c] # "reap"
    BY <1>t, <1>5 DEF Schedule, KeepRunnable, CancelSleep, Deactivate
  <2> QED
    BY <1>t, <2>1, <2>2, <2>3 DEF RefInv, Reaps, OthersKept, AfterSchedule
\* Only queued tasks are switched to, and those are alive.
<1>6. ASSUME NEW c \in Cpu, NEW next \in Task \cup {Idle, Stopper}, Switch(c, next)
      PROVE  RefInv'
  <2>1. next \in Task => tpc[next] \notin {"free", "dead"}
    <3>1. next \in Task => next \in rq[c]
      BY <1>6 DEF Switch, pick_next_task
    <3>2. next \in Task => on_rq[next] = 1
      BY <3>1 DEF IndInv, QueueInv, RunqueueConsistent, task_on_rq_queued
    <3> QED
      BY <3>2 DEF AwakeInv, IndInv, ProgInv
  <2>2. /\ on_cpu' = IF next \in Task THEN [on_cpu EXCEPT ![next] = TRUE] ELSE on_cpu
        /\ UNCHANGED <<tpc, usage, tgt, prev_state>> /\ pc' = [pc EXCEPT ![c] = "finish"]
    BY <1>6 DEF Switch
  <2> QED
    BY <1>t, <2>1, <2>2 DEF RefInv, Reaps
\* prev is released; if it died, this CPU and no other drops its reference.
<1>7. ASSUME NEW c \in Cpu, FinishTaskSwitch(c) PROVE RefInv'
  <2>1. /\ pc[c] = "finish" /\ pc' = [pc EXCEPT ![c] = "reap"] /\ UNCHANGED <<tpc, usage, tgt>>
        /\ prev_state' = [prev_state EXCEPT ![c] = IF tgt[c] \in Task THEN state[tgt[c]] ELSE None]
        /\ on_cpu' = IF tgt[c] \in Task THEN [on_cpu EXCEPT ![tgt[c]] = FALSE] ELSE on_cpu
    BY <1>7 DEF FinishTaskSwitch, finish_task
  <2>2. CASE tgt[c] \notin Task
    BY <1>t, <2>1, <2>2 DEF RefInv, Reaps
  <2>3. CASE tgt[c] \in Task /\ state[tgt[c]] # "DEAD"
    BY <1>t, <2>1, <2>3 DEF RefInv, Reaps
  <2>4. CASE tgt[c] \in Task /\ state[tgt[c]] = "DEAD"
    <3>1. on_cpu[tgt[c]]
      BY <2>1, <2>4, SwitchesCurrent
    <3>2. tpc[tgt[c]] = "dead"
      BY <2>1, <2>4, <3>1 DEF DyingInv, AwakeInv, IndInv, ProgInv
    <3>3. usage[tgt[c]] = 1 /\ \A d \in Cpu : ~Reaps(d, tgt[c])
      BY <2>4, <3>1 DEF RefInv
    <3> QED
      BY <1>t, <2>1, <2>4, <3>2, <3>3 DEF RefInv, Reaps
  <2> QED
    BY <2>2, <2>3, <2>4
<1>8. ASSUME NEW c \in Cpu, Reap(c) PROVE RefInv'
  <2>1. /\ UNCHANGED <<tpc, on_cpu>> /\ pc'[c] = "run" /\ OthersKept(c) /\ pc[c] = "reap"
        /\ usage' = IF prev_state[c] = "DEAD" THEN [usage EXCEPT ![tgt[c]] = @ - 1] ELSE usage
    BY <1>t, <1>8, OwnLocals DEF Reap, Return, PrevDied, Kernel
  <2>2. CASE prev_state[c] # "DEAD"
    BY <2>1, <2>2, <1>2 DEF LifeKept
  <2>3. CASE prev_state[c] = "DEAD"
    <3>1. /\ tgt[c] \in Task /\ usage[tgt[c]] = 1 /\ tpc[tgt[c]] = "dead" /\ ~on_cpu[tgt[c]]
          /\ \A d \in Cpu : Reaps(d, tgt[c]) => d = c
      BY <2>1, <2>3 DEF RefInv, Reaps
    <3>2. usage' = [usage EXCEPT ![tgt[c]] = 0]
      BY <1>t, <2>1, <2>3, <3>1
    <3> QED
      BY <1>t, <2>1, <3>1, <3>2 DEF RefInv, Reaps, OthersKept
  <2> QED
    BY <2>2, <2>3
<1>9. ASSUME NEW c \in Cpu, Kernel(c) \/ Interrupt(c) \/ Reschedule(c) PROVE RefInv'
  BY <1>2, <1>5, <1>6, <1>7, <1>8, <1>9, KernelLives, OwnLocals
<1> QED
  BY <1>1, <1>4, <1>9 DEF Next

(***************************************************************************)
(* Resuming, and the last reference.                                       *)
(***************************************************************************)

LifeInv == IndInv /\ StopInv /\ AwakeInv /\ DyingInv /\ RefInv

\* Initially nobody waits, switches or dies.
LEMMA LifeInit == Init => LifeInv
<1> SUFFICES ASSUME Init PROVE LifeInv
  OBVIOUS
<1>1. IndInv
  BY InitInv
<1>2. StopInv
  BY DEF Init, StopInv
<1>3. AwakeInv
  BY DEF Init, AwakeInv
<1>4. DyingInv
  BY DEF Init, DyingInv
<1>5. RefInv
  BY DEF Init, RefInv, Reaps
<1> QED
  BY <1>1, <1>2, <1>3, <1>4, <1>5 DEF LifeInv

\* Programs, states and references stay consistent, on any number of CPUs.
THEOREM LifeInvariance == Spec => []LifeInv
<1>1. LifeInv /\ [Next]_vars => LifeInv'
  BY NextInv, StopStep, AwakeStep, DyingStep, RefStep DEF LifeInv
<1> QED
  BY LifeInit, <1>1, PTL DEF Spec

\* Whoever gets past schedule() is TASK_RUNNING, and do_task_dead() never gets
\* past it.
THEOREM ResumedTasksAwake == Spec => []ResumedAwake
<1>1. ASSUME LifeInv PROVE ResumedAwake
  <2>1. \A c \in Cpu, t \in Task : Running(c, t) => on_rq[t] = 1
    BY <1>1, CurrentTask DEF LifeInv, CurrentFacts
  <2> QED
    BY <1>1, <2>1 DEF LifeInv, AwakeInv, ResumedAwake
<1> QED
  BY <1>1, LifeInvariance, PTL

\* put_task_struct() in finish_task_switch() drops the last reference of a task
\* once, when it is dead, off its queue, and on no CPU's stack.
THEOREM ReferencesHeld == Spec => []ReferenceHeld
<1>1. ASSUME LifeInv PROVE ReferenceHeld
  <2>1. ASSUME NEW t \in Task, usage[t] = 0, tpc[t] # "free"
        PROVE  /\ tpc[t] = "dead" /\ state[t] = "DEAD" /\ on_rq[t] = 0
               /\ \A c \in Cpu : ~Executes(c, t)
    <3>1. tpc[t] = "dead" /\ ~on_cpu[t]
      BY <1>1, <2>1 DEF LifeInv, RefInv
    <3> QED
      BY <1>1, <3>1 DEF LifeInv, AwakeInv, IndInv, ExecInv
  <2> QED
    BY <1>1, <2>1 DEF LifeInv, RefInv, ReferenceHeld
<1> QED
  BY <1>1, LifeInvariance, PTL

(***************************************************************************)
(* Wakeups.                                                                *)
(***************************************************************************)

\* CPU c is not waking anybody, or goes on waking the same task.
WakerGoesOn(c) ==
    \/ pc[c] \notin TtwuPc \cup {"ttwu_lock"}
    \/ /\ tgt'[c] = tgt[c] /\ mask'[c] = mask[c] /\ pc'[c] \in TtwuPc

\* Lists of woken tasks are passed on, not dropped.
ListedKept ==
    \A t \in Task : (\E c \in Cpu : t \in wakelist[c] \cup pending[c]) =>
                    \/ state'[t] # "WAKING"
                    \/ \E c \in Cpu : t \in wakelist'[c] \cup pending'[c]

\* A step by which nobody comes to be owed a wakeup keeps WakeupInv.
LEMMA WakeupKept ==
  ASSUME WakeupInv, NEW c \in Cpu, OthersKept(c), WakerGoesOn(c), ListedKept,
         \A t \in Task : WakeupOwed(t)' => WakeupOwed(t) /\ state'[t] = state[t],
         \A t \in Task : state'[t] = "WAKING" => state[t] = "WAKING"
  PROVE  WakeupInv'
<1>1. ASSUME NEW t \in Task, WakeupOwed(t)' PROVE WakeupInFlight(t)'
  <2>1. WakeupInFlight(t) /\ state'[t] = state[t]
    BY <1>1 DEF WakeupInv
  <2> QED
    BY <2>1 DEF WakeupInFlight, OthersKept, WakerGoesOn
<1>2. ASSUME NEW t \in Task, state'[t] = "WAKING" PROVE WakerHas(t)'
  <2>1. WakerHas(t)
    BY <1>2 DEF WakeupInv
  <2> QED
    BY <2>1, <1>2 DEF WakerHas, OthersKept, WakerGoesOn, ListedKept
<1> QED
  BY <1>1, <1>2 DEF WakeupInv

\* The program of a task runs only when it is awake, and tests the CONDITION
\* after it has announced its sleep.
LEMMA ProgramWakeup ==
  ASSUME IndInv, AwakeInv, WakeupInv, NEW c \in Cpu, NEW t \in Task, Program(c, t)
  PROVE  WakeupInv'
<1>t. /\ tpc \in [Task -> {"free", "new", "work", "test", "sleep", "woken", "dying",
                          "dead", "stop_one", "stop_wait", "forked"}]
      /\ state \in [Task -> SchedState]
      /\ on_rq \in [Task -> {0, 1, 2}] /\ cond \in [Task -> BOOLEAN]
      /\ sigpending \in [Task -> BOOLEAN]
  BY DEF IndInv, TypeOK, ProgType, TaskType
<1> DEFINE G == /\ pc[c] = "run" /\ UNCHANGED <<wakelist, pending>>
                /\ \A u \in Task : WakeupOwed(u)' => WakeupOwed(u) /\ state'[u] = state[u]
                /\ \A u \in Task : state'[u] = "WAKING" => state[u] = "WAKING"
<1>a. Running(c, t) => on_rq[t] = 1
  BY CurrentTask DEF CurrentFacts
<1> USE DEF AtWork, Running
<1>1. \A s \in SleepStates : SetCurrentState(c, t, s) => G
  BY <1>t DEF SetCurrentState, WakeupOwed
<1>2. \A io : ConditionFalse(c, t, io) => G
  BY <1>t, <1>a DEF ConditionFalse, WakeupOwed
<1>3. \A p, m, dest : SetCpusAllowed(c, t, p, m, dest) => G
  BY <1>t DEF SetCpusAllowed, MaskOnly, AskStopper, MoveNow, move_queued_task,
     task_on_rq_queued, WakeupOwed
<1>4. \A p \in Task : SchedFork(c, t, p) => G
  BY <1>t DEF SchedFork, WakeupOwed
<1>5. \A dest : SchedExec(c, t, dest) => G
  BY <1>t DEF SchedExec, WakeupOwed
<1>6. \A dest : WakeUpNewTask(c, t, dest) => G
  BY <1>t DEF WakeUpNewTask, WakeupOwed
<1>7. ConditionTrue(c, t) \/ ScheduleReturn(c, t) => G
  BY <1>t DEF ConditionTrue, ScheduleReturn, WakeupOwed
<1>8. SetSpecialState(c, t) \/ start_to_count(c, t) => G
  BY <1>t DEF SetSpecialState, start_to_count, WakeupOwed
<1>9. StopOneCpu(c, t) => G
  BY <1>t DEF StopOneCpu, WakeupOwed
<1> HIDE DEF G, AtWork, Running
<1>10. G
  BY <1>1, <1>2, <1>3, <1>4, <1>5, <1>6, <1>7, <1>8, <1>9 DEF Program
<1>11. OthersKept(c)
  BY OwnLocals
<1> QED
  BY <1>10, <1>11, WakeupKept DEF G, WakerGoesOn, ListedKept

\* Schedule() leaves the queue only after it has looked for a signal.
LEMMA RescheduleWakeup ==
  ASSUME IndInv, WakeupInv, NEW c \in Cpu, Reschedule(c)
  PROVE  WakeupInv'
<1>t. /\ tpc \in [Task -> {"free", "new", "work", "test", "sleep", "woken", "dying",
                          "dead", "stop_one", "stop_wait", "forked"}]
      /\ state \in [Task -> SchedState]
      /\ on_rq \in [Task -> {0, 1, 2}] /\ cond \in [Task -> BOOLEAN]
      /\ sigpending \in [Task -> BOOLEAN]
  BY DEF IndInv, TypeOK, ProgType, TaskType
<1>a. OthersKept(c)
  BY OwnLocals
<1>1. ASSUME NEW t \in Task, Schedule(c, t) PROVE WakeupInv'
  <2>1. /\ pc[c] = "run" /\ UNCHANGED <<cond, sigpending, wakelist, pending>>
        /\ tpc[t] \in {"sleep", "dying"} /\ tpc' = [tpc EXCEPT ![t] = AfterSchedule(t)]
    BY <1>1 DEF Schedule, Running
  <2>2. /\ \A u \in Task : WakeupOwed(u)' => WakeupOwed(u) /\ state'[u] = state[u]
        /\ \A u \in Task : state'[u] = "WAKING" => state[u] = "WAKING"
    <3>1. CASE KeepRunnable(c, t)
      BY <1>t, <2>1, <3>1 DEF KeepRunnable, WakeupOwed
    <3>2. CASE CancelSleep(c, t)
      BY <1>t, <2>1, <3>2 DEF CancelSleep, WakeupOwed
    <3>3. CASE Deactivate(c, t)
      BY <1>t, <2>1, <3>3 DEF Deactivate, signal_pending_state, AfterSchedule, WakeupOwed
    <3> QED
      BY <1>1, <3>1, <3>2, <3>3 DEF Schedule
  <2> QED
    BY <1>a, <2>1, <2>2, WakeupKept DEF WakerGoesOn, ListedKept
<1>2. ASSUME (\E t \in Task : Preempt(c, t)) \/ PseudoSchedule(c) PROVE WakeupInv'
  <2>1. /\ pc[c] = "run"
        /\ UNCHANGED <<cond, sigpending, wakelist, pending, tpc, state, on_rq>>
    BY <1>2 DEF Preempt, PseudoSchedule, Running
  <2> QED
    BY <1>a, <2>1, WakeupKept DEF WakerGoesOn, ListedKept, WakeupOwed
<1>3. ASSUME StopFlush(c) PROVE WakeupInv'
  <2>1. /\ pc[c] = "run" /\ UNCHANGED <<cond, sigpending, tpc, state, on_rq>>
        /\ pending' = [pending EXCEPT ![c] = wakelist[c]]
        /\ wakelist' = [wakelist EXCEPT ![c] = {}]
    BY <1>3 DEF StopFlush, Running
  <2>2. pending[c] = {} /\ DOMAIN pending = Cpu /\ DOMAIN wakelist = Cpu
    BY <2>1 DEF IndInv, LocalsInv, TypeOK, RqType
  <2>3. ListedKept
    BY <2>1, <2>2 DEF ListedKept
  <2> QED
    BY <1>a, <2>1, <2>3, WakeupKept DEF WakerGoesOn, WakeupOwed
<1> QED
  BY <1>1, <1>2, <1>3 DEF Reschedule

\* An interrupt that makes a CONDITION true, or sends a signal, wakes its own task
\* at once or enters try_to_wake_up().
LEMMA InterruptWakeup ==
  ASSUME IndInv, AwakeInv, WakeupInv, NEW c \in Cpu, Interrupt(c)
  PROVE  WakeupInv'
<1>t. /\ state \in [Task -> SchedState]
      /\ on_rq \in [Task -> {0, 1, 2}] /\ cond \in [Task -> BOOLEAN]
      /\ sigpending \in [Task -> BOOLEAN] /\ pc[c] = "run"
      /\ DOMAIN pc = Cpu /\ DOMAIN tgt = Cpu /\ DOMAIN mask = Cpu
  <2>1. pc[c] = "run"
    BY DEF Interrupt, WakeCurrent, Wake, TtwuIpi, DetachTask, Running
  <2> QED
    BY <2>1 DEF IndInv, TypeOK, ProgType, TaskType, CtlType
<1>a. OthersKept(c)
  BY OwnLocals
<1>1. ASSUME NEW p \in Task, NEW kind \in WakeKinds, WakeCurrent(c, p, kind)
      PROVE  WakeupInv'
  <2>1. on_rq[p] = 1
    BY <1>1, CurrentTask DEF CurrentFacts, WakeCurrent
  <2>2. /\ UNCHANGED <<tpc, on_rq, wakelist, pending>> /\ Announce(p, kind)
        /\ state' = IF state[p] \in WakeMask(kind)
                    THEN [state EXCEPT ![p] = "RUNNING"] ELSE state
    BY <1>1 DEF WakeCurrent
  <2>3. \A u \in Task : WakeupOwed(u)' => WakeupOwed(u) /\ state'[u] = state[u]
    <3>1. CASE kind = "cond"
      BY <1>t, <2>1, <2>2, <3>1 DEF WakeupOwed, Announce, WakeMask
    <3>2. CASE kind = "signal"
      BY <1>t, <2>1, <2>2, <3>2 DEF WakeupOwed, Announce, WakeMask
    <3> QED
      BY <3>1, <3>2
  <2>4. \A u \in Task : state'[u] = "WAKING" => state[u] = "WAKING"
    BY <1>t, <2>2
  <2> QED
    BY <1>t, <1>a, <2>2, <2>3, <2>4, WakeupKept DEF WakerGoesOn, ListedKept
<1>2. ASSUME NEW p \in Task, NEW kind \in WakeKinds, Wake(c, p, kind)
      PROVE  WakeupInv'
  <2>1. /\ UNCHANGED <<tpc, on_rq, wakelist, pending, state>> /\ Announce(p, kind)
        /\ pc'[c] = "ttwu_lock" /\ tgt'[c] = p /\ mask'[c] = WakeMask(kind)
    BY <1>t, <1>2 DEF Wake
  <2>2. ASSUME NEW u \in Task, WakeupOwed(u)' PROVE WakeupInFlight(u)'
    <3>1. CASE WakeupOwed(u)
      <4>1. WakeupInFlight(u)
        BY <3>1 DEF WakeupInv
      <4> QED
        BY <1>t, <1>a, <2>1, <4>1 DEF WakeupInFlight, OthersKept
    <3>2. CASE ~WakeupOwed(u)
      <4>1. u = p /\ state[p] \in WakeMask(kind)
        <5>1. CASE kind = "cond"
          BY <1>t, <2>1, <2>2, <3>2, <5>1 DEF WakeupOwed, Announce, WakeMask
        <5>2. CASE kind = "signal"
          BY <1>t, <2>1, <2>2, <3>2, <5>2 DEF WakeupOwed, Announce, WakeMask
        <5> QED
          BY <5>1, <5>2
      <4> QED
        BY <2>1, <4>1 DEF WakeupInFlight
    <3> QED
      BY <3>1, <3>2
  <2>3. ASSUME NEW u \in Task, state'[u] = "WAKING" PROVE WakerHas(u)'
    <3>1. WakerHas(u)
      BY <2>1, <2>3 DEF WakeupInv
    <3> QED
      BY <1>t, <1>a, <2>1, <3>1 DEF WakerHas, OthersKept
  <2> QED
    BY <2>2, <2>3 DEF WakeupInv
<1>3. ASSUME TtwuIpi(c) PROVE WakeupInv'
  <2>1. /\ UNCHANGED <<cond, sigpending, tpc, state, on_rq>>
        /\ pending' = [pending EXCEPT ![c] = wakelist[c]]
        /\ wakelist' = [wakelist EXCEPT ![c] = {}]
    BY <1>3 DEF TtwuIpi
  <2>2. pending[c] = {} /\ DOMAIN pending = Cpu /\ DOMAIN wakelist = Cpu
    BY <1>t DEF IndInv, LocalsInv, TypeOK, RqType
  <2>3. ListedKept
    BY <2>1, <2>2 DEF ListedKept
  <2> QED
    BY <1>t, <1>a, <2>1, <2>3, WakeupKept DEF WakerGoesOn, WakeupOwed
<1>4. ASSUME NEW p \in Task, DetachTask(c, p) PROVE WakeupInv'
  <2>1. /\ UNCHANGED <<cond, sigpending, tpc, state, wakelist, pending>>
        /\ on_rq' = [on_rq EXCEPT ![p] = 2]
    BY <1>4 DEF DetachTask
  <2> QED
    BY <1>t, <1>a, <2>1, WakeupKept DEF WakerGoesOn, ListedKept, WakeupOwed
<1> QED
  BY <1>1, <1>2, <1>3, <1>4 DEF Interrupt

\* try_to_wake_up() gives up only on a task that is awake, and otherwise leaves
\* it queued or on a wakelist.
LEMMA KernelWakeup ==
  ASSUME IndInv, StopInv, AwakeInv, WakeupInv, NEW c \in Cpu, Kernel(c)
  PROVE  WakeupInv'
<1>t. /\ state \in [Task -> SchedState] /\ on_rq \in [Task -> {0, 1, 2}]
      /\ tpc \in [Task -> {"free", "new", "work", "test", "sleep", "woken", "dying",
                          "dead", "stop_one", "stop_wait", "forked"}]
      /\ DOMAIN pc = Cpu /\ DOMAIN tgt = Cpu /\ DOMAIN mask = Cpu
      /\ wakelist \in [Cpu -> SUBSET Task] /\ pending \in [Cpu -> SUBSET Task]
  BY DEF IndInv, TypeOK, ProgType, TaskType, CtlType, RqType
<1>a. OthersKept(c)
  BY OwnLocals
<1>q. ASSUME UNCHANGED <<cond, sigpending, tpc, state, on_rq, wakelist, pending>>,
             WakerGoesOn(c)
      PROVE  WakeupInv'
  BY <1>a, <1>q, WakeupKept DEF ListedKept, WakeupOwed
<1>1. ASSUME IowaitInc(c) \/ NoSwitch(c) \/ FinishTaskSwitch(c) \/ Reap(c)
               \/ (\E next : Switch(c, next))
      PROVE  WakeupInv'
  <2>1. UNCHANGED <<cond, sigpending, tpc, state, on_rq, wakelist, pending>>
    BY <1>1 DEF IowaitInc, NoSwitch, FinishTaskSwitch, Reap, Switch
  <2>2. pc[c] \notin TtwuPc \cup {"ttwu_lock"}
    BY <1>1 DEF IowaitInc, NoSwitch, FinishTaskSwitch, Reap, Switch
  <2> QED
    BY <1>q, <2>1, <2>2 DEF WakerGoesOn
<1>2. ASSUME TtwuLock(c) PROVE WakeupInv'
  <2>1. UNCHANGED <<cond, sigpending, tpc, state, on_rq, wakelist, pending>>
    BY <1>2 DEF TtwuLock
  <2>2. CASE TtwuMatch(c)
    <3>1. WakerGoesOn(c)
      BY <1>t, <2>2 DEF TtwuMatch, WakerGoesOn
    <3> QED
      BY <1>q, <2>1, <3>1
  <2>3. CASE TtwuNoMatch(c)
    <3>1. pc[c] = "ttwu_lock" /\ state[tgt[c]] \notin mask[c]
      BY <1>2, <2>3 DEF TtwuLock, TtwuNoMatch
    <3>2. ASSUME NEW u \in Task, WakeupOwed(u)' PROVE WakeupInFlight(u)'
      <4>1. WakeupInFlight(u)
        BY <2>1, <3>2 DEF WakeupOwed, WakeupInv
      <4> QED
        BY <1>a, <2>1, <3>1, <4>1 DEF WakeupInFlight, OthersKept
    <3>3. ASSUME NEW u \in Task, state'[u] = "WAKING" PROVE WakerHas(u)'
      <4>1. WakerHas(u)
        BY <2>1, <3>3 DEF WakeupInv
      <4> QED
        BY <1>a, <2>1, <3>1, <4>1 DEF WakerHas, OthersKept
    <3> QED
      BY <3>2, <3>3 DEF WakeupInv
  <2> QED
    BY <1>2, <2>2, <2>3 DEF TtwuLock
<1>3. ASSUME TtwuOnRq(c) \/ TtwuOnCpu(c) \/ (\E dest \in Cpu : TtwuSelect(c, dest))
      PROVE  WakeupInv'
  <2>1. UNCHANGED <<cond, sigpending, tpc, state, on_rq, wakelist, pending, tgt, mask>>
    BY <1>3 DEF TtwuOnRq, TtwuOnCpu, TtwuSelect
  <2>2. pc'[c] \in TtwuPc
    <3>1. TtwuOnRq(c) => pc'[c] \in TtwuPc
      BY <1>t DEF TtwuOnRq
    <3>2. TtwuOnCpu(c) => pc'[c] \in TtwuPc
      BY <1>t DEF TtwuOnCpu
    <3>3. \A dest : TtwuSelect(c, dest) => pc'[c] \in TtwuPc
      BY <1>t DEF TtwuSelect
    <3> QED
      BY <1>3, <3>1, <3>2, <3>3
  <2> QED
    BY <1>q, <2>1, <2>2 DEF WakerGoesOn
<1>4. ASSUME TtwuRemote(c) PROVE WakeupInv'
  <2>1. /\ UNCHANGED <<cond, sigpending, tpc, on_rq, wakelist, pending>>
        /\ pc[c] = "ttwu_remote" /\ tgt[c] \in Task
    BY <1>4 DEF TtwuRemote, IndInv, LocalsInv
  <2>2. CASE TtwuChase(c, tgt[c]) \/ TtwuMissed(c, tgt[c])
    <3>1. UNCHANGED state /\ WakerGoesOn(c)
      BY <1>t, <2>1, <2>2 DEF TtwuChase, TtwuMissed, WakerGoesOn
    <3> QED
      BY <1>q, <2>1, <3>1
  <2>3. CASE TtwuFlip(c, tgt[c])
    <3>1. state' = [state EXCEPT ![tgt[c]] = "RUNNING"]
      BY <2>3 DEF TtwuFlip
    <3>2. ASSUME NEW u \in Task, WakeupOwed(u)' PROVE WakeupInFlight(u)'
      <4>1. u # tgt[c] /\ WakeupOwed(u)
        BY <1>t, <2>1, <3>1, <3>2 DEF WakeupOwed
      <4>2. WakeupInFlight(u)
        BY <4>1 DEF WakeupInv
      <4> QED
        BY <1>t, <1>a, <3>1, <4>1, <4>2 DEF WakeupInFlight, OthersKept
    <3>3. ASSUME NEW u \in Task, state'[u] = "WAKING" PROVE WakerHas(u)'
      <4>1. u # tgt[c] /\ WakerHas(u)
        BY <1>t, <2>1, <3>1, <3>3 DEF WakeupInv
      <4> QED
        BY <1>a, <2>1, <4>1 DEF WakerHas, OthersKept
    <3> QED
      BY <3>2, <3>3 DEF WakeupInv
  <2> QED
    BY <1>4, <2>2, <2>3 DEF TtwuRemote
<1>5. ASSUME TtwuWaking(c) PROVE WakeupInv'
  <2>1. /\ UNCHANGED <<cond, sigpending, tpc, on_rq, wakelist, pending, tgt, mask>>
        /\ tgt[c] \in Task /\ state' = [state EXCEPT ![tgt[c]] = "WAKING"]
        /\ pc'[c] = "ttwu_on_cpu"
    BY <1>t, <1>5 DEF TtwuWaking, IndInv, LocalsInv
  <2>2. ASSUME NEW u \in Task, WakeupOwed(u)' PROVE WakeupInFlight(u)'
    <3>1. u # tgt[c] /\ WakeupOwed(u)
      BY <1>t, <2>1, <2>2 DEF WakeupOwed
    <3>2. WakeupInFlight(u)
      BY <3>1 DEF WakeupInv
    <3> QED
      BY <1>t, <1>a, <2>1, <3>1, <3>2 DEF WakeupInFlight, OthersKept
  <2>3. ASSUME NEW u \in Task, state'[u] = "WAKING" PROVE WakerHas(u)'
    <3>1. CASE u = tgt[c]
      BY <2>1, <3>1 DEF WakerHas
    <3>2. CASE u # tgt[c]
      <4>1. WakerHas(u)
        BY <1>t, <2>1, <2>3, <3>2 DEF WakeupInv
      <4> QED
        BY <1>a, <2>1, <3>2, <4>1 DEF WakerHas, OthersKept
    <3> QED
      BY <3>1, <3>2
  <2> QED
    BY <2>2, <2>3 DEF WakeupInv
<1>6. ASSUME TtwuWakelist(c) PROVE WakeupInv'
  <2>1. /\ UNCHANGED <<cond, sigpending, tpc, state, on_rq, pending>>
        /\ tgt[c] \in Task /\ state[tgt[c]] = "WAKING" /\ lrq[c] \in Cpu
        /\ wakelist' = [wakelist EXCEPT ![lrq[c]] = @ \cup {tgt[c]}]
    BY <1>6 DEF TtwuWakelist, IndInv, LocalsInv, WakerInv
  <2>2. ASSUME NEW u \in Task, WakeupOwed(u)' PROVE WakeupInFlight(u)'
    <3>1. u # tgt[c] /\ WakeupInFlight(u)
      BY <2>1, <2>2 DEF WakeupOwed, WakeupInv
    <3> QED
      BY <1>a, <2>1, <3>1 DEF WakeupInFlight, OthersKept
  <2>3. ASSUME NEW u \in Task, state'[u] = "WAKING" PROVE WakerHas(u)'
    <3>1. CASE u = tgt[c]
      BY <1>t, <2>1, <3>1 DEF WakerHas
    <3>2. CASE u # tgt[c]
      <4>1. WakerHas(u)
        BY <2>1, <2>3 DEF WakeupInv
      <4> QED
        BY <1>t, <1>a, <2>1, <3>2, <4>1 DEF WakerHas, OthersKept
    <3> QED
      BY <3>1, <3>2
  <2> QED
    BY <2>2, <2>3 DEF WakeupInv
\* An activated task is TASK_RUNNING.
<1>b. ASSUME NEW S \in SUBSET Task, NEW d \in Cpu, ttwu_do_activate(d, S),
             UNCHANGED <<cond, sigpending, tpc, wakelist>>,
             pc[c] \in TtwuPc => tgt[c] \in S, pc[c] # "ttwu_lock",
             \A e \in Cpu : \A u \in pending[e] : u \in S \/ u \in pending'[e]
      PROVE  WakeupInv'
  <2>1. /\ \A u \in Task : state'[u] = IF u \in S THEN "RUNNING" ELSE state[u]
        /\ \A u \in Task : on_rq'[u] = IF u \in S THEN 1 ELSE on_rq[u]
    BY <1>b DEF ttwu_do_activate
  <2>2. ASSUME NEW u \in Task, WakeupOwed(u)' PROVE WakeupInFlight(u)'
    <3>1. u \notin S /\ WakeupOwed(u)
      BY <1>b, <2>1, <2>2 DEF WakeupOwed
    <3>2. WakeupInFlight(u)
      BY <3>1 DEF WakeupInv
    <3> QED
      BY <1>a, <1>b, <2>1, <3>1, <3>2 DEF WakeupInFlight, OthersKept
  <2>3. ASSUME NEW u \in Task, state'[u] = "WAKING" PROVE WakerHas(u)'
    <3>1. u \notin S /\ WakerHas(u)
      BY <2>1, <2>3 DEF WakeupInv
    <3> QED
      BY <1>a, <1>b, <3>1 DEF WakerHas, OthersKept
  <2> QED
    BY <2>2, <2>3 DEF WakeupInv
<1>7. ASSUME TtwuQueue(c) PROVE WakeupInv'
  <2>1. /\ ttwu_do_activate(lrq[c], {tgt[c]}) /\ lrq[c] \in Cpu /\ tgt[c] \in Task
        /\ UNCHANGED <<cond, sigpending, tpc, wakelist, pending>> /\ pc[c] = "ttwu_queue"
    BY <1>7 DEF TtwuQueue, IndInv, LocalsInv
  <2> QED
    BY <1>b, <2>1
<1>8. ASSUME SchedTtwuPending(c) PROVE WakeupInv'
  <2>1. /\ ttwu_do_activate(c, pending[c]) /\ pc[c] \in {"pending", "stop_pending"}
        /\ UNCHANGED <<cond, sigpending, tpc, wakelist>>
        /\ pending' = [pending EXCEPT ![c] = {}]
    BY <1>8 DEF SchedTtwuPending
  <2>2. \A e \in Cpu : \A u \in pending[e] : u \in pending[c] \/ u \in pending'[e]
    BY <1>t, <2>1
  <2>3. pending[c] \in SUBSET Task /\ pc[c] \notin TtwuPc \cup {"ttwu_lock"}
    BY <2>1 DEF IndInv, TypeOK, RqType
  <2> QED
    BY <1>b, <2>1, <2>2, <2>3
<1>9. ASSUME MigrationCpuStop(c) \/ MoveEnqueue(c) \/ AttachTask(c) PROVE WakeupInv'
  <2>1. UNCHANGED <<cond, sigpending, state, wakelist, pending>>
    BY <1>9 DEF MigrationCpuStop, MoveEnqueue, AttachTask
  <2>2. pc[c] \in {"stop_lock", "move", "attach"}
    BY <1>9 DEF MigrationCpuStop, MoveEnqueue, AttachTask
  <2>3. \A u \in Task : tpc'[u] \in {"sleep", "woken"} => tpc'[u] = tpc[u]
    <3>1. \/ UNCHANGED tpc
          \/ StopDone(c) /\ (pc[c] \in StopPc \/ (pc[c] = "move" /\ curr[c] = Stopper))
      BY <1>9 DEF MigrationCpuStop, StopMove, StopNothing, MoveEnqueue, AttachTask
    <3> QED
      BY <1>t, <3>1, DoneCaller
  <2>4. \A u \in Task : on_rq'[u] = 0 => on_rq[u] = 0
    BY <1>t, <1>9 DEF MigrationCpuStop, StopMove, move_queued_task, StopNothing, MoveEnqueue,
       AttachTask
  <2>5. \A u \in Task : WakeupOwed(u)' => WakeupOwed(u) /\ state'[u] = state[u]
    BY <2>1, <2>3, <2>4 DEF WakeupOwed
  <2> QED
    BY <1>a, <2>1, <2>2, <2>5, WakeupKept DEF WakerGoesOn, ListedKept
<1> QED
  BY <1>1, <1>2, <1>3, <1>4, <1>5, <1>6, <1>7, <1>8, <1>9 DEF Kernel

\* Every step preserves WakeupInv.
LEMMA WakeupStep ==
  ASSUME IndInv, StopInv, AwakeInv, WakeupInv, [Next]_vars
  PROVE  WakeupInv'
<1>1. CASE UNCHANGED vars
  BY <1>1 DEF vars, WakeupInv, WakeupOwed, WakeupInFlight, WakerHas
<1> QED
  BY <1>1, ProgramWakeup, KernelWakeup, InterruptWakeup, RescheduleWakeup DEF Next

\* No wakeup is lost between the test of the CONDITION and schedule(), between
\* on_rq and on_cpu, or on a wakelist: whoever blocks although its CONDITION is
\* true, or a signal is pending, is in the hands of a waker.
THEOREM WakeupsNotLost == Spec => []NoLostWakeup
<1>1. Init => WakeupInv
  BY DEF Init, WakeupInv, WakeupOwed
<1>2. LifeInv /\ WakeupInv /\ [Next]_vars => WakeupInv'
  BY WakeupStep DEF LifeInv
<1>3. ASSUME LifeInv, WakeupInv PROVE NoLostWakeup
  <2>1. ASSUME NEW t \in Task, Blocked(t), WakeupDue(t) PROVE WakeupInFlight(t)
    <3>1. tpc[t] = "woken"
      BY <1>3, <2>1 DEF LifeInv, AwakeInv, IndInv, ProgInv, Blocked
    <3>2. WakeupOwed(t)
      BY <2>1, <3>1 DEF Blocked, WakeupDue, WakeupOwed
    <3> QED
      BY <1>3, <3>2 DEF WakeupInv
  <2> QED
    BY <1>3, <2>1 DEF WakeupInv, WakerHas, NoLostWakeup
<1> QED
  BY <1>1, <1>2, <1>3, LifeInvariance, PTL DEF Spec

(***************************************************************************)
(* I/O wait.                                                               *)
(***************************************************************************)

\* The same tasks sleep in I/O wait, where they did.
IoKept ==
    /\ UNCHANGED nr_iowait
    /\ \A d \in Cpu : pc'[d] = "iowait" <=> pc[d] = "iowait"
    /\ \A t \in Task : IoAsleep(t)' <=> IoAsleep(t)
    /\ \A t \in Task : IoAsleep(t) => cpu'[t] = cpu[t]

\* in_iowait is set between io_schedule_prepare() and io_schedule_finish() only.
IoProg == \A t \in Task : in_iowait[t] => tpc[t] \in {"sleep", "woken"}

\* Then the counts stay exact.
LEMMA IoCountKept ==
  ASSUME IoInv, IoKept, IoProg'
  PROVE  IoInv'
<1>1. \A d \in Cpu : IoSleepers(d)' = IoSleepers(d)
  BY DEF IoKept, IoSleepers
<1> QED
  BY <1>1 DEF IoInv, IoKept, IoProg

\* A program neither sleeps nor wakes a sleeper by itself.
LEMMA ProgramIo ==
  ASSUME IndInv, IoInv, NEW c \in Cpu, NEW t \in Task, Program(c, t)
  PROVE  IoInv'
<1>t. /\ tpc \in [Task -> {"free", "new", "work", "test", "sleep", "woken", "dying",
                          "dead", "stop_one", "stop_wait", "forked"}]
      /\ state \in [Task -> SchedState] /\ cpu \in [Task -> Cpu]
      /\ on_rq \in [Task -> {0, 1, 2}] /\ in_iowait \in [Task -> BOOLEAN]
      /\ DOMAIN pc = Cpu /\ IoProg
  BY DEF IndInv, TypeOK, ProgType, TaskType, AccountType, CtlType, IoInv, IoProg
<1>a. Running(c, t) => on_rq[t] = 1
  BY CurrentTask DEF CurrentFacts
<1> DEFINE G == IoKept /\ IoProg'
<1> USE DEF AtWork, Running, IoKept, IoProg, IoAsleep
<1>1. \A s : SetCurrentState(c, t, s) => G
  BY <1>t, <1>a DEF SetCurrentState
<1>2. \A io : ConditionFalse(c, t, io) => G
  BY <1>t, <1>a DEF ConditionFalse
<1>3. ASSUME NEW p \in Task, NEW m, NEW dest, SetCpusAllowed(c, t, p, m, dest) PROVE G
  <2>1. CASE MaskOnly(p, m)
    BY <1>t, <1>3, <2>1 DEF SetCpusAllowed, MaskOnly
  <2>2. CASE AskStopper(t, p, m, dest)
    BY <1>t, <1>3, <2>2 DEF SetCpusAllowed, AskStopper
  <2>3. CASE MoveNow(c, p, m, dest)
    BY <1>t, <1>3, <2>3 DEF SetCpusAllowed, MoveNow, move_queued_task, task_on_rq_queued
  <2> QED
    BY <1>3, <2>1, <2>2, <2>3 DEF SetCpusAllowed
<1>4. \A p \in Task : SchedFork(c, t, p) => G
  BY <1>t DEF SchedFork
<1>5. \A dest : SchedExec(c, t, dest) => G
  BY <1>t DEF SchedExec
<1>6. \A dest : WakeUpNewTask(c, t, dest) => G
  <2>1. tpc[t] = "forked" => targ[t].task \in Task /\ tpc[targ[t].task] = "new"
    BY DEF IndInv, ProgInv
  <2> QED
    BY <1>t, <2>1 DEF WakeUpNewTask
<1>7. ConditionTrue(c, t) \/ ScheduleReturn(c, t) => G
  BY <1>t, <1>a DEF ConditionTrue, ScheduleReturn
<1>8. SetSpecialState(c, t) => G
  BY <1>t, <1>a DEF SetSpecialState
<1>9. start_to_count(c, t) \/ StopOneCpu(c, t) => G
  BY <1>t DEF start_to_count, StopOneCpu
<1> HIDE DEF G, AtWork, Running, IoKept, IoProg
<1>10. G
  BY <1>1, <1>2, <1>3, <1>4, <1>5, <1>6, <1>7, <1>8, <1>9 DEF Program
<1> QED
  BY <1>10, IoCountKept DEF G

\* Sleepers in I/O wait are a finite set.
LEMMA IoFinite == \A d \in Cpu : IsFiniteSet(IoSleepers(d)) /\ Cardinality(IoSleepers(d)) \in Nat
<1>1. \A d \in Cpu : IoSleepers(d) \subseteq Task
  BY DEF IoSleepers
<1> QED
  BY <1>1, FS_Subset, FS_CardinalityType

\* schedule() puts a task into I/O wait on the rq it leaves.
LEMMA ScheduleIo ==
  ASSUME IndInv, IoInv, NEW c \in Cpu, NEW t \in Task, Schedule(c, t)
  PROVE  IoInv'
<1>t. /\ tpc \in [Task -> {"free", "new", "work", "test", "sleep", "woken", "dying",
                          "dead", "stop_one", "stop_wait", "forked"}]
      /\ state \in [Task -> SchedState] /\ cpu \in [Task -> Cpu]
      /\ on_rq \in [Task -> {0, 1, 2}] /\ in_iowait \in [Task -> BOOLEAN]
      /\ DOMAIN pc = Cpu /\ IoProg /\ nr_iowait \in [Cpu -> Int]
  BY DEF IndInv, TypeOK, ProgType, TaskType, AccountType, CtlType, IoInv, IoProg
<1>1. /\ on_rq[t] = 1 /\ cpu[t] = c /\ state[t] # "WAKING" /\ pc[c] = "run"
      /\ tpc[t] \in {"sleep", "dying"}
      /\ tpc' = [tpc EXCEPT ![t] = AfterSchedule(t)] /\ UNCHANGED <<nr_iowait, in_iowait, cpu>>
  BY CurrentTask DEF CurrentFacts, Schedule, Running
<1>2. IoProg'
  BY <1>t, <1>1 DEF IoProg, AfterSchedule
<1>3. CASE KeepRunnable(c, t)
  <2>1. IoKept
    BY <1>t, <1>1, <1>3 DEF KeepRunnable, IoKept, IoAsleep
  <2> QED
    BY <1>2, <2>1, IoCountKept
<1>4. CASE CancelSleep(c, t)
  <2>1. IoKept
    BY <1>t, <1>1, <1>4 DEF CancelSleep, IoKept, IoAsleep
  <2> QED
    BY <1>2, <2>1, IoCountKept
<1>5. CASE Deactivate(c, t) /\ ~in_iowait[t]
  <2>1. IoKept
    BY <1>t, <1>1, <1>5 DEF Deactivate, IoKept, IoAsleep
  <2> QED
    BY <1>2, <2>1, IoCountKept
<1>6. CASE Deactivate(c, t) /\ in_iowait[t]
  <2>1. on_rq' = [on_rq EXCEPT ![t] = 0] /\ pc' = [pc EXCEPT ![c] = "iowait"] /\ UNCHANGED state
    BY <1>6 DEF Deactivate
  <2>2. t \notin IoSleepers(c) /\ IoSleepers(c)' = IoSleepers(c) \cup {t}
    BY <1>t, <1>1, <1>6, <2>1 DEF IoSleepers, IoAsleep
  <2>3. \A d \in Cpu \ {c} : IoSleepers(d)' = IoSleepers(d)
    BY <1>t, <1>1, <2>1 DEF IoSleepers, IoAsleep
  <2>4. Cardinality(IoSleepers(c)') = Cardinality(IoSleepers(c)) + 1
    BY <2>2, IoFinite, FS_AddElement
  <2>5. \A d \in Cpu : nr_iowait'[d] + (IF pc'[d] = "iowait" THEN 1 ELSE 0)
                      = Cardinality(IoSleepers(d)')
    BY <1>t, <1>1, <2>1, <2>3, <2>4, IoFinite DEF IoInv
  <2> QED
    BY <1>2, <2>5 DEF IoInv, IoProg
<1> QED
  BY <1>3, <1>4, <1>5, <1>6 DEF Schedule

\* try_to_wake_up() takes it out of I/O wait on that rq, even when the increment
\* has still to come.
LEMMA TtwuWakingIo ==
  ASSUME IndInv, IoInv, NEW c \in Cpu, TtwuWaking(c)
  PROVE  IoInv'
<1> PICK p \in Task : p = tgt[c]
  BY DEF TtwuWaking, IndInv, LocalsInv
<1>t. /\ state \in [Task -> SchedState] /\ cpu \in [Task -> Cpu]
      /\ DOMAIN pc = Cpu /\ IoProg /\ nr_iowait \in [Cpu -> Int]
  BY DEF IndInv, TypeOK, TaskType, AccountType, CtlType, IoInv, IoProg
<1>1. /\ p \in Task /\ on_rq[p] = 0 /\ state[p] # "WAKING"
      /\ state' = [state EXCEPT ![p] = "WAKING"] /\ UNCHANGED <<on_rq, cpu, in_iowait, tpc>>
      /\ nr_iowait' = IF in_iowait[p] THEN [nr_iowait EXCEPT ![cpu[p]] = @ - 1] ELSE nr_iowait
      /\ \A d \in Cpu : pc'[d] = "iowait" <=> pc[d] = "iowait"
  BY <1>t DEF TtwuWaking, IowaitRq, IndInv, LocalsInv, WakerInv
<1>2. IoProg'
  BY <1>t, <1>1 DEF IoProg
<1>3. CASE ~in_iowait[p]
  <2>1. IoKept
    BY <1>t, <1>1, <1>3 DEF IoKept, IoAsleep
  <2> QED
    BY <1>2, <2>1, IoCountKept
<1>4. CASE in_iowait[p]
  <2> PICK d \in Cpu : d = cpu[p]
    BY <1>t
  <2>0. p \in IoSleepers(d)
    BY <1>t, <1>1, <1>4 DEF IoSleepers, IoAsleep
  <2>1. IoSleepers(d)' = IoSleepers(d) \ {p}
    BY <1>t, <1>1, <1>4 DEF IoSleepers, IoAsleep
  <2>2. \A e \in Cpu \ {d} : IoSleepers(e)' = IoSleepers(e)
    BY <1>t, <1>1 DEF IoSleepers, IoAsleep
  <2>3. nr_iowait' = [nr_iowait EXCEPT ![d] = @ - 1]
    BY <1>1, <1>4
  <2>4. Cardinality(IoSleepers(d)') = Cardinality(IoSleepers(d)) - 1
    <3>1. IsFiniteSet(IoSleepers(d)) /\ Cardinality(IoSleepers(d)) \in Nat
      BY IoFinite
    <3> DEFINE S == IoSleepers(d)
    <3>2. IsFiniteSet(S) /\ p \in S
      BY <2>0, <3>1
    <3> HIDE DEF S
    <3>3. Cardinality(S \ {p}) = Cardinality(S) - 1
      BY <3>2, FS_RemoveElement
    <3> QED
      BY <2>1, <3>3 DEF S
  <2>5. \A e \in Cpu : nr_iowait'[e] + (IF pc'[e] = "iowait" THEN 1 ELSE 0)
                      = Cardinality(IoSleepers(e)')
    BY <1>t, <1>1, <2>0, <2>2, <2>3, <2>4, IoFinite DEF IoInv
  <2> QED
    BY <1>2, <2>5 DEF IoInv, IoProg
<1> QED
  BY <1>3, <1>4

\* Nothing else in the kernel touches a task in I/O wait: the migrations and the
\* load balancer move queued tasks only, and a task that is TASK_WAKING has left
\* the count already.
LEMMA KernelIo ==
  ASSUME IndInv, StopInv, IoInv, NEW c \in Cpu, Kernel(c)
  PROVE  IoInv'
<1>t. /\ tpc \in [Task -> {"free", "new", "work", "test", "sleep", "woken", "dying",
                          "dead", "stop_one", "stop_wait", "forked"}]
      /\ state \in [Task -> SchedState] /\ cpu \in [Task -> Cpu]
      /\ on_rq \in [Task -> {0, 1, 2}] /\ in_iowait \in [Task -> BOOLEAN]
      /\ DOMAIN pc = Cpu /\ IoProg /\ nr_iowait \in [Cpu -> Int]
  BY DEF IndInv, TypeOK, ProgType, TaskType, AccountType, CtlType, IoInv, IoProg
<1> DEFINE G == IoKept /\ IoProg'
           Pc == \A d \in Cpu : pc'[d] = "iowait" <=> pc[d] = "iowait"
<1>1. ASSUME IowaitInc(c) PROVE IoInv'
  <2>1. /\ pc[c] = "iowait" /\ pc' = [pc EXCEPT ![c] = "pick"]
        /\ nr_iowait' = [nr_iowait EXCEPT ![c] = @ + 1]
        /\ UNCHANGED <<tpc, cpu, on_rq, in_iowait, state>>
    BY <1>1 DEF IowaitInc
  <2>2. \A d \in Cpu : IoSleepers(d)' = IoSleepers(d)
    BY <2>1 DEF IoSleepers, IoAsleep
  <2>3. \A d \in Cpu : nr_iowait'[d] + (IF pc'[d] = "iowait" THEN 1 ELSE 0)
                      = Cardinality(IoSleepers(d)')
    BY <1>t, <2>1, <2>2, IoFinite DEF IoInv
  <2> QED
    BY <1>t, <2>1, <2>3 DEF IoInv, IoProg
<1>q. ASSUME UNCHANGED <<tpc, cpu, on_rq, in_iowait, state, nr_iowait>>, Pc PROVE G
  BY <1>t, <1>q DEF IoKept, IoProg, IoAsleep
<1>2. NoSwitch(c) \/ FinishTaskSwitch(c) \/ Reap(c) => G
  <2>1. NoSwitch(c) \/ FinishTaskSwitch(c) \/ Reap(c)
          => UNCHANGED <<tpc, cpu, on_rq, in_iowait, state, nr_iowait>>
    BY DEF NoSwitch, FinishTaskSwitch, Reap
  <2>2. NoSwitch(c) \/ FinishTaskSwitch(c) \/ Reap(c) => Pc
    BY <1>t DEF NoSwitch, FinishTaskSwitch, Reap, Return
  <2> QED
    BY <1>q, <2>1, <2>2
<1>3. ASSUME NEW next, Switch(c, next) PROVE G
  <2>1. UNCHANGED <<tpc, cpu, on_rq, in_iowait, state, nr_iowait>> /\ Pc
    BY <1>t, <1>3 DEF Switch
  <2> QED
    BY <1>q, <2>1
<1>4. TtwuLock(c) \/ TtwuOnRq(c) => G
  <2>1. TtwuLock(c) \/ TtwuOnRq(c)
          => UNCHANGED <<tpc, cpu, on_rq, in_iowait, state, nr_iowait>>
    BY DEF TtwuLock, TtwuOnRq
  <2>2. TtwuLock(c) \/ TtwuOnRq(c) => Pc
    BY <1>t DEF TtwuLock, TtwuMatch, TtwuNoMatch, TtwuOnRq, Return
  <2> QED
    BY <1>q, <2>1, <2>2
<1>5. TtwuOnCpu(c) \/ TtwuWakelist(c) => G
  <2>1. TtwuOnCpu(c) \/ TtwuWakelist(c)
          => UNCHANGED <<tpc, cpu, on_rq, in_iowait, state, nr_iowait>>
    BY DEF TtwuOnCpu, TtwuWakelist
  <2>2. TtwuOnCpu(c) => Pc
    BY <1>t DEF TtwuOnCpu
  <2>3. TtwuWakelist(c) => Pc
    BY <1>t DEF TtwuWakelist, Return
  <2> QED
    BY <1>q, <2>1, <2>2, <2>3
<1>6. ASSUME TtwuRemote(c) PROVE G
  <2>1. /\ UNCHANGED <<tpc, cpu, on_rq, in_iowait, nr_iowait>> /\ tgt[c] \in Task
        /\ Pc
    BY <1>t, <1>6 DEF TtwuRemote, TtwuChase, TtwuFlip, TtwuMissed, Return, IndInv, LocalsInv
  <2>2. UNCHANGED state \/ (on_rq[tgt[c]] = 1 /\ state' = [state EXCEPT ![tgt[c]] = "RUNNING"])
    BY <1>6 DEF TtwuRemote, TtwuChase, TtwuFlip, TtwuMissed, task_on_rq_queued
  <2> QED
    BY <1>t, <2>1, <2>2 DEF IoKept, IoProg, IoAsleep
<1>7. ASSUME NEW dest \in Cpu, TtwuSelect(c, dest) PROVE G
  <2>1. /\ UNCHANGED <<tpc, on_rq, in_iowait, state, nr_iowait>> /\ Pc
        /\ tgt[c] \in Task /\ state[tgt[c]] = "WAKING" /\ cpu' = [cpu EXCEPT ![tgt[c]] = dest]
    BY <1>t, <1>7 DEF TtwuSelect, IndInv, LocalsInv, WakerInv
  <2> QED
    BY <1>t, <2>1 DEF IoKept, IoProg, IoAsleep
<1>8. ASSUME TtwuQueue(c) PROVE G
  <2>1. /\ UNCHANGED <<tpc, cpu, in_iowait, nr_iowait>> /\ Pc
        /\ tgt[c] \in Task /\ state[tgt[c]] = "WAKING"
        /\ \A u \in Task : on_rq'[u] = IF u = tgt[c] THEN 1 ELSE on_rq[u]
        /\ \A u \in Task : state'[u] = IF u = tgt[c] THEN "RUNNING" ELSE state[u]
    BY <1>t, <1>8 DEF TtwuQueue, ttwu_do_activate, Return, IndInv, LocalsInv, WakerInv
  <2> QED
    BY <1>t, <2>1 DEF IoKept, IoProg, IoAsleep
<1>9. ASSUME SchedTtwuPending(c) PROVE G
  <2>1. /\ UNCHANGED <<tpc, in_iowait, nr_iowait>> /\ Pc
        /\ \A u \in pending[c] : state[u] = "WAKING"
        /\ \A u \in Task : cpu'[u] = IF u \in pending[c] THEN c ELSE cpu[u]
        /\ \A u \in Task : on_rq'[u] = IF u \in pending[c] THEN 1 ELSE on_rq[u]
        /\ \A u \in Task : state'[u] = IF u \in pending[c] THEN "RUNNING" ELSE state[u]
    BY <1>t, <1>9 DEF SchedTtwuPending, ttwu_do_activate, IndInv, ListInv
  <2> QED
    BY <1>t, <2>1 DEF IoKept, IoProg, IoAsleep
<1>d. ASSUME UNCHANGED tpc
               \/ (StopDone(c) /\ (pc[c] \in StopPc \/ (pc[c] = "move" /\ curr[c] = Stopper))),
             UNCHANGED in_iowait
      PROVE  IoProg'
  BY <1>t, <1>d, DoneCaller DEF IoProg
<1>10. ASSUME MigrationCpuStop(c) PROVE G
  <2> DEFINE p == Head(stopq[c]).task
             dest == Head(stopq[c]).dest
  <2>1. Pc /\ UNCHANGED <<in_iowait, nr_iowait, state>>
    BY <1>t, <1>10 DEF MigrationCpuStop, StopMove, StopNothing, move_queued_task, Return
  <2>2. IoProg'
    BY <1>d, <1>10 DEF MigrationCpuStop, StopMove, StopNothing
  <2>3. CASE StopMove(c, p, dest)
    <3>1. on_rq[p] = 1 /\ on_rq' = [on_rq EXCEPT ![p] = 2] /\ cpu' = [cpu EXCEPT ![p] = dest]
      BY <2>3 DEF StopMove, move_queued_task, task_on_rq_queued
    <3> HIDE DEF p, dest
    <3> QED
      BY <1>t, <2>1, <2>2, <3>1 DEF IoKept, IoAsleep
  <2>4. CASE StopNothing(c, p, dest)
    <3>1. UNCHANGED <<on_rq, cpu>>
      BY <2>4 DEF StopNothing
    <3> QED
      BY <2>1, <2>2, <3>1 DEF IoKept, IoAsleep
  <2> QED
    BY <1>10, <2>3, <2>4 DEF MigrationCpuStop
<1>11. ASSUME MoveEnqueue(c) \/ AttachTask(c) PROVE G
  <2>1. Pc /\ UNCHANGED <<in_iowait, nr_iowait, state, cpu>>
    BY <1>t, <1>11 DEF MoveEnqueue, AttachTask, Return
  <2>2. IoProg'
    <3>1. CASE UNCHANGED tpc
      BY <1>t, <2>1, <3>1 DEF IoProg
    <3>2. CASE StopDone(c) /\ pc[c] = "move" /\ curr[c] = Stopper
      <4>1. \E u \in Task : tpc[u] = "stop_wait" /\ tpc' = [tpc EXCEPT ![u] = "work"]
        BY <3>2, DoneCaller
      <4> QED
        BY <1>t, <2>1, <4>1 DEF IoProg
    <3> QED
      BY <1>11, <3>1, <3>2 DEF MoveEnqueue, AttachTask
  <2>3. on_rq[tgt[c]] = 2 /\ on_rq' = [on_rq EXCEPT ![tgt[c]] = 1]
    BY <1>11 DEF MoveEnqueue, AttachTask, IndInv, QueueInv, task_on_rq_migrating
  <2> QED
    BY <1>t, <2>1, <2>2, <2>3 DEF IoKept, IoAsleep
<1> HIDE DEF G, Pc
<1>12. G => IoInv'
  BY IoCountKept DEF G
<1> QED
  BY <1>1, <1>2, <1>3, <1>4, <1>5, <1>6, <1>7, <1>8, <1>9, <1>10, <1>11, <1>12, TtwuWakingIo
     DEF Kernel

\* Every step preserves IoInv.
LEMMA IoStep ==
  ASSUME IndInv, StopInv, IoInv, [Next]_vars
  PROVE  IoInv'
<1>t. /\ state \in [Task -> SchedState] /\ cpu \in [Task -> Cpu]
      /\ on_rq \in [Task -> {0, 1, 2}] /\ DOMAIN pc = Cpu /\ IoProg
  BY DEF IndInv, TypeOK, TaskType, CtlType, IoInv, IoProg
<1>1. ASSUME UNCHANGED <<tpc, cpu, on_rq, in_iowait, state, nr_iowait>>,
             \A d \in Cpu : pc'[d] = "iowait" <=> pc[d] = "iowait"
      PROVE  IoInv'
  <2>1. IoKept /\ IoProg'
    BY <1>t, <1>1 DEF IoKept, IoProg, IoAsleep
  <2> QED
    BY <2>1, IoCountKept
<1>2. CASE UNCHANGED vars
  BY <1>1, <1>2 DEF vars
<1>3. ASSUME NEW c \in Cpu, Interrupt(c) PROVE IoInv'
  <2>1. ASSUME NEW p \in Task, NEW kind, WakeCurrent(c, p, kind) PROVE IoInv'
    <3>1. on_rq[p] = 1
      BY <2>1, CurrentTask DEF CurrentFacts, WakeCurrent
    <3>2. /\ UNCHANGED <<tpc, cpu, on_rq, in_iowait, nr_iowait, pc>>
          /\ \A u \in Task \ {p} : state'[u] = state[u]
      BY <1>t, <2>1 DEF WakeCurrent
    <3>3. IoKept /\ IoProg'
      BY <1>t, <3>1, <3>2 DEF IoKept, IoProg, IoAsleep
    <3> QED
      BY <3>3, IoCountKept
  <2>2. ASSUME NEW p \in Task, DetachTask(c, p) PROVE IoInv'
    <3>1. /\ on_rq[p] = 1 /\ UNCHANGED <<tpc, in_iowait, nr_iowait, state>>
          /\ on_rq' = [on_rq EXCEPT ![p] = 2] /\ cpu' = [cpu EXCEPT ![p] = c]
          /\ \A d \in Cpu : pc'[d] = "iowait" <=> pc[d] = "iowait"
      BY <1>t, <2>2 DEF DetachTask, task_on_rq_queued
    <3>2. IoKept /\ IoProg'
      BY <1>t, <3>1 DEF IoKept, IoProg, IoAsleep
    <3> QED
      BY <3>2, IoCountKept
  <2>3. \A p, kind : Wake(c, p, kind) => IoInv'
    BY <1>t, <1>1 DEF Wake
  <2>4. TtwuIpi(c) => IoInv'
    BY <1>t, <1>1 DEF TtwuIpi
  <2> QED
    BY <1>3, <2>1, <2>2, <2>3, <2>4 DEF Interrupt
<1>4. ASSUME NEW c \in Cpu, Reschedule(c) PROVE IoInv'
  <2>1. \A t : Preempt(c, t) => IoInv'
    BY <1>t, <1>1 DEF Preempt, Running
  <2>2. PseudoSchedule(c) \/ StopFlush(c) => IoInv'
    BY <1>t, <1>1 DEF PseudoSchedule, StopFlush, Running
  <2> QED
    BY <1>4, <2>1, <2>2, ScheduleIo DEF Reschedule
<1> QED
  BY <1>2, <1>3, <1>4, ProgramIo, KernelIo DEF Next

\* Whenever its rq is unlocked, nr_iowait of a CPU is the number of tasks that
\* blocked there in I/O wait and that nobody is waking, although its increment and
\* decrement are made under different locks, or none.
THEOREM IowaitCounts == Spec => []IowaitExact
<1>1. Init => IoInv
  <2> SUFFICES ASSUME Init PROVE IoInv
    OBVIOUS
  <2>1. \A c \in Cpu : IoSleepers(c) = {}
    BY DEF Init, IoSleepers, IoAsleep
  <2>2. \A c \in Cpu : Cardinality(IoSleepers(c)) = 0
    BY <2>1, FS_EmptySet
  <2> QED
    BY <2>2 DEF Init, IoInv
<1>2. LifeInv /\ IoInv /\ [Next]_vars => IoInv'
  BY IoStep DEF LifeInv
<1>3. ASSUME LifeInv, IoInv PROVE IowaitExact
  <2>1. ASSUME NEW c \in Cpu, rq_lock[c] = None
        PROVE  nr_iowait[c] = Cardinality(IoSleepers(c))
    <3>1. pc[c] # "iowait"
      BY <1>3, <2>1 DEF LifeInv, IndInv, LockInv
    <3>2. nr_iowait[c] \in Int
      BY <1>3 DEF LifeInv, IndInv, TypeOK, AccountType
    <3> QED
      BY <1>3, <3>1, <3>2 DEF IoInv
  <2>2. \A c \in Cpu : IoSleepers(c) = {t \in Task : /\ cpu[t] = c /\ in_iowait[t]
                                                   /\ on_rq[t] = 0 /\ state[t] # "WAKING"}
    BY DEF IoSleepers, IoAsleep
  <2> QED
    BY <2>1, <2>2 DEF IowaitExact
<1> QED
  BY <1>1, <1>2, <1>3, LifeInvariance, PTL DEF Spec

(***************************************************************************)
(* Counting modulo a width.                                                *)
(***************************************************************************)

\* Quotient and remainder.
LEMMA DivMod ==
  \A a \in Int, m \in Nat \ {0} :
     a = m * (a \div m) + (a % m) /\ a % m \in 0 .. m - 1 /\ a \div m \in Int
OBVIOUS

\* The remainder is unique.
LEMMA RemainderUnique ==
  ASSUME NEW m \in Nat \ {0}, NEW q \in Int, NEW r \in 0 .. m - 1, NEW p \in Int,
         NEW s \in 0 .. m - 1, m * q + r = m * p + s
  PROVE  r = s
<1>1. m * (q - p) = s - r
  OBVIOUS
<1>2. CASE q - p >= 1
  <2>1. m * (q - p) >= m
    BY <1>2
  <2> QED
    BY <1>1, <2>1
<1>3. CASE q - p <= -1
  <2>1. m * (q - p) <= -m
    BY <1>3
  <2> QED
    BY <1>1, <2>1
<1>4. CASE q = p
  BY <1>4
<1> QED
  BY <1>2, <1>3, <1>4

\* A value within the width is its own remainder.
LEMMA ModSmall ==
  ASSUME NEW m \in Nat \ {0}, NEW a \in 0 .. m - 1
  PROVE  a % m = a
<1>1. a = m * (a \div m) + (a % m) /\ a % m \in 0 .. m - 1 /\ a \div m \in Int
  BY DivMod
<1> DEFINE r == a % m
           q == a \div m
<1>2. q \in Int /\ r \in 0 .. m - 1 /\ m * q + r = m * 0 + a
  BY <1>1
<1> HIDE DEF r, q
<1>3. r = a
  BY <1>2, RemainderUnique
<1> QED
  BY <1>3 DEF r

\* Multiples of the width do not count.
LEMMA ModMultiple ==
  ASSUME NEW m \in Nat \ {0}, NEW a \in Int, NEW k \in Int
  PROVE  (a + m * k) % m = a % m
<1> DEFINE q == (a + m * k) \div m
           r == (a + m * k) % m
           p == (a \div m) + k
           s == a % m
<1>1. m * k \in Int /\ a + m * k \in Int
  OBVIOUS
<1>2. a + m * k = m * q + r /\ r \in 0 .. m - 1 /\ q \in Int
  BY <1>1, DivMod
<1>3. a = m * (a \div m) + s /\ s \in 0 .. m - 1 /\ a \div m \in Int
  BY DivMod
<1>4. a + m * k = m * p + s /\ p \in Int
  BY <1>3
<1> HIDE DEF q, r, p, s
<1>5. r = s
  BY <1>2, <1>3, <1>4, RemainderUnique
<1> QED
  BY <1>5 DEF r, s

\* A counter that wraps may be reduced before or after it is added to ...
LEMMA ModPlus ==
  ASSUME NEW m \in Nat \ {0}, NEW a \in Int, NEW b \in Int
  PROVE  ((a % m) + b) % m = (a + b) % m
<1> DEFINE d == a \div m
           r == a % m
<1>1. d \in Int /\ r \in Int /\ a = m * d + r
  BY DivMod
<1> HIDE DEF d, r
<1>2. a + b = (r + b) + m * d /\ r + b \in Int
  BY <1>1
<1>3. (a + b) % m = (r + b) % m
  BY <1>1, <1>2, ModMultiple
<1> QED
  BY <1>3 DEF r

\* ... or subtracted.
LEMMA ModMinus ==
  ASSUME NEW m \in Nat \ {0}, NEW a \in Int, NEW b \in Int
  PROVE  (b - (a % m)) % m = (b - a) % m
<1> DEFINE d == a \div m
           r == a % m
<1>1. d \in Int /\ r \in Int /\ a = m * d + r
  BY DivMod
<1> HIDE DEF d, r
<1> DEFINE e == -d
           x == b - r
<1>2. b - a = x + m * e /\ x \in Int /\ e \in Int
  BY <1>1
<1> HIDE DEF e, x
<1>3. (b - a) % m = x % m
  BY <1>2, ModMultiple
<1> QED
  BY <1>3 DEF x, r

\* Of two counters that wrap, one moves: so does their sum.
LEMMA ModSum ==
  ASSUME NEW m \in Nat \ {0}, NEW y \in Int, NEW z \in Int
  PROVE  /\ (((y + 1) % m) + z) % m = ((y + z) + 1) % m
         /\ (z + ((y + 1) % m)) % m = ((z + y) + 1) % m
<1> DEFINE a == y + 1
           r == a % m
<1>1. a \in Int /\ a + z = (y + z) + 1 /\ a + z = (z + y) + 1
  OBVIOUS
<1>2. r \in Int
  <2> HIDE DEF a
  <2> QED BY <1>1, ModRange
<1>3. (r + z) % m = (a + z) % m
  <2> HIDE DEF a
  <2> QED BY <1>1, ModPlus
<1>4. (r + z) % m = ((y + z) + 1) % m /\ (r + z) % m = ((z + y) + 1) % m
  <2> HIDE DEF a, r
  <2> QED BY <1>1, <1>3
<1>5. z + r = r + z
  <2> HIDE DEF r
  <2> QED BY <1>2
<1>6. (z + r) % m = ((z + y) + 1) % m
  <2> HIDE DEF r
  <2> QED BY <1>4, <1>5
<1> QED
  BY <1>4, <1>6

\* nvcsw and nivcsw are wider than the counter, by a whole factor: the wider
\* one moves by one, and one is taken off the difference.
LEMMA ModStep ==
  ASSUME NEW x \in Int, NEW b \in Int
  PROVE  (((x + 1) % CswMod) - b - 1) % UIntMod = ((x % CswMod) - b - 0) % UIntMod
<1>w. UIntMod \in Nat \ {0} /\ CswMod \in Nat \ {0} /\ CswMod % UIntMod = 0
  BY WidthAssumption
<1>1. PICK j \in Int : CswMod = UIntMod * j
  <2> DEFINE q == CswMod \div UIntMod
  <2>1. CswMod = UIntMod * q + (CswMod % UIntMod) /\ q \in Int
    BY <1>w, DivMod
  <2> HIDE DEF q
  <2>2. CswMod = UIntMod * q
    BY <1>w, <2>1
  <2> QED
    BY <2>1, <2>2
<1> DEFINE a == x + 1
           r == a % CswMod
           q == x % CswMod
           d == a \div CswMod
           e == x \div CswMod
<1>2. a \in Int /\ a = x + 1
  OBVIOUS
<1>3. d \in Int /\ r \in Int /\ a = CswMod * d + r
  <2> HIDE DEF a
  <2> QED BY <1>w, <1>2, DivMod
<1>4. e \in Int /\ q \in Int /\ x = CswMod * e + q
  BY <1>w, DivMod
<1> HIDE DEF a, r, q, d, e
<1> DEFINE k == e - d
           u == q - b - 0
<1>5. k \in Int /\ u \in Int /\ r - b - 1 = u + CswMod * k
  BY <1>w, <1>2, <1>3, <1>4
<1>6. CswMod * k = UIntMod * (j * k) /\ j * k \in Int
  <2> HIDE DEF k
  <2> QED BY <1>w, <1>1, <1>5
<1>7. (r - b - 1) % UIntMod = u % UIntMod
  <2> DEFINE v == j * k
  <2>1. v \in Int /\ r - b - 1 = u + UIntMod * v
    BY <1>5, <1>6
  <2> HIDE DEF v, u, k
  <2>2. (u + UIntMod * v) % UIntMod = u % UIntMod
    BY <1>w, <1>5, <2>1, ModMultiple
  <2> QED
    BY <2>1, <2>2
<1> QED
  BY <1>7 DEF r, q, a

(***************************************************************************)
(* The counter of homework 3.                                              *)
(***************************************************************************)

\* Counters are integers within their widths.
LEMMA CounterTypes ==
  ASSUME IndInv, NEW t \in Task
  PROVE  /\ nvcsw[t] \in Int /\ nivcsw[t] \in Int /\ nvcsw[t] + nivcsw[t] \in Int
         /\ meter[t] \in Int /\ process_switches_count[t] \in 0 .. UIntMod - 1
         /\ SwitchedOut(t) \in Int
<1>1. /\ nvcsw[t] \in 0 .. CswMod - 1 /\ nivcsw[t] \in 0 .. CswMod - 1
      /\ meter[t] \in 0 .. UIntMod - 1 /\ process_switches_count[t] \in 0 .. UIntMod - 1
  BY DEF IndInv, TypeOK, AccountType
<1>2. nvcsw[t] + nivcsw[t] \in Int
  BY <1>1, WidthAssumption
<1>3. (nvcsw[t] + nivcsw[t]) % CswMod \in 0 .. CswMod - 1
  BY <1>2, WidthAssumption, ModRange
<1> QED
  BY <1>1, <1>2, <1>3, WidthAssumption DEF SwitchedOut

\* start_to_count() begins at zero, now.
LEMMA StartMeter ==
  ASSUME IndInv, MeterInv, NEW c \in Cpu, NEW t \in Task, start_to_count(c, t)
  PROVE  MeterInv'
<1>1. /\ UNCHANGED <<curr, nvcsw, nivcsw>> /\ curr[c] = t
      /\ process_switches_count' = [process_switches_count EXCEPT ![t] = 0]
      /\ meter' = [meter EXCEPT ![t] = SwitchedOut(t) % UIntMod]
  BY DEF start_to_count, AtWork, Running
<1>t. DOMAIN process_switches_count = Task /\ DOMAIN meter = Task
  BY DEF IndInv, TypeOK, AccountType
<1>2. \A u \in Task : SwitchedOut(u)' = SwitchedOut(u) /\ (IsCurrent(u)' <=> IsCurrent(u))
  BY <1>1 DEF SwitchedOut, IsCurrent
<1>3. IsCurrent(t)
  BY <1>1 DEF IsCurrent
<1>4. (SwitchedOut(t) - (SwitchedOut(t) % UIntMod) - 0) % UIntMod = 0
  <2> DEFINE s == SwitchedOut(t)
  <2>1. s \in Int
    BY CounterTypes
  <2> HIDE DEF s
  <2>2. (s - (s % UIntMod)) % UIntMod = (s - s) % UIntMod
    BY <2>1, WidthAssumption, ModMinus
  <2>3. s - s = 0 /\ 0 % UIntMod = 0
    BY <2>1, WidthAssumption, ModSmall
  <2>4. s % UIntMod \in Int
    BY <2>1, WidthAssumption, ModRange
  <2>5. s - (s % UIntMod) - 0 = s - (s % UIntMod)
    BY <2>1, <2>4
  <2>6. (s - (s % UIntMod) - 0) % UIntMod = 0
    BY <2>2, <2>3, <2>5
  <2> QED
    BY <2>6 DEF s
<1> SUFFICES ASSUME NEW u \in Task
             PROVE  process_switches_count'[u]
                      = (SwitchedOut(u)' - meter'[u] - (IF IsCurrent(u)' THEN 0 ELSE 1)) % UIntMod
  BY DEF MeterInv
<1>5. CASE u = t
  <2>1. /\ process_switches_count'[u] = 0 /\ meter'[u] = SwitchedOut(t) % UIntMod
        /\ SwitchedOut(u)' = SwitchedOut(t) /\ IsCurrent(u)'
    BY <1>t, <1>1, <1>2, <1>3, <1>5
  <2> QED
    BY <1>4, <2>1
<1>6. CASE u # t
  <2>1. /\ process_switches_count'[u] = process_switches_count[u] /\ meter'[u] = meter[u]
        /\ SwitchedOut(u)' = SwitchedOut(u) /\ (IsCurrent(u)' <=> IsCurrent(u))
    BY <1>t, <1>1, <1>2, <1>6
  <2> QED
    BY <2>1 DEF MeterInv
<1> QED
  BY <1>5, <1>6

\* dup_task_struct() copies the counter; the first switch-in of the child adds
\* one to it.
LEMMA ForkMeter ==
  ASSUME IndInv, MeterInv, NEW c \in Cpu, NEW t \in Task, NEW p \in Task, SchedFork(c, t, p)
  PROVE  MeterInv'
<1>1. /\ UNCHANGED <<curr, nvcsw, nivcsw>> /\ tpc[p] = "free"
      /\ process_switches_count' = [process_switches_count EXCEPT ![p] = process_switches_count[t]]
      /\ meter' = [meter EXCEPT
                     ![p] = (SwitchedOut(p) - process_switches_count[t] - 1) % UIntMod]
  BY DEF SchedFork, InheritedBase
<1>t. DOMAIN process_switches_count = Task /\ DOMAIN meter = Task
  BY DEF IndInv, TypeOK, AccountType
<1>2. \A u \in Task : SwitchedOut(u)' = SwitchedOut(u) /\ (IsCurrent(u)' <=> IsCurrent(u))
  BY <1>1 DEF SwitchedOut, IsCurrent
<1>3. ~IsCurrent(p)
  <2>1. ~on_cpu[p]
    BY <1>1 DEF IndInv, ProgInv
  <2> QED
    BY <2>1 DEF IndInv, ExecInv, Executes, IsCurrent
<1> DEFINE s == SwitchedOut(p)
           n == process_switches_count[t]
           b == (s - n - 1) % UIntMod
<1>4. s \in Int /\ n \in 0 .. UIntMod - 1
  BY CounterTypes
<1>5. (s - b - 1) % UIntMod = n
  <2> DEFINE x == s - n - 1
             y == s - 1
  <2>1. x \in Int /\ y \in Int /\ y - x = n
    BY <1>4
  <2>2. b = x % UIntMod
    OBVIOUS
  <2>3. b \in Int /\ s - b - 1 = y - b
    <3>1. b \in Int
      <4> HIDE DEF b, x
      <4> QED BY <2>1, <2>2, WidthAssumption, ModRange
    <3> HIDE DEF b
    <3> QED BY <1>4, <3>1
  <2> HIDE DEF x, y, b, s, n
  <2>4. (y - (x % UIntMod)) % UIntMod = (y - x) % UIntMod
    BY <2>1, WidthAssumption, ModMinus
  <2>5. n % UIntMod = n
    BY <1>4, WidthAssumption, ModSmall
  <2> QED
    BY <2>1, <2>2, <2>3, <2>4, <2>5
<1> SUFFICES ASSUME NEW u \in Task
             PROVE  process_switches_count'[u]
                      = (SwitchedOut(u)' - meter'[u] - (IF IsCurrent(u)' THEN 0 ELSE 1)) % UIntMod
  BY DEF MeterInv
<1>6. CASE u = p
  <2>1. /\ process_switches_count'[u] = n /\ meter'[u] = b
        /\ SwitchedOut(u)' = s /\ ~IsCurrent(u)'
    BY <1>t, <1>1, <1>2, <1>3, <1>6
  <2> HIDE DEF s, n, b
  <2> QED
    BY <1>5, <2>1
<1>7. CASE u # p
  <2>1. /\ process_switches_count'[u] = process_switches_count[u] /\ meter'[u] = meter[u]
        /\ SwitchedOut(u)' = SwitchedOut(u) /\ (IsCurrent(u)' <=> IsCurrent(u))
    BY <1>t, <1>1, <1>2, <1>7
  <2> QED
    BY <2>1 DEF MeterInv
<1> QED
  BY <1>6, <1>7

\* A context switch counts once for the task that leaves and once for the task
\* that comes.
LEMMA SwitchMeter ==
  ASSUME IndInv, MeterInv, NEW c \in Cpu, NEW next \in Task \cup {Idle, Stopper}, Switch(c, next)
  PROVE  MeterInv'
<1> PICK prev \in Task \cup {Idle, Stopper} : prev = tgt[c]
  BY DEF Switch, IndInv, LocalsInv
<1>t. /\ DOMAIN process_switches_count = Task /\ DOMAIN meter = Task /\ DOMAIN nvcsw = Task
      /\ DOMAIN nivcsw = Task /\ DOMAIN curr = Cpu
  BY DEF IndInv, TypeOK, AccountType, RqType
<1>1. /\ curr[c] = prev /\ prev # next /\ curr' = [curr EXCEPT ![c] = next] /\ UNCHANGED meter
      /\ next \in Task => next \in rq[c]
  BY DEF Switch, pick_next_task, IndInv, LocalsInv
<1>2. prev \in Task => \A d \in Cpu : curr[d] = prev => d = c
  BY <1>1 DEF IndInv, ExecInv, Executes
<1>3. next \in Task => \A d \in Cpu : curr[d] # next
  <2>1. next \in Task => cpu[next] = c
    BY <1>1 DEF IndInv, QueueInv, RunqueueConsistent
  <2>2. next \in Task => \A d \in Cpu : curr[d] = next => cpu[next] = d
    BY DEF IndInv, ExecInv, Executes
  <2> QED
    BY <1>1, <2>1, <2>2
<1> SUFFICES ASSUME NEW u \in Task
             PROVE  process_switches_count'[u]
                      = (SwitchedOut(u)' - meter'[u] - (IF IsCurrent(u)' THEN 0 ELSE 1)) % UIntMod
  BY DEF MeterInv
<1> DEFINE m == meter[u]
           k == process_switches_count[u]
           x == nvcsw[u] + nivcsw[u]
           s == SwitchedOut(u)
<1>4. /\ m \in Int /\ k \in 0 .. UIntMod - 1 /\ x \in Int /\ s \in Int /\ s = x % CswMod
      /\ meter'[u] = m
  BY <1>1, CounterTypes DEF SwitchedOut
<1>5. CASE u = prev
  <2>1. IsCurrent(u) /\ ~IsCurrent(u)'
    BY <1>t, <1>1, <1>2, <1>5 DEF IsCurrent
  <2>2. process_switches_count'[u] = k
    BY <1>t, <1>1, <1>5 DEF Switch, CountSwitch, Bump
  <2>3. SwitchedOut(u)' = (x + 1) % CswMod
    <3>1. /\ nvcsw[u] \in Int /\ nivcsw[u] \in Int /\ CswMod \in Nat \ {0}
          /\ SwitchedOut(u)' = (nvcsw'[u] + nivcsw'[u]) % CswMod
      BY CounterTypes, WidthAssumption DEF SwitchedOut
    <3>2. CASE voluntary[c]
      <4>1. nvcsw'[u] = (nvcsw[u] + 1) % CswMod /\ nivcsw'[u] = nivcsw[u]
        BY <1>t, <1>5, <3>2 DEF Switch, Bump
      <4> QED
        BY <3>1, <4>1, ModSum
    <3>3. CASE ~voluntary[c]
      <4>1. nivcsw'[u] = (nivcsw[u] + 1) % CswMod /\ nvcsw'[u] = nvcsw[u]
        BY <1>t, <1>5, <3>3 DEF Switch, Bump
      <4> QED
        BY <3>1, <4>1, ModSum
    <3> QED
      BY <3>2, <3>3
  <2>4. k = (s - m - 0) % UIntMod
    BY <2>1 DEF MeterInv
  <2> HIDE DEF m, k, x, s
  <2>5. (((x + 1) % CswMod) - m - 1) % UIntMod = ((x % CswMod) - m - 0) % UIntMod
    BY <1>4, ModStep
  <2> QED
    BY <1>4, <2>1, <2>2, <2>3, <2>4, <2>5
<1>6. CASE u = next
  <2>1. ~IsCurrent(u) /\ IsCurrent(u)'
    BY <1>t, <1>1, <1>3, <1>6 DEF IsCurrent
  <2>2. process_switches_count'[u] = (k + 1) % UIntMod /\ SwitchedOut(u)' = s
    BY <1>t, <1>1, <1>6 DEF Switch, CountSwitch, Bump, SwitchedOut
  <2>3. k = (s - m - 1) % UIntMod
    BY <2>1 DEF MeterInv
  <2> HIDE DEF m, k, x, s
  <2>4. s - m - 1 \in Int /\ (s - m - 1) + 1 = s - m - 0
    BY <1>4
  <2>5. (((s - m - 1) % UIntMod) + 1) % UIntMod = ((s - m - 1) + 1) % UIntMod
    BY <2>4, WidthAssumption, ModPlus
  <2> QED
    BY <1>4, <2>1, <2>2, <2>3, <2>4, <2>5
<1>7. CASE u # prev /\ u # next
  <2>1. IsCurrent(u)' <=> IsCurrent(u)
    BY <1>t, <1>1, <1>7 DEF IsCurrent
  <2>2. process_switches_count'[u] = k /\ SwitchedOut(u)' = s
    BY <1>t, <1>7 DEF Switch, CountSwitch, Bump, SwitchedOut
  <2>3. k = (s - m - (IF IsCurrent(u) THEN 0 ELSE 1)) % UIntMod
    BY DEF MeterInv
  <2> HIDE DEF m, k, x, s
  <2> QED
    BY <1>4, <2>1, <2>2, <2>3
<1> QED
  BY <1>5, <1>6, <1>7

\* No other step moves the counters or makes another task current.
LEMMA MeterStep ==
  ASSUME IndInv, MeterInv, [Next]_vars
  PROVE  MeterInv'
<1> DEFINE Kept == UNCHANGED <<nvcsw, nivcsw, process_switches_count, meter, curr>>
<1>1. Kept => MeterInv'
  BY DEF MeterInv, SwitchedOut, IsCurrent
<1>2. UNCHANGED vars => Kept
  BY DEF vars
<1>3. ASSUME NEW c \in Cpu, NEW t \in Task, Program(c, t) PROVE MeterInv'
  <2>1. \A s : SetCurrentState(c, t, s) \/ ConditionFalse(c, t, s) \/ SchedExec(c, t, s)
                  \/ WakeUpNewTask(c, t, s) => Kept
    BY DEF SetCurrentState, ConditionFalse, SchedExec, WakeUpNewTask
  <2>2. ConditionTrue(c, t) \/ ScheduleReturn(c, t) \/ SetSpecialState(c, t)
          \/ StopOneCpu(c, t) => Kept
    BY DEF ConditionTrue, ScheduleReturn, SetSpecialState, StopOneCpu
  <2>3. \A p, m, dest : SetCpusAllowed(c, t, p, m, dest) => Kept
    BY DEF SetCpusAllowed
  <2> HIDE DEF Kept
  <2> QED
    BY <1>1, <1>3, <2>1, <2>2, <2>3, StartMeter, ForkMeter DEF Program
<1>4. ASSUME NEW c \in Cpu, Kernel(c) PROVE MeterInv'
  <2>1. IowaitInc(c) \/ NoSwitch(c) \/ FinishTaskSwitch(c) \/ Reap(c) => Kept
    BY DEF IowaitInc, NoSwitch, FinishTaskSwitch, Reap
  <2>2. TtwuLock(c) \/ TtwuOnRq(c) \/ TtwuRemote(c) \/ TtwuWaking(c) => Kept
    BY DEF TtwuLock, TtwuOnRq, TtwuRemote, TtwuWaking
  <2>3. TtwuOnCpu(c) \/ TtwuWakelist(c) \/ TtwuQueue(c) \/ SchedTtwuPending(c) => Kept
    BY DEF TtwuOnCpu, TtwuWakelist, TtwuQueue, SchedTtwuPending
  <2>4. \A dest : TtwuSelect(c, dest) => Kept
    BY DEF TtwuSelect
  <2>5. MigrationCpuStop(c) \/ MoveEnqueue(c) \/ AttachTask(c) => Kept
    BY DEF MigrationCpuStop, MoveEnqueue, AttachTask
  <2> HIDE DEF Kept
  <2> QED
    BY <1>1, <1>4, <2>1, <2>2, <2>3, <2>4, <2>5, SwitchMeter DEF Kernel
<1>5. ASSUME NEW c \in Cpu, Interrupt(c) \/ Reschedule(c) PROVE MeterInv'
  <2>1. \A p, kind : WakeCurrent(c, p, kind) \/ Wake(c, p, kind) => Kept
    BY DEF WakeCurrent, Wake
  <2>2. \A p : DetachTask(c, p) \/ Schedule(c, p) \/ Preempt(c, p) => Kept
    BY DEF DetachTask, Schedule, Preempt
  <2>3. TtwuIpi(c) \/ PseudoSchedule(c) \/ StopFlush(c) => Kept
    BY DEF TtwuIpi, PseudoSchedule, StopFlush
  <2> HIDE DEF Kept
  <2> QED
    BY <1>1, <1>5, <2>1, <2>2, <2>3 DEF Interrupt, Reschedule
<1> HIDE DEF Kept
<1> QED
  BY <1>1, <1>2, <1>3, <1>4, <1>5 DEF Next

\* What stop_to_count() returns is how often the caller was switched out since
\* start_to_count(), modulo the width of the counter, although the counter counts
\* switch-ins; wherever the caller slept, was preempted or was moved to.
THEOREM MeterCounts == Spec => []MeterExact
<1>1. ASSUME Init PROVE MeterInv
  <2>1. \A t \in Task : SwitchedOut(t) = 0
    BY <1>1, WidthAssumption, ModSmall DEF Init, SwitchedOut
  <2>2. \A t \in Task : ~IsCurrent(t)
    BY <1>1 DEF Init, IsCurrent
  <2>3. (0 - (UIntMod - 1) - 1) % UIntMod = 0
    <3>1. 0 - (UIntMod - 1) - 1 = 0 + UIntMod * (-1)
      BY WidthAssumption
    <3>2. (0 + UIntMod * (-1)) % UIntMod = 0 % UIntMod
      <4>1. UIntMod \in Nat \ {0} /\ 0 \in Int /\ -1 \in Int
        BY WidthAssumption
      <4> DEFINE k == -1
      <4> HIDE DEF k
      <4>2. k \in Int => (0 + UIntMod * k) % UIntMod = 0 % UIntMod
        BY <4>1, ModMultiple
      <4> QED
        BY ONLY <4>1, <4>2 DEF k
    <3>3. 0 % UIntMod = 0
      BY WidthAssumption, ModSmall
    <3> QED
      BY <3>1, <3>2, <3>3
  <2>4. \A t \in Task : process_switches_count[t] = 0 /\ meter[t] = UIntMod - 1
    BY <1>1 DEF Init
  <2> QED
    BY <2>1, <2>2, <2>3, <2>4 DEF MeterInv
<1>2. IndInv /\ MeterInv /\ [Next]_vars => MeterInv'
  BY MeterStep
<1>3. ASSUME IndInv, MeterInv PROVE MeterExact
  <2> SUFFICES ASSUME NEW c \in Cpu, NEW t \in Task, Running(c, t)
               PROVE  process_switches_count[t] = (SwitchedOut(t) - meter[t]) % UIntMod
    BY DEF MeterExact, stop_to_count
  <2>1. IsCurrent(t)
    BY DEF Running, IsCurrent
  <2>2. SwitchedOut(t) - meter[t] - 0 = SwitchedOut(t) - meter[t]
    BY <1>3, CounterTypes
  <2> QED
    BY <1>3, <2>1, <2>2 DEF MeterInv
<1> QED
  BY <1>1, <1>2, <1>3, Invariance, PTL DEF Spec

(***************************************************************************)
(* Affinity, with TTWU_QUEUE off.                                          *)
(***************************************************************************)

Placing == {"ttwu_queue", "move", "attach"}

\* A step that puts no task anywhere and finishes what was allowed.
LEMMA AffinityKept ==
  ASSUME IndInv, AffinityInv, NEW c \in Cpu, OthersKept(c),
         UNCHANGED <<cpu, cpus_mask, targ, stopq>>,
         \A d \in Cpu : wakelist'[d] = {} /\ pending'[d] = {},
         pc'[c] \notin Placing \cup {"ttwu_wakelist"},
         \A t \in Task : tpc[t] = "stop_one" => tpc'[t] = "stop_one",
         \A t \in Task : on_rq'[t] = 1 => on_rq[t] = 1 \/ cpu[t] \in cpus_mask[t]
  PROVE  AffinityInv'
<1>1. \A t \in Task : GoodWork(t) => GoodWork(t)'
  BY DEF GoodWork
<1>2. \A d \in Cpu : pc'[d] # "ttwu_wakelist" /\ wakelist'[d] = {} /\ pending'[d] = {}
  BY DEF AffinityInv, OthersKept, Placing
<1>3. ASSUME NEW d \in Cpu
      PROVE  /\ pc'[d] \in Placing => cpu'[tgt'[d]] \in cpus_mask'[tgt'[d]]
             /\ pc'[d] = "move" /\ curr'[d] = Stopper => Head(stopq'[d]).task = tgt'[d]
  BY DEF AffinityInv, OthersKept, Placing
<1>4. \A t \in Task : targ'[t].src \in Cpu => tpc'[t] = "stop_one"
  BY DEF AffinityInv
<1>5. ASSUME NEW t \in Task, on_rq'[t] = 1, cpu'[t] \notin cpus_mask'[t]
      PROVE  GoodWork(t)'
  BY <1>1, <1>5 DEF AffinityInv, task_on_rq_queued
<1> QED
  BY <1>2, <1>3, <1>4, <1>5 DEF AffinityInv, Placing, task_on_rq_queued

\* A CPU that is about to place t has it to itself: t is off every queue.
LEMMA PlacedTask ==
  ASSUME IndInv, NEW c \in Cpu, pc[c] \in Placing
  PROVE  /\ tgt[c] \in Task /\ on_rq[tgt[c]] # 1 /\ state[tgt[c]] # "NEW"
         /\ tpc[tgt[c]] \notin {"free", "new"}
         /\ pi_lock[tgt[c]] = None => task_on_rq_migrating(tgt[c])
<1>1. CASE pc[c] = "ttwu_queue"
  <2>1. tgt[c] \in Task
    BY <1>1 DEF IndInv, LocalsInv
  <2>2. on_rq[tgt[c]] = 0 /\ state[tgt[c]] = "WAKING" /\ pi_lock[tgt[c]] = c
    BY <1>1, <2>1 DEF IndInv, WakerInv, LockInv
  <2> QED
    BY <2>1, <2>2 DEF IndInv, ProgInv
<1>2. CASE pc[c] \in {"move", "attach"}
  <2>1. tgt[c] \in Task
    BY <1>2 DEF IndInv, LocalsInv
  <2>2. task_on_rq_migrating(tgt[c])
    BY <1>2 DEF IndInv, QueueInv
  <2>3. on_rq[tgt[c]] = 2 /\ state[tgt[c]] # "NEW"
    BY <2>1, <2>2 DEF task_on_rq_migrating, IndInv, QueueInv
  <2> QED
    BY <2>1, <2>2, <2>3 DEF IndInv, ProgInv
<1> QED
  BY <1>1, <1>2 DEF Placing

\* What __set_cpus_allowed_ptr() leaves behind for p is allowed, or work that
\* will move p.
LEMMA SetCpusAllowedAffinity ==
  ASSUME IndInv, AffinityInv, NEW c \in Cpu, NEW t \in Task, NEW p \in Task,
         NEW m \in NewMasks, NEW dest \in Cpu, SetCpusAllowed(c, t, p, m, dest), OthersKept(c)
  PROVE  AffinityInv'
<1>t. /\ DOMAIN cpus_mask = Task /\ DOMAIN on_rq = Task /\ DOMAIN cpu = Task
      /\ DOMAIN tpc = Task /\ DOMAIN targ = Task
      /\ DOMAIN pc = Cpu /\ DOMAIN tgt = Cpu /\ DOMAIN lrq = Cpu
  BY DEF IndInv, TypeOK, TaskType, ProgType, CtlType
<1>1. /\ pc[c] = "run" /\ curr[c] = t /\ tpc[t] = "work" /\ dest \in m
      /\ pi_lock[p] = None /\ ~task_on_rq_migrating(p)
      /\ cpus_mask' = [cpus_mask EXCEPT ![p] = m]
      /\ UNCHANGED <<curr, stopq, wakelist, pending>>
      /\ MaskOnly(p, m) \/ AskStopper(t, p, m, dest) \/ MoveNow(c, p, m, dest)
  BY DEF SetCpusAllowed, AtWork, Running, CanTaskRqLock
<1>2. \A d \in Cpu : pc[d] \in Placing => tgt[d] \in Task /\ tgt[d] # p
  BY <1>1, PlacedTask
<1>3. targ[t].src \notin Cpu
  BY <1>1 DEF AffinityInv
<1>4. CASE MaskOnly(p, m)
  <2>1. /\ UNCHANGED <<on_rq, cpu, tpc, targ, pc, tgt>>
        /\ on_rq[p] = 1 => cpu[p] \in m
    BY <1>4 DEF MaskOnly, task_on_rq_queued
  <2>2. \A u \in Task : u # p /\ GoodWork(u) => GoodWork(u)'
    BY <1>1, <2>1, <1>t DEF GoodWork
  <2>3. ASSUME NEW u \in Task, on_rq'[u] = 1, cpu'[u] \notin cpus_mask'[u]
        PROVE  GoodWork(u)'
    BY <1>1, <1>t, <2>1, <2>2, <2>3 DEF AffinityInv, task_on_rq_queued
  <2> QED
    BY <1>1, <1>2, <1>t, <2>1, <2>3 DEF AffinityInv, task_on_rq_queued, Placing
<1>5. CASE AskStopper(t, p, m, dest)
  <2>1. /\ UNCHANGED <<on_rq, cpu, pc, tgt>>
        /\ targ' = [targ EXCEPT ![t] = [task |-> p, dest |-> dest, src |-> cpu[p]]]
        /\ tpc' = [tpc EXCEPT ![t] = "stop_one"]
    BY <1>5 DEF AskStopper
  <2>2. targ'[t].task = p /\ targ'[t].dest = dest /\ targ'[t].src = cpu[p]
    BY <1>t, <2>1
  <2>3. GoodWork(p)'
    BY <1>1, <1>t, <2>1, <2>2 DEF GoodWork
  <2>4. \A u \in Task : cpu[u] \in Cpu
    BY DEF IndInv, TypeOK, TaskType
  <2>5. ASSUME NEW u \in Task, u # p, GoodWork(u) PROVE GoodWork(u)'
    <3>1. cpus_mask'[u] = cpus_mask[u]
      BY <1>1, <2>5
    <3>2. \A v \in Task : targ[v].src = cpu[u] => targ'[v] = targ[v]
      BY <1>3, <2>1, <2>4
    <3> QED
      BY <1>1, <2>1, <2>5, <3>1, <3>2 DEF GoodWork
  <2>6. ASSUME NEW u \in Task, on_rq'[u] = 1, cpu'[u] \notin cpus_mask'[u]
        PROVE  GoodWork(u)'
    BY <1>1, <1>t, <2>1, <2>3, <2>5, <2>6 DEF AffinityInv, task_on_rq_queued
  <2>7. \A u \in Task : targ'[u].src \in Cpu => tpc'[u] = "stop_one"
    BY <1>t, <2>1 DEF AffinityInv
  <2> QED
    BY <1>1, <1>2, <1>t, <2>1, <2>6, <2>7 DEF AffinityInv, task_on_rq_queued, Placing
<1>6. CASE MoveNow(c, p, m, dest)
  <2>1. /\ UNCHANGED <<tpc, targ>> /\ on_rq' = [on_rq EXCEPT ![p] = 2]
        /\ cpu' = [cpu EXCEPT ![p] = dest] /\ tgt' = [tgt EXCEPT ![c] = p]
        /\ pc' = [pc EXCEPT ![c] = "move"]
    BY <1>6 DEF MoveNow, move_queued_task
  <2>2. \A u \in Task : u # p /\ GoodWork(u) => GoodWork(u)'
    BY <1>1, <2>1, <1>t DEF GoodWork
  <2>3. ASSUME NEW u \in Task, on_rq'[u] = 1, cpu'[u] \notin cpus_mask'[u]
        PROVE  GoodWork(u)'
    BY <1>1, <1>t, <2>1, <2>2, <2>3 DEF AffinityInv, task_on_rq_queued
  <2>4. ASSUME NEW d \in Cpu, pc'[d] \in Placing
        PROVE  cpu'[tgt'[d]] \in cpus_mask'[tgt'[d]]
    BY <1>1, <1>2, <1>t, <2>1, <2>4 DEF AffinityInv, Placing
  <2>5. ASSUME NEW d \in Cpu, pc'[d] = "move", curr'[d] = Stopper
        PROVE  Head(stopq'[d]).task = tgt'[d]
    BY <1>1, <1>t, <2>1, <2>5 DEF AffinityInv
  <2>6. \A d \in Cpu : pc'[d] # "ttwu_wakelist" /\ wakelist'[d] = {} /\ pending'[d] = {}
    BY <1>1, <1>t, <2>1 DEF AffinityInv
  <2> QED
    BY <2>1, <2>3, <2>4, <2>5, <2>6 DEF AffinityInv, task_on_rq_queued, Placing
<1> QED
  BY <1>1, <1>4, <1>5, <1>6

\* The other steps of programs that have to do with migration.
LEMMA SchedExecAffinity ==
  ASSUME IndInv, AffinityInv, NEW c \in Cpu, NEW t \in Task, NEW dest \in Cpu,
         SchedExec(c, t, dest)
  PROVE  AffinityInv'
<1>t. DOMAIN tpc = Task /\ DOMAIN targ = Task /\ \A u \in Task : cpu[u] \in Cpu
  BY DEF IndInv, TypeOK, TaskType, ProgType
<1>1. /\ tpc[t] = "work" /\ tpc' = [tpc EXCEPT ![t] = "stop_one"]
      /\ targ' = [targ EXCEPT ![t] = [task |-> t, dest |-> dest, src |-> c]]
      /\ UNCHANGED <<taskVars, curr, stopq, wakelist, pending, ctlVars>>
  BY DEF SchedExec, AtWork
<1>2. targ[t].src \notin Cpu
  BY <1>1 DEF AffinityInv
<1>3. \A u \in Task : \A v \in Task : targ[v].src = cpu[u] => targ'[v] = targ[v]
  BY <1>1, <1>2, <1>t
<1>4. \A u \in Task : GoodWork(u) => GoodWork(u)'
  BY <1>1, <1>3 DEF GoodWork
<1>5. \A u \in Task : targ'[u].src \in Cpu => tpc'[u] = "stop_one"
  BY <1>t, <1>1 DEF AffinityInv
<1> QED
  BY <1>1, <1>4, <1>5 DEF AffinityInv, task_on_rq_queued

\* stop_one_cpu() hands the work on.
LEMMA StopOneCpuAffinity ==
  ASSUME IndInv, AffinityInv, NEW c \in Cpu, NEW t \in Task, StopOneCpu(c, t)
  PROVE  AffinityInv'
<1> DEFINE src == targ[t].src
           w == [task |-> targ[t].task, dest |-> targ[t].dest, caller |-> t]
           n == Len(stopq[src])
<1>t. DOMAIN tpc = Task /\ DOMAIN targ = Task /\ DOMAIN stopq = Cpu
      /\ \A u \in Task : cpu[u] \in Cpu
  BY DEF IndInv, TypeOK, TaskType, ProgType
<1>1. tpc[t] = "stop_one" /\ targ[t] \in [task : Task, dest : Cpu, src : Cpu]
  BY DEF StopOneCpu, IndInv, ProgInv
<1>2. /\ stopq[src] \in Seq(Work) /\ w \in Work /\ src \in Cpu
      /\ w.task = targ[t].task /\ w.dest = targ[t].dest
  BY <1>1 DEF Work, IndInv, TypeOK, ProgType
<1>3. /\ stopq' = [stopq EXCEPT ![src] = Append(stopq[src], w)]
      /\ targ' = [targ EXCEPT ![t] = NoArg]
      /\ tpc' = [tpc EXCEPT ![t] = "stop_wait"]
      /\ UNCHANGED <<taskVars, curr, wakelist, pending, ctlVars>>
  BY DEF StopOneCpu
<1>4. /\ DOMAIN stopq[src] = 1 .. n /\ n \in Nat
      /\ DOMAIN Append(stopq[src], w) = 1 .. n + 1
      /\ Append(stopq[src], w)[n + 1] = w
      /\ \A i \in DOMAIN stopq[src] : Append(stopq[src], w)[i] = stopq[src][i]
  <2> HIDE DEF src, w
  <2> QED BY <1>2, AppendIndex
<1>n. NoArg.src \notin Cpu /\ NoArg.task \notin Task
  BY DEF NoArg
<1>5. \A d \in Cpu : \A i \in DOMAIN stopq[d] :
         i \in DOMAIN stopq'[d] /\ stopq'[d][i] = stopq[d][i]
  <2> HIDE DEF w, n
  <2> QED BY <1>t, <1>2, <1>3, <1>4
<1>6. n + 1 \in DOMAIN stopq'[src] /\ stopq'[src][n + 1] = w
  <2> HIDE DEF w, n, src
  <2> QED BY <1>t, <1>2, <1>3, <1>4
<1>7. ASSUME NEW u \in Task, GoodWork(u) PROVE GoodWork(u)'
  <2>1. CASE \E i \in DOMAIN stopq[cpu[u]] :
               stopq[cpu[u]][i].task = u /\ stopq[cpu[u]][i].dest \in cpus_mask[u]
    BY <1>t, <1>3, <1>5, <2>1 DEF GoodWork
  <2>2. ASSUME NEW v \in Task, targ[v].task = u, targ[v].src = cpu[u],
               targ[v].dest \in cpus_mask[u]
        PROVE  GoodWork(u)'
    <3>1. CASE v = t
      <4>1. src = cpu[u] /\ w.task = u /\ w.dest \in cpus_mask[u]
        BY <1>2, <2>2, <3>1
      <4> HIDE DEF src, w, n
      <4> QED
        BY <1>3, <1>6, <4>1 DEF GoodWork
    <3>2. CASE v # t
      <4>1. targ'[v] = targ[v]
        BY <1>3, <3>2
      <4> QED
        BY <1>3, <2>2, <4>1 DEF GoodWork
    <3> QED
      BY <3>1, <3>2
  <2> QED
    BY <1>7, <2>1, <2>2 DEF GoodWork
<1>8. \A u \in Task : targ'[u].src \in Cpu => tpc'[u] = "stop_one"
  BY <1>t, <1>3, <1>n DEF AffinityInv
<1>9. ASSUME NEW d \in Cpu, pc'[d] = "move", curr'[d] = Stopper
      PROVE  Head(stopq'[d]).task = tgt'[d]
  <2>1. stopq[d] # <<>> /\ stopq[d] \in Seq(Work)
    BY <1>3, <1>9 DEF IndInv, LocalsInv, TypeOK, ProgType, Work
  <2>2. 1 \in DOMAIN stopq[d] /\ Head(stopq[d]) = stopq[d][1]
    BY <2>1, HeadWork
  <2>3. 1 \in DOMAIN stopq'[d] /\ stopq'[d][1] = stopq[d][1]
    BY <1>5, <2>2
  <2>4. stopq'[d] \in Seq(Work)
    <3> HIDE DEF w, src
    <3> QED BY <1>t, <1>2, <1>3, <2>1, AppendWork
  <2>5. Head(stopq'[d]) = stopq'[d][1]
    BY <2>3, <2>4, HeadWork, EmptySeq
  <2> QED
    BY <1>3, <1>9, <2>2, <2>3, <2>5 DEF AffinityInv
<1> QED
  BY <1>3, <1>7, <1>8, <1>9 DEF AffinityInv, task_on_rq_queued

\* A new task has the mask of its parent and is placed when it is first woken.
LEMMA SchedForkAffinity ==
  ASSUME IndInv, AffinityInv, NEW c \in Cpu, NEW t \in Task, NEW p \in Task, SchedFork(c, t, p)
  PROVE  AffinityInv'
<1>t. /\ DOMAIN tpc = Task /\ DOMAIN targ = Task /\ DOMAIN cpu = Task /\ DOMAIN cpus_mask = Task
      /\ \A u \in Task : cpu[u] \in Cpu
  BY DEF IndInv, TypeOK, TaskType, ProgType
<1>1. /\ tpc[t] = "work" /\ tpc[p] = "free"
      /\ tpc' = [tpc EXCEPT ![p] = "new", ![t] = "forked"]
      /\ targ' = [targ EXCEPT ![t] = [NoArg EXCEPT !.task = p]]
      /\ cpu' = [cpu EXCEPT ![p] = c]
      /\ cpus_mask' = [cpus_mask EXCEPT ![p] = cpus_mask[t]]
      /\ UNCHANGED <<on_rq, curr, stopq, wakelist, pending, ctlVars>>
  BY DEF SchedFork, AtWork
<1>2. targ[t].src \notin Cpu /\ targ'[t].src \notin Cpu /\ targ[p].src \notin Cpu
  BY <1>t, <1>1 DEF AffinityInv, NoArg
<1>3. on_rq[p] = 0 /\ \A d \in Cpu : pc[d] \in Placing => tgt[d] \in Task /\ tgt[d] # p
  BY <1>1, PlacedTask DEF IndInv, ProgInv
<1>4. ASSUME NEW u \in Task, u # p, GoodWork(u) PROVE GoodWork(u)'
  <2>1. cpu'[u] = cpu[u] /\ cpus_mask'[u] = cpus_mask[u]
    BY <1>1, <1>4
  <2>2. \A v \in Task : targ[v].src = cpu[u] => targ'[v] = targ[v]
    BY <1>1, <1>2, <1>t
  <2> QED
    BY <1>1, <1>4, <2>1, <2>2 DEF GoodWork
<1>5. ASSUME NEW u \in Task, on_rq'[u] = 1, cpu'[u] \notin cpus_mask'[u]
      PROVE  GoodWork(u)'
  BY <1>t, <1>1, <1>3, <1>4, <1>5 DEF AffinityInv, task_on_rq_queued
<1>6. \A u \in Task : targ'[u].src \in Cpu => tpc'[u] = "stop_one"
  BY <1>t, <1>1, <1>2 DEF AffinityInv
<1>7. ASSUME NEW d \in Cpu, pc'[d] \in Placing
      PROVE  cpu'[tgt'[d]] \in cpus_mask'[tgt'[d]]
  BY <1>1, <1>3, <1>7 DEF AffinityInv, Placing
<1> QED
  BY <1>1, <1>5, <1>6, <1>7 DEF AffinityInv, task_on_rq_queued, Placing

\* wake_up_new_task() places the child on a CPU of its mask.
LEMMA WakeUpNewTaskAffinity ==
  ASSUME IndInv, AffinityInv, NEW c \in Cpu, NEW t \in Task, NEW dest \in Cpu,
         WakeUpNewTask(c, t, dest)
  PROVE  AffinityInv'
<1>t. /\ DOMAIN tpc = Task /\ DOMAIN targ = Task /\ DOMAIN cpu = Task /\ DOMAIN on_rq = Task
      /\ \A u \in Task : cpu[u] \in Cpu
  BY DEF IndInv, TypeOK, TaskType, ProgType
<1> PICK p \in Task : p = targ[t].task /\ tpc[p] = "new"
  BY DEF WakeUpNewTask, IndInv, ProgInv
<1>1. /\ tpc[t] = "forked" /\ dest \in cpus_mask[p]
      /\ tpc' = [tpc EXCEPT ![p] = "work", ![t] = "work"]
      /\ targ' = [targ EXCEPT ![t] = NoArg]
      /\ cpu' = [cpu EXCEPT ![p] = dest]
      /\ on_rq' = [on_rq EXCEPT ![p] = 1]
      /\ UNCHANGED <<cpus_mask, curr, stopq, wakelist, pending, ctlVars>>
  BY DEF WakeUpNewTask, is_cpu_allowed
<1>2. targ[t].src \notin Cpu /\ targ'[t].src \notin Cpu /\ targ[p].src \notin Cpu
  BY <1>t, <1>1 DEF AffinityInv, NoArg
<1>3. \A d \in Cpu : pc[d] \in Placing => tgt[d] \in Task /\ tgt[d] # p
  BY PlacedTask
<1>4. ASSUME NEW u \in Task, u # p, GoodWork(u) PROVE GoodWork(u)'
  <2>1. cpu'[u] = cpu[u]
    BY <1>1, <1>4
  <2>2. \A v \in Task : targ[v].src = cpu[u] => targ'[v] = targ[v]
    BY <1>1, <1>2, <1>t
  <2> QED
    BY <1>1, <1>4, <2>1, <2>2 DEF GoodWork
<1>5. ASSUME NEW u \in Task, on_rq'[u] = 1, cpu'[u] \notin cpus_mask'[u]
      PROVE  GoodWork(u)'
  BY <1>t, <1>1, <1>4, <1>5 DEF AffinityInv, task_on_rq_queued
<1>6. \A u \in Task : targ'[u].src \in Cpu => tpc'[u] = "stop_one"
  BY <1>t, <1>1, <1>2 DEF AffinityInv
<1>7. ASSUME NEW d \in Cpu, pc'[d] \in Placing
      PROVE  cpu'[tgt'[d]] \in cpus_mask'[tgt'[d]]
  BY <1>1, <1>3, <1>7 DEF AffinityInv, Placing
<1> QED
  BY <1>1, <1>5, <1>6, <1>7 DEF AffinityInv, task_on_rq_queued, Placing

\* A task is taken to a CPU of its mask, by a waker or by another CPU, which
\* goes on to place it.
Taken(c, p, dest) ==
    /\ dest \in cpus_mask[p] /\ cpu' = [cpu EXCEPT ![p] = dest] /\ tgt'[c] = p
    /\ UNCHANGED <<cpus_mask, targ, tpc, stopq, wakelist, pending>>
    /\ on_rq'[p] # 1 /\ \A u \in Task : u # p => on_rq'[u] = on_rq[u]
    /\ pc'[c] \in Placing
    /\ pc'[c] = "move" /\ curr'[c] = Stopper => Head(stopq[c]).task = p
    /\ \A d \in Cpu : d # c /\ pc[d] \in Placing => tgt[d] # p

\* A task that is taken off a queue is in the hands of one CPU, which puts it where it may
\* be; the others keep their work.
LEMMA TakenAffinity ==
  ASSUME IndInv, AffinityInv, NEW c \in Cpu, OthersKept(c), NEW p \in Task, NEW dest \in Cpu,
         Taken(c, p, dest)
  PROVE  AffinityInv'
<1> USE DEF Taken
<1>t. DOMAIN cpu = Task
  BY DEF IndInv, TypeOK, TaskType
<1>1. \A u \in Task : u # p /\ GoodWork(u) => GoodWork(u)'
  BY <1>t DEF GoodWork
<1>2. ASSUME NEW u \in Task, on_rq'[u] = 1, cpu'[u] \notin cpus_mask'[u]
      PROVE  GoodWork(u)'
  BY <1>t, <1>1, <1>2 DEF AffinityInv, task_on_rq_queued
<1>3. ASSUME NEW d \in Cpu, pc'[d] \in Placing
      PROVE  cpu'[tgt'[d]] \in cpus_mask'[tgt'[d]]
  <2>1. CASE d = c
    BY <1>t, <2>1
  <2>2. CASE d # c
    <3>1. pc[d] \in Placing /\ tgt'[d] = tgt[d] /\ tgt[d] # p
      BY <1>3, <2>2 DEF OthersKept
    <3>2. tgt[d] \in Task
      BY <3>1, PlacedTask
    <3> QED
      BY <1>t, <3>1, <3>2 DEF AffinityInv, Placing
  <2> QED
    BY <2>1, <2>2
<1>4. ASSUME NEW d \in Cpu, pc'[d] = "move", curr'[d] = Stopper
      PROVE  Head(stopq'[d]).task = tgt'[d]
  BY <1>4 DEF AffinityInv, OthersKept
<1>5. \A d \in Cpu : pc'[d] # "ttwu_wakelist" /\ wakelist'[d] = {} /\ pending'[d] = {}
  BY DEF AffinityInv, OthersKept, Placing
<1> QED
  BY <1>2, <1>3, <1>4, <1>5 DEF AffinityInv, task_on_rq_queued, Placing

\* The stopper completes its work: what it leaves undone for a task is not what
\* the task needs.
LEMMA StopDoneAffinity ==
  ASSUME IndInv, StopInv, AffinityInv, NEW c \in Cpu, OthersKept(c), StopDone(c),
         pc[c] \in StopPc \/ (pc[c] = "move" /\ curr[c] = Stopper), pc'[c] = "run",
         UNCHANGED <<cpu, cpus_mask, targ, wakelist, pending>>,
         \A t \in Task : on_rq'[t] = 1 => on_rq[t] = 1 \/ cpu[t] \in cpus_mask[t],
         \A t \in Task : on_rq'[t] = 1 /\ cpu[t] = c /\ Head(stopq[c]).task = t
                         /\ Head(stopq[c]).dest \in cpus_mask[t] => cpu[t] \in cpus_mask[t]
  PROVE  AffinityInv'
<1>1. stopq[c] \in Seq(Work) /\ stopq[c] # <<>>
  BY DEF LocalsInv, ProgType, Work, IndInv, TypeOK
<1>2. /\ DOMAIN stopq[c] = 1 .. Len(stopq[c]) /\ Len(stopq[c]) \in Nat \ {0}
      /\ Head(stopq[c]) = stopq[c][1] /\ DOMAIN Tail(stopq[c]) = 1 .. Len(stopq[c]) - 1
      /\ \A i \in DOMAIN Tail(stopq[c]) : Tail(stopq[c])[i] = stopq[c][i + 1]
  BY <1>1, TailIndex
<1>3. \A d \in Cpu : stopq'[d] = IF d = c THEN Tail(stopq[c]) ELSE stopq[d]
  BY DEF StopDone, IndInv, TypeOK, ProgType
<1>4. ASSUME NEW i \in DOMAIN stopq[c], i # 1
      PROVE  i - 1 \in DOMAIN stopq'[c] /\ stopq'[c][i - 1] = stopq[c][i]
  <2>1. i - 1 \in 1 .. Len(stopq[c]) - 1 /\ (i - 1) + 1 = i
    BY <1>2, <1>4
  <2> QED
    BY <1>2, <1>3, <2>1
<1>5. ASSUME NEW t \in Task, on_rq'[t] = 1, cpu'[t] \notin cpus_mask'[t]
      PROVE  GoodWork(t)'
  <2>1. GoodWork(t) /\ cpu[t] \notin cpus_mask[t] /\ cpu[t] \in Cpu
    BY <1>5 DEF AffinityInv, task_on_rq_queued, IndInv, TypeOK, TaskType
  <2>2. ASSUME NEW i \in DOMAIN stopq[cpu[t]], stopq[cpu[t]][i].task = t,
               stopq[cpu[t]][i].dest \in cpus_mask[t]
        PROVE  GoodWork(t)'
    <3>1. CASE cpu[t] # c
      <4>1. stopq'[cpu[t]] = stopq[cpu[t]]
        BY <1>3, <2>1, <3>1
      <4> QED
        BY <2>2, <4>1 DEF GoodWork
    <3>2. CASE cpu[t] = c
      <4>1. i # 1
        BY <1>2, <1>5, <2>1, <2>2, <3>2
      <4>2. i - 1 \in DOMAIN stopq'[c] /\ stopq'[c][i - 1] = stopq[c][i]
        BY <1>4, <2>2, <3>2, <4>1
      <4> QED
        BY <2>2, <3>2, <4>2 DEF GoodWork
    <3> QED
      BY <3>1, <3>2
  <2>3. (\E u \in Task : targ[u].task = t /\ targ[u].src = cpu[t] /\ targ[u].dest \in cpus_mask[t])
          => GoodWork(t)'
    BY DEF GoodWork
  <2> QED
    BY <2>1, <2>2, <2>3 DEF GoodWork
<1>6. \A t \in Task : targ'[t].src \in Cpu => tpc'[t] = "stop_one"
  <2>1. PICK u \in Task : tpc[u] = "stop_wait" /\ tpc' = [tpc EXCEPT ![u] = "work"]
    BY DoneCaller
  <2> QED
    BY <2>1 DEF AffinityInv, IndInv, TypeOK, ProgType
<1>7. ASSUME NEW d \in Cpu
      PROVE  /\ pc'[d] \in Placing => cpu'[tgt'[d]] \in cpus_mask'[tgt'[d]]
             /\ pc'[d] = "move" /\ curr'[d] = Stopper => Head(stopq'[d]).task = tgt'[d]
             /\ pc'[d] # "ttwu_wakelist" /\ wakelist'[d] = {} /\ pending'[d] = {}
  <2>1. CASE d = c
    BY <2>1 DEF Placing, AffinityInv
  <2>2. CASE d # c
    BY <1>3, <2>2 DEF Placing, AffinityInv, OthersKept
  <2> QED
    BY <2>1, <2>2
<1> QED
  BY <1>5, <1>6, <1>7 DEF AffinityInv, task_on_rq_queued, Placing

\* Programs.
LEMMA ProgramAffinity ==
  ASSUME IndInv, AffinityInv, NEW c \in Cpu, NEW t \in Task, Program(c, t), OthersKept(c)
  PROVE  AffinityInv'
<1> DEFINE Kept == /\ UNCHANGED <<cpu, cpus_mask, targ, stopq, on_rq, wakelist, pending, ctlVars>>
                   /\ \A u \in Task : tpc[u] = "stop_one" => tpc'[u] = "stop_one"
<1>t. tpc \in [Task -> {"free", "new", "work", "test", "sleep", "woken", "dying",
                       "dead", "stop_one", "stop_wait", "forked"}]
  BY DEF IndInv, TypeOK, ProgType
<1>1. ASSUME Kept PROVE AffinityInv'
  <2>1. CASE pc[c] \in Placing
    BY <1>1, <2>1 DEF Program, SetCurrentState, ConditionTrue, ConditionFalse,
       ScheduleReturn, SetSpecialState, start_to_count, SetCpusAllowed, SchedExec,
       StopOneCpu, SchedFork, WakeUpNewTask, AtWork, Running, Placing
  <2>2. CASE pc[c] \notin Placing
    BY <1>1, <2>2, AffinityKept DEF AffinityInv
  <2> QED
    BY <2>1, <2>2
<1>2. \A s : SetCurrentState(c, t, s) => Kept
  BY <1>t DEF SetCurrentState, AtWork
<1>3. \A io : ConditionFalse(c, t, io) => Kept
  BY <1>t DEF ConditionFalse
<1>4. ConditionTrue(c, t) \/ ScheduleReturn(c, t) => Kept
  BY <1>t DEF ConditionTrue, ScheduleReturn
<1>5. SetSpecialState(c, t) \/ start_to_count(c, t) => Kept
  BY <1>t DEF SetSpecialState, start_to_count, AtWork
<1> HIDE DEF Kept
<1> QED
  BY <1>1, <1>2, <1>3, <1>4, <1>5, SetCpusAllowedAffinity, SchedExecAffinity,
     StopOneCpuAffinity, SchedForkAffinity, WakeUpNewTaskAffinity DEF Program

\* Kernel paths: with TTWU_QUEUE off no wakelist is ever used.
LEMMA KernelAffinity ==
  ASSUME ~TTWU_QUEUE, IndInv, StopInv, AffinityInv, NEW c \in Cpu, Kernel(c), OthersKept(c)
  PROVE  AffinityInv'
<1> DEFINE Kept == /\ UNCHANGED <<cpu, cpus_mask, targ, stopq, tpc, on_rq, wakelist, pending>>
                   /\ pc'[c] \notin Placing \cup {"ttwu_wakelist"}
<1>t. DOMAIN pc = Cpu /\ DOMAIN tgt = Cpu /\ DOMAIN on_rq = Task /\ DOMAIN pending = Cpu
  BY DEF IndInv, TypeOK, TaskType, CtlType, RqType
<1>1. Kept => AffinityInv'
  BY AffinityKept DEF AffinityInv
<1>2. IowaitInc(c) \/ NoSwitch(c) \/ FinishTaskSwitch(c) \/ Reap(c) => Kept
  BY <1>t DEF IowaitInc, NoSwitch, FinishTaskSwitch, Reap, Return, Placing
<1>3. \A next : Switch(c, next) => Kept
  BY <1>t DEF Switch, Placing
<1>4. TtwuLock(c) \/ TtwuOnRq(c) \/ TtwuWaking(c) => Kept
  BY <1>t DEF TtwuLock, TtwuMatch, TtwuNoMatch, Return, TtwuOnRq, TtwuWaking, Placing
<1>5. TtwuRemote(c) => Kept
  BY <1>t DEF TtwuRemote, TtwuChase, TtwuFlip, TtwuMissed, Return, Placing
<1>6. TtwuOnCpu(c) => Kept
  BY <1>t DEF TtwuOnCpu, ttwu_queue_cond, Placing
<1>7. ~TtwuWakelist(c)
  BY DEF TtwuWakelist, AffinityInv
<1>8. ASSUME NEW dest \in Cpu, TtwuSelect(c, dest) PROVE AffinityInv'
  <2>1. /\ pc[c] = "ttwu_select" /\ dest \in cpus_mask[tgt[c]] /\ pc'[c] = "ttwu_queue"
        /\ cpu' = [cpu EXCEPT ![tgt[c]] = dest]
        /\ UNCHANGED <<tgt, on_rq, cpus_mask, targ, tpc, stopq, wakelist, pending>>
    BY <1>t, <1>8 DEF TtwuSelect, is_cpu_allowed, ttwu_queue_cond
  <2>2. tgt[c] \in Task /\ on_rq[tgt[c]] = 0 /\ pi_lock[tgt[c]] = c
    BY <2>1 DEF IndInv, LocalsInv, WakerInv, LockInv
  <2>3. ASSUME NEW d \in Cpu, d # c, pc[d] \in Placing, tgt[d] = tgt[c] PROVE FALSE
    <3>1. pc[d] \in {"move", "attach"} => on_rq[tgt[c]] = 2
      BY <2>3 DEF IndInv, QueueInv, task_on_rq_migrating
    <3>2. pc[d] = "ttwu_queue" => pi_lock[tgt[c]] = d
      BY <2>2, <2>3 DEF IndInv, LockInv
    <3> QED
      BY <2>2, <2>3, <3>1, <3>2 DEF Placing
  <2>4. PICK p \in Task : p = tgt[c]
    BY <2>2
  <2>5. Taken(c, p, dest)
    BY <2>1, <2>2, <2>3, <2>4 DEF Placing, Taken
  <2> QED
    BY <2>5, TakenAffinity
<1>9. TtwuQueue(c) => AffinityInv'
  <2> SUFFICES ASSUME TtwuQueue(c) PROVE AffinityInv'
    OBVIOUS
  <2>1. /\ UNCHANGED <<cpu, cpus_mask, targ, stopq, tpc, wakelist, pending>>
        /\ pc[c] = "ttwu_queue" /\ pc'[c] = "run"
        /\ on_rq' = [p \in Task |-> IF p \in {tgt[c]} THEN 1 ELSE on_rq[p]]
    BY <1>t DEF TtwuQueue, ttwu_do_activate, Return
  <2>2. \A t \in Task : on_rq'[t] = 1 => on_rq[t] = 1 \/ cpu[t] \in cpus_mask[t]
    BY <2>1 DEF AffinityInv
  <2> QED
    BY <2>1, <2>2, AffinityKept DEF AffinityInv, Placing
<1>10. SchedTtwuPending(c) => AffinityInv'
  <2> SUFFICES ASSUME SchedTtwuPending(c) PROVE AffinityInv'
    OBVIOUS
  <2>1. pending[c] = {}
    BY DEF AffinityInv
  <2>2. /\ UNCHANGED <<cpus_mask, targ, stopq, tpc, wakelist>> /\ pc'[c] \in {"run", "stop_lock"}
        /\ pending' = [pending EXCEPT ![c] = {}]
        /\ cpu' = [p \in Task |-> cpu[p]] /\ on_rq' = [p \in Task |-> on_rq[p]]
    BY <1>t, <2>1 DEF SchedTtwuPending, ttwu_do_activate
  <2>3. cpu' = cpu /\ on_rq' = on_rq
    BY <2>2 DEF IndInv, TypeOK, TaskType
  <2>4. \A d \in Cpu : pending'[d] = {} /\ wakelist'[d] = {}
    BY <1>t, <2>2 DEF AffinityInv
  <2> QED
    BY <2>2, <2>3, <2>4, AffinityKept DEF Placing
<1>11. MigrationCpuStop(c) => AffinityInv'
  <2> SUFFICES ASSUME MigrationCpuStop(c) PROVE AffinityInv'
    OBVIOUS
  <2>1. PICK p \in Task, dest \in Cpu : p = Head(stopq[c]).task /\ dest = Head(stopq[c]).dest
    BY StopWork DEF MigrationCpuStop, StopFacts, Work
  <2>2. /\ pc[c] = "stop_lock" /\ UNCHANGED <<cpus_mask, targ, wakelist, pending>>
        /\ pi_lock[p] = None /\ (StopMove(c, p, dest) \/ StopNothing(c, p, dest))
    BY <2>1 DEF MigrationCpuStop
  <2>3. CASE StopMove(c, p, dest)
    <3>1. /\ on_rq[p] = 1 /\ dest \in cpus_mask[p] /\ UNCHANGED <<tpc, stopq>>
          /\ on_rq' = [on_rq EXCEPT ![p] = 2] /\ cpu' = [cpu EXCEPT ![p] = dest]
          /\ tgt'[c] = p /\ pc'[c] = "move"
      BY <1>t, <2>3 DEF StopMove, move_queued_task, task_on_rq_queued, StillAllowed,
         is_cpu_allowed
    <3>2. \A d \in Cpu : d # c /\ pc[d] \in Placing => tgt[d] # p
      BY <3>1, PlacedTask
    <3>3. on_rq'[p] # 1 /\ \A u \in Task : u # p => on_rq'[u] = on_rq[u]
      BY <1>t, <3>1
    <3>4. Taken(c, p, dest)
      BY <2>1, <2>2, <3>1, <3>2, <3>3 DEF Placing, Taken
    <3> QED
      BY <3>4, TakenAffinity
  <2>4. CASE StopNothing(c, p, dest)
    <3>1. /\ ~(cpu[p] = c /\ on_rq[p] = 1 /\ dest \in cpus_mask[p]) /\ StopDone(c)
          /\ pc'[c] = "run" /\ UNCHANGED <<on_rq, cpu>>
      BY <1>t, <2>4 DEF StopNothing, Return, task_on_rq_queued, StillAllowed, is_cpu_allowed
    <3> QED
      BY <2>1, <2>2, <3>1, StopDoneAffinity
  <2> QED
    BY <2>2, <2>3, <2>4
<1>12. MoveEnqueue(c) => AffinityInv'
  <2> SUFFICES ASSUME MoveEnqueue(c) PROVE AffinityInv'
    OBVIOUS
  <2>1. /\ pc[c] = "move" /\ pc'[c] = "run" /\ on_rq' = [on_rq EXCEPT ![tgt[c]] = 1]
        /\ UNCHANGED <<cpu, cpus_mask, targ, wakelist, pending>>
        /\ IF curr[c] = Stopper THEN StopDone(c) ELSE UNCHANGED <<tpc, stopq>>
    BY <1>t DEF MoveEnqueue, Return
  <2>2. tgt[c] \in Task /\ cpu[tgt[c]] \in cpus_mask[tgt[c]]
    BY <2>1 DEF AffinityInv, IndInv, LocalsInv
  <2>3. \A t \in Task : on_rq'[t] = 1 => on_rq[t] = 1 \/ cpu[t] \in cpus_mask[t]
    BY <1>t, <2>1, <2>2
  <2>4. CASE curr[c] = Stopper
    <3>1. Head(stopq[c]).task = tgt[c]
      BY <2>1, <2>4 DEF AffinityInv
    <3> QED
      BY <2>1, <2>2, <2>3, <2>4, <3>1, StopDoneAffinity
  <2>5. CASE curr[c] # Stopper
    BY <2>1, <2>3, <2>5, AffinityKept DEF AffinityInv, Placing
  <2> QED
    BY <2>4, <2>5
<1>13. AttachTask(c) => AffinityInv'
  <2> SUFFICES ASSUME AttachTask(c) PROVE AffinityInv'
    OBVIOUS
  <2>1. /\ pc[c] = "attach" /\ pc'[c] = "run" /\ on_rq' = [on_rq EXCEPT ![tgt[c]] = 1]
        /\ UNCHANGED <<cpu, cpus_mask, targ, stopq, tpc, wakelist, pending>>
    BY <1>t DEF AttachTask, Return
  <2>2. tgt[c] \in Task /\ cpu[tgt[c]] \in cpus_mask[tgt[c]]
    BY <2>1 DEF AffinityInv, IndInv, LocalsInv
  <2>3. \A t \in Task : on_rq'[t] = 1 => on_rq[t] = 1 \/ cpu[t] \in cpus_mask[t]
    BY <1>t, <2>1, <2>2
  <2> QED
    BY <2>1, <2>3, AffinityKept DEF AffinityInv, Placing
<1> HIDE DEF Kept
<1> QED
  BY <1>1, <1>2, <1>3, <1>4, <1>5, <1>6, <1>7, <1>8, <1>9, <1>10, <1>11, <1>12, <1>13 DEF Kernel

\* Interrupts and scheduling points.
LEMMA InterruptAffinity ==
  ASSUME IndInv, AffinityInv, NEW c \in Cpu, Interrupt(c) \/ Reschedule(c), OthersKept(c)
  PROVE  AffinityInv'
<1> DEFINE Kept == /\ UNCHANGED <<cpu, cpus_mask, targ, stopq>>
                   /\ pc'[c] \notin Placing \cup {"ttwu_wakelist"}
                   /\ \A d \in Cpu : wakelist'[d] = {} /\ pending'[d] = {}
                   /\ \A t \in Task : tpc[t] = "stop_one" => tpc'[t] = "stop_one"
                   /\ \A t \in Task : on_rq'[t] = 1 => on_rq[t] = 1
<1>t. /\ DOMAIN pc = Cpu /\ DOMAIN tgt = Cpu /\ DOMAIN on_rq = Task /\ DOMAIN pending = Cpu
      /\ DOMAIN wakelist = Cpu /\ DOMAIN tpc = Task
  BY DEF IndInv, TypeOK, TaskType, CtlType, RqType, ProgType
<1>e. \A d \in Cpu : wakelist[d] = {} /\ pending[d] = {}
  BY DEF AffinityInv
<1>1. Kept => AffinityInv'
  BY AffinityKept
<1>2. \A p, kind : WakeCurrent(c, p, kind) \/ Wake(c, p, kind) => Kept
  BY <1>t, <1>e DEF WakeCurrent, Wake, Placing, Running
<1>3. ~TtwuIpi(c)
  BY <1>e DEF TtwuIpi
<1>4. ASSUME NEW p \in Task, DetachTask(c, p) PROVE AffinityInv'
  <2>1. /\ on_rq[p] = 1 /\ c \in cpus_mask[p] /\ cpu' = [cpu EXCEPT ![p] = c]
        /\ on_rq' = [on_rq EXCEPT ![p] = 2] /\ tgt'[c] = p /\ pc'[c] = "attach"
        /\ UNCHANGED <<cpus_mask, targ, tpc, stopq, wakelist, pending>>
    BY <1>t, <1>4 DEF DetachTask, task_on_rq_queued, is_cpu_allowed
  <2>2. \A d \in Cpu : d # c /\ pc[d] \in Placing => tgt[d] # p
    BY <2>1, PlacedTask
  <2>3. on_rq'[p] # 1 /\ \A u \in Task : u # p => on_rq'[u] = on_rq[u]
    BY <1>t, <2>1
  <2>4. Taken(c, p, c)
    BY <2>1, <2>2, <2>3 DEF Placing, Taken
  <2> QED
    BY <2>4, TakenAffinity
<1>5. \A t \in Task : Schedule(c, t) => Kept
  BY <1>t, <1>e DEF Schedule, KeepRunnable, CancelSleep, Deactivate, Placing
<1>6. \A t : Preempt(c, t) \/ PseudoSchedule(c) => Kept
  BY <1>t, <1>e DEF Preempt, PseudoSchedule, Placing
<1>7. StopFlush(c) => Kept
  BY <1>t, <1>e DEF StopFlush, Placing
<1> HIDE DEF Kept
<1> QED
  BY <1>1, <1>2, <1>3, <1>4, <1>5, <1>6, <1>7 DEF Interrupt, Reschedule

\* With TTWU_QUEUE off, no interleaving of wakeups, of the load balancer, of
\* exec balancing and of calls to set_cpus_allowed_ptr() leaves a runnable task on
\* a CPU outside its mask once the migration work for it is done.  (With it on,
\* a wakelist entry may overtake a mask: see the run affinity_wakelist.)
THEOREM AffinityWithoutWakelists ==
  ASSUME ~TTWU_QUEUE
  PROVE  Spec => []AffinityHonoured
<1>1. Init => AffinityInv
  <2> SUFFICES ASSUME Init PROVE AffinityInv
    OBVIOUS
  <2> QED
    BY DEF Init, AffinityInv, GoodWork, NoArg, task_on_rq_queued
<1>2. IndInv /\ LifeInv /\ AffinityInv /\ [Next]_vars => AffinityInv'
  <2> SUFFICES ASSUME IndInv, LifeInv, AffinityInv, [Next]_vars PROVE AffinityInv'
    OBVIOUS
  <2>1. CASE UNCHANGED vars
    BY <2>1 DEF vars, AffinityInv, GoodWork, task_on_rq_queued
  <2>2. StopInv
    BY DEF LifeInv
  <2>3. ASSUME NEW c \in Cpu,
               (\E t \in Task : Program(c, t)) \/ Kernel(c) \/ Interrupt(c) \/ Reschedule(c)
        PROVE  AffinityInv'
    <3>1. OthersKept(c)
      BY <2>3, OwnLocals
    <3> QED
      BY <2>2, <2>3, <3>1, ProgramAffinity, KernelAffinity, InterruptAffinity
  <2> QED
    BY <2>1, <2>3 DEF Next
<1>3. IndInv /\ AffinityInv => AffinityHonoured
  <2> SUFFICES ASSUME IndInv, AffinityInv, NEW t \in Task, task_on_rq_queued(t), ~StopWorkFor(t),
                      cpu[t] \notin cpus_mask[t]
               PROVE  FALSE
    BY DEF AffinityHonoured
  <2>1. GoodWork(t) /\ cpu[t] \in Cpu /\ cpus_mask[t] \in SUBSET Cpu
    BY DEF AffinityInv, IndInv, TypeOK, TaskType
  <2> QED
    BY <2>1 DEF GoodWork, StopWorkFor
<1> QED
  BY <1>1, <1>2, <1>3, Invariance, LifeInvariance, PTL DEF Spec

(***************************************************************************)
(* wait_task_inactive(): what the count of voluntary switches says of the  *)
(* runs of a task.                                                         *)
(***************************************************************************)

\* A task that __schedule() has taken off its queue is switched out voluntarily.
LeavingInv ==
    \A c \in Cpu : pc[c] \in {"iowait", "pick"} /\ curr[c] \in Task /\ on_rq[curr[c]] = 0
        => voluntary[c]

\* The voluntary switches of the task since the first answer.
Counted == (nvcsw[Watched] - ncsw) % LONG_MIN

Away == on_rq[Watched] = 0 /\ ~IsCurrent(Watched)

\* Every run ends in at most one of them, the current one has not ended, and a task
\* that is off its queue after a run has gone there through one.
RunsInv ==
    ncsw # 0 /\ runs < LONG_MIN =>
        /\ Counted <= runs
        /\ IsCurrent(Watched) => Counted < runs
        /\ runs > 0 /\ Away => Counted # 0

\* The second answer is about the task as it still is.
AnswerInv ==
    /\ ncsw \in Nat /\ runs \in 0 .. LONG_MIN
    /\ wpc # "idle" => again = 0
    /\ again # 0 => again = SetMsb(nvcsw[Watched]) /\ Away

WatchInv == LeavingInv /\ RunsInv /\ AnswerInv

\* Only schedule() takes a task off its queue for good.
LEMMA QueueLeft ==
  ASSUME IndInv, NEW c \in Cpu, NEW u \in Task, on_rq'[u] = 0, on_rq[u] # 0,
         (\E t \in Task : Program(c, t)) \/ Kernel(c) \/ Interrupt(c) \/ Reschedule(c)
  PROVE  Schedule(c, u)
<1>t. DOMAIN on_rq = Task
  BY DEF IndInv, TypeOK, TaskType
<1> DEFINE Stays == on_rq'[u] = 0 => on_rq[u] = 0
<1>1. \A t \in Task : Program(c, t) => Stays
  <2>1. \A t, s : SetCurrentState(c, t, s) \/ ConditionFalse(c, t, s) \/ SchedExec(c, t, s)
          => Stays
    BY DEF SetCurrentState, ConditionFalse, SchedExec
  <2>2. \A t : ConditionTrue(c, t) \/ ScheduleReturn(c, t) \/ SetSpecialState(c, t)
                  \/ start_to_count(c, t) \/ StopOneCpu(c, t) => Stays
    BY DEF ConditionTrue, ScheduleReturn, SetSpecialState, start_to_count, StopOneCpu
  <2>3. \A t, p, m, dest : SetCpusAllowed(c, t, p, m, dest) => Stays
    BY <1>t DEF SetCpusAllowed, MaskOnly, AskStopper, MoveNow, move_queued_task
  <2>4. \A t, p \in Task : SchedFork(c, t, p) => Stays
    BY <1>t DEF SchedFork, IndInv, ProgInv
  <2>5. \A t, dest : WakeUpNewTask(c, t, dest) => Stays
    BY <1>t DEF WakeUpNewTask
  <2> HIDE DEF Stays
  <2> QED
    BY <2>1, <2>2, <2>3, <2>4, <2>5 DEF Program
<1>2. Kernel(c) => Stays
  <2>1. IowaitInc(c) \/ NoSwitch(c) \/ FinishTaskSwitch(c) \/ Reap(c) => Stays
    BY DEF IowaitInc, NoSwitch, FinishTaskSwitch, Reap
  <2>2. \A next : Switch(c, next) => Stays
    BY DEF Switch
  <2>3. TtwuLock(c) \/ TtwuOnRq(c) \/ TtwuWaking(c) \/ TtwuOnCpu(c) => Stays
    BY DEF TtwuLock, TtwuOnRq, TtwuWaking, TtwuOnCpu
  <2>4. TtwuRemote(c) \/ TtwuWakelist(c) => Stays
    BY DEF TtwuRemote, TtwuWakelist
  <2>5. \A dest : TtwuSelect(c, dest) => Stays
    BY DEF TtwuSelect
  <2>6. TtwuQueue(c) \/ SchedTtwuPending(c) => Stays
    BY <1>t DEF TtwuQueue, SchedTtwuPending, ttwu_do_activate
  <2>7. MigrationCpuStop(c) => Stays
    BY <1>t DEF MigrationCpuStop, StopMove, StopNothing, move_queued_task
  <2>8. MoveEnqueue(c) \/ AttachTask(c) => Stays
    BY <1>t DEF MoveEnqueue, AttachTask
  <2> HIDE DEF Stays
  <2> QED
    BY <2>1, <2>2, <2>3, <2>4, <2>5, <2>6, <2>7, <2>8 DEF Kernel
<1>3. Interrupt(c) => Stays
  <2>1. \A p, kind : WakeCurrent(c, p, kind) \/ Wake(c, p, kind) => Stays
    BY DEF WakeCurrent, Wake
  <2>2. \A p : DetachTask(c, p) => Stays
    BY <1>t DEF DetachTask
  <2>3. TtwuIpi(c) => Stays
    BY DEF TtwuIpi
  <2> HIDE DEF Stays
  <2> QED
    BY <2>1, <2>2, <2>3 DEF Interrupt
<1>4. Reschedule(c) => Stays \/ Schedule(c, u)
  <2>1. \A t \in Task : Schedule(c, t) => Stays \/ t = u
    BY <1>t DEF Schedule, KeepRunnable, CancelSleep, Deactivate
  <2>2. \A t : Preempt(c, t) => Stays
    BY DEF Preempt
  <2>3. PseudoSchedule(c) \/ StopFlush(c) => Stays
    BY DEF PseudoSchedule, StopFlush
  <2> HIDE DEF Stays
  <2> QED
    BY <2>1, <2>2, <2>3 DEF Reschedule
<1> QED
  BY <1>1, <1>2, <1>3, <1>4

\* A CPU comes to the pick only with its current task on the queue, or from
\* schedule(), where it was about to sleep.
LEMMA LeavingStep ==
  ASSUME IndInv, LeavingInv, [Next]_vars
  PROVE  LeavingInv'
<1>1. CASE UNCHANGED vars
  BY <1>1 DEF vars, LeavingInv
<1>2. ASSUME NEW c \in Cpu,
             (\E t \in Task : Program(c, t)) \/ Kernel(c) \/ Interrupt(c) \/ Reschedule(c)
      PROVE  LeavingInv'
  <2>t. /\ DOMAIN pc = Cpu /\ DOMAIN tgt = Cpu /\ DOMAIN curr = Cpu /\ DOMAIN voluntary = Cpu
        /\ curr \in [Cpu -> Task \cup {"idle", "stop"}]
    BY DEF IndInv, TypeOK, CtlType, RqType
  <2>o. OthersKept(c)
    BY <1>2, OwnLocals
  <2> SUFFICES ASSUME NEW d \in Cpu, pc'[d] \in {"iowait", "pick"}, curr'[d] \in Task,
                      on_rq'[curr'[d]] = 0
               PROVE  voluntary'[d]
    BY DEF LeavingInv
  <2>1. ASSUME NEW t \in Task, Schedule(c, t), on_rq'[t] = 0 PROVE curr[c] = t /\ voluntary'[c]
    <3>1. curr[c] = t /\ voluntary' = [voluntary EXCEPT ![c] = state[t] # "RUNNING"]
      BY <2>1 DEF Schedule, Running
    <3>2. on_rq[t] = 1
      BY <2>1, CurrentTask DEF Schedule, CurrentFacts
    <3>3. state[t] # "RUNNING"
      BY <2>1, <3>2 DEF Schedule, KeepRunnable, CancelSleep, Deactivate, signal_pending_state
    <3> QED
      BY <2>t, <3>1, <3>3
  <2>2. CASE d # c
    <3>1. pc[d] = pc'[d] /\ curr[d] = curr'[d] /\ voluntary'[d] = voluntary[d]
      BY <2>o, <2>2 DEF OthersKept
    <3>2. CASE on_rq[curr[d]] = 0
      BY <3>1, <3>2 DEF LeavingInv
    <3>3. CASE on_rq[curr[d]] # 0
      <4>1. Schedule(c, curr[d])
        BY <1>2, <3>1, <3>3, QueueLeft
      <4>2. curr[c] = curr[d]
        BY <2>1, <3>1, <4>1
      <4> QED
        BY <2>2, <3>1, <4>2 DEF IndInv, ExecInv, Executes
    <3> QED
      BY <3>2, <3>3
  <2>3. CASE d = c
    <3> DEFINE At == pc'[c] \in {"iowait", "pick"}
    <3>1. CASE \E t \in Task : Schedule(c, t)
      <4>1. PICK t \in Task : Schedule(c, t)
        BY <3>1
      <4>2. curr'[c] = t
        BY <4>1 DEF Schedule, Running
      <4> QED
        BY <2>1, <2>3, <4>1, <4>2
    <3>2. CASE \E t \in Task : Preempt(c, t)
      <4>1. PICK t \in Task : Preempt(c, t)
        BY <3>2
      <4>2. curr'[c] = t /\ on_rq' = on_rq
        BY <4>1 DEF Preempt, Running
      <4>3. on_rq[t] = 1
        BY <4>1, CurrentTask DEF Preempt, CurrentFacts
      <4> QED
        BY <2>3, <4>2, <4>3
    <3>3. CASE PseudoSchedule(c)
      BY <2>3, <3>3, TaskAssumption DEF PseudoSchedule
    <3>4. CASE IowaitInc(c)
      BY <2>3, <3>4 DEF IowaitInc, LeavingInv
    <3>6. \A t \in Task : Program(c, t) => ~At
      <4>1. \A t, s : SetCurrentState(c, t, s) \/ ConditionFalse(c, t, s) \/ SchedExec(c, t, s)
                     \/ SchedFork(c, t, s) \/ WakeUpNewTask(c, t, s) => ~At
        BY DEF SetCurrentState, ConditionFalse, SchedExec, SchedFork, WakeUpNewTask, AtWork, Running
      <4>2. \A t : ConditionTrue(c, t) \/ ScheduleReturn(c, t) \/ SetSpecialState(c, t)
                      \/ start_to_count(c, t) \/ StopOneCpu(c, t) => ~At
        BY DEF ConditionTrue, ScheduleReturn, SetSpecialState, start_to_count, StopOneCpu,
               AtWork, Running
      <4>3. \A t, p, m, dest : SetCpusAllowed(c, t, p, m, dest) => ~At
        BY <2>t DEF SetCpusAllowed, MaskOnly, AskStopper, MoveNow, move_queued_task, AtWork, Running
      <4> HIDE DEF At
      <4> QED
        BY <4>1, <4>2, <4>3 DEF Program
    <3>7. Kernel(c) => ~At \/ IowaitInc(c)
      <4>1. NoSwitch(c) \/ FinishTaskSwitch(c) \/ Reap(c) => ~At
        BY <2>t DEF NoSwitch, FinishTaskSwitch, Reap, Return
      <4>2. \A next : Switch(c, next) => ~At
        BY <2>t DEF Switch
      <4>3. TtwuLock(c) \/ TtwuOnRq(c) \/ TtwuWaking(c) => ~At
        BY <2>t DEF TtwuLock, TtwuMatch, TtwuNoMatch, Return, TtwuOnRq, TtwuWaking
      <4>9. TtwuOnCpu(c) => ~At
        <5>1. TtwuOnCpu(c) => pc'[c] \in {"ttwu_wakelist", "ttwu_select"}
          BY <2>t DEF TtwuOnCpu
        <5> QED
          BY <5>1
      <4>4. TtwuRemote(c) => ~At
        BY <2>t DEF TtwuRemote, TtwuChase, TtwuFlip, TtwuMissed, Return
      <4>5. TtwuWakelist(c) \/ TtwuQueue(c) \/ SchedTtwuPending(c) => ~At
        BY <2>t DEF TtwuWakelist, TtwuQueue, SchedTtwuPending, Return
      <4>6. \A dest : TtwuSelect(c, dest) => ~At
        BY <2>t DEF TtwuSelect
      <4>7. MigrationCpuStop(c) => ~At
        BY <2>t DEF MigrationCpuStop, StopMove, StopNothing, move_queued_task, Return
      <4>8. MoveEnqueue(c) \/ AttachTask(c) => ~At
        BY <2>t DEF MoveEnqueue, AttachTask, Return
      <4> HIDE DEF At
      <4> QED
        BY <4>1, <4>2, <4>3, <4>4, <4>5, <4>6, <4>7, <4>8, <4>9 DEF Kernel
    <3>8. Interrupt(c) => ~At
      <4>1. \A p, kind : WakeCurrent(c, p, kind) \/ Wake(c, p, kind) => ~At
        BY <2>t DEF WakeCurrent, Wake, Running
      <4>2. \A p : DetachTask(c, p) => ~At
        BY <2>t DEF DetachTask
      <4>3. TtwuIpi(c) => ~At
        BY <2>t DEF TtwuIpi
      <4> HIDE DEF At
      <4> QED
        BY <4>1, <4>2, <4>3 DEF Interrupt
    <3>9. StopFlush(c) => ~At
      BY <2>t DEF StopFlush
    <3>10. At
      BY <2>3
    <3> HIDE DEF At
    <3> QED
      BY <1>2, <3>1, <3>2, <3>3, <3>4, <3>6, <3>7, <3>8, <3>9, <3>10 DEF Reschedule
  <2> QED
    BY <2>2, <2>3
<1> QED
  BY <1>1, <1>2 DEF Next

\* nvcsw, which is LONG_MIN twice as wide, moves by one: so does the number of switches
\* since the first answer, if it does not wrap.
LEMMA CountMoves ==
  ASSUME NEW L \in Nat \ {0}, NEW n \in Int, NEW b \in Int, ((n - b) % L) + 1 < L
  PROVE  (((n + 1) % (2 * L)) - b) % L = ((n - b) % L) + 1
<1> DEFINE M == 2 * L
           a == n + 1
           d == a \div M
           r == a % M
           x == n - b
           k == x % L
<1>1. M \in Nat \ {0} /\ a \in Int /\ x \in Int
  OBVIOUS
<1>2. a = M * d + r /\ d \in Int /\ r \in Int
  <2> HIDE DEF M, a
  <2> QED BY <1>1, DivMod
<1>3. k \in 0 .. L - 1
  <2> HIDE DEF x
  <2> QED BY <1>1, ModRange
<1> DEFINE e == 2 * d
<1>4. e \in Int /\ a = L * e + r
  <2> HIDE DEF a, r, d
  <2> QED BY <1>2
<1>5. (x + 1) % L = (k + 1) % L
  <2> DEFINE i == 1
  <2>1. i \in Int
    OBVIOUS
  <2> HIDE DEF x, i
  <2>2. ((x % L) + i) % L = (x + i) % L
    BY <1>1, <2>1, ModPlus
  <2> QED
    BY <2>2 DEF i
<1>6. (k + 1) % L = k + 1
  <2>1. k + 1 \in 0 .. L - 1
    BY <1>3
  <2> HIDE DEF k
  <2> QED BY <2>1, ModSmall
<1>7. x + 1 = (r - b) + L * e /\ r - b \in Int
  <2>1. x + 1 = a - b
    OBVIOUS
  <2> HIDE DEF a, r, e, x
  <2> QED BY <1>1, <1>2, <1>4, <2>1
<1>8. (x + 1) % L = (r - b) % L
  <2> DEFINE y == r - b
             z == x + 1
  <2>1. y \in Int /\ z = y + L * e
    BY <1>7
  <2> HIDE DEF y, z, e
  <2>2. z % L = y % L
    BY <1>4, <2>1, ModMultiple
  <2> QED
    BY <2>2 DEF y, z
<1> QED
  BY <1>5, <1>6, <1>8

\* An answer that equals the count counts no switch.
LEMMA CountZero ==
  ASSUME NEW L \in Nat \ {0}, NEW n \in Int
  PROVE  L + (n % L) \in Nat \ {0} /\ (n - (L + (n % L))) % L = 0
<1> DEFINE r == n % L
           q == n \div L
           e == q - 1
<1>1. r \in 0 .. L - 1 /\ q \in Int /\ n = L * q + r
  BY DivMod
<1> HIDE DEF r, q
<1>2. e \in Int /\ n - (L + r) = 0 + L * e
  BY <1>1
<1> HIDE DEF e
<1>3. (0 + L * e) % L = 0 % L
  <2> DEFINE z == 0
  <2>1. z \in Int
    OBVIOUS
  <2> HIDE DEF z
  <2>2. (z + L * e) % L = z % L
    BY <1>2, <2>1, ModMultiple
  <2> QED
    BY <2>2 DEF z
<1>4. 0 % L = 0
  BY ModSmall
<1> QED
  BY <1>1, <1>2, <1>3, <1>4 DEF r

\* The widths, and what is counted.
LEMMA WatchTypes ==
  ASSUME IndInv, AnswerInv
  PROVE  /\ LONG_MIN \in Nat \ {0} /\ CswMod = 2 * LONG_MIN /\ Watched \in Task
         /\ nvcsw[Watched] \in Int /\ ncsw \in Int /\ Counted \in 0 .. LONG_MIN - 1
<1>1. LONG_MIN \in Nat \ {0} /\ CswMod = 2 * LONG_MIN /\ Watched \in Task
  BY WatchAssumption, WidthAssumption
<1>2. nvcsw[Watched] \in Int /\ ncsw \in Int
  BY <1>1, CounterTypes DEF AnswerInv
<1> DEFINE x == nvcsw[Watched] - ncsw
<1>3. x \in Int
  BY <1>2
<1>4. Counted = x % LONG_MIN
  BY DEF Counted
<1> HIDE DEF x
<1>5. Counted \in 0 .. LONG_MIN - 1
  BY <1>1, <1>3, <1>4, ModRange
<1> QED
  BY <1>1, <1>2, <1>5

\* A step of the scheduler that switches nothing: the task may leave its queue,
\* but is still current then.
LEMMA WatchQuiet ==
  ASSUME IndInv, WatchInv, again = 0, UNCHANGED <<nvcsw, curr, wpc, ncsw, again, runs>>,
         on_rq'[Watched] = 0 => on_rq[Watched] = 0 \/ IsCurrent(Watched)
  PROVE  RunsInv' /\ AnswerInv'
<1>1. Counted' = Counted /\ (IsCurrent(Watched)' <=> IsCurrent(Watched)) /\ (Away' => Away)
  BY DEF Counted, IsCurrent, Away
<1> HIDE DEF Counted, Away, IsCurrent
<1>2. RunsInv'
  BY <1>1 DEF WatchInv, RunsInv
<1>3. AnswerInv'
  BY DEF WatchInv, AnswerInv
<1> QED
  BY <1>2, <1>3

\* A context switch: a run ends or begins, or is another task's.
LEMMA WatchSwitch ==
  ASSUME IndInv, WatchInv, SchedStep, NEW c \in Cpu, NEW next \in Task \cup {Idle, Stopper},
         Switch(c, next)
  PROVE  RunsInv' /\ AnswerInv'
<1>t. /\ DOMAIN nvcsw = Task /\ DOMAIN curr = Cpu
      /\ LONG_MIN \in Nat \ {0} /\ CswMod = 2 * LONG_MIN /\ Watched \in Task
      /\ nvcsw[Watched] \in Int /\ ncsw \in Nat /\ runs \in 0 .. LONG_MIN
      /\ Counted \in 0 .. LONG_MIN - 1
  BY WatchTypes DEF WatchInv, AnswerInv, IndInv, TypeOK, AccountType, RqType
<1> PICK prev \in Task \cup {Idle, Stopper} : prev = tgt[c]
  BY DEF Switch, IndInv, LocalsInv
<1>1. /\ curr[c] = prev /\ prev # next /\ curr' = [curr EXCEPT ![c] = next]
      /\ next \in Task => next \in rq[c]
      /\ pc[c] = "pick" /\ UNCHANGED on_rq
      /\ nvcsw' = IF voluntary[c] THEN Bump(nvcsw, prev, CswMod) ELSE nvcsw
  BY DEF Switch, pick_next_task, IndInv, LocalsInv
<1>2. prev \in Task => \A d \in Cpu : curr[d] = prev => d = c
  BY <1>1 DEF IndInv, ExecInv, Executes
<1>3. next \in Task => \A d \in Cpu : curr[d] # next
  <2>1. next \in Task => cpu[next] = c
    BY <1>1 DEF IndInv, QueueInv, RunqueueConsistent
  <2>2. next \in Task => \A d \in Cpu : curr[d] = next => cpu[next] = d
    BY DEF IndInv, ExecInv, Executes
  <2> QED
    BY <1>1, <2>1, <2>2
<1>4. /\ again = 0 /\ UNCHANGED <<wpc, ncsw, again>>
      /\ runs' = IF ncsw # 0 /\ SwitchesTo /\ runs < LONG_MIN THEN runs + 1 ELSE runs
  BY DEF SchedStep
<1>5. AnswerInv'
  BY <1>t, <1>4 DEF WatchInv, AnswerInv
<1> SUFFICES ASSUME ncsw # 0, runs' < LONG_MIN
             PROVE  /\ Counted' <= runs'
                    /\ IsCurrent(Watched)' => Counted' < runs'
                    /\ runs' > 0 /\ Away' => Counted' # 0
  BY <1>4, <1>5 DEF RunsInv
<1>6. runs < LONG_MIN
  BY <1>t, <1>4
<1>7. /\ Counted <= runs /\ (IsCurrent(Watched) => Counted < runs)
      /\ runs > 0 /\ Away => Counted # 0
  BY <1>6 DEF WatchInv, RunsInv
<1>8. CASE Watched = prev
  <2>1. IsCurrent(Watched) /\ ~IsCurrent(Watched)' /\ ~SwitchesTo
    BY <1>t, <1>1, <1>2, <1>8 DEF IsCurrent, SwitchesTo
  <2>2. runs' = runs /\ Counted < runs
    BY <1>4, <1>7, <2>1
  <2>3. CASE voluntary[c]
    <3>1. nvcsw'[Watched] = (nvcsw[Watched] + 1) % (2 * LONG_MIN)
      BY <1>t, <1>1, <1>8, <2>3 DEF Bump
    <3> DEFINE n == nvcsw[Watched]
    <3>2. Counted = (n - ncsw) % LONG_MIN /\ Counted' = (nvcsw'[Watched] - ncsw) % LONG_MIN
      BY <1>4 DEF Counted
    <3>3. n \in Int /\ ncsw \in Int /\ Counted + 1 < LONG_MIN
      BY <1>t, <1>6, <2>2
    <3> HIDE DEF n
    <3>4. (((n + 1) % (2 * LONG_MIN)) - ncsw) % LONG_MIN = ((n - ncsw) % LONG_MIN) + 1
      BY <1>t, <3>2, <3>3, CountMoves
    <3>5. Counted' = Counted + 1
      BY <3>1, <3>2, <3>4 DEF n
    <3> QED
      BY <1>t, <2>1, <2>2, <3>5
  <2>4. CASE ~voluntary[c]
    <3>1. Counted' = Counted
      BY <1>1, <1>4, <2>4 DEF Counted
    <3>2. ~Away'
      BY <1>t, <1>1, <1>8, <2>4 DEF Away, WatchInv, LeavingInv
    <3> QED
      BY <1>t, <2>1, <2>2, <3>1, <3>2
  <2> QED
    BY <2>3, <2>4
<1>9. CASE Watched = next
  <2>1. ~IsCurrent(Watched) /\ IsCurrent(Watched)' /\ SwitchesTo
    BY <1>t, <1>1, <1>3, <1>9 DEF IsCurrent, SwitchesTo
  <2>2. runs' = runs + 1 /\ ~Away'
    BY <1>4, <1>6, <2>1 DEF Away
  <2>3. Counted' = Counted
    BY <1>t, <1>1, <1>4, <1>9 DEF Counted, Bump
  <2> QED
    BY <1>t, <1>7, <2>2, <2>3
<1>10. CASE Watched # prev /\ Watched # next
  <2>1. (IsCurrent(Watched)' <=> IsCurrent(Watched)) /\ ~SwitchesTo
    BY <1>t, <1>1, <1>10 DEF IsCurrent, SwitchesTo
  <2>2. runs' = runs /\ (Away' <=> Away)
    BY <1>1, <1>4, <2>1 DEF Away
  <2>3. Counted' = Counted
    BY <1>t, <1>1, <1>4, <1>10 DEF Counted, Bump
  <2> QED
    BY <1>7, <2>1, <2>2, <2>3
<1> QED
  BY <1>8, <1>9, <1>10

\* Nothing but a context switch moves the counter or begins a run.
LEMMA SwitchFrame ==
  ASSUME NEW c \in Cpu,
         (\E t \in Task : Program(c, t)) \/ Kernel(c) \/ Interrupt(c) \/ Reschedule(c)
  PROVE  \/ UNCHANGED <<nvcsw, curr>>
         \/ \E next \in Task \cup {Idle, Stopper} : Switch(c, next)
<1> DEFINE Kept == UNCHANGED <<nvcsw, curr>>
<1>1. \A t \in Task : Program(c, t) => Kept
  <2>1. \A t, s : SetCurrentState(c, t, s) \/ ConditionFalse(c, t, s) \/ SchedExec(c, t, s)
                     \/ SchedFork(c, t, s) \/ WakeUpNewTask(c, t, s) => Kept
    BY DEF SetCurrentState, ConditionFalse, SchedExec, SchedFork, WakeUpNewTask
  <2>2. \A t : ConditionTrue(c, t) \/ ScheduleReturn(c, t) \/ SetSpecialState(c, t)
                  \/ start_to_count(c, t) \/ StopOneCpu(c, t) => Kept
    BY DEF ConditionTrue, ScheduleReturn, SetSpecialState, start_to_count, StopOneCpu
  <2>3. \A t, p, m, dest : SetCpusAllowed(c, t, p, m, dest) => Kept
    BY DEF SetCpusAllowed
  <2> HIDE DEF Kept
  <2> QED
    BY <2>1, <2>2, <2>3 DEF Program
<1>2. Kernel(c) => Kept \/ \E next \in Task \cup {Idle, Stopper} : Switch(c, next)
  <2>1. IowaitInc(c) \/ NoSwitch(c) \/ FinishTaskSwitch(c) \/ Reap(c) => Kept
    BY DEF IowaitInc, NoSwitch, FinishTaskSwitch, Reap
  <2>2. TtwuLock(c) \/ TtwuOnRq(c) \/ TtwuRemote(c) \/ TtwuWaking(c) => Kept
    BY DEF TtwuLock, TtwuOnRq, TtwuRemote, TtwuWaking
  <2>3. TtwuOnCpu(c) \/ TtwuWakelist(c) \/ TtwuQueue(c) \/ SchedTtwuPending(c) => Kept
    BY DEF TtwuOnCpu, TtwuWakelist, TtwuQueue, SchedTtwuPending
  <2>4. \A dest : TtwuSelect(c, dest) => Kept
    BY DEF TtwuSelect
  <2>5. MigrationCpuStop(c) \/ MoveEnqueue(c) \/ AttachTask(c) => Kept
    BY DEF MigrationCpuStop, MoveEnqueue, AttachTask
  <2> HIDE DEF Kept
  <2> QED
    BY <2>1, <2>2, <2>3, <2>4, <2>5 DEF Kernel
<1>3. Interrupt(c) \/ Reschedule(c) => Kept
  <2>1. \A p, kind : WakeCurrent(c, p, kind) \/ Wake(c, p, kind) => Kept
    BY DEF WakeCurrent, Wake
  <2>2. \A p : DetachTask(c, p) \/ Schedule(c, p) \/ Preempt(c, p) => Kept
    BY DEF DetachTask, Schedule, Preempt
  <2>3. TtwuIpi(c) \/ PseudoSchedule(c) \/ StopFlush(c) => Kept
    BY DEF TtwuIpi, PseudoSchedule, StopFlush
  <2> HIDE DEF Kept
  <2> QED
    BY <2>1, <2>2, <2>3 DEF Interrupt, Reschedule
<1> QED
  BY <1>1, <1>2, <1>3

\* Steps of the scheduler.
LEMMA WatchSched ==
  ASSUME IndInv, WatchInv, SchedStep
  PROVE  WatchInv'
<1>1. again = 0 /\ UNCHANGED <<wpc, ncsw, again>> /\ Next
  BY DEF SchedStep
<1>2. LeavingInv'
  BY <1>1, LeavingStep DEF WatchInv
<1>3. PICK c \in Cpu : (\E t \in Task : Program(c, t)) \/ Kernel(c) \/ Interrupt(c) \/ Reschedule(c)
  BY <1>1 DEF Next
<1>4. CASE \E next \in Task \cup {Idle, Stopper} : Switch(c, next)
  BY <1>2, <1>4, WatchSwitch DEF WatchInv
<1>5. CASE UNCHANGED <<nvcsw, curr>>
  <2>1. runs' = runs
    BY <1>5 DEF SchedStep, SwitchesTo
  <2>2. on_rq'[Watched] = 0 => on_rq[Watched] = 0 \/ IsCurrent(Watched)
    BY <1>3, WatchAssumption, QueueLeft DEF Schedule, Running, IsCurrent
  <2> QED
    BY <1>1, <1>2, <1>5, <2>1, <2>2, WatchQuiet DEF WatchInv
<1> QED
  BY <1>3, <1>4, <1>5, SwitchFrame

\* The caller looks at the task, and answers.
LEMMA WatchCaller ==
  ASSUME IndInv, WatchInv,
         (\E m \in MatchStates : WaitBegin(m)) \/ WaitRelax \/ WaitLook \/ WaitDone
  PROVE  WatchInv'
<1>t. /\ LONG_MIN \in Nat \ {0} /\ nvcsw[Watched] \in Int /\ ncsw \in Nat
      /\ runs \in 0 .. LONG_MIN /\ Watched \in Task
  BY WatchTypes DEF WatchInv, AnswerInv
<1>1. UNCHANGED vars
  BY DEF WaitBegin, WaitRelax, WaitLook, WaitDone
<1>2. LeavingInv' /\ (Away' <=> Away) /\ (IsCurrent(Watched)' <=> IsCurrent(Watched))
      /\ SetMsb(nvcsw[Watched])' = SetMsb(nvcsw[Watched]) /\ nvcsw' = nvcsw
  BY <1>1 DEF vars, WatchInv, LeavingInv, Away, IsCurrent, SetMsb
<1>3. ASSUME wpc # "idle", NEW n \in Nat, Answer(n),
             n # 0 => n = SetMsb(nvcsw[Watched]) /\ Away
      PROVE  RunsInv' /\ AnswerInv'
  <2>1. again = 0 /\ wpc' = "idle"
    BY <1>3 DEF WatchInv, AnswerInv, Answer
  <2>2. CASE ncsw = 0
    <3>1. ncsw' = n /\ runs' = 0 /\ again' = 0
      BY <1>3, <2>1, <2>2 DEF Answer
    <3>2. n # 0 => Counted' = 0 /\ ~IsCurrent(Watched)'
      <4> DEFINE v == nvcsw[Watched]
      <4>1. n # 0 => n = LONG_MIN + (v % LONG_MIN) /\ ~IsCurrent(Watched)
        BY <1>3 DEF SetMsb, Away
      <4>2. Counted' = (v - n) % LONG_MIN
        BY <1>2, <3>1 DEF Counted
      <4>3. v \in Int
        BY <1>t
      <4> HIDE DEF v
      <4>4. (v - (LONG_MIN + (v % LONG_MIN))) % LONG_MIN = 0
        BY <1>t, <4>3, CountZero
      <4> QED
        BY <1>2, <4>1, <4>2, <4>4
    <3> QED
      BY <1>t, <1>2, <2>1, <3>1, <3>2 DEF RunsInv, AnswerInv
  <2>3. CASE ncsw # 0
    <3>1. again' = n /\ UNCHANGED <<ncsw, runs>>
      BY <1>3, <2>3 DEF Answer
    <3>2. Counted' = Counted
      BY <1>2, <3>1 DEF Counted
    <3> HIDE DEF Counted
    <3> QED
      BY <1>t, <1>2, <1>3, <2>1, <3>1, <3>2 DEF WatchInv, RunsInv, AnswerInv
  <2> QED
    BY <2>2, <2>3
<1>4. ASSUME UNCHANGED <<ncsw, again, runs>>, again = 0
      PROVE  RunsInv' /\ AnswerInv'
  <2>1. Counted' = Counted
    BY <1>2, <1>4 DEF Counted
  <2> HIDE DEF Counted
  <2> QED
    BY <1>t, <1>2, <1>4, <2>1 DEF WatchInv, RunsInv, AnswerInv
<1>5. CASE \E m \in MatchStates : WaitBegin(m)
  BY <1>2, <1>4, <1>5 DEF WaitBegin, WatchInv
<1>6. CASE WaitRelax
  <2>1. again = 0
    BY <1>6 DEF WaitRelax, WatchInv, AnswerInv
  <2>2. Answer(0) \/ UNCHANGED <<ncsw, again, runs>>
    BY <1>6 DEF WaitRelax
  <2> QED
    BY <1>2, <1>3, <1>4, <1>6, <2>1, <2>2 DEF WaitRelax, WatchInv
<1>7. CASE WaitLook
  <2>1. again = 0 /\ wpc = "look"
    BY <1>7 DEF WaitLook, WatchInv, AnswerInv
  <2>2. CASE Answer(0) \/ UNCHANGED <<ncsw, again, runs>>
    BY <1>2, <1>3, <1>4, <2>1, <2>2 DEF WatchInv
  <2>3. CASE ~Active /\ Answer(SetMsb(nvcsw[Watched]))
    <3>1. SetMsb(nvcsw[Watched]) \in Nat
      BY <1>t, CountZero DEF SetMsb
    <3>2. on_rq[Watched] = 0
      BY <1>t, <1>7, <2>3 DEF WaitLook, CanTaskRqLock, Active, task_on_rq_queued,
         task_on_rq_migrating, IndInv, TypeOK, TaskType
    <3>3. ~IsCurrent(Watched)
      BY <1>t, <2>3 DEF Active, IsCurrent, IndInv, ExecInv, Executes
    <3> QED
      BY <1>2, <1>3, <2>1, <2>3, <3>1, <3>2, <3>3 DEF WatchInv, Away
  <2> QED
    BY <1>7, <2>2, <2>3 DEF WaitLook
<1>8. CASE WaitDone
  <2>1. ncsw' = 0 /\ again' = 0 /\ runs' = 0
    BY <1>8 DEF WaitDone
  <2> QED
    BY <1>t, <1>2, <2>1 DEF WatchInv, RunsInv, AnswerInv
<1> QED
  BY <1>5, <1>6, <1>7, <1>8

\* Two equal answers of wait_task_inactive() mean that the task has not run in
\* between, unless it ran as often as the count is wide.
THEOREM EqualAnswers == WaitSpec => []RemainedUnscheduled
<1>1. WaitInit => WatchInv
  <2> SUFFICES ASSUME WaitInit PROVE WatchInv
    OBVIOUS
  <2>1. LONG_MIN \in Nat
    BY WatchAssumption
  <2> QED
    BY <2>1 DEF WaitInit, Init, WatchInv, LeavingInv, RunsInv, AnswerInv
<1>2. [WaitNext]_<<vars, waitVars>> => [Next]_vars
  BY DEF WaitNext, SchedStep, WaitBegin, WaitRelax, WaitLook, WaitDone
<1>3. IndInv /\ WatchInv /\ [WaitNext]_<<vars, waitVars>> => WatchInv'
  <2> SUFFICES ASSUME IndInv, WatchInv, [WaitNext]_<<vars, waitVars>> PROVE WatchInv'
    OBVIOUS
  <2>1. CASE WaitNext
    BY <2>1, WatchSched, WatchCaller DEF WaitNext
  <2>2. CASE UNCHANGED <<vars, waitVars>>
    BY <2>2 DEF vars, waitVars, WatchInv, LeavingInv, RunsInv, AnswerInv, Counted, Away,
       IsCurrent, SetMsb
  <2> QED
    BY <2>1, <2>2
<1>4. ASSUME IndInv, WatchInv PROVE RemainedUnscheduled
  <2> SUFFICES ASSUME ncsw # 0, again = ncsw, runs < LONG_MIN PROVE runs = 0
    BY DEF RemainedUnscheduled
  <2>1. again = SetMsb(nvcsw[Watched]) /\ Away /\ runs \in 0 .. LONG_MIN
    BY <1>4 DEF WatchInv, AnswerInv
  <2>2. Counted = 0
    <3> DEFINE v == nvcsw[Watched]
    <3>1. v \in Int /\ LONG_MIN \in Nat \ {0}
      BY <1>4, WatchTypes DEF WatchInv
    <3>2. Counted = (v - (LONG_MIN + (v % LONG_MIN))) % LONG_MIN
      BY <2>1 DEF SetMsb, Counted
    <3> HIDE DEF v
    <3> QED
      BY <3>1, <3>2, CountZero
  <2> HIDE DEF Counted
  <2> QED
    BY <1>4, <2>1, <2>2 DEF WatchInv, RunsInv
<1>5. WaitSpec => Spec
  <2>1. WaitInit => Init
    BY DEF WaitInit
  <2> QED
    BY <1>2, <2>1, PTL DEF WaitSpec, Spec
<1> QED
  BY <1>1, <1>3, <1>4, <1>5, Invariance, PTL DEF WaitSpec

(***************************************************************************)
(* The number of uninterruptible sleepers.                                 *)
(***************************************************************************)

\* One term of a sum moves by d, modulo the width: so does the sum.
LEMMA ModMove ==
  ASSUME NEW m \in Nat \ {0}, NEW x \in Int, NEW y \in Int, NEW a \in Int, NEW d \in Int,
         x % m = y % m
  PROVE  (x + (((a + d) % m) - a)) % m = (y + d) % m
<1> DEFINE b == a + d
           e == x - a
           r == b % m
<1>1. b \in Int /\ e \in Int
  OBVIOUS
<1>2. r \in Int /\ (r + e) % m = (b + e) % m
  <2> HIDE DEF b, e
  <2>1. b % m \in Int
    BY <1>1, ModRange
  <2>2. ((b % m) + e) % m = (b + e) % m
    BY <1>1, ModPlus
  <2> QED
    BY <2>1, <2>2
<1>3. x + (r - a) = r + e
  <2> HIDE DEF r
  <2> QED BY <1>2
<1>4. b + e = x + d
  OBVIOUS
<1>5. (x + (r - a)) % m = (x + d) % m
  <2> HIDE DEF r, b, e
  <2> QED BY <1>2, <1>3, <1>4
<1>6. (x + d) % m = ((x % m) + d) % m /\ (y + d) % m = ((y % m) + d) % m
  BY ModPlus
<1> QED
  BY <1>5, <1>6 DEF r

LoadInv == Total(Cpu, nr_uninterruptible) % LoadMod = Cardinality(LoadSleepers) % LoadMod

\* A CPU's count moves by d, and d sleepers come or go.
LEMMA LoadMoves ==
  ASSUME IndInv, LoadInv, NEW c \in Cpu, NEW d \in Int,
         nr_uninterruptible' = [nr_uninterruptible EXCEPT ![c] = (nr_uninterruptible[c] + d) % LoadMod],
         Cardinality(LoadSleepers)' = Cardinality(LoadSleepers) + d
  PROVE  LoadInv'
<1> DEFINE f == nr_uninterruptible
           a == f[c]
           v == (a + d) % LoadMod
           x == Total(Cpu, f)
           y == Cardinality(LoadSleepers)
<1>1. f \in [Cpu -> Int] /\ a \in Int /\ LoadMod \in Nat \ {0}
  <2>1. f \in [Cpu -> 0 .. LoadMod - 1] /\ LoadMod \in Nat \ {0}
    BY WidthAssumption DEF IndInv, TypeOK, AccountType
  <2>2. 0 .. LoadMod - 1 \subseteq Int
    BY <2>1
  <2> HIDE DEF f
  <2>3. \A e \in Cpu : f[e] \in Int
    BY <2>1, <2>2
  <2> QED
    BY <2>1, <2>3
<1>2. v \in Int
  <2> DEFINE b == a + d
  <2>1. b \in Int
    <3> HIDE DEF a
    <3> QED BY <1>1
  <2> HIDE DEF b
  <2>2. b % LoadMod \in Int
    BY <1>1, <2>1, ModRange
  <2> QED
    BY <2>2 DEF b
<1>3. y \in Int
  <2>1. LoadSleepers \in SUBSET Task
    BY DEF LoadSleepers
  <2> QED
    BY <2>1, SubsetCardinality
<1>4. x \in Int /\ Total(Cpu, [f EXCEPT ![c] = v]) = x + (v - a)
  <2>1. f \in [Cpu -> Int]
    BY <1>1
  <2> HIDE DEF f, v
  <2>2. Total(Cpu, f) \in Int /\ Total(Cpu, [f EXCEPT ![c] = v]) = Total(Cpu, f) + (v - f[c])
    BY ONLY <1>2, <2>1, c \in Cpu, CpuTotal
  <2> QED
    BY <2>2
<1>5. x % LoadMod = y % LoadMod
  BY DEF LoadInv
<1>6. Total(Cpu, nr_uninterruptible') = x + (v - a)
  BY <1>4
<1>7. (x + (((a + d) % LoadMod) - a)) % LoadMod = (y + d) % LoadMod
  <2> HIDE DEF x, y, a
  <2>1. x \in Int /\ y \in Int /\ a \in Int /\ LoadMod \in Nat \ {0} /\ x % LoadMod = y % LoadMod
    BY <1>1, <1>3, <1>4, <1>5
  <2> QED
    BY ONLY <2>1, d \in Int, ModMove
<1>8. Total(Cpu, nr_uninterruptible') % LoadMod = Cardinality(LoadSleepers)' % LoadMod
  <2> HIDE DEF x
  <2> QED BY <1>6, <1>7
<1> QED
  BY <1>8 DEF LoadInv

\* Nobody comes or goes.
LEMMA LoadKept ==
  ASSUME LoadInv, UNCHANGED <<nr_uninterruptible, sched_contributes_to_load>>,
         \A u \in Task : on_rq'[u] = 0 <=> on_rq[u] = 0,
         \A u \in Task : tpc'[u] \in {"free", "new"} <=> tpc[u] \in {"free", "new"}
  PROVE  LoadInv'
<1>1. LoadSleepers' = LoadSleepers
  BY DEF LoadSleepers
<1> HIDE DEF LoadSleepers
<1> QED
  BY <1>1 DEF LoadInv

\* Activated tasks settle what they contributed, on whatever CPU they come to.
LEMMA LoadActivate ==
  ASSUME IndInv, LoadInv, NEW c \in Cpu, NEW S \in SUBSET Task, ttwu_do_activate(c, S),
         UNCHANGED <<sched_contributes_to_load, tpc>>,
         \A u \in S : on_rq[u] = 0 /\ tpc[u] \notin {"free", "new"}
  PROVE  LoadInv'
<1> DEFINE C == Contributors(S)
           n == Cardinality(C)
<1>1. IsFiniteSet(LoadSleepers) /\ LoadSleepers \in SUBSET Task
  <2>1. LoadSleepers \in SUBSET Task
    BY DEF LoadSleepers
  <2> QED
    BY <2>1, FS_Subset
<1>2. C \in SUBSET LoadSleepers
  BY DEF Contributors, LoadSleepers
<1>3. LoadSleepers' = LoadSleepers \ C
  BY DEF LoadSleepers, Contributors, ttwu_do_activate
<1>4. n \in Nat /\ Cardinality(LoadSleepers) \in Nat
  <2> HIDE DEF C
  <2> QED BY <1>1, <1>2, SubsetCardinality
<1>5. Cardinality(LoadSleepers)' = Cardinality(LoadSleepers) - n
  <2> HIDE DEF C
  <2>1. LoadSleepers \cap C = C
    BY <1>2
  <2> QED
    BY <1>1, <1>3, <2>1, FS_Difference
<1> DEFINE d == -n
<1>6. d \in Int /\ nr_uninterruptible[c] - n = nr_uninterruptible[c] + d
      /\ Cardinality(LoadSleepers)' = Cardinality(LoadSleepers) + d
  <2>1. nr_uninterruptible[c] \in Int
    BY WidthAssumption DEF IndInv, TypeOK, AccountType
  <2> HIDE DEF n
  <2> QED BY <1>4, <1>5, <2>1
<1>7. nr_uninterruptible' = [nr_uninterruptible EXCEPT ![c] = (nr_uninterruptible[c] + d) % LoadMod]
  <2>1. nr_uninterruptible' = [nr_uninterruptible EXCEPT ![c] = (nr_uninterruptible[c] - n) % LoadMod]
    BY DEF ttwu_do_activate
  <2> HIDE DEF d, n
  <2> QED
    BY <1>6, <2>1
<1> HIDE DEF d
<1> QED
  BY <1>6, <1>7, LoadMoves

\* A task that blocks in TASK_UNINTERRUPTIBLE is counted where it blocks.
LEMMA LoadSchedule ==
  ASSUME IndInv, LoadInv, NEW c \in Cpu, NEW t \in Task, Schedule(c, t)
  PROVE  LoadInv'
<1>t. /\ tpc \in [Task -> {"free", "new", "work", "test", "sleep", "woken", "dying",
                          "dead", "stop_one", "stop_wait", "forked"}]
      /\ DOMAIN on_rq = Task /\ DOMAIN sched_contributes_to_load = Task
  BY DEF IndInv, TypeOK, ProgType, TaskType, AccountType
<1>1. /\ on_rq[t] = 1 /\ tpc[t] \notin {"free", "new"}
      /\ tpc' = [tpc EXCEPT ![t] = AfterSchedule(t)] /\ AfterSchedule(t) \in {"dead", "woken"}
  BY CurrentTask DEF Schedule, CurrentFacts, AfterSchedule
<1>2. \A u \in Task : tpc'[u] \in {"free", "new"} <=> tpc[u] \in {"free", "new"}
  BY <1>t, <1>1
<1>3. CASE KeepRunnable(c, t) \/ CancelSleep(c, t)
  <2>1. UNCHANGED <<nr_uninterruptible, sched_contributes_to_load, on_rq>>
    BY <1>3 DEF KeepRunnable, CancelSleep
  <2> QED
    BY <1>2, <2>1, LoadKept
<1>4. CASE Deactivate(c, t)
  <2>1. /\ on_rq' = [on_rq EXCEPT ![t] = 0]
        /\ sched_contributes_to_load' =
              [sched_contributes_to_load EXCEPT ![t] = state[t] = "UNINT"]
    BY <1>4 DEF Deactivate
  <2>2. t \notin LoadSleepers
    BY <1>1 DEF LoadSleepers
  <2>5. \A u \in Task : u # t => (u \in LoadSleepers' <=> u \in LoadSleepers)
    <3>1. \A u \in Task : u # t => /\ on_rq'[u] = on_rq[u]
                                  /\ sched_contributes_to_load'[u] = sched_contributes_to_load[u]
      BY <1>t, <2>1
    <3> QED
      BY <1>2, <3>1 DEF LoadSleepers
  <2>6. t \in LoadSleepers' <=> state[t] = "UNINT"
    <3>1. on_rq'[t] = 0 /\ sched_contributes_to_load'[t] = (state[t] = "UNINT")
      BY <1>t, <2>1
    <3>2. tpc'[t] \notin {"free", "new"}
      BY <1>1, <1>2
    <3> QED
      BY <3>1, <3>2, Zenon DEF LoadSleepers
  <2>7. LoadSleepers \subseteq Task /\ LoadSleepers' \subseteq Task
    BY DEF LoadSleepers
  <2>3. CASE state[t] # "UNINT"
    <3>1. LoadSleepers' = LoadSleepers
      <4> HIDE DEF LoadSleepers
      <4>1. \A u \in Task : u \in LoadSleepers' <=> u \in LoadSleepers
        BY <2>2, <2>3, <2>5, <2>6
      <4> QED
        BY <2>7, <4>1, Zenon
    <3>2. UNCHANGED nr_uninterruptible
      BY <1>4, <2>3 DEF Deactivate
    <3> HIDE DEF LoadSleepers
    <3> QED
      BY <3>1, <3>2 DEF LoadInv
  <2>4. CASE state[t] = "UNINT"
    <3>1. LoadSleepers' = LoadSleepers \cup {t}
      <4> HIDE DEF LoadSleepers
      <4> QED BY <2>4, <2>5, <2>6, <2>7
    <3>2. IsFiniteSet(LoadSleepers)
      <4>1. LoadSleepers \in SUBSET Task
        BY DEF LoadSleepers
      <4> QED
        BY <4>1, FS_Subset
    <3>3. Cardinality(LoadSleepers)' = Cardinality(LoadSleepers) + 1
      <4> HIDE DEF LoadSleepers
      <4> QED BY <2>2, <3>1, <3>2, FS_AddElement
    <3>4. nr_uninterruptible'
            = [nr_uninterruptible EXCEPT ![c] = (nr_uninterruptible[c] + 1) % LoadMod]
      BY <1>4, <2>4 DEF Deactivate
    <3> DEFINE d == 1
    <3>5. /\ d \in Int /\ Cardinality(LoadSleepers)' = Cardinality(LoadSleepers) + d
          /\ nr_uninterruptible'
               = [nr_uninterruptible EXCEPT ![c] = (nr_uninterruptible[c] + d) % LoadMod]
      BY <3>3, <3>4
    <3> HIDE DEF d, LoadSleepers
    <3> QED
      BY <3>5, LoadMoves
  <2> QED
    BY <2>3, <2>4
<1> QED
  BY <1>3, <1>4 DEF Schedule

\* Every other step leaves the sleepers alone, or activates some.
LEMMA LoadStep ==
  ASSUME IndInv, LoadInv, [Next]_vars
  PROVE  LoadInv'
<1>t. /\ tpc \in [Task -> {"free", "new", "work", "test", "sleep", "woken", "dying",
                          "dead", "stop_one", "stop_wait", "forked"}]
      /\ on_rq \in [Task -> {0, 1, 2}] /\ DOMAIN sched_contributes_to_load = Task
  BY DEF IndInv, TypeOK, ProgType, TaskType, AccountType
<1> DEFINE Load == UNCHANGED <<nr_uninterruptible, sched_contributes_to_load>>
           Queues == \A u \in Task : on_rq'[u] = 0 <=> on_rq[u] = 0
           Alive == \A u \in Task : tpc'[u] \in {"free", "new"} <=> tpc[u] \in {"free", "new"}
           Kept == Load /\ Queues /\ Alive
<1>1. Kept => LoadInv'
  BY LoadKept
<1>2. CASE UNCHANGED vars
  BY <1>1, <1>2 DEF vars
<1>3. ASSUME NEW c \in Cpu, NEW t \in Task, Program(c, t) PROVE LoadInv'
  <2>a. Running(c, t) => tpc[t] \notin {"free", "new"}
    BY CurrentTask DEF CurrentFacts
  <2>1. \A s : SetCurrentState(c, t, s) \/ ConditionFalse(c, t, s) \/ SchedExec(c, t, s) => Kept
    BY <1>t, <2>a DEF SetCurrentState, ConditionFalse, SchedExec, AtWork
  <2>2. ConditionTrue(c, t) \/ ScheduleReturn(c, t) \/ SetSpecialState(c, t)
          \/ start_to_count(c, t) \/ StopOneCpu(c, t) => Kept
    BY <1>t, <2>a DEF ConditionTrue, ScheduleReturn, SetSpecialState, start_to_count, StopOneCpu,
       AtWork
  <2>3. \A p \in Task : \A m, dest : SetCpusAllowed(c, t, p, m, dest) => Kept
    BY <1>t, <2>a DEF SetCpusAllowed, MaskOnly, AskStopper, MoveNow, move_queued_task,
       task_on_rq_queued, AtWork
  <2>4. ASSUME NEW p \in Task, SchedFork(c, t, p) PROVE LoadInv'
    <3>1. /\ tpc[p] = "free" /\ tpc' = [tpc EXCEPT ![p] = "new", ![t] = "forked"]
          /\ sched_contributes_to_load'
               = [sched_contributes_to_load EXCEPT ![p] = sched_contributes_to_load[t]]
          /\ UNCHANGED <<on_rq, nr_uninterruptible>> /\ tpc[t] = "work"
      BY <2>4 DEF SchedFork, AtWork
    <3>2. LoadSleepers' = LoadSleepers
      BY <1>t, <3>1 DEF LoadSleepers
    <3> HIDE DEF LoadSleepers
    <3> QED
      BY <3>1, <3>2 DEF LoadInv
  <2>5. ASSUME NEW dest \in Cpu, WakeUpNewTask(c, t, dest) PROVE LoadInv'
    <3>1. PICK p \in Task : p = targ[t].task /\ tpc[p] = "new"
      BY <2>5 DEF WakeUpNewTask, IndInv, ProgInv
    <3>2. /\ tpc' = [tpc EXCEPT ![p] = "work", ![t] = "work"] /\ tpc[t] = "forked"
          /\ on_rq' = [on_rq EXCEPT ![p] = 1] /\ Load
      BY <2>5, <3>1 DEF WakeUpNewTask
    <3>3. LoadSleepers' = LoadSleepers
      BY <1>t, <3>1, <3>2 DEF LoadSleepers
    <3> HIDE DEF LoadSleepers
    <3> QED
      BY <3>2, <3>3 DEF LoadInv
  <2> HIDE DEF Kept
  <2> QED
    BY <1>1, <1>3, <2>1, <2>2, <2>3, <2>4, <2>5 DEF Program
<1>s. ASSUME NEW c \in Cpu, StopDone(c), pc[c] \in StopPc \/ (pc[c] = "move" /\ curr[c] = Stopper)
      PROVE  Alive
  <2>2. stopq[c] \in Seq(Work) /\ stopq[c] # <<>>
    BY <1>s DEF IndInv, LocalsInv, TypeOK, ProgType, Work
  <2>3. 1 \in DOMAIN stopq[c] /\ Head(stopq[c]) = stopq[c][1]
    BY <2>2, HeadWork
  <2>4. stopq[c][1].caller \in Task /\ tpc[stopq[c][1].caller] \notin {"free", "new"}
    BY <2>3, StopCaller
  <2>1. PICK u \in Task : tpc[u] \notin {"free", "new"} /\ tpc' = [tpc EXCEPT ![u] = "work"]
    BY <1>s, <2>3, <2>4 DEF StopDone
  <2> QED
    BY <1>t, <2>1
<1>4. ASSUME NEW c \in Cpu, Kernel(c) PROVE LoadInv'
  <2>1. IowaitInc(c) \/ NoSwitch(c) \/ FinishTaskSwitch(c) \/ Reap(c) => Kept
    BY DEF IowaitInc, NoSwitch, FinishTaskSwitch, Reap
  <2>2. TtwuLock(c) \/ TtwuOnRq(c) \/ TtwuRemote(c) \/ TtwuWaking(c) => Kept
    BY DEF TtwuLock, TtwuOnRq, TtwuRemote, TtwuWaking
  <2>3. TtwuOnCpu(c) \/ TtwuWakelist(c) => Kept
    BY DEF TtwuOnCpu, TtwuWakelist
  <2>4. \A dest : TtwuSelect(c, dest) \/ Switch(c, dest) => Kept
    BY DEF TtwuSelect, Switch
  <2>5. TtwuQueue(c) => LoadInv'
    <3> SUFFICES ASSUME TtwuQueue(c) PROVE LoadInv'
      OBVIOUS
    <3>1. tgt[c] \in Task /\ lrq[c] \in Cpu /\ on_rq[tgt[c]] = 0 /\ state[tgt[c]] = "WAKING"
      BY DEF TtwuQueue, IndInv, LocalsInv, WakerInv
    <3>2. tpc[tgt[c]] \notin {"free", "new"}
      BY <3>1 DEF IndInv, ProgInv
    <3>3. ttwu_do_activate(lrq[c], {tgt[c]}) /\ UNCHANGED <<sched_contributes_to_load, tpc>>
      BY DEF TtwuQueue
    <3> QED
      BY <3>1, <3>2, <3>3, LoadActivate
  <2>6. SchedTtwuPending(c) => LoadInv'
    <3> SUFFICES ASSUME SchedTtwuPending(c) PROVE LoadInv'
      OBVIOUS
    <3>1. /\ pending[c] \in SUBSET Task
          /\ \A u \in pending[c] : on_rq[u] = 0 /\ state[u] = "WAKING"
      BY DEF IndInv, TypeOK, RqType, ListInv
    <3>2. \A u \in pending[c] : tpc[u] \notin {"free", "new"}
      BY <3>1 DEF IndInv, ProgInv
    <3>3. ttwu_do_activate(c, pending[c]) /\ UNCHANGED <<sched_contributes_to_load, tpc>>
      BY DEF SchedTtwuPending
    <3> QED
      BY <3>1, <3>2, <3>3, LoadActivate
  <2>7. MigrationCpuStop(c) => Kept
    <3> SUFFICES ASSUME MigrationCpuStop(c) PROVE Kept
      OBVIOUS
    <3>1. PICK p \in Task, dest \in Cpu : p = Head(stopq[c]).task /\ dest = Head(stopq[c]).dest
      BY StopWork DEF MigrationCpuStop, StopFacts, Work
    <3>2. pc[c] = "stop_lock" /\ (StopMove(c, p, dest) \/ StopNothing(c, p, dest)) /\ Load
      BY <3>1 DEF MigrationCpuStop
    <3>3. CASE StopMove(c, p, dest)
      BY <1>t, <3>2, <3>3 DEF StopMove, move_queued_task, task_on_rq_queued
    <3>4. CASE StopNothing(c, p, dest)
      BY <1>s, <3>2, <3>4 DEF StopNothing
    <3> QED
      BY <3>2, <3>3, <3>4
  <2>8. MoveEnqueue(c) => Kept
    <3> SUFFICES ASSUME MoveEnqueue(c) PROVE Kept
      OBVIOUS
    <3>1. tgt[c] \in Task /\ on_rq[tgt[c]] = 2
      BY DEF MoveEnqueue, IndInv, LocalsInv, QueueInv, task_on_rq_migrating
    <3>2. Queues /\ Load
      BY <1>t, <3>1 DEF MoveEnqueue
    <3>3. Alive
      BY <1>s DEF MoveEnqueue
    <3> QED
      BY <3>2, <3>3
  <2>9. AttachTask(c) => Kept
    <3> SUFFICES ASSUME AttachTask(c) PROVE Kept
      OBVIOUS
    <3>1. tgt[c] \in Task /\ on_rq[tgt[c]] = 2
      BY DEF AttachTask, IndInv, LocalsInv, QueueInv, task_on_rq_migrating
    <3> QED
      BY <1>t, <3>1 DEF AttachTask
  <2> HIDE DEF Kept
  <2> QED
    BY <1>1, <1>4, <2>1, <2>2, <2>3, <2>4, <2>5, <2>6, <2>7, <2>8, <2>9 DEF Kernel
<1>5. ASSUME NEW c \in Cpu, Interrupt(c) \/ Reschedule(c) PROVE LoadInv'
  <2>1. \A p, kind : WakeCurrent(c, p, kind) \/ Wake(c, p, kind) => Kept
    BY DEF WakeCurrent, Wake
  <2>2. \A p \in Task : DetachTask(c, p) => Kept
    BY <1>t DEF DetachTask, task_on_rq_queued
  <2>3. \A p : Preempt(c, p) => Kept
    BY DEF Preempt
  <2>4. TtwuIpi(c) \/ PseudoSchedule(c) \/ StopFlush(c) => Kept
    BY DEF TtwuIpi, PseudoSchedule, StopFlush
  <2> HIDE DEF Kept
  <2> QED
    BY <1>1, <1>5, <2>1, <2>2, <2>3, <2>4, LoadSchedule DEF Interrupt, Reschedule
<1> HIDE DEF Kept
<1> QED
  BY <1>2, <1>3, <1>4, <1>5 DEF Next

\* The sum of nr_uninterruptible over the runqueues is the number of uninterruptible
\* sleepers, although a task may block on one CPU and be woken on another.
THEOREM LoadCounts == Spec => []LoadExact
<1>1. Init => LoadInv
  <2> SUFFICES ASSUME Init PROVE LoadInv
    OBVIOUS
  <2>1. LoadSleepers = {}
    BY DEF Init, LoadSleepers
  <2>2. nr_uninterruptible = [c \in Cpu |-> 0]
    BY DEF Init
  <2>3. Total(Cpu, nr_uninterruptible) = 0
    BY <2>2, TotalZero, CpuAssumption
  <2>4. Cardinality({}) = 0
    BY FS_EmptySet
  <2> QED
    BY <2>1, <2>3, <2>4 DEF LoadInv
<1>2. IndInv /\ LoadInv /\ [Next]_vars => LoadInv'
  BY LoadStep
<1>3. LoadInv => LoadExact
  <2>1. MapThenSumSet(LAMBDA c : nr_uninterruptible[c], Cpu) = Total(Cpu, nr_uninterruptible)
    BY SumIsTotal
  <2> QED
    BY <2>1, Zenon DEF LoadInv, LoadExact
<1> QED
  BY <1>1, <1>2, <1>3, Invariance, PTL DEF Spec

=============================================================================
