--------------------------- MODULE HotplugProofs ---------------------------
(***************************************************************************)
(* Proofs about Bandwidth and about Hotplug, which composes it and         *)
(* TickRemote with the callbacks of CPU hotplug: for every tree of groups, *)
(* every order in which it is walked, every set of writers and CPUs, and   *)
(* every choice of housekeeping CPUs.                                      *)
(***************************************************************************)
EXTENDS Hotplug, FiniteSetTheorems, TLAPS

-----------------------------------------------------------------------------
(***************************************************************************)
(* Bandwidth.                                                              *)
(***************************************************************************)

\* A writer inside has the mutex alone, and what it is about to do agrees with what it
\* has read.  That no CPU comes or goes meanwhile is the guard of plugging.
HolderInv ==
    /\ \A v, w \in Writer : pc[v] \in InMutex /\ pc[w] \in InMutex => v = w
    /\ \A w \in Writer : pc[w] # "idle" => arg[w].group # Root
    /\ \A w \in Writer : pc[w] = "store" => arg[w].was = Limited(bandwidth[arg[w].group])
    /\ \A w \in Writer : pc[w] = "loop" => bandwidth[arg[w].group] = arg[w].value
    /\ \A w \in Writer : pc[w] = "loop" => todo \subseteq online
    /\ ~Limited(bandwidth[Root])

\* The values of all groups if the request of w is accepted.
Wanted(w) == [bandwidth EXCEPT ![arg[w].group] = arg[w].value]

\* The hierarchical quota of g bounds the share of g and of every group above it, and
\* the share of g exceeds none of these.
Bounded(bw, hq, g) ==
    /\ \A h \in Above[g] \cup {g} : Limited(bw[h]) =>
          hq[g] # RUNTIME_INF /\ hq[g] <= Q!Share(bw[h])
    /\ \A h \in Above[g] : Limited(bw[g]) /\ Limited(bw[h]) =>
          Q!Share(bw[g]) <= Q!Share(bw[h])

Checked(bw, hq, n) == \A i \in 1..n : Bounded(bw, hq, Walk[i])

\* On the legacy hierarchy the walk has checked what it has visited.  Values that an
\* earlier walk left behind do not matter: a group is visited after its parent.
WalkInv ==
    \A w \in Writer : ~dfl =>
        /\ pc[w] = "walk" => Checked(Wanted(w), hierarchical_quota, at - 1)
        /\ pc[w] \in {"enable", "store"} => Checked(Wanted(w), hierarchical_quota, NGroups)

IndInv == TypeOK /\ HolderInv /\ WalkInv /\ RuntimeFollows

-----------------------------------------------------------------------------
(* Shares and the tree. *)

\* There is a group, the root.
LEMMA SomeGroup == NGroups \in Nat \ {0}
<1>1. NGroups \in Nat BY FS_CardinalityType, WalkAssumption DEF NGroups
<1>2. NGroups # 0 BY FS_EmptySet, WalkAssumption, TreeAssumption DEF NGroups
<1> QED BY <1>1, <1>2

\* The remainder of a number that fits is the number (the shift in to_ratio()).
LEMMA FitsMod ==
    ASSUME NEW a \in Nat, NEW m \in Nat, a < m
    PROVE  a % m = a
BY Z3

\* A quotient of natural numbers is a natural number.
LEMMA QuotientNat ==
    ASSUME NEW a \in Nat, NEW b \in Nat, b > 0
    PROVE  a \div b \in Nat
BY Z3

\* A divisor goes into a number that is not smaller at least once.
LEMMA QuotientPos ==
    ASSUME NEW a \in Nat, NEW b \in Nat, b > 0, b <= a
    PROVE  a \div b > 0
BY Z3

\* For a value that tg_set_cfs_bandwidth() accepts, to_ratio() neither wraps nor
\* turns negative as an s64: what the walk compares is the share.
LEMMA RatioIsShare ==
    ASSUME NEW b \in Value, Limited(b)
    PROVE  /\ s64(to_ratio(b.period \div NSEC_PER_USEC, b.quota \div NSEC_PER_USEC)) = Q!Share(b)
           /\ Q!Share(b) \in Nat
<1> DEFINE q == b.quota \div NSEC_PER_USEC
           p == b.period \div NSEC_PER_USEC
<1>1. b.quota \in min_cfs_quota_period .. max_cfs_runtime /\ b.period \in min_cfs_quota_period .. max_cfs_quota_period
  BY DEF Value, Limited
<1>2. b.quota \in Nat /\ b.period \in Nat /\ b.quota <= max_cfs_runtime
  BY <1>1, UnitAssumption
<1>3. q \in Nat /\ p \in Nat
  BY <1>2, UnitAssumption, QuotientNat
<1>4. p > 0
  BY <1>1, <1>2, UnitAssumption, QuotientPos
<1>5. q * BW_UNIT \in Nat /\ q * BW_UNIT < WORD
  <2>1. q * BW_UNIT < WORD BY <1>2, UnitAssumption
  <2> HIDE DEF q
  <2>2. q * BW_UNIT \in Nat BY <1>3, UnitAssumption
  <2> QED BY <2>1, <2>2
<1>6. (q * BW_UNIT) % WORD = q * BW_UNIT
  BY <1>5, FitsMod, UnitAssumption
<1>7. to_ratio(p, q) = Q!Share(b)
  <2>1. q # RUNTIME_INF /\ p # 0 BY <1>3, <1>4 DEF RUNTIME_INF, Q!RUNTIME_INF
  <2> QED BY <2>1, <1>6 DEF to_ratio, Q!Share
<1>8. Q!Share(b) \in Nat
  <2> HIDE DEF q, p
  <2>1. (q * BW_UNIT) \div p \in Nat BY <1>5, <1>3, <1>4, QuotientNat
  <2> QED BY <2>1 DEF Q!Share, q, p
<1>9. Q!Share(b) < WORD \div 2
  <2>1. Q!Share([period |-> b.period, quota |-> b.quota]) < WORD \div 2
    BY <1>1, <1>2, UnitAssumption
  <2>2. b = [period |-> b.period, quota |-> b.quota] BY DEF Value
  <2> QED BY <2>1, <2>2
<1> QED BY <1>7, <1>8, <1>9 DEF s64

-----------------------------------------------------------------------------
(* The walk. *)

\* The values wanted are values.
LEMMA WantedType ==
    ASSUME TypeOK, NEW w \in Writer
    PROVE  Wanted(w) \in [Group -> Value]
BY DEF TypeOK, Wanted

\* What normalize_cfs_quota() returns.
LEMMA Normalized ==
    ASSUME TypeOK, NEW w \in Writer, NEW g \in Group
    PROVE  normalize_cfs_quota(w, g) =
             IF Limited(Wanted(w)[g]) THEN Q!Share(Wanted(w)[g]) ELSE RUNTIME_INF
<1>1. Candidate(w, g) = Wanted(w)[g]
  BY DEF TypeOK, Candidate, Wanted
<1>2. Wanted(w)[g] \in Value
  BY WantedType
<1> QED BY <1>1, <1>2, RatioIsShare DEF normalize_cfs_quota

\* A group is entered for the first time, and after its parent (walk_tg_tree_from()).
LEMMA ParentFirst ==
    ASSUME NEW i \in 1..NGroups
    PROVE  /\ Walk[i] \in Group
           /\ \A j \in 1 .. i-1 : Walk[j] # Walk[i] /\ Walk[j] \in Group
           /\ Walk[i] # Root => /\ parent[Walk[i]] \in Group
                                /\ \E j \in 1 .. i-1 : Walk[j] = parent[Walk[i]]
                                /\ Above[Walk[i]] = Above[parent[Walk[i]]] \cup {parent[Walk[i]]}
<1>1. NGroups \in Nat BY SomeGroup
<1>2. Walk[i] \in Group /\ \A j \in 1 .. i-1 : j \in 1..NGroups /\ j # i
  BY <1>1, WalkAssumption
<1>3. \A j \in 1 .. i-1 : Walk[j] # Walk[i] /\ Walk[j] \in Group
  BY <1>1, <1>2, WalkAssumption
<1>4. ASSUME Walk[i] # Root PROVE i \in 2..NGroups
  BY <1>1, <1>4, WalkAssumption
<1> QED BY <1>2, <1>3, <1>4, WalkAssumption, TreeAssumption

\* tg_cfs_schedulable_down() extends the part of the tree that is checked by one group.
LEMMA VisitChecks ==
    ASSUME IndInv, NEW w \in Writer, VisitOk(w), ~dfl
    PROVE  Checked(Wanted(w), hierarchical_quota', at)
<1> DEFINE g == Walk[at]
           bw == Wanted(w)
           hq == hierarchical_quota
<1>1. at \in 1..NGroups /\ hq \in [Group -> Int] BY DEF IndInv, TypeOK
<1>2. bw \in [Group -> Value] BY WantedType DEF IndInv
<1>3. Checked(bw, hq, at - 1) BY DEF IndInv, WalkInv, VisitOk
<1>4. \A h \in Group : Limited(bw[h]) => Q!Share(bw[h]) \in Nat
  BY <1>2, RatioIsShare
<1>5. g \in Group /\ \A j \in 1 .. at-1 : Walk[j] # g /\ Walk[j] \in Group
  BY <1>1, ParentFirst
<1>6. \A j \in 1 .. at-1 : hq'[Walk[j]] = hq[Walk[j]]
  BY <1>1, <1>5 DEF VisitOk
<1>7. \A j \in 1 .. at-1 : Bounded(bw, hq', Walk[j])
  BY <1>3, <1>6 DEF Checked, Bounded
<1>8. Bounded(bw, hq', g)
  <2>1. CASE g = Root
    <3>1. ~Limited(bw[Root])
      BY <2>1, <1>1 DEF IndInv, HolderInv, TypeOK, Wanted, VisitOk
    <3> QED BY <2>1, <3>1, TreeAssumption DEF Bounded
  <2>2. CASE g # Root
    <3> DEFINE p == parent[g]
               q == normalize_cfs_quota(w, g)
    <3>1. p \in Group /\ Above[g] = Above[p] \cup {p} /\ \E j \in 1 .. at-1 : Walk[j] = p
      BY <2>2, <1>1, ParentFirst
    <3>2. Bounded(bw, hq, p) BY <3>1, <1>3 DEF Checked
    <3>3. q = IF Limited(bw[g]) THEN Q!Share(bw[g]) ELSE RUNTIME_INF
      BY <1>5, Normalized DEF IndInv
    <3>4. ~TooMuch(q, hq[p]) /\ hq'[g] = IF q = RUNTIME_INF THEN hq[p] ELSE q
      BY <2>2, <1>1, <1>5 DEF VisitOk, Inherited, ParentQuota
    <3>5. Above[g] \in SUBSET Group BY <1>5, TreeAssumption
    <3>6. hq[p] \in Int BY <3>1, <1>1
    <3>7. \A h \in Above[g] : Limited(bw[h]) => hq[p] # RUNTIME_INF /\ hq[p] <= Q!Share(bw[h])
      BY <3>1, <3>2 DEF Bounded
    <3> HIDE DEF p, q, g, bw, hq
    <3>8. CASE ~Limited(bw[g])
      BY <3>8, <3>3, <3>4, <3>7 DEF Bounded
    <3>9. CASE Limited(bw[g])
      <4>1. q = Q!Share(bw[g]) /\ q \in Nat /\ q # RUNTIME_INF
        BY <3>9, <3>3, <1>4, <1>5 DEF RUNTIME_INF, Q!RUNTIME_INF, g
      <4>2. hq'[g] = q BY <4>1, <3>4
      <4>3. hq[p] = RUNTIME_INF \/ q <= hq[p]
        BY <4>1, <3>4, <3>6 DEF TooMuch
      <4>4. \A h \in Above[g] : Limited(bw[h]) => q <= Q!Share(bw[h])
        BY <4>1, <4>3, <3>7, <3>5, <3>6, <1>4 DEF g
      <4> QED BY <4>1, <4>2, <4>4 DEF Bounded
    <3> QED BY <3>8, <3>9
  <2> QED BY <2>1, <2>2
<1> QED BY <1>1, <1>7, <1>8, SomeGroup DEF Checked

-----------------------------------------------------------------------------
(* The invariant. *)

\* The runqueues are as they were, and no loop has lost sight of one.
LEMMA RuntimeStable ==
    ASSUME RuntimeFollows, UNCHANGED <<bandwidth, runtime_enabled, throttled, online>>,
           \A g \in Group, c \in CPU : Reaching(g, c) => Reaching(g, c)'
    PROVE  RuntimeFollows'
BY DEF RuntimeFollows

\* A value that passes the checks of tg_set_cfs_bandwidth() is of the right type.
LEMMA ValidValue ==
    ASSUME NEW g, NEW p \in Int, NEW q \in Int, Valid(g, [period |-> p, quota |-> q])
    PROVE  [period |-> p, quota |-> q] \in Value
BY UnitAssumption DEF Valid, Value, Limited

\* The files start a call with an argument that has passed the checks.
LEMMA WriteArg ==
    ASSUME IndInv, NEW w \in Writer, NEW g \in Group, Write(w, g)
    PROVE  /\ pc[w] = "idle" /\ g # Root
           /\ \E b \in Value : tg_set_cfs_bandwidth(w, g, b)
<1> USE DEF RUNTIME_INF, Q!RUNTIME_INF
<1>1. bandwidth[g].period \in Int /\ bandwidth[g].quota \in Int /\ bandwidth[g].period \in Nat
  <2>1. bandwidth[g] \in Value BY DEF IndInv, TypeOK
  <2> QED BY <2>1, UnitAssumption DEF Value
<1>2. ASSUME NEW q \in QuotaUs, tg_set_cfs_quota(w, g, q)
      PROVE  pc[w] = "idle" /\ \E b \in Value : tg_set_cfs_bandwidth(w, g, b)
  <2> DEFINE x == IF q < 0 THEN RUNTIME_INF ELSE q * NSEC_PER_USEC
  <2>1. x \in Int BY FileAssumption, UnitAssumption
  <2>2. tg_set_cfs_bandwidth(w, g, [period |-> bandwidth[g].period, quota |-> x])
    BY <1>2 DEF tg_set_cfs_quota
  <2> HIDE DEF x
  <2>3. [period |-> bandwidth[g].period, quota |-> x] \in Value
    BY <2>1, <2>2, <1>1, ValidValue DEF tg_set_cfs_bandwidth
  <2> QED BY <2>2, <2>3, <1>2 DEF tg_set_cfs_quota
<1>3. ASSUME NEW p \in PeriodUs, tg_set_cfs_period(w, g, p)
      PROVE  pc[w] = "idle" /\ \E b \in Value : tg_set_cfs_bandwidth(w, g, b)
  <2> DEFINE x == p * NSEC_PER_USEC
  <2>1. x \in Int BY FileAssumption, UnitAssumption
  <2>2. tg_set_cfs_bandwidth(w, g, [period |-> x, quota |-> bandwidth[g].quota])
    BY <1>3 DEF tg_set_cfs_period
  <2> HIDE DEF x
  <2>3. [period |-> x, quota |-> bandwidth[g].quota] \in Value
    BY <2>1, <2>2, <1>1, ValidValue DEF tg_set_cfs_bandwidth
  <2> QED BY <2>2, <2>3, <1>3 DEF tg_set_cfs_period
<1>4. ASSUME NEW q \in QuotaUs, NEW p \in PeriodUs \cup {tg_get_cfs_period(g)},
             cpu_max_write(w, g, q, p)
      PROVE  pc[w] = "idle" /\ \E b \in Value : tg_set_cfs_bandwidth(w, g, b)
  <2> DEFINE x == (p * NSEC_PER_USEC) % WORD
             y == IF q < 0 THEN RUNTIME_INF ELSE (q * NSEC_PER_USEC) % WORD
  <2>1. p \in Nat
    BY <1>1, FileAssumption, UnitAssumption, QuotientNat DEF tg_get_cfs_period
  <2>2. \A n \in Int : n * NSEC_PER_USEC \in Int BY UnitAssumption
  <2>3. \A n \in Int : n % WORD \in Int BY UnitAssumption
  <2>4. x \in Int BY <2>1, <2>2, <2>3
  <2>5. y \in Int BY <2>2, <2>3, FileAssumption
  <2>6. tg_set_cfs_bandwidth(w, g, [period |-> x, quota |-> y])
    BY <1>4 DEF cpu_max_write
  <2> HIDE DEF x, y
  <2>7. [period |-> x, quota |-> y] \in Value
    BY <2>4, <2>5, <2>6, ValidValue DEF tg_set_cfs_bandwidth
  <2> QED BY <2>6, <2>7, <1>4 DEF cpu_max_write
<1>5. g # Root
  BY DEF Write, tg_set_cfs_quota, tg_set_cfs_period, cpu_max_write, tg_set_cfs_bandwidth, Valid
<1> QED BY <1>2, <1>3, <1>4, <1>5 DEF Write

\* A new call keeps the invariant (cpu_cfs_quota_write_s64(), cpu_cfs_period_write_u64(),
\* cpu_max_write()).
LEMMA WriteKeeps ==
    ASSUME IndInv, NEW w \in Writer, NEW g \in Group, Write(w, g)
    PROVE  IndInv'
<1>1. PICK b \in Value : tg_set_cfs_bandwidth(w, g, b) BY WriteArg
<1>2. pc[w] = "idle" /\ g # Root BY WriteArg
<1> USE <1>1, <1>2 DEF IndInv, tg_set_cfs_bandwidth, Goto
<1>3. TypeOK' BY DEF TypeOK, Place, InMutex
<1>4. HolderInv' BY <1>3 DEF HolderInv, TypeOK, InMutex
<1>5. WalkInv'
  <2>1. \A v \in Writer : v # w => Wanted(v)' = Wanted(v)
    BY DEF TypeOK, Wanted
  <2> QED BY <2>1 DEF WalkInv, TypeOK
<1>6. RuntimeFollows' BY DEF RuntimeFollows, Reaching, TypeOK
<1> QED BY <1>3, <1>4, <1>5, <1>6

\* The hotplug lock changes nothing for a writer that still waits for the mutex.
LEMMA OnlineKeeps ==
    ASSUME IndInv, NEW w \in Writer, get_online_cpus(w)
    PROVE  IndInv'
<1> USE DEF IndInv, get_online_cpus, Goto
<1>1. TypeOK' BY DEF TypeOK, Place, InMutex
<1>2. \A v \in Writer : pc'[v] = pc[v] \/ (pc[v] = "lock" /\ pc'[v] = "mutex")
  BY DEF TypeOK
<1>3. HolderInv' BY <1>2 DEF HolderInv, InMutex
<1>4. WalkInv'
  <2>1. \A v \in Writer : Wanted(v)' = Wanted(v) BY DEF Wanted
  <2> QED BY <1>2, <2>1 DEF WalkInv
<1>5. RuntimeFollows'
  <2>1. \A g \in Group, c \in CPU : Reaching(g, c) => Reaching(g, c)' BY <1>2 DEF Reaching
  <2> QED BY <2>1, RuntimeStable
<1> QED BY <1>1, <1>3, <1>4, <1>5

\* Taking the mutex starts the walk with nothing checked.
LEMMA MutexKeeps ==
    ASSUME IndInv, NEW w \in Writer, mutex_lock(w)
    PROVE  IndInv'
<1> USE DEF IndInv, mutex_lock, Goto
<1>1. TypeOK' BY SomeGroup DEF TypeOK, Place, InMutex
<1>2. HolderInv' BY DEF HolderInv, TypeOK, InMutex, MutexFree
<1>3. WalkInv'
  <2>1. \A v \in Writer : pc'[v] \in InMutex => v = w
    BY DEF MutexFree, TypeOK
  <2>2. \A bw, hq : Checked(bw, hq, 0) BY DEF Checked
  <2> QED BY <2>1, <2>2 DEF WalkInv, InMutex, TypeOK
<1>4. RuntimeFollows' BY DEF RuntimeFollows, Reaching, TypeOK
<1> QED BY <1>1, <1>2, <1>3, <1>4

\* One group of the walk (tg_cfs_schedulable_down()).
LEMMA VisitKeeps ==
    ASSUME IndInv, NEW w \in Writer, VisitOk(w)
    PROVE  IndInv'
<1>0. at \in 1..NGroups /\ NGroups \in Nat \ {0} /\ Walk[at] \in Group
  BY SomeGroup, WalkAssumption DEF IndInv, TypeOK
<1>1. TypeOK'
  <2>1. hierarchical_quota' \in [Group -> Int]
    <3> DEFINE q == normalize_cfs_quota(w, Walk[at])
    <3>1. q \in Int
      <4>1. Wanted(w)[Walk[at]] \in Value BY <1>0, WantedType DEF IndInv
      <4> QED BY <4>1, <1>0, Normalized, RatioIsShare DEF IndInv, RUNTIME_INF, Q!RUNTIME_INF
    <3>2. Walk[at] # Root => ParentQuota(Walk[at]) \in Int
      BY <1>0, TreeAssumption DEF ParentQuota, IndInv, TypeOK
    <3> HIDE DEF q
    <3>3. Walk[at] # Root => Inherited(q, ParentQuota(Walk[at])) \in Int
      BY <3>1, <3>2 DEF Inherited
    <3> DEFINE x == IF Walk[at] = Root THEN RUNTIME_INF ELSE Inherited(q, ParentQuota(Walk[at]))
    <3>4. x \in Int
      BY <3>3 DEF RUNTIME_INF, Q!RUNTIME_INF
    <3>6. hierarchical_quota' = [hierarchical_quota EXCEPT ![Walk[at]] = x]
      BY Zenon DEF VisitOk, q
    <3> HIDE DEF x
    <3>5. hierarchical_quota \in [Group -> Int]
      BY DEF IndInv, TypeOK
    <3> QED BY ONLY <3>4, <3>5, <3>6, <1>0
  <2>2. at' \in 1..NGroups BY <1>0 DEF VisitOk
  <2>3. pc' \in [Writer -> Place] BY DEF IndInv, TypeOK, VisitOk, Goto, Place, InMutex
  <2> QED BY <2>1, <2>2, <2>3 DEF IndInv, TypeOK, VisitOk
<1>2. HolderInv' BY DEF IndInv, HolderInv, TypeOK, InMutex, VisitOk, Goto
<1>3. WalkInv'
  <2> SUFFICES ASSUME ~dfl, NEW v \in Writer
               PROVE  /\ pc'[v] = "walk" => Checked(Wanted(v)', hierarchical_quota', at' - 1)
                      /\ pc'[v] \in {"enable", "store"} =>
                            Checked(Wanted(v)', hierarchical_quota', NGroups)
    BY DEF WalkInv, VisitOk
  <2>1. CASE v # w
    BY <2>1 DEF IndInv, HolderInv, TypeOK, InMutex, VisitOk, Goto
  <2>2. CASE v = w
    <3>1. Checked(Wanted(w)', hierarchical_quota', at)
      <4>1. Wanted(w)' = Wanted(w) BY DEF Wanted, VisitOk
      <4> QED BY <4>1, VisitChecks
    <3>2. CASE at = NGroups
      BY <2>2, <3>1, <3>2 DEF VisitOk, Goto, IndInv, TypeOK
    <3>3. CASE at # NGroups
      <4>1. at' - 1 = at /\ pc' = pc /\ pc[w] = "walk" BY <3>3, <1>0 DEF VisitOk
      <4> QED BY <2>2, <3>1, <4>1
    <3> QED BY <3>2, <3>3
  <2> QED BY <2>1, <2>2
<1>4. RuntimeFollows'
  <2>1. \A v \in Writer : pc[v] = "loop" => pc'[v] = "loop"
    BY DEF IndInv, TypeOK, VisitOk, Goto
  <2>2. \A g \in Group, c \in CPU : Reaching(g, c) => Reaching(g, c)'
    BY <2>1 DEF Reaching, VisitOk
  <2> QED BY <2>2, RuntimeStable DEF IndInv, VisitOk
<1> QED BY <1>1, <1>2, <1>3, <1>4 DEF IndInv

\* The end of a walk that has failed.
LEMMA FailKeeps ==
    ASSUME IndInv, NEW w \in Writer, VisitFails(w)
    PROVE  IndInv'
<1> USE DEF IndInv, VisitFails, out_unlock, Goto
<1>1. TypeOK'
  <2>1. NoArg \in [group : Group, value : Value, was : BOOLEAN]
    BY TreeAssumption, UnitAssumption DEF NoArg, Unlimited, Value
  <2> QED BY <2>1, SomeGroup DEF TypeOK, Place, InMutex
<1>2. \A v \in Writer : v # w => pc[v] \notin InMutex /\ pc'[v] = pc[v] /\ arg'[v] = arg[v]
  BY DEF HolderInv, TypeOK, InMutex
<1>3. pc'[w] = "idle" BY DEF TypeOK
<1>4. HolderInv' BY <1>2, <1>3 DEF HolderInv, InMutex
<1>5. WalkInv' BY <1>2, <1>3 DEF WalkInv, InMutex
<1>6. RuntimeFollows'
  <2>1. \A g \in Group, c \in CPU : ~Reaching(g, c)
    BY <1>2 DEF Reaching, InMutex
  <2> QED BY <2>1, RuntimeStable
<1> QED BY <1>1, <1>4, <1>5, <1>6

\* cfs_bandwidth_usage_inc().
LEMMA EnableKeeps ==
    ASSUME IndInv, NEW w \in Writer, Enable(w)
    PROVE  IndInv'
<1> USE DEF IndInv, Enable, Goto
<1>1. TypeOK'
  <2>1. Limited(bandwidth[arg[w].group]) \in BOOLEAN BY DEF Limited
  <2>2. arg' \in [Writer -> [group : Group, value : Value, was : BOOLEAN]]
    BY <2>1 DEF TypeOK
  <2>3. used' \in Int BY DEF TypeOK, IncFor
  <2> QED BY <2>2, <2>3 DEF TypeOK, Place, InMutex
<1>2. \A v \in Writer : v # w => pc[v] \notin InMutex /\ pc'[v] = pc[v] /\ arg'[v] = arg[v]
  BY DEF HolderInv, TypeOK, InMutex
<1>3. /\ pc'[w] = "store" /\ arg'[w].group = arg[w].group /\ arg'[w].value = arg[w].value
      /\ arg'[w].was = Limited(bandwidth[arg[w].group])
  BY DEF TypeOK
<1>4. HolderInv' BY <1>2, <1>3 DEF HolderInv, InMutex
<1>5. WalkInv'
  <2>1. Wanted(w)' = Wanted(w) BY <1>3 DEF Wanted
  <2> QED BY <1>2, <1>3, <2>1 DEF WalkInv, InMutex
<1>6. RuntimeFollows'
  <2>1. \A g \in Group, c \in CPU : ~Reaching(g, c)
    BY <1>2 DEF Reaching, InMutex
  <2> QED BY <2>1, RuntimeStable
<1> QED BY <1>1, <1>4, <1>5, <1>6

\* The new value is stored; all runqueues that are online are still to be told.
LEMMA StoreKeeps ==
    ASSUME IndInv, NEW w \in Writer, Store(w)
    PROVE  IndInv'
<1> USE DEF IndInv, Store, Goto
<1>1. TypeOK' BY DEF TypeOK, Place, InMutex
<1>2. \A v \in Writer : v # w => pc[v] \notin InMutex /\ pc'[v] = pc[v]
  BY DEF HolderInv, TypeOK, InMutex
<1>3. pc'[w] = "loop" /\ pc[w] = "store" /\ arg[w].group \in Group /\ arg[w].group # Root
  BY DEF TypeOK, HolderInv
<1>4. bandwidth'[arg[w].group] = arg[w].value /\ bandwidth'[Root] = bandwidth[Root]
  BY <1>3, TreeAssumption DEF TypeOK
<1>5. HolderInv' BY <1>2, <1>3, <1>4 DEF HolderInv, InMutex
<1>6. WalkInv' BY <1>2, <1>3 DEF WalkInv, InMutex
<1>7. RuntimeFollows'
  <2> SUFFICES ASSUME NEW g \in Group, NEW c \in CPU
               PROVE  /\ Reaching(g, c)' \/ (runtime_enabled[g][c] <=> c \in online /\ Limited(bandwidth'[g]))
                      /\ <<g, c>> \in throttled => runtime_enabled[g][c]
    BY DEF RuntimeFollows
  <2>1. ~Reaching(g, c) BY <1>2, <1>3 DEF Reaching, InMutex
  <2>2. /\ (runtime_enabled[g][c] <=> c \in online /\ Limited(bandwidth[g]))
        /\ <<g, c>> \in throttled => runtime_enabled[g][c]
    BY <2>1 DEF RuntimeFollows
  <2>3. CASE g # arg[w].group
    <3>1. bandwidth'[g] = bandwidth[g] BY <2>3 DEF TypeOK
    <3> QED BY <2>2, <3>1
  <2>4. CASE g = arg[w].group /\ c \in online
    <3>1. Reaching(g, c)' BY <2>4, <1>3 DEF Reaching
    <3> QED BY <3>1, <2>2
  <2>5. CASE c \notin online
    BY <2>5, <2>2
  <2> QED BY <2>3, <2>4, <2>5
<1> QED BY <1>1, <1>5, <1>6, <1>7

\* One runqueue is told.
LEMMA LoopKeeps ==
    ASSUME IndInv, NEW w \in Writer, NEW k \in CPU, LoopCpu(w, k)
    PROVE  IndInv'
<1> USE DEF IndInv
<1>0. /\ pc[w] = "loop" /\ k \in todo
      /\ runtime_enabled' = [runtime_enabled EXCEPT ![arg[w].group][k] = Limited(arg[w].value)]
      /\ throttled' = throttled \ {<<arg[w].group, k>>}
      /\ todo' = todo \ {k}
      /\ UNCHANGED <<bandwidth, dfl, hierarchical_quota, used, online, cpuhp, pc, arg, at>>
  BY DEF LoopCpu
<1> USE <1>0
<1>1. TypeOK' BY DEF TypeOK, Limited
<1>2. HolderInv' BY DEF HolderInv
<1>3. WalkInv'
  <2>1. \A v \in Writer : pc[v] \notin {"walk", "enable", "store"}
    BY DEF HolderInv, InMutex
  <2> QED BY <2>1 DEF WalkInv
<1>4. RuntimeFollows'
  <2> SUFFICES ASSUME NEW g \in Group, NEW c \in CPU
               PROVE  /\ Reaching(g, c)' \/ (runtime_enabled'[g][c] <=> c \in online /\ Limited(bandwidth[g]))
                      /\ <<g, c>> \in throttled' => runtime_enabled'[g][c]
    BY DEF RuntimeFollows
  <2>0. /\ Reaching(g, c) \/ (runtime_enabled[g][c] <=> c \in online /\ Limited(bandwidth[g]))
        /\ <<g, c>> \in throttled => runtime_enabled[g][c]
    BY DEF RuntimeFollows
  <2>1. CASE g = arg[w].group /\ c = k
    <3>1. (runtime_enabled'[g][c] <=> Limited(arg[w].value)) /\ <<g, c>> \notin throttled'
      BY <2>1 DEF TypeOK
    <3>2. c \in online /\ bandwidth[g] = arg[w].value
      BY <2>1 DEF HolderInv
    <3> QED BY <3>1, <3>2
  <2>2. CASE ~(g = arg[w].group /\ c = k)
    <3>1. runtime_enabled'[g][c] = runtime_enabled[g][c]
      BY <2>2 DEF TypeOK
    <3>2. Reaching(g, c) => Reaching(g, c)'
      <4>1. \A v \in Writer : pc[v] = "loop" => v = w BY DEF HolderInv, InMutex
      <4> QED BY <2>2, <4>1 DEF Reaching
    <3> QED BY <2>0, <3>1, <3>2
  <2> QED BY <2>1, <2>2
<1> QED BY <1>1, <1>2, <1>3, <1>4

\* The end of a change.
LEMMA FinishKeeps ==
    ASSUME IndInv, NEW w \in Writer, Finish(w)
    PROVE  IndInv'
<1> USE DEF IndInv, Finish, out_unlock, Goto
<1>1. TypeOK'
  <2>1. NoArg \in [group : Group, value : Value, was : BOOLEAN]
    BY TreeAssumption, UnitAssumption DEF NoArg, Unlimited, Value
  <2> QED BY <2>1 DEF TypeOK, Place, InMutex, DecFor
<1>2. \A v \in Writer : v # w => pc[v] \notin InMutex /\ pc'[v] = pc[v] /\ arg'[v] = arg[v]
  BY DEF HolderInv, TypeOK, InMutex
<1>3. pc'[w] = "idle" BY DEF TypeOK
<1>4. HolderInv' BY <1>2, <1>3 DEF HolderInv, InMutex
<1>5. WalkInv' BY <1>2, <1>3 DEF WalkInv, InMutex
<1>6. RuntimeFollows'
  <2>1. \A g \in Group, c \in CPU : ~Reaching(g, c) BY DEF Reaching
  <2> QED BY <2>1, RuntimeStable
<1> QED BY <1>1, <1>4, <1>5, <1>6

\* The fair class throttles only a runqueue that is limited, and may release any.
LEMMA FairKeeps ==
    ASSUME IndInv, NEW g \in Group, NEW c \in CPU, Throttle(g, c) \/ Distribute(g, c)
    PROVE  IndInv'
<1>1. /\ UNCHANGED <<bandwidth, dfl, hierarchical_quota, runtime_enabled, used, online,
                     cpuhp, pc, arg, at, todo>>
      /\ throttled' \subseteq throttled \cup {<<g, c>>}
      /\ <<g, c>> \in throttled' => runtime_enabled[g][c]
  BY DEF Throttle, Distribute, IndInv, RuntimeFollows
<1>2. TypeOK' BY <1>1 DEF IndInv, TypeOK
<1>3. HolderInv' BY <1>1 DEF IndInv, HolderInv
<1>4. WalkInv' BY <1>1 DEF IndInv, WalkInv, Wanted
<1>5. RuntimeFollows' BY <1>1 DEF IndInv, RuntimeFollows, Reaching
<1> QED BY <1>2, <1>3, <1>4, <1>5 DEF IndInv

\* Taking and releasing the hotplug lock.
LEMMA PlugLockKeeps ==
    ASSUME IndInv, NEW c \in CPU, cpus_write_lock(c) \/ cpus_write_unlock(c)
    PROVE  IndInv'
<1>1. /\ UNCHANGED <<bandwidth, dfl, hierarchical_quota, runtime_enabled, throttled,
                     used, online, pc, arg, at, todo>>
      /\ cpuhp' \subseteq CPU
  BY DEF cpus_write_lock, cpus_write_unlock
<1>2. TypeOK' BY <1>1 DEF IndInv, TypeOK
<1>3. HolderInv' BY <1>1 DEF IndInv, HolderInv
<1>4. WalkInv' BY <1>1 DEF IndInv, WalkInv, Wanted
<1>5. RuntimeFollows' BY <1>1 DEF IndInv, RuntimeFollows, Reaching
<1> QED BY <1>2, <1>3, <1>4, <1>5 DEF IndInv

\* A runqueue comes up or goes down while no writer is inside (set_rq_online(),
\* set_rq_offline()).
LEMMA PlugKeeps ==
    ASSUME IndInv, NEW k \in CPU, RqOnline(k) \/ RqOffline(k)
    PROVE  IndInv'
<1>1. /\ UNCHANGED <<bandwidth, dfl, hierarchical_quota, used, cpuhp, pc, arg, at, todo>>
      /\ Locked(k)
      /\ online' \subseteq CPU /\ \A c \in CPU : c # k => (c \in online' <=> c \in online)
  BY DEF RqOnline, RqOffline, IndInv, TypeOK
<1>2. \A w \in Writer : pc[w] \notin InMutex BY <1>1 DEF Locked, Readers
<1>3. /\ runtime_enabled' \in [Group -> [CPU -> BOOLEAN]]
      /\ \A g \in Group, c \in CPU : c # k => runtime_enabled'[g][c] = runtime_enabled[g][c]
      /\ \A g \in Group : runtime_enabled'[g][k] <=> k \in online' /\ Limited(bandwidth[g])
  <2>1. CASE RqOnline(k)
    <3>1. runtime_enabled' = [g \in Group |-> [runtime_enabled[g] EXCEPT ![k] = Limited(bandwidth[g])]]
      BY <2>1 DEF RqOnline
    <3>2. \A g \in Group : Limited(bandwidth[g]) \in BOOLEAN BY DEF Limited
    <3>3. k \in online' BY <2>1 DEF RqOnline
    <3> QED BY <3>1, <3>2, <3>3 DEF IndInv, TypeOK
  <2>2. CASE RqOffline(k)
    BY <2>2 DEF RqOffline, IndInv, TypeOK
  <2> QED BY <2>1, <2>2
<1>4. /\ throttled' \subseteq throttled
      /\ \A g \in Group : <<g, k>> \notin throttled'
  <2>1. \A g \in Group : k \in online \/ <<g, k>> \notin throttled
    BY <1>2 DEF IndInv, RuntimeFollows, Reaching, InMutex
  <2> QED BY <2>1 DEF RqOnline, RqOffline
<1>5. TypeOK' BY <1>1, <1>3, <1>4 DEF IndInv, TypeOK
<1>6. HolderInv' BY <1>1, <1>2 DEF IndInv, HolderInv, InMutex
<1>7. WalkInv' BY <1>1, <1>2 DEF WalkInv, InMutex
<1>8. RuntimeFollows'
  <2> SUFFICES ASSUME NEW g \in Group, NEW c \in CPU
               PROVE  /\ runtime_enabled'[g][c] <=> c \in online' /\ Limited(bandwidth[g])
                      /\ <<g, c>> \in throttled' => runtime_enabled'[g][c]
    BY <1>1 DEF RuntimeFollows
  <2>1. CASE c = k BY <2>1, <1>3, <1>4
  <2>2. CASE c # k
    <3>1. ~Reaching(g, c) BY <1>2 DEF Reaching, InMutex
    <3> QED BY <2>2, <3>1, <1>1, <1>3, <1>4 DEF IndInv, RuntimeFollows
  <2> QED BY <2>1, <2>2
<1> QED BY <1>5, <1>6, <1>7, <1>8 DEF IndInv

\* A state in which nothing changes.
LEMMA StutterKeeps ==
    ASSUME IndInv, UNCHANGED vars
    PROVE  IndInv'
BY DEF IndInv, vars, TypeOK, HolderInv, WalkInv, Wanted, RuntimeFollows, Reaching

\* At the start no group has a limit and nobody is inside.
LEMMA InitHolds == Init => IndInv
<1> SUFFICES ASSUME Init PROVE IndInv OBVIOUS
<1> USE DEF Init
<1>1. Unlimited \in Value BY UnitAssumption DEF Unlimited, Value
<1>2. ~Limited(Unlimited) BY DEF Limited, Unlimited
<1>3. TypeOK
  <2>1. NoArg \in [group : Group, value : Value, was : BOOLEAN]
    BY <1>1, TreeAssumption DEF NoArg
  <2>2. RUNTIME_INF \in Int BY DEF RUNTIME_INF, Q!RUNTIME_INF
  <2> QED BY <1>1, <2>1, <2>2, SomeGroup DEF TypeOK, Place
<1>4. HolderInv BY <1>2, TreeAssumption DEF HolderInv, InMutex
<1>5. WalkInv BY DEF WalkInv
<1>6. RuntimeFollows BY <1>2 DEF RuntimeFollows
<1> QED BY <1>3, <1>4, <1>5, <1>6 DEF IndInv

\* Every step keeps the invariant.
LEMMA StepHolds == IndInv /\ [Next]_vars => IndInv'
<1> SUFFICES ASSUME IndInv, [Next]_vars PROVE IndInv' OBVIOUS
<1>1. ASSUME NEW w \in Writer, WriterStep(w) PROVE IndInv'
  BY <1>1, OnlineKeeps, MutexKeeps, VisitKeeps, FailKeeps, EnableKeeps, StoreKeeps, LoopKeeps,
     FinishKeeps
     DEF WriterStep, Acquire, HolderStep
<1>2. ASSUME NEW x \in Files, Write(x[1], x[2]) PROVE IndInv'
  BY <1>2, WriteKeeps, FileAssumption
<1>3. ASSUME FairStep PROVE IndInv'
  BY <1>3, FairKeeps, FileAssumption DEF FairStep
<1>4. ASSUME PlugStep PROVE IndInv'
  BY <1>4, PlugLockKeeps, PlugKeeps, FileAssumption DEF PlugStep
<1>5. CASE UNCHANGED vars BY <1>5, StutterKeeps
<1> QED BY <1>1, <1>2, <1>3, <1>4, <1>5 DEF Next, WriteStep

\* The inductive invariant holds in every state of Bandwidth.
THEOREM BandwidthInvariance == Spec => []IndInv
BY InitHolds, StepHolds, PTL DEF Spec

\* Runqueues follow their group's quota through every interleaving of writers, CPUs
\* that come and go, and throttling (tg_set_cfs_bandwidth()).
THEOREM RuntimeFollowsQuota == Spec => []RuntimeFollows
<1>1. IndInv => RuntimeFollows BY DEF IndInv
<1> QED BY <1>1, BandwidthInvariance, PTL

-----------------------------------------------------------------------------
(* The count of groups with a limit. *)

UsageInv == IndInv /\ UsageExact

\* The groups in use are finitely many.
LEMMA UsingFinite == IsFiniteSet(Using) /\ Using \subseteq Group
BY FS_Subset, WalkAssumption DEF Using

\* Only the writer inside has a say in what is in use, besides the values themselves.
LEMMA UsingHolder ==
    ASSUME IndInv, NEW w \in Writer, pc[w] \in InMutex, NEW g \in Group
    PROVE  g \in Using <=> \/ Limited(bandwidth[g])
                           \/ /\ arg[w].group = g
                              /\ \/ pc[w] = "store" /\ Limited(arg[w].value)
                                 \/ pc[w] = "loop" /\ arg[w].was
<1>1. \A v \in Writer : pc[v] \in {"store", "loop"} => v = w
  BY DEF IndInv, HolderInv, InMutex
<1> QED BY <1>1 DEF Using

\* A step that takes nobody into or out of the last two stages and changes no value.
LEMMA UsingSame ==
    ASSUME UNCHANGED bandwidth,
           \A v \in Writer : (pc[v] \in {"store", "loop"} \/ pc'[v] \in {"store", "loop"})
                                => pc'[v] = pc[v] /\ arg'[v] = arg[v]
    PROVE  Using' = Using
BY DEF Using

\* cfs_bandwidth_usage_inc() is made for a group that was not in use, before anything
\* shows its limit.
LEMMA EnableUsage ==
    ASSUME UsageInv, NEW w \in Writer, Enable(w)
    PROVE  UsageExact'
<1> DEFINE g == arg[w].group
           now == Limited(arg[w].value)
           was == Limited(bandwidth[g])
<1>1. IndInv /\ IndInv' BY EnableKeeps DEF UsageInv
<1>2. g \in Group /\ pc[w] \in InMutex /\ pc'[w] = "store" /\ pc'[w] \in InMutex
  BY <1>1 DEF IndInv, TypeOK, Enable, Goto, InMutex
<1>3. arg'[w].group = g /\ arg'[w].value = arg[w].value /\ bandwidth' = bandwidth
  BY <1>1 DEF IndInv, TypeOK, Enable
<1>4. \A h \in Group : h \in Using <=> Limited(bandwidth[h])
  BY <1>1, <1>2, UsingHolder DEF Enable
<1>5. \A h \in Group : h \in Using' <=> Limited(bandwidth[h]) \/ (g = h /\ now)
  <2>1. \A v \in Writer : pc'[v] \in {"store", "loop"} => v = w
    BY <1>1, <1>2 DEF IndInv, HolderInv, InMutex
  <2> QED BY <2>1, <1>2, <1>3 DEF Using
<1>6. CASE now /\ ~was
  <2>1. Using' = Using \cup {g} /\ g \notin Using
    BY <1>6, <1>2, <1>4, <1>5 DEF Using
  <2>2. Cardinality(Using') = Cardinality(Using) + 1
    BY <2>1, UsingFinite, FS_AddElement
  <2>3. used' = used + 1 BY <1>6 DEF Enable, IncFor
  <2> QED BY <2>2, <2>3 DEF UsageInv, UsageExact
<1>7. CASE ~(now /\ ~was)
  <2>1. Using' = Using BY <1>7, <1>4, <1>5 DEF Using
  <2>2. used' = used BY <1>7, <1>1 DEF Enable, IncFor, IndInv, TypeOK
  <2> QED BY <2>1, <2>2 DEF UsageInv, UsageExact
<1> QED BY <1>6, <1>7

\* Storing the value changes nothing: the old limit counts until the loop is done.
LEMMA StoreUsage ==
    ASSUME UsageInv, NEW w \in Writer, Store(w)
    PROVE  UsageExact'
<1> DEFINE g == arg[w].group
<1>1. IndInv /\ IndInv' BY StoreKeeps DEF UsageInv
<1>2. g \in Group /\ pc[w] = "store" /\ pc'[w] = "loop" /\ arg' = arg
  BY <1>1 DEF IndInv, TypeOK, Store, Goto
<1>3. bandwidth'[g] = arg[w].value /\ \A h \in Group : h # g => bandwidth'[h] = bandwidth[h]
  BY <1>1, <1>2 DEF IndInv, TypeOK, Store
<1>4. arg[w].was = Limited(bandwidth[g]) /\ arg[w].was \in BOOLEAN
  BY <1>1, <1>2 DEF IndInv, HolderInv, TypeOK
<1>5. \A h \in Group : h \in Using <=> Limited(bandwidth[h]) \/ (g = h /\ Limited(arg[w].value))
  BY <1>1, <1>2, UsingHolder DEF InMutex
<1>6. \A h \in Group : h \in Using' <=> Limited(bandwidth'[h]) \/ (g = h /\ arg[w].was)
  <2>1. \A v \in Writer : pc'[v] \in {"store", "loop"} => v = w
    BY <1>1, <1>2 DEF IndInv, HolderInv, InMutex
  <2> QED BY <2>1, <1>2 DEF Using
<1>7. Using' = Using BY <1>3, <1>4, <1>5, <1>6 DEF Using
<1> QED BY <1>7 DEF UsageInv, UsageExact, Store

\* cfs_bandwidth_usage_dec() is made for a group that no longer is in use.
LEMMA FinishUsage ==
    ASSUME UsageInv, NEW w \in Writer, Finish(w)
    PROVE  UsageExact'
<1> DEFINE g == arg[w].group
           now == Limited(arg[w].value)
<1>1. IndInv /\ IndInv' BY FinishKeeps DEF UsageInv
<1>2. g \in Group /\ pc[w] = "loop" /\ pc'[w] = "idle" /\ bandwidth' = bandwidth
  BY <1>1 DEF IndInv, TypeOK, Finish, out_unlock, Goto
<1>3. bandwidth[g] = arg[w].value /\ arg[w].was \in BOOLEAN
  BY <1>1, <1>2 DEF IndInv, HolderInv, TypeOK
<1>4. \A h \in Group : h \in Using <=> Limited(bandwidth[h]) \/ (g = h /\ arg[w].was)
  BY <1>1, <1>2, UsingHolder DEF InMutex
<1>5. \A h \in Group : h \in Using' <=> Limited(bandwidth[h])
  <2>1. \A v \in Writer : pc'[v] \notin {"store", "loop"}
    BY <1>1, <1>2 DEF IndInv, HolderInv, InMutex, TypeOK, Finish, out_unlock, Goto
  <2> QED BY <2>1, <1>2 DEF Using
<1>6. CASE arg[w].was /\ ~now
  <2>1. Using' = Using \ {g} /\ g \in Using
    BY <1>6, <1>2, <1>3, <1>4, <1>5 DEF Using
  <2>2. Cardinality(Using') = Cardinality(Using) - 1
    BY <2>1, UsingFinite, FS_RemoveElement
  <2>3. used' = used - 1 BY <1>6 DEF Finish, DecFor
  <2> QED BY <2>2, <2>3 DEF UsageInv, UsageExact
<1>7. CASE ~(arg[w].was /\ ~now)
  <2>1. Using' = Using BY <1>7, <1>3, <1>4, <1>5 DEF Using
  <2>2. used' = used BY <1>7, <1>1 DEF Finish, DecFor, IndInv, TypeOK
  <2> QED BY <2>1, <2>2 DEF UsageInv, UsageExact
<1> QED BY <1>6, <1>7

\* All other steps leave the count and the groups in use alone.
LEMMA OtherUsage ==
    ASSUME UsageInv, [Next]_vars,
           \A w \in Writer : ~Enable(w) /\ ~Store(w) /\ ~Finish(w)
    PROVE  UsageExact'
<1> SUFFICES Using' = Using /\ used' = used BY DEF UsageInv, UsageExact
<1> USE DEF UsageInv, IndInv, TypeOK
<1>1. ASSUME NEW w \in Writer, WriterStep(w) PROVE Using' = Using /\ used' = used
  <2>1. CASE Acquire(w) BY <2>1, UsingSame DEF Acquire, get_online_cpus, mutex_lock, Goto
  <2>2. CASE VisitOk(w) BY <2>2, UsingSame DEF VisitOk, Goto
  <2>3. CASE VisitFails(w) BY <2>3, UsingSame DEF VisitFails, out_unlock, Goto
  <2>4. ASSUME NEW c \in CPU, LoopCpu(w, c) PROVE Using' = Using /\ used' = used
    BY <2>4, UsingSame DEF LoopCpu
  <2> QED BY <1>1, <2>1, <2>2, <2>3, <2>4 DEF WriterStep, HolderStep
<1>2. ASSUME NEW x \in Files, Write(x[1], x[2]) PROVE Using' = Using /\ used' = used
  <2>1. x[1] \in Writer /\ x[2] \in Group BY FileAssumption
  <2>2. pc[x[1]] = "idle" /\ \E b \in Value : tg_set_cfs_bandwidth(x[1], x[2], b)
    BY <1>2, <2>1, WriteArg
  <2> QED BY <2>1, <2>2, UsingSame DEF tg_set_cfs_bandwidth, Goto
<1>3. ASSUME FairStep PROVE Using' = Using /\ used' = used
  BY <1>3, UsingSame DEF FairStep, Throttle, Distribute
<1>4. ASSUME PlugStep PROVE Using' = Using /\ used' = used
  BY <1>4, UsingSame
     DEF PlugStep, cpus_write_lock, cpus_write_unlock, RqOnline, RqOffline
<1>5. CASE UNCHANGED vars BY <1>5, UsingSame DEF vars
<1> QED BY <1>1, <1>2, <1>3, <1>4, <1>5 DEF Next, WriteStep

\* The count that switches bandwidth control on is exact from before the first
\* runqueue sees a limit until after the last has forgotten it ("off->on must occur
\* before making related changes, and on->off must occur afterwards").
THEOREM UsageCounted == Spec => []UsageExact
<1>1. Init => UsageExact
  <2> SUFFICES ASSUME Init PROVE UsageExact OBVIOUS
  <2>1. Using = {} BY DEF Init, Using, Unlimited, Limited
  <2> QED BY <2>1, FS_EmptySet DEF UsageExact, Init
<1>2. UsageInv /\ [Next]_vars => UsageExact'
  BY EnableUsage, StoreUsage, FinishUsage, OtherUsage
<1>3. UsageInv /\ [Next]_vars => UsageInv'
  BY <1>2, StepHolds DEF UsageInv
<1>4. Init => UsageInv BY <1>1, InitHolds DEF UsageInv
<1>5. UsageInv => UsageExact BY DEF UsageInv
<1> QED BY <1>3, <1>4, <1>5, PTL DEF Spec

-----------------------------------------------------------------------------
(* Refinement. *)

\* A complete walk has shown the tree of the values wanted to be feasible.
LEMMA CheckedFeasible ==
    ASSUME NEW bw, NEW hq, Checked(bw, hq, NGroups)
    PROVE  Q!Feasible(bw)
<1> SUFFICES ASSUME NEW g \in Group, NEW h \in Above[g], Q!Limited(bw[g]), Q!Limited(bw[h])
             PROVE  Q!Share(bw[g]) <= Q!Share(bw[h])
  BY DEF Q!Feasible
<1>1. PICK i \in 1..NGroups : Walk[i] = g BY WalkAssumption
<1>2. Bounded(bw, hq, g) BY <1>1 DEF Checked
<1> QED BY <1>2 DEF Bounded, Limited, Q!Limited, RUNTIME_INF

\* The step that stores a value is a step of Quota.
LEMMA StoreSets ==
    ASSUME IndInv, NEW w \in Writer, Store(w)
    PROVE  \E g \in Group \ {Root} : Q!Set(g)
<1> DEFINE g == arg[w].group
<1>1. g \in Group \ {Root} /\ arg[w].value \in Value
  BY DEF IndInv, TypeOK, HolderInv, Store
<1>2. bandwidth' = Wanted(w) /\ bandwidth'[g] = arg[w].value
  BY <1>1 DEF Store, Wanted, IndInv, TypeOK
<1>3. bandwidth' = [bandwidth EXCEPT ![g] = bandwidth'[g]]
  BY <1>2 DEF Wanted
<1>4. Q!Acceptable(bandwidth'[g])
  BY <1>1, <1>2 DEF Q!Acceptable, Value, RUNTIME_INF
<1>5. dfl \/ Q!Feasible(bandwidth')
  BY <1>2, CheckedFeasible DEF IndInv, WalkInv, Store
<1>6. dfl' = dfl BY DEF Store
<1> QED BY <1>1, <1>3, <1>4, <1>5, <1>6 DEF Q!Set

\* Every other step leaves the values alone.
LEMMA OthersStutter ==
    ASSUME IndInv, [Next]_vars
    PROVE  UNCHANGED Q!vars \/ \E w \in Writer : Store(w)
BY DEF Next, vars, Q!vars, WriteStep, WriterStep, HolderStep, Acquire, FairStep, PlugStep, Write,
       tg_set_cfs_quota, tg_set_cfs_period, cpu_max_write, tg_set_cfs_bandwidth,
       get_online_cpus, mutex_lock, VisitOk, VisitFails,
       Enable, LoopCpu, Finish, Throttle, Distribute, cpus_write_lock, cpus_write_unlock,
       RqOnline, RqOffline

\* The writers, their locks and the walk implement the atomic, feasible changes of
\* Quota, for every tree of groups and any number of writers ("Ensure
\* max(child_quota) <= parent_quota").
THEOREM ImplementsQuota == Spec => QuotaTree
<1>1. Init => Q!Init BY DEF Init, Q!Init, Unlimited, RUNTIME_INF
<1>2. IndInv /\ [Next]_vars => [Q!Next]_(Q!vars)
  BY StoreSets, OthersStutter DEF Q!Next
<1> QED BY <1>1, <1>2, BandwidthInvariance, PTL DEF Spec, QuotaTree, Q!Spec

-----------------------------------------------------------------------------
(***************************************************************************)
(* Hotplug.                                                                *)
(***************************************************************************)

Phases == {"off", "starting", "on", "dying"}

\* What the callbacks have done to a CPU, by its phase.  One CPU is plugged at a time;
\* any other is either up and active or down.
PhaseInv ==
    \A c \in CPU :
        /\ c \in online <=> phase[c] \in {"on", "dying"}
        /\ c \in active => phase[c] = "on"
        /\ c \notin cpuhp => phase[c] \in {"on", "off"}
        /\ c \notin cpuhp \/ target = "on" => (phase[c] = "on" => c \in active)
        /\ \A d \in cpuhp : c \in cpuhp => c = d

\* The task is on a CPU that is there, and if that is not in its mask, a stopper is to
\* deal with it or has failed to.
PlaceInv ==
    /\ on_rq \subseteq online /\ PlacedWell
    /\ \A c, d \in on_rq : c = d

\* A wakeup that searches: the CPUs that have been active all along are still ahead of it,
\* from the second pass on, and some have been.
SearchInv ==
    search = NoSearch \/
        /\ search \in [pass : {"node", "cpuset", "possible", "fail"},
                       left : SUBSET cpus_mask, steady : SUBSET active]
        /\ on_rq = {}
        /\ CPU \ Pluggable \subseteq search.steady
        /\ search.pass # "node" => cpus_mask \cap search.steady \subseteq search.left
        /\ search.pass = "fail" => cpus_mask = CPU

HpInv ==
    /\ IndInv
    /\ phase \in [CPU -> Phases] /\ active \subseteq CPU /\ target \in {"on", "off"}
    /\ on_rq \subseteq CPU /\ cpus_mask \subseteq CPU
    /\ CPU \ Pluggable \subseteq active
    /\ PhaseInv /\ PlaceInv /\ SearchInv

\* Every outcome of select_fallback_rq() is an active CPU within the mask that results.
LEMMA FallbackSound ==
    ASSUME cpus_mask \subseteq CPU, active \subseteq CPU, NEW c, NEW x \in select_fallback_rq(c)
    PROVE  x.dest \in active /\ x.dest \in x.mask /\ x.mask \subseteq CPU
BY HotplugAssumption DEF select_fallback_rq, cpuset_cpus_allowed_fallback, To

\* Every step of the composition is a step of Bandwidth or none of its business.
LEMMA BandwidthStep == [HotplugNext]_hpvars => [Next]_vars
<1> SUFFICES ASSUME [HotplugNext]_hpvars PROVE [Next]_vars OBVIOUS
<1>1. CASE Quotas BY <1>1 DEF Quotas, Next
<1>2. ASSUME NEW c \in CPU, Work(c) PROVE UNCHANGED vars BY <1>2 DEF Work
<1>3. ASSUME NEW c \in Pluggable, PlugBegin(c) \/ Plug(c) PROVE PlugStep \/ UNCHANGED vars
  BY <1>3 DEF PlugBegin, Plug, sched_cpu_starting, sched_cpu_activate, ClearActive,
     DeactivateFails, sched_cpu_deactivate, sched_cpu_dying, PlugEnd, PlugStep
<1>4. CASE TaskStep
  BY <1>4 DEF TaskStep, Wake, SearchStep, TestCpu, PassFails, Sleep, __set_cpus_allowed_ptr,
     migration_cpu_stop
<1>5. CASE UNCHANGED hpvars BY <1>5 DEF hpvars
<1> QED BY <1>1, <1>2, <1>3, <1>4, <1>5 DEF HotplugNext, Next

\* The composition implements Bandwidth, so that all that is proved of Bandwidth holds
\* with the real hotplug callbacks in the place of its own.
THEOREM HotplugImplements == HotplugSpec => Spec
<1>1. HotplugInit => Init BY DEF HotplugInit
<1> QED BY <1>1, BandwidthStep, PTL DEF HotplugSpec, Spec

-----------------------------------------------------------------------------
(* The task and the CPUs. *)

\* Steps that leave the CPUs and the task alone.
LEMMA NothingMoved ==
    ASSUME HpInv, IndInv',
           UNCHANGED <<online, cpuhp, phase, maskvars, taskvars>>
    PROVE  HpInv'
BY DEF HpInv, PhaseInv, PlaceInv, PlacedWell, SearchInv, maskvars, taskvars

\* Writers, the fair class and the remote tick are such steps.
LEMMA OthersKeep ==
    ASSUME HpInv, IndInv', Quotas \/ (\E c \in CPU : Work(c)) \/ UNCHANGED hpvars
    PROVE  HpInv'
<1>1. CASE Quotas
  <2>1. UNCHANGED <<online, cpuhp>>
    BY <1>1 DEF Quotas, WriteStep, WriterStep, Acquire, HolderStep, FairStep, get_online_cpus,
       mutex_lock, VisitOk, VisitFails, Enable, Store, LoopCpu, Finish, Write, tg_set_cfs_quota,
       tg_set_cfs_period, cpu_max_write, tg_set_cfs_bandwidth, Throttle, Distribute
  <2> QED BY <1>1, <2>1, NothingMoved DEF Quotas, tickvars
<1>2. ASSUME NEW c \in CPU, Work(c) PROVE HpInv'
  <2>1. UNCHANGED <<online, cpuhp, maskvars, taskvars>>
    BY <1>2 DEF Work, vars
  <2>2. UNCHANGED phase
    BY <1>2 DEF Work, T!WorkStep, T!RunWork, T!Tick, T!UpdateState, T!Requeue
  <2> QED BY <2>1, <2>2, NothingMoved
<1>3. CASE UNCHANGED hpvars
  BY <1>3, NothingMoved DEF hpvars, vars, tickvars
<1> QED BY <1>1, <1>2, <1>3

\* What the steps of the task have to keep.
TaskInv == on_rq \subseteq CPU /\ cpus_mask \subseteq CPU /\ PlaceInv /\ SearchInv

\* A wakeup, and the search for a CPU in its place (select_task_rq(),
\* select_fallback_rq()).
LEMMA WakeKeeps ==
    ASSUME HpInv, UNCHANGED <<online, cpuhp, active>>, (\E c \in CPU : Wake(c)) \/ SearchStep
    PROVE  TaskInv'
<1> USE DEF HpInv
<1>1. active \subseteq online BY DEF PhaseInv
<1>2. ASSUME NEW c \in CPU, Wake(c) PROVE TaskInv'
  <2>1. cpus_mask' = cpus_mask /\ search = NoSearch /\ on_rq = {} BY <1>2 DEF Wake
  <2>2. CASE is_cpu_allowed(c)
    <3>1. on_rq' = {c} /\ search' = NoSearch /\ c \in cpus_mask /\ c \in active
      BY <1>2, <2>1, <2>2 DEF Wake, is_cpu_allowed
    <3> QED BY <1>1, <2>1, <3>1 DEF TaskInv, PlaceInv, PlacedWell, SearchInv, NoSearch
  <2>3. CASE ~is_cpu_allowed(c)
    <3>1. PICK cpu \in CPU : search' = [pass   |-> "node",
                                       left   |-> {k \in cpus_mask : Node[k] = Node[cpu]},
                                       steady |-> active]
      BY <1>2, <2>3 DEF Wake
    <3>2. on_rq' = {} BY <1>2, <2>1, <2>3 DEF Wake
    <3>3. SearchInv' BY <2>1, <3>1, <3>2 DEF SearchInv
    <3> QED BY <2>1, <3>2, <3>3 DEF TaskInv, PlaceInv, PlacedWell
  <2> QED BY <2>2, <2>3
<1>3. ASSUME NEW c \in CPU, TestCpu(c) PROVE TaskInv'
  <2>1. search # NoSearch /\ cpus_mask' = cpus_mask /\ c \in search.left
    BY <1>3 DEF TestCpu, NoSearch
  <2>2. on_rq = {} /\ c \in cpus_mask BY <2>1 DEF SearchInv
  <2>3. CASE c \in active
    <3>1. on_rq' = {c} /\ search' = NoSearch BY <1>3, <2>3 DEF TestCpu
    <3> QED BY <1>1, <2>1, <2>2, <2>3, <3>1 DEF TaskInv, PlaceInv, PlacedWell, SearchInv, NoSearch
  <2>4. CASE c \notin active
    <3>1. on_rq' = {} /\ search' = [search EXCEPT !.left = @ \ {c}]
      BY <1>3, <2>2, <2>4 DEF TestCpu
    <3>2. SearchInv' BY <2>1, <2>4, <3>1 DEF SearchInv
    <3> QED BY <2>1, <3>1, <3>2 DEF TaskInv, PlaceInv, PlacedWell
  <2> QED BY <2>3, <2>4
<1>4. CASE PassFails
  <2> DEFINE x == NextPass(search.pass)
  <2>1. /\ search # NoSearch /\ cpus_mask' = x.mask /\ on_rq' = on_rq
        /\ search' = [search EXCEPT !.pass = x.pass, !.left = x.mask]
        /\ search.pass \in {"node", "cpuset", "possible"}
    BY <1>4 DEF PassFails, NoSearch
  <2>2. /\ x.pass \in {"cpuset", "possible", "fail"} /\ x.mask \subseteq CPU
        /\ x.pass = "fail" => x.mask = CPU
    BY <2>1, HotplugAssumption DEF NextPass, cpuset_cpus_allowed_fallback
  <2> HIDE DEF x
  <2>3. SearchInv' BY <2>1, <2>2 DEF SearchInv
  <2>4. on_rq' = {} BY <2>1 DEF SearchInv
  <2> QED BY <2>1, <2>2, <2>3, <2>4 DEF TaskInv, PlaceInv, PlacedWell
<1> QED BY <1>2, <1>3, <1>4 DEF SearchStep

\* A task that is awake goes to sleep, is given a mask, or meets a stopper
\* (__set_cpus_allowed_ptr(), migration_cpu_stop()).
LEMMA AwakeKeeps ==
    ASSUME HpInv, UNCHANGED <<online, cpuhp, active>>,
           \/ Sleep \/ (\E m \in Masks : __set_cpus_allowed_ptr(m))
           \/ \E x \in moving : migration_cpu_stop(x)
    PROVE  TaskInv'
<1> USE DEF HpInv
<1>1. active \subseteq online BY DEF PhaseInv
<1>2. CASE Sleep
  <2>1. on_rq' = {} /\ UNCHANGED <<cpus_mask, search>> BY <1>2 DEF Sleep
  <2>2. SearchInv' BY <2>1 DEF SearchInv
  <2> QED BY <2>1, <2>2 DEF TaskInv, PlaceInv, PlacedWell
<1>3. ASSUME NEW m \in Masks, __set_cpus_allowed_ptr(m) PROVE TaskInv'
  <2>1. search' = NoSearch /\ cpus_mask' = m /\ m \subseteq CPU
    BY <1>3, HotplugAssumption DEF __set_cpus_allowed_ptr
  <2>2. PICK dest \in m \cap active :
          IF on_rq \subseteq m THEN UNCHANGED <<on_rq, moving>>
          ELSE MoveQueued(dest) \/ NeedStopper(dest)
    BY <1>3 DEF __set_cpus_allowed_ptr
  <2>3. CASE on_rq \subseteq m
    BY <2>1, <2>2, <2>3 DEF TaskInv, PlaceInv, PlacedWell, SearchInv
  <2>4. CASE ~(on_rq \subseteq m) /\ MoveQueued(dest)
    BY <1>1, <2>1, <2>2, <2>4 DEF MoveQueued, TaskInv, PlaceInv, PlacedWell, SearchInv
  <2>5. CASE ~(on_rq \subseteq m) /\ NeedStopper(dest)
    <3>1. PICK c \in on_rq : moving' = moving \cup {[src |-> c, dest |-> dest]}
      BY <2>5 DEF NeedStopper
    <3>2. on_rq' = on_rq /\ \A d \in on_rq : d = c BY <2>5 DEF NeedStopper, PlaceInv
    <3>3. \E x \in moving' : x.src = c /\ x.dest \in m
      <4> DEFINE y == [src |-> c, dest |-> dest]
      <4>1. y.src = c /\ y.dest = dest /\ dest \in m OBVIOUS
      <4>2. y \in moving' BY <3>1
      <4> QED BY <4>1, <4>2
    <3>4. PlaceInv' BY <2>1, <3>2, <3>3 DEF PlaceInv, PlacedWell
    <3> QED BY <2>1, <3>2, <3>4 DEF TaskInv, SearchInv
  <2> QED BY <2>2, <2>3, <2>4, <2>5
<1>4. ASSUME NEW x \in moving, migration_cpu_stop(x) PROVE TaskInv'
  <2>1. search' = NoSearch /\ cpus_mask' = cpus_mask /\ moving' = moving \ {x}
    BY <1>4 DEF migration_cpu_stop
  <2>2. CASE x.src \notin on_rq
    <3>1. on_rq' = on_rq /\ missed' = missed BY <1>4, <2>2 DEF migration_cpu_stop
    <3> QED BY <2>1, <2>2, <3>1 DEF TaskInv, PlaceInv, PlacedWell, SearchInv
  <2>3. CASE x.src \in on_rq /\ StillAllowed(x.dest)
    <3>1. on_rq' = {x.dest} /\ x.dest \in cpus_mask /\ x.dest \in active
      BY <1>4, <2>3 DEF migration_cpu_stop, StillAllowed, is_cpu_allowed
    <3> QED BY <1>1, <2>1, <3>1 DEF TaskInv, PlaceInv, PlacedWell, SearchInv
  <2>4. CASE x.src \in on_rq /\ ~StillAllowed(x.dest)
    <3>1. /\ on_rq' = on_rq
          /\ x.dest \in cpus_mask => missed' = {x.src}
          /\ x.dest \notin cpus_mask => missed' = missed
      BY <1>4, <2>4 DEF migration_cpu_stop
    <3>2. \A c \in on_rq : c = x.src BY <2>4 DEF PlaceInv
    <3>3. PlaceInv'
      <4>1. CASE x.dest \in cpus_mask BY <2>1, <3>1, <3>2, <4>1 DEF PlaceInv, PlacedWell
      <4>2. CASE x.dest \notin cpus_mask BY <2>1, <3>1, <4>2 DEF PlaceInv, PlacedWell
      <4> QED BY <4>1, <4>2
    <3> QED BY <2>1, <3>1, <3>3 DEF TaskInv, SearchInv
  <2> QED BY <2>2, <2>3, <2>4
<1> QED BY <1>2, <1>3, <1>4

\* Every step of the task.
LEMMA TaskKeeps ==
    ASSUME HpInv, IndInv', TaskStep
    PROVE  HpInv'
<1>1. UNCHANGED <<online, cpuhp, phase, active, target>>
  BY DEF TaskStep, Wake, SearchStep, TestCpu, PassFails, Sleep, __set_cpus_allowed_ptr,
     migration_cpu_stop, vars, tickvars, maskvars
<1>2. PhaseInv' BY <1>1 DEF HpInv, PhaseInv
<1>3. TaskInv' BY <1>1, WakeKeeps, AwakeKeeps DEF TaskStep
<1> QED BY <1>1, <1>2, <1>3 DEF HpInv, TaskInv

\* The callbacks that leave the runqueues alone.
LEMMA CallbackKeeps ==
    ASSUME HpInv, IndInv', NEW c \in Pluggable,
           \/ sched_cpu_starting(c) \/ sched_cpu_activate(c) \/ ClearActive(c)
           \/ DeactivateFails(c) \/ sched_cpu_deactivate(c) \/ PlugBegin(c) \/ PlugEnd(c)
    PROVE  HpInv'
<1> USE DEF HpInv
<1> c \in CPU BY FileAssumption
<1>1. UNCHANGED <<on_rq, cpus_mask, moving, missed>>
  BY DEF sched_cpu_starting, sched_cpu_activate, ClearActive, DeactivateFails,
     sched_cpu_deactivate, PlugBegin, PlugEnd, taskvars
<1>2. online \subseteq online'
  BY DEF sched_cpu_starting, sched_cpu_activate, ClearActive, DeactivateFails,
     sched_cpu_deactivate, PlugBegin, PlugEnd, RqOnline, cpus_write_lock,
     cpus_write_unlock, vars
<1>3. PlaceInv'
  <2>1. on_rq \subseteq active' \cup cpuhp'
    <3>1. CASE DeactivateFails(c) \/ PlugEnd(c)
      <4>1. cpuhp = {c} BY <3>1 DEF DeactivateFails, PlugEnd, cpus_write_unlock, Locked, PhaseInv, IndInv, TypeOK
      <4>2. CASE DeactivateFails(c)
        BY <4>1, <4>2 DEF DeactivateFails, Restored, PlaceInv, PlacedWell
      <4>3. CASE PlugEnd(c)
        <5>1. phase[c] = target /\ active' = active BY <4>3 DEF PlugEnd, maskvars
        <5>2. c \in on_rq => c \in active BY <5>1 DEF PlaceInv, PhaseInv
        <5> QED BY <4>1, <5>1, <5>2 DEF PlaceInv, PlacedWell
      <4> QED BY <3>1, <4>2, <4>3
    <3>2. CASE ClearActive(c)
      BY <3>2 DEF ClearActive, Locked, vars, PlaceInv, PlacedWell
    <3>3. CASE \/ sched_cpu_starting(c) \/ sched_cpu_activate(c) \/ sched_cpu_deactivate(c)
               \/ PlugBegin(c)
      BY <3>3 DEF sched_cpu_starting, sched_cpu_activate, sched_cpu_deactivate, PlugBegin,
         RqOnline, cpus_write_lock, vars, maskvars, PlaceInv, PlacedWell
    <3> QED BY <3>1, <3>2, <3>3
  <2> QED BY <1>1, <1>2, <2>1 DEF PlaceInv, PlacedWell
<1>4. phase' \in [CPU -> Phases] /\ active' \subseteq CPU /\ target' \in {"on", "off"} /\ PhaseInv'
  <2>1. CASE sched_cpu_starting(c)
    BY <2>1 DEF sched_cpu_starting, Locked, T!sched_tick_start, vars, maskvars, PhaseInv, Phases
  <2>2. CASE sched_cpu_activate(c)
    BY <2>2 DEF sched_cpu_activate, T!Online, RqOnline, Locked, PhaseInv, Phases
  <2>3. CASE ClearActive(c)
    BY <2>3 DEF ClearActive, Locked, vars, tickvars, PhaseInv
  <2>4. CASE DeactivateFails(c)
    BY <2>4 DEF DeactivateFails, Restored, cpus_write_unlock, Locked, tickvars, PhaseInv
  <2>5. CASE sched_cpu_deactivate(c)
    BY <2>5 DEF sched_cpu_deactivate, T!Offline, vars, maskvars, PhaseInv, Phases
  <2>6. CASE PlugBegin(c)
    BY <2>6 DEF PlugBegin, cpus_write_lock, tickvars, PhaseInv
  <2>7. CASE PlugEnd(c)
    BY <2>7 DEF PlugEnd, cpus_write_unlock, Locked, tickvars, maskvars, PhaseInv
  <2> QED BY <2>1, <2>2, <2>3, <2>4, <2>5, <2>6, <2>7
<1>5. SearchInv' /\ CPU \ Pluggable \subseteq active'
  <2>1. CASE ClearActive(c)
    <3>1. active' = active \ {c} /\ search' = [search EXCEPT !.steady = @ \ {c}]
      BY <2>1 DEF ClearActive
    <3>2. CASE search = NoSearch
      BY <1>1, <3>1, <3>2 DEF SearchInv, NoSearch
    <3>3. CASE search # NoSearch
      BY <1>1, <3>1, <3>3 DEF SearchInv
    <3> QED BY <3>1, <3>2, <3>3
  <2>2. CASE ~ClearActive(c)
    <3>1. active \subseteq active' /\ search' = search
      BY <2>2 DEF sched_cpu_starting, sched_cpu_activate, DeactivateFails, Restored,
         sched_cpu_deactivate, PlugBegin, PlugEnd, taskvars, maskvars
    <3> QED BY <1>1, <3>1 DEF SearchInv
  <2> QED BY <2>1, <2>2
<1> QED BY <1>1, <1>3, <1>4, <1>5

\* sched_cpu_dying(): migrate_tasks() finds the task even if its group was throttled,
\* since set_rq_offline() has released it, and sends it to a CPU that is active.
LEMMA DyingKeeps ==
    ASSUME HpInv, IndInv', NEW c \in Pluggable, sched_cpu_dying(c)
    PROVE  HpInv'
<1> USE DEF HpInv
<1> c \in CPU BY FileAssumption
<1>1. phase[c] = "dying" /\ phase' = [phase EXCEPT ![c] = "off"]
  BY DEF sched_cpu_dying, T!sched_tick_stop
<1>2. /\ online' = online \ {c} /\ UNCHANGED <<cpuhp, active, target>>
      /\ c \in cpuhp
      /\ throttled' = {x \in throttled : x[2] # c}
  BY DEF sched_cpu_dying, RqOffline, Locked, maskvars
<1>3. phase' \in [CPU -> Phases] /\ PhaseInv'
  BY <1>1, <1>2 DEF PhaseInv, Phases
<1>4. search' = NoSearch /\ moving' = {x \in moving : x.src # c} BY DEF sched_cpu_dying
<1>5. on_rq' \subseteq CPU /\ cpus_mask' \subseteq CPU /\ PlaceInv'
  <2>1. <<member, c>> \notin throttled' BY <1>2
  <2>2. CASE Found(c)
    <3>1. PICK x \in select_fallback_rq(c) : on_rq' = {x.dest} /\ cpus_mask' = x.mask
      BY <2>2 DEF sched_cpu_dying
    <3>2. x.dest \in active /\ x.dest \in x.mask /\ x.mask \subseteq CPU BY FallbackSound
    <3>3. x.dest \in online' BY <1>1, <1>2, <3>2 DEF PhaseInv
    <3> QED BY <1>2, <3>1, <3>2, <3>3 DEF PlaceInv, PlacedWell
  <2>3. CASE ~Found(c)
    <3>1. c \notin on_rq BY <2>1, <2>3 DEF Found
    <3>2. UNCHANGED <<on_rq, cpus_mask, missed>> BY <2>3 DEF sched_cpu_dying
    <3> QED BY <1>2, <1>4, <3>1, <3>2 DEF PlaceInv, PlacedWell
  <2> QED BY <2>2, <2>3
<1> QED BY <1>2, <1>3, <1>4, <1>5 DEF SearchInv

\* HpInv is an invariant of the composition: Bandwidth's part by BandwidthStep, the
\* rest action by action.
THEOREM HotplugInvariance == HotplugSpec => []HpInv
<1>1. HotplugInit => HpInv
  <2> SUFFICES ASSUME HotplugInit PROVE HpInv OBVIOUS
  <2>1. IndInv BY InitHolds DEF HotplugInit
  <2> QED BY <2>1 DEF HotplugInit, Init, HpInv, PhaseInv, PlaceInv, PlacedWell, SearchInv, Phases
<1>2. HpInv /\ [HotplugNext]_hpvars => HpInv'
  <2> SUFFICES ASSUME HpInv, [HotplugNext]_hpvars PROVE HpInv' OBVIOUS
  <2>1. IndInv' BY BandwidthStep, StepHolds DEF HpInv
  <2>2. ASSUME NEW c \in Pluggable, PlugBegin(c) \/ Plug(c) PROVE HpInv'
    BY <2>1, <2>2, CallbackKeeps, DyingKeeps DEF Plug
  <2> QED BY <2>1, <2>2, OthersKeep, TaskKeeps DEF HotplugNext
<1> QED BY <1>1, <1>2, PTL DEF HotplugSpec

\* No queued task is left on a CPU that is gone.
THEOREM NobodyLeftBehind == HotplugSpec => []NoneLeftBehind
<1>1. HpInv => NoneLeftBehind BY DEF HpInv, PlaceInv, NoneLeftBehind
<1> QED BY <1>1, HotplugInvariance, PTL

\* A queued task is on an active CPU or on the one that is being plugged, and outside of
\* its mask only as long as a stopper is to move it or after one could not: for every set
\* of CPUs and masks, with wakeups, sched_setaffinity(), stoppers and hotplug
\* interleaved between their critical sections.
THEOREM TasksPlaced == HotplugSpec => []PlacedWell
<1>1. HpInv => PlacedWell BY DEF HpInv, PlaceInv
<1> QED BY <1>1, HotplugInvariance, PTL

\* The search of a wakeup always finds a CPU, however many come and go between its tests.
THEOREM FallbackEnds == HotplugSpec => []FallbackFinds
<1>1. HpInv => FallbackFinds
  <2> SUFFICES ASSUME HpInv, search.pass = "fail" PROVE search.left # {}
    BY DEF FallbackFinds
  <2>1. search # NoSearch BY DEF NoSearch
  <2>2. cpus_mask = CPU /\ CPU \cap search.steady \subseteq search.left
        /\ CPU \ Pluggable \subseteq search.steady
    BY <2>1 DEF HpInv, SearchInv
  <2> QED BY <2>2, HotplugAssumption, FileAssumption
<1> QED BY <1>1, HotplugInvariance, PTL

\* A search gives up the mask only when each CPU of it has been inactive since the search
\* began, although CPUs become active between its tests and the override, and a dying CPU
\* only when none is active.
THEOREM MasksKept == HotplugSpec => MaskKept
<1> DEFINE Kept ==
      cpus_mask' # cpus_mask =>
          /\ search # NoSearch => cpus_mask \cap search.steady = {}
          /\ online' # online => cpus_mask \cap active = {}
<1>1. HpInv /\ [HotplugNext]_hpvars => [Kept]_hpvars
  <2> SUFFICES ASSUME HpInv, HotplugNext, cpus_mask' # cpus_mask PROVE Kept
    BY DEF hpvars, taskvars
  <2>1. CASE PassFails
    <3>1. search.pass # "node"
      BY <2>1 DEF PassFails, NextPass
    <3>2. search # NoSearch /\ search.left = {} /\ online' = online
      BY <2>1 DEF PassFails, NoSearch, vars
    <3> QED BY <3>1, <3>2 DEF HpInv, SearchInv
  <2>2. ASSUME NEW m \in Masks, __set_cpus_allowed_ptr(m) PROVE Kept
    BY <2>2 DEF __set_cpus_allowed_ptr, vars
  <2>3. ASSUME NEW c \in Pluggable, sched_cpu_dying(c) PROVE Kept
    <3>1. search = NoSearch BY <2>3 DEF sched_cpu_dying
    <3>2. PICK x \in select_fallback_rq(c) : cpus_mask' = x.mask
      BY <2>3 DEF sched_cpu_dying
    <3>3. cpus_mask \cap active = {} BY <3>2 DEF select_fallback_rq, To
    <3> QED BY <3>1, <3>3
  <2>4. \/ PassFails \/ (\E m \in Masks : __set_cpus_allowed_ptr(m))
        \/ \E c \in Pluggable : sched_cpu_dying(c)
    BY DEF HotplugNext, Quotas, Work, PlugBegin, Plug, sched_cpu_starting, sched_cpu_activate,
       ClearActive, DeactivateFails, sched_cpu_deactivate, PlugEnd, TaskStep, Wake, SearchStep,
       TestCpu, Sleep, migration_cpu_stop, taskvars
  <2> QED BY <2>1, <2>2, <2>3, <2>4
<1> QED BY <1>1, HotplugInvariance, PTL DEF HotplugSpec, MaskKept

-----------------------------------------------------------------------------
(* The remote tick, as the callbacks drive it. *)

\* The work of a CPU exists once while the state is not OFFLINE and not at all
\* otherwise, and the state is RUNNING exactly while the CPU is up.  That the CPU is
\* covered is not inductive alone: whether a CPU that comes back finds its work depends
\* on what OFFLINING and OFFLINE say about it.
TickInvOf(cpu) ==
    /\ state[cpu] = T!OFFLINE => pending[cpu] = 0 /\ wpc[cpu] = "none"
    /\ state[cpu] # T!OFFLINE => \/ pending[cpu] = 1 /\ wpc[cpu] = "none"
                                 \/ pending[cpu] = 0 /\ wpc[cpu] # "none"
    /\ T!housekeeping_cpu(cpu) => state[cpu] = T!OFFLINE
    /\ ~T!housekeeping_cpu(cpu) => (phase[cpu] # "off" <=> state[cpu] = T!RUNNING)

TickInv == T!TypeOK /\ \A cpu \in CPU : TickInvOf(cpu)

\* A step of one CPU's work keeps the types and the invariant of every CPU
\* (sched_tick_remote()).
LEMMA WorkKeeps ==
    ASSUME TickInv, NEW cpu \in CPU, T!WorkStep(cpu)
    PROVE  TickInv'
<1> USE DEF T!OFFLINE, T!OFFLINING, T!RUNNING, T!housekeeping_cpu, TickInv, T!TypeOK, TickInvOf
<1>1. CASE T!RunWork(cpu) BY <1>1 DEF T!RunWork
<1>2. CASE T!Tick(cpu) BY <1>2 DEF T!Tick
<1>3. CASE T!UpdateState(cpu)
  <2>1. T!TypeOK' BY <1>3 DEF T!UpdateState, T!NextState
  <2>2. \A c \in CPU : TickInvOf(c)' BY <1>3 DEF T!UpdateState, T!NextState
  <2> QED BY <2>1, <2>2
<1>4. CASE T!Requeue(cpu) BY <1>4 DEF T!Requeue
<1> QED BY <1>1, <1>2, <1>3, <1>4 DEF T!WorkStep

\* A hotplug step of one CPU keeps the types and the invariant of every CPU
\* (sched_tick_start(), sched_tick_stop()).
LEMMA TickHotplugKeeps ==
    ASSUME TickInv, NEW cpu \in CPU, T!HotplugStep(cpu)
    PROVE  TickInv'
<1> USE DEF T!OFFLINE, T!OFFLINING, T!RUNNING, T!housekeeping_cpu, TickInv, T!TypeOK, TickInvOf
<1>1. CASE T!sched_tick_start(cpu)
  <2>1. T!TypeOK' BY <1>1 DEF T!sched_tick_start, T!StartsWork
  <2>2. \A c \in CPU : TickInvOf(c)' BY <1>1 DEF T!sched_tick_start, T!StartsWork
  <2> QED BY <2>1, <2>2
<1>2. CASE T!Online(cpu) BY <1>2 DEF T!Online
<1>3. CASE T!Offline(cpu) BY <1>3 DEF T!Offline
<1>4. CASE T!sched_tick_stop(cpu)
  <2>1. T!TypeOK' BY <1>4 DEF T!sched_tick_stop, T!StopState
  <2>2. \A c \in CPU : TickInvOf(c)' BY <1>4 DEF T!sched_tick_stop, T!StopState
  <2> QED BY <2>1, <2>2
<1> QED BY <1>1, <1>2, <1>3, <1>4 DEF T!HotplugStep

\* Every step of TickRemote keeps the invariant.
LEMMA TickKeeps == TickInv /\ [T!Next]_(T!vars) => TickInv'
<1> SUFFICES ASSUME TickInv, [T!Next]_(T!vars) PROVE TickInv' OBVIOUS
<1>1. CASE T!Next BY <1>1, WorkKeeps, TickHotplugKeeps DEF T!Next
<1>2. CASE UNCHANGED T!vars BY <1>2 DEF TickInv, T!TypeOK, TickInvOf, T!vars
<1> QED BY <1>1, <1>2

\* Every step of the composition is a step of TickRemote or none of its business.
LEMMA TickStep == [HotplugNext]_hpvars => [T!Next]_(T!vars)
<1> SUFFICES ASSUME [HotplugNext]_hpvars PROVE [T!Next]_(T!vars) OBVIOUS
<1> USE DEF tickvars, T!vars
<1>1. CASE Quotas BY <1>1 DEF Quotas
<1>2. ASSUME NEW c \in CPU, Work(c) PROVE T!Next BY <1>2 DEF Work, T!Next
<1>3. ASSUME NEW c \in Pluggable, PlugBegin(c) \/ Plug(c) PROVE T!Next \/ UNCHANGED T!vars
  <2>1. c \in CPU BY FileAssumption
  <2> QED BY <1>3, <2>1 DEF PlugBegin, Plug, sched_cpu_starting, sched_cpu_activate,
     ClearActive, DeactivateFails, sched_cpu_deactivate, sched_cpu_dying, PlugEnd, T!Next,
     T!HotplugStep
<1>4. CASE TaskStep
  BY <1>4 DEF TaskStep, Wake, SearchStep, TestCpu, PassFails, Sleep, __set_cpus_allowed_ptr,
     migration_cpu_stop
<1>5. CASE UNCHANGED hpvars BY <1>5 DEF hpvars
<1> QED BY <1>1, <1>2, <1>3, <1>4, <1>5 DEF HotplugNext

\* The word that sched_tick_stop() leaves for the work is always right about whether
\* the work exists, from boot with the CPUs up and from the state in which all are down.
THEOREM WorkAccounted == (HotplugSpec => []TickInv) /\ (T!Spec => []TickInv)
<1> USE DEF TickInv, T!TypeOK, TickInvOf, T!OFFLINE, T!OFFLINING, T!RUNNING, T!housekeeping_cpu
<1>1. HotplugInit => TickInv BY DEF HotplugInit
<1>2. T!Init => TickInv BY DEF T!Init
<1> HIDE DEF TickInv
<1>3. HotplugSpec => []TickInv BY <1>1, TickKeeps, TickStep, PTL DEF HotplugSpec
<1>4. T!Spec => []TickInv BY <1>2, TickKeeps, PTL DEF T!Spec
<1> QED BY <1>3, <1>4

\* The work of a CPU exists at most once.
THEOREM WorkOnce == HotplugSpec => []T!OneWork
<1>1. TickInv => T!OneWork
  <2> SUFFICES ASSUME TickInv, NEW cpu \in CPU
               PROVE  pending[cpu] <= 1 /\ (wpc[cpu] # "none" => pending[cpu] = 0)
    BY DEF T!OneWork
  <2>1. TickInvOf(cpu) BY DEF TickInv
  <2> QED BY <2>1 DEF TickInvOf
<1> QED BY <1>1, WorkAccounted, PTL

\* No WARN_ON_ONCE() of the three functions fires.
THEOREM NoWarning == HotplugSpec => []T!WarnFree
<1>1. TickInv => T!WarnFree
  BY DEF TickInv, T!TypeOK, TickInvOf, T!WarnFree, T!OFFLINE, T!RUNNING, T!housekeeping_cpu
<1> QED BY <1>1, WorkAccounted, PTL

\* A full-dynticks CPU that is up always has its work.
THEOREM CpuTicked == HotplugSpec => []T!TickCovered
<1>1. TickInv => T!TickCovered
  BY DEF TickInv, T!TypeOK, TickInvOf, T!TickCovered, T!OFFLINE, T!RUNNING, T!housekeeping_cpu
<1> QED BY <1>1, WorkAccounted, PTL

Arrow(cpu) == <<state[cpu], state'[cpu]>> \in
    {<<T!OFFLINE, T!OFFLINE>>, <<T!OFFLINING, T!OFFLINING>>, <<T!RUNNING, T!RUNNING>>,
     <<T!OFFLINE, T!RUNNING>>, <<T!RUNNING, T!OFFLINING>>,
     <<T!OFFLINING, T!RUNNING>>, <<T!OFFLINING, T!OFFLINE>>}

\* Every change of tick_work.state is an arrow of the documented diagram.
THEOREM DiagramFollowed == HotplugSpec => T!Diagram
<1>1. ASSUME TickInv, [T!Next]_(T!vars)
      PROVE  [\A cpu \in CPU : Arrow(cpu)]_(T!vars)
  <2> SUFFICES ASSUME T!Next, NEW c \in CPU PROVE Arrow(c)
    BY <1>1
  <2> USE <1>1 DEF T!OFFLINE, T!OFFLINING, T!RUNNING, T!housekeeping_cpu
  <2>1. state[c] \in 0..2
    BY DEF TickInv, T!TypeOK
  <2>2. PICK cpu \in CPU : T!WorkStep(cpu) \/ T!HotplugStep(cpu)
    BY DEF T!Next
  <2>3. CASE state' = state
    BY <2>1, <2>3 DEF Arrow
  <2>4. CASE T!UpdateState(cpu)
    BY <2>1, <2>4 DEF T!UpdateState, T!NextState, Arrow, TickInv, T!TypeOK, TickInvOf
  <2>5. CASE T!sched_tick_start(cpu)
    BY <2>1, <2>5 DEF T!sched_tick_start, Arrow, TickInv, T!TypeOK, TickInvOf
  <2>6. CASE T!sched_tick_stop(cpu)
    BY <2>1, <2>6 DEF T!sched_tick_stop, T!StopState, Arrow, TickInv, T!TypeOK, TickInvOf
  <2> QED
    BY <2>2, <2>3, <2>4, <2>5, <2>6
    DEF T!WorkStep, T!HotplugStep, T!RunWork, T!Tick, T!Requeue, T!Online, T!Offline
<1>2. TickInv /\ [HotplugNext]_hpvars => [\A cpu \in CPU : Arrow(cpu)]_(T!vars)
  BY <1>1, TickStep
<1> QED BY <1>2, WorkAccounted, PTL DEF HotplugSpec, T!Diagram, Arrow
=============================================================================
