------------------------- MODULE SetAffinityProofs -------------------------
(***************************************************************************)
(* Proofs about SetAffinity, for every set of CPUs and of callers.         *)
(***************************************************************************)
EXTENDS SetAffinity, TLAPS

\* A caller that is going to notice, or has noticed, that the mask of the task
\* is not confined.
Repairs(c) ==
    \/ place[c] = "recheck" /\ new_mask[c] = cpus_ptr
    \/ place[c] = "again"

\* While the task is not confined, someone is about to confine it.  WithinCpuset
\* says so for states without callers only and is not inductive.
Confined == applying \/ cpus_ptr \subseteq cpuset \/ \E c \in Caller : Repairs(c)

\* The copy of the cpuset that is set on the second round has an active CPU, so
\* that a repair does not fail.
RepairsUsable == \A c \in Caller : place[c] = "again" => new_mask[c] \in Usable

KthreadFree == IF kthread THEN ~applying /\ cpuset = CPU ELSE ~bound

IndInv == AffinityTypeOK /\ Confined /\ RepairsUsable /\ KthreadFree /\ CanRun

\* A step of sched_setaffinity() keeps the invariant.
LEMMA CallerKeeps ==
    ASSUME IndInv, NEW c \in Caller, CallerStep(c)
    PROVE  IndInv'
<1>1. AffinityTypeOK'
  BY DEF IndInv, AffinityTypeOK, CallerStep, Refuse, ReadCpuset, SetMask, SetMaskFails,
         RecheckDone, RecheckAgain, AgainMask, EndCall, Goto, Mask, Usable
<1>2. RepairsUsable'
  BY DEF IndInv, AffinityTypeOK, RepairsUsable, CallerStep, Refuse, ReadCpuset, SetMask,
         SetMaskFails, RecheckDone, RecheckAgain, AgainMask, EndCall, Goto, Usable
<1>3. KthreadFree'
  BY DEF IndInv, KthreadFree, kthread, bound, CallerStep, Refuse, ReadCpuset, SetMask, SetMaskFails,
         RecheckDone, RecheckAgain
<1>4. CanRun'
  BY DEF IndInv, CanRun, kthread, Settable, CallerStep, Refuse, ReadCpuset, SetMask,
         SetMaskFails, RecheckDone, RecheckAgain, Usable
<1>5. Confined'
  <2>1. CASE Refuse(c) \/ ReadCpuset(c)
    BY <2>1 DEF IndInv, AffinityTypeOK, Confined, Repairs, Refuse, ReadCpuset, EndCall, Goto
  <2>2. CASE SetMask(c)
    <3>1. Repairs(c)'
      BY <2>2 DEF IndInv, AffinityTypeOK, Repairs, SetMask, Goto
    <3> QED BY <3>1 DEF Confined
  <2>3. CASE SetMaskFails(c)
    <3>1. CASE kthread
      BY <2>3, <3>1, <1>1, <1>3 DEF KthreadFree, kthread, AffinityTypeOK, Confined, Mask, SetMaskFails
    <3>2. CASE ~kthread
      <4>1. place[c] = "set"
        BY <2>3, <3>2 DEF IndInv, KthreadFree, kthread, RepairsUsable, SetMaskFails, Settable
      <4> QED
        BY <4>1, <2>3 DEF IndInv, AffinityTypeOK, Confined, Repairs, SetMaskFails, EndCall, Goto
    <3> QED BY <3>1, <3>2
  <2>4. CASE RecheckDone(c)
    BY <2>4 DEF IndInv, AffinityTypeOK, Confined, Repairs, RecheckDone, WithinSet, EndCall, Goto
  <2>5. CASE RecheckAgain(c)
    <3>1. Repairs(c)'
      BY <2>5 DEF IndInv, AffinityTypeOK, Repairs, RecheckAgain, Goto
    <3> QED BY <3>1 DEF Confined
  <2> QED BY <2>1, <2>2, <2>3, <2>4, <2>5 DEF CallerStep
<1> QED BY <1>1, <1>2, <1>3, <1>4, <1>5 DEF IndInv

\* So does what the cpuset code, kthread_bind() and new calls do.
LEMMA OthersKeep ==
    ASSUME IndInv,
           \/ \E m \in Usable : UpdateCpuset(m) \/ KthreadBind(m)
           \/ ApplyCpuset
           \/ \E c \in Caller, m \in Mask : Begin(c, m)
    PROVE  IndInv'
<1>1. ASSUME NEW m \in Usable, UpdateCpuset(m)
      PROVE  IndInv'
  BY <1>1 DEF IndInv, AffinityTypeOK, Confined, RepairsUsable, KthreadFree, CanRun, UpdateCpuset,
              kthread, bound, Mask, Usable
<1>2. ASSUME NEW m \in Usable, KthreadBind(m)
      PROVE  IndInv'
  BY <1>2 DEF IndInv, AffinityTypeOK, Confined, RepairsUsable, KthreadFree, CanRun, KthreadBind,
              kthread, bound, Mask, Usable
<1>3. CASE ApplyCpuset
  BY <1>3 DEF IndInv, AffinityTypeOK, Confined, RepairsUsable, KthreadFree, CanRun, ApplyCpuset,
              kthread, bound, Mask, Usable
<1>4. ASSUME NEW c \in Caller, NEW m \in Mask, Begin(c, m)
      PROVE  IndInv'
  <2>1. AffinityTypeOK'
    BY <1>4 DEF IndInv, AffinityTypeOK, Begin, Goto, Mask, Usable
  <2>2. RepairsUsable'
    BY <1>4 DEF IndInv, AffinityTypeOK, RepairsUsable, Begin, Goto, Usable
  <2>3. KthreadFree' /\ CanRun'
    BY <1>4 DEF IndInv, KthreadFree, CanRun, kthread, bound, Begin, Usable
  <2>4. Confined'
    BY <1>4 DEF IndInv, AffinityTypeOK, Confined, Repairs, Begin, Goto
  <2> QED BY <2>1, <2>2, <2>3, <2>4 DEF IndInv
<1> QED BY <1>1, <1>2, <1>3, <1>4

\* At every moment the task is confined or about to be, and can run somewhere.
THEOREM AlwaysRepaired == AffinitySpec => []IndInv
<1>1. AffinityInit => IndInv
  <2> SUFFICES ASSUME AffinityInit PROVE IndInv
    OBVIOUS
  <2>1. AffinityTypeOK
    BY DEF AffinityInit, AffinityTypeOK, Mask, Usable
  <2>2. Confined /\ RepairsUsable /\ KthreadFree
    BY DEF AffinityInit, Confined, RepairsUsable, KthreadFree, kthread, bound
  <2>3. CanRun
    BY <2>1 DEF AffinityInit, AffinityTypeOK, CanRun, Usable, Mask
  <2> QED BY <2>1, <2>2, <2>3 DEF IndInv
<1>2. IndInv /\ [AffinityNext]_affinityVars => IndInv'
  <2> SUFFICES ASSUME IndInv, [AffinityNext]_affinityVars PROVE IndInv'
    OBVIOUS
  <2>1. CASE AffinityNext
    BY <2>1, CallerKeeps, OthersKeep DEF AffinityNext
  <2>2. CASE UNCHANGED affinityVars
    BY <2>2 DEF IndInv, AffinityTypeOK, Confined, Repairs, RepairsUsable, KthreadFree, CanRun,
                kthread, bound, affinityVars, Usable
  <2> QED BY <2>1, <2>2
<1> QED BY <1>1, <1>2, PTL DEF AffinitySpec

\* At rest the task is confined to its cpuset.
THEOREM ConfinedAtRest == AffinitySpec => []WithinCpuset
<1>1. IndInv => WithinCpuset
  BY DEF IndInv, Confined, Repairs, WithinCpuset, Quiet
<1> QED BY <1>1, AlwaysRepaired, PTL

\* The task always has a CPU to run on.
THEOREM AlwaysRunnable == AffinitySpec => []CanRun
<1>1. IndInv => CanRun
  BY DEF IndInv
<1> QED BY <1>1, AlwaysRepaired, PTL

\* No call changes the mask of a kernel thread once it is bound.
THEOREM BindingKept == AffinitySpec => BoundStays
<1>1. IndInv /\ [AffinityNext]_affinityVars => [bound => cpus_ptr' = cpus_ptr]_affinityVars
  <2> SUFFICES ASSUME IndInv, AffinityNext, bound PROVE cpus_ptr' = cpus_ptr
    OBVIOUS
  <2>1. kthread /\ ~applying
    BY DEF IndInv, KthreadFree, kthread, bound
  <2> QED
    BY <2>1 DEF AffinityNext, kthread, bound, UpdateCpuset, ApplyCpuset, KthreadBind, Begin, CallerStep, Refuse,
                ReadCpuset, SetMask, Settable, SetMaskFails, RecheckDone, RecheckAgain
<1> QED BY <1>1, AlwaysRepaired, PTL DEF AffinitySpec, BoundStays
=============================================================================
