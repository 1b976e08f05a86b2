---------------------------- MODULE SetAffinity ----------------------------
(***************************************************************************)
(* sched_setaffinity() (core.c) against changes of the cpuset of its       *)
(* target, against other callers and against kthread_bind().               *)
(*                                                                         *)
(* A caller restricts the mask it was given to the cpuset, sets it, and    *)
(* then looks at the cpuset again, all without a lock that spans the       *)
(* steps.  __set_cpus_allowed_ptr() is one step under the locks of the     *)
(* target; what it does to move the task is the subject of Sched.          *)
(*                                                                         *)
(* The target is a user task in a cpuset, or a kernel thread in the root   *)
(* cpuset that may be bound for good.  The cpuset code is external: it     *)
(* publishes a new set of CPUs, of which one is active, and afterwards     *)
(* applies it to its tasks.                                                *)
(***************************************************************************)
EXTENDS Naturals

CONSTANTS CPU, Caller

VARIABLES
    active,      \* cpu_active_mask, which stays as it is (Hotplug changes it)
    cpus_ptr,    \* the mask of the target
    kind,        \* the target: a user task, a kernel thread, or one that has
                 \* PF_NO_SETAFFINITY
    cpuset,      \* CPUs of the target's cpuset
    applying,    \* a change of the cpuset is still to be applied to the task
    place,       \* each caller: its place
    in_mask,     \* each caller: its argument, until it has been used
    new_mask     \* each caller: the local of that name

affinityVars == <<active, cpus_ptr, kind, cpuset, applying, place, in_mask, new_mask>>

Mask == SUBSET CPU
Usable == {m \in Mask : m \cap active # {}}

kthread == kind # "user"
bound == kind = "bound"

AffinityInit ==
    /\ active \in (SUBSET CPU) \ {{}}
    /\ cpus_ptr = CPU /\ cpuset = CPU
    /\ kind \in {"user", "kthread"} /\ applying = FALSE
    /\ place = [c \in Caller |-> "idle"]
    /\ in_mask = [c \in Caller |-> {}]
    /\ new_mask = [c \in Caller |-> {}]

-----------------------------------------------------------------------------
(* The environment of the target. *)

\* A new set of CPUs is published.
UpdateCpuset(m) ==
    /\ ~kthread /\ ~applying
    /\ cpuset' = m
    /\ applying' = TRUE
    /\ UNCHANGED <<active, cpus_ptr, kind, place, in_mask, new_mask>>

\* It is applied by set_cpus_allowed_ptr(), which does not ask for the flag.
ApplyCpuset ==
    /\ applying
    /\ cpus_ptr' = cpuset
    /\ applying' = FALSE
    /\ UNCHANGED <<active, kind, cpuset, place, in_mask, new_mask>>

\* kthread_bind(): the mask and PF_NO_SETAFFINITY, under the pi_lock.
KthreadBind(m) ==
    /\ kthread /\ ~bound
    /\ cpus_ptr' = m
    /\ kind' = "bound"
    /\ UNCHANGED <<active, cpuset, applying, place, in_mask, new_mask>>

-----------------------------------------------------------------------------
(* sched_setaffinity(). *)

Goto(c, to) == place' = [place EXCEPT ![c] = to]

EndCall(c) ==
    /\ Goto(c, "idle")
    /\ in_mask' = [in_mask EXCEPT ![c] = {}]
    /\ new_mask' = [new_mask EXCEPT ![c] = {}]

Begin(c, m) ==
    /\ place[c] = "idle" /\ ~bound
    /\ in_mask' = [in_mask EXCEPT ![c] = m]
    /\ Goto(c, "read")
    /\ UNCHANGED <<active, cpus_ptr, kind, cpuset, applying, new_mask>>

\* No memory, no permission, or a deadline task that needs all CPUs.
Refuse(c) ==
    /\ place[c] = "read"
    /\ EndCall(c)
    /\ UNCHANGED <<active, cpus_ptr, kind, cpuset, applying>>

\* cpuset_cpus_allowed(p, cpus_allowed)
ReadCpuset(c) ==
    /\ place[c] = "read"
    /\ new_mask' = [new_mask EXCEPT ![c] = in_mask[c] \cap cpuset]
    /\ in_mask' = [in_mask EXCEPT ![c] = {}]
    /\ Goto(c, "set")
    /\ UNCHANGED <<active, cpus_ptr, kind, cpuset, applying>>

\* Mutant: the flag is not looked at under the lock.
FlagUnchecked(m) == m = cpus_ptr \/ m # {}

\* __set_cpus_allowed_ptr(p, m, true) succeeds; kernel threads need an online
\* CPU only, and all CPUs are online.
Settable(m) ==
    /\ ~bound
    /\ m = cpus_ptr \/ (IF kthread THEN m # {} ELSE m \in Usable)

\* The label again; "again" is the place of a caller that has come back to it.
SetMask(c) ==
    /\ place[c] \in {"set", "again"}
    /\ Settable(new_mask[c])
    /\ cpus_ptr' = new_mask[c]
    /\ Goto(c, "recheck")
    /\ UNCHANGED <<active, kind, cpuset, applying, in_mask, new_mask>>

SetMaskFails(c) ==
    /\ place[c] \in {"set", "again"}
    /\ ~Settable(new_mask[c])
    /\ EndCall(c)
    /\ UNCHANGED <<active, cpus_ptr, kind, cpuset, applying>>

\* Mutant: any CPU of the cpuset will do.
Overlaps(m) == m \cap cpuset # {}

WithinSet(m) == m \subseteq cpuset

RecheckDone(c) ==
    /\ place[c] = "recheck"
    /\ WithinSet(new_mask[c])
    /\ EndCall(c)
    /\ UNCHANGED <<active, cpus_ptr, kind, cpuset, applying>>

\* Mutant: the mask is tried once more as it is.
SameMask(c) == new_mask[c]

\* cpumask_copy(new_mask, cpus_allowed)
AgainMask(c) == cpuset

RecheckAgain(c) ==
    /\ place[c] = "recheck"
    /\ ~WithinSet(new_mask[c])
    /\ new_mask' = [new_mask EXCEPT ![c] = AgainMask(c)]
    /\ Goto(c, "again")
    /\ UNCHANGED <<active, cpus_ptr, kind, cpuset, applying, in_mask>>

CallerStep(c) ==
    \/ Refuse(c) \/ ReadCpuset(c) \/ SetMask(c) \/ SetMaskFails(c)
    \/ RecheckDone(c) \/ RecheckAgain(c)

AffinityNext ==
    \/ \E m \in Usable : UpdateCpuset(m) \/ KthreadBind(m)
    \/ ApplyCpuset
    \/ \E c \in Caller, m \in Mask : Begin(c, m)
    \/ \E c \in Caller : CallerStep(c)

AffinitySpec == AffinityInit /\ [][AffinityNext]_affinityVars

\* A caller that is in the system call gets on with it.
AffinityFairSpec == AffinitySpec /\ \A c \in Caller : WF_affinityVars(CallerStep(c))

-----------------------------------------------------------------------------
(* Properties. *)

AffinityTypeOK ==
    /\ active \in Mask \ {{}}
    /\ cpus_ptr \in Mask /\ cpuset \in Usable
    /\ kind \in {"user", "kthread", "bound"} /\ applying \in BOOLEAN
    /\ place \in [Caller -> {"idle", "read", "set", "recheck", "again"}]
    /\ in_mask \in [Caller -> Mask] /\ new_mask \in [Caller -> Mask]

Quiet == ~applying /\ \A c \in Caller : place[c] = "idle"

\* When no call and no change of the cpuset is in progress, the task is confined
\* to its cpuset, though calls and changes read and write both sides without a
\* common lock ("We must have raced with a concurrent cpuset update").
WithinCpuset == Quiet => cpus_ptr \subseteq cpuset

\* The task can always run on some CPU that is active, or, a kernel thread, on
\* some CPU (__set_cpus_allowed_ptr(), cpumask_any_and_distribute()).
CanRun == IF kthread THEN cpus_ptr # {} ELSE cpus_ptr \in Usable

\* Once kthread_bind() has bound the task, no call that began before it saw the
\* flag changes its mask ("to close a race against __kthread_bind()").
BoundStays == [][bound => cpus_ptr' = cpus_ptr]_affinityVars

\* A call returns once the cpuset no longer changes: two callers do not drive
\* each other round the loop.
CallsReturn ==
    <>[][FALSE]_cpuset => \A c \in Caller : []<>(place[c] = "idle")
=============================================================================
