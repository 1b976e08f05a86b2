----------------------------- MODULE TickRemote -----------------------------
(***************************************************************************)
(* The remote scheduler tick of full-dynticks CPUs (core.c,                *)
(* sched_tick_remote(), sched_tick_start(), sched_tick_stop()).            *)
(*                                                                         *)
(* A delayed work per CPU ticks on its behalf and queues itself again.     *)
(* Taking the CPU down does not cancel the work, it only leaves word in    *)
(* tick_work.state; the CPU may be back before the work has seen it.  The  *)
(* work runs on other CPUs and interleaves with hotplug between its        *)
(* decision to queue itself again and doing so.                            *)
(***************************************************************************)
EXTENDS Naturals

CONSTANTS CPU,
          Housekeeping    \* CPUs that keep their own tick (HK_FLAG_TICK)

OFFLINE   == 0    \* TICK_SCHED_REMOTE_OFFLINE
OFFLINING == 1    \* TICK_SCHED_REMOTE_OFFLINING
RUNNING   == 2    \* TICK_SCHED_REMOTE_RUNNING

VARIABLES
    state,     \* tick_work.state of each CPU
    pending,   \* how often the work of each CPU is queued
    wpc,       \* where sched_tick_remote() is
    phase      \* hotplug phase of each CPU

vars == <<state, pending, wpc, phase>>

housekeeping_cpu(cpu) == cpu \in Housekeeping

Init ==
    /\ state = [cpu \in CPU |-> OFFLINE]
    /\ pending = [cpu \in CPU |-> 0]
    /\ wpc = [cpu \in CPU |-> "none"]
    /\ phase = [cpu \in CPU |-> "off"]

-----------------------------------------------------------------------------
(* sched_tick_remote(). *)

\* The workqueue runs the work; one that runs is not run a second time.
RunWork(cpu) ==
    /\ pending[cpu] > 0 /\ wpc[cpu] = "none"
    /\ pending' = [pending EXCEPT ![cpu] = @ - 1]
    /\ wpc' = [wpc EXCEPT ![cpu] = "tick"]
    /\ UNCHANGED <<state, phase>>

\* The tick of a CPU that has stopped its own and is online, in one section
\* under its rq lock.
Tick(cpu) ==
    /\ wpc[cpu] = "tick"
    /\ wpc' = [wpc EXCEPT ![cpu] = "state"]
    /\ UNCHANGED <<state, pending, phase>>

\* Mutant: OFFLINING is left to the next tick.
KeptState(os) == os

\* atomic_fetch_add_unless(&twork->state, -1, TICK_SCHED_REMOTE_RUNNING)
NextState(os) == IF os = RUNNING THEN os ELSE os - 1

UpdateState(cpu) ==
    /\ wpc[cpu] = "state"
    /\ state' = [state EXCEPT ![cpu] = NextState(@)]
    /\ wpc' = [wpc EXCEPT ![cpu] = IF state[cpu] = RUNNING THEN "requeue" ELSE "none"]
    /\ UNCHANGED <<pending, phase>>

\* queue_delayed_work() of a work that is queued does nothing.
Requeue(cpu) ==
    /\ wpc[cpu] = "requeue"
    /\ pending' = [pending EXCEPT ![cpu] = IF @ = 0 THEN 1 ELSE @]
    /\ wpc' = [wpc EXCEPT ![cpu] = "none"]
    /\ UNCHANGED <<state, phase>>

-----------------------------------------------------------------------------
(* Hotplug. *)

StartsWork(os) == os = OFFLINE

\* sched_cpu_starting(): sched_tick_start().  The work is initialised before it
\* is queued, which forgets that it is queued.
sched_tick_start(cpu) ==
    /\ phase[cpu] = "off"
    /\ phase' = [phase EXCEPT ![cpu] = "starting"]
    /\ IF housekeeping_cpu(cpu)
       THEN UNCHANGED <<state, pending>>
       ELSE /\ state' = [state EXCEPT ![cpu] = RUNNING]
            /\ pending' = [pending EXCEPT ![cpu] = IF StartsWork(state[cpu]) THEN @ + 1 ELSE @]
    /\ UNCHANGED wpc

Online(cpu) ==
    /\ phase[cpu] = "starting"
    /\ phase' = [phase EXCEPT ![cpu] = "on"]
    /\ UNCHANGED <<state, pending, wpc>>

Offline(cpu) ==
    /\ phase[cpu] = "on"
    /\ phase' = [phase EXCEPT ![cpu] = "dying"]
    /\ UNCHANGED <<state, pending, wpc>>

StopState == OFFLINING

\* sched_cpu_dying(): sched_tick_stop().
sched_tick_stop(cpu) ==
    /\ phase[cpu] = "dying"
    /\ phase' = [phase EXCEPT ![cpu] = "off"]
    /\ state' = [state EXCEPT ![cpu] = IF housekeeping_cpu(cpu) THEN @ ELSE StopState]
    /\ UNCHANGED <<pending, wpc>>

WorkStep(cpu) == RunWork(cpu) \/ Tick(cpu) \/ UpdateState(cpu) \/ Requeue(cpu)

HotplugStep(cpu) ==
    sched_tick_start(cpu) \/ Online(cpu) \/ Offline(cpu) \/ sched_tick_stop(cpu)

Next == \E cpu \in CPU : WorkStep(cpu) \/ HotplugStep(cpu)

Spec == Init /\ [][Next]_vars

-----------------------------------------------------------------------------
(* Properties. *)

TypeOK ==
    /\ state \in [CPU -> 0..2]
    /\ pending \in [CPU -> Nat]
    /\ wpc \in [CPU -> {"none", "tick", "state", "requeue"}]
    /\ phase \in [CPU -> {"off", "starting", "on", "dying"}]

\* The work of a CPU exists at most once, queued or running: sched_tick_start()
\* never initialises a work that is still in use by its predecessor.
OneWork ==
    \A cpu \in CPU : pending[cpu] <= 1 /\ (wpc[cpu] # "none" => pending[cpu] = 0)

\* None of the WARN_ON_ONCE() fires: the work never finds OFFLINE,
\* sched_tick_start() never RUNNING and sched_tick_stop() nothing but RUNNING.
WarnFree ==
    \A cpu \in CPU \ Housekeeping :
        /\ wpc[cpu] = "state" => state[cpu] # OFFLINE
        /\ phase[cpu] = "off" => state[cpu] # RUNNING
        /\ phase[cpu] = "dying" => state[cpu] = RUNNING

\* A full-dynticks CPU that is up has its work queued or running, however fast
\* it went down and came back (sched_tick_start() with OFFLINING).
TickCovered ==
    \A cpu \in CPU \ Housekeeping :
        phase[cpu] # "off" => pending[cpu] > 0 \/ wpc[cpu] # "none"

\* The state diagram of the comment before tick_work_cpu: every change of state
\* is one of its arrows.
Diagram ==
    [][\A cpu \in CPU : <<state[cpu], state'[cpu]>> \in
            {<<OFFLINE, OFFLINE>>, <<OFFLINING, OFFLINING>>, <<RUNNING, RUNNING>>,
             <<OFFLINE, RUNNING>>, <<RUNNING, OFFLINING>>,
             <<OFFLINING, RUNNING>>, <<OFFLINING, OFFLINE>>}]_vars

\* A full-dynticks CPU that stays up is ticked again and again, and the work of
\* one that stays down ends.
TickFollowsCpu ==
    \A cpu \in CPU \ Housekeeping :
        /\ <>[](phase[cpu] = "on") => []<>(wpc[cpu] = "tick")
        /\ <>[](phase[cpu] = "off") => <>[](pending[cpu] = 0 /\ wpc[cpu] = "none")
=============================================================================
