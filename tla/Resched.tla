------------------------------ MODULE Resched ------------------------------
(***************************************************************************)
(* How a CPU is asked to reschedule or to look at its call queue (core.c,  *)
(* set_nr_and_not_polling() to wake_up_if_idle()), against its idle loop.  *)
(*                                                                         *)
(* One CPU is the target, Sender is a set of contexts on other CPUs.  An   *)
(* interrupt is sent only if the target's idle task does not advertise     *)
(* that it polls TIF_NEED_RESCHED; a sender that finds the flag set, or    *)
(* the call queue not empty, sends nothing and relies on somebody else.    *)
(* The idle loop itself (kernel/sched/idle.c) and the call queue           *)
(* (kernel/smp.c) are outside the repository.                              *)
(***************************************************************************)
EXTENDS Integers, FiniteSets

CONSTANTS Sender,
          Calls      \* what senders do: "resched", "idle", "call", "if_idle"

ASSUME SenderAssumption == {"cpu", "none"} \cap Sender = {}

VARIABLES
    curr,       \* rq->curr: the idle task or some other
    nr,         \* TIF_NEED_RESCHED of the idle task and of the other one
    polling,    \* TIF_POLLING_NRFLAG of the idle task
    fold,       \* PREEMPT_NEED_RESCHED of the CPU
    ripi, cipi, \* pending reschedule and call-function interrupts
    csd,        \* the call queue is not empty
    rq_lock,
    cpc, nxt,   \* where the CPU is, and the task it picked
    spc, val,   \* where a sender is, and the flags it read
    want, kick  \* history: a request made under the lock, or to a halted CPU,
                \* that the CPU has not acted on

flagVars == <<nr, polling, fold>>
ipiVars == <<ripi, cipi, csd>>
cpuVars == <<curr, cpc, nxt>>
sndVars == <<spc, val>>
histVars == <<want, kick>>
vars == <<flagVars, ipiVars, rq_lock, cpuVars, sndVars, histVars>>

Kind == {"idle", "task"}
NoFlags == [nr |-> FALSE, polling |-> FALSE]
IdleFlags == [nr |-> nr["idle"], polling |-> polling]

Init ==
    /\ curr = "idle" /\ cpc = "top" /\ nxt = "idle"
    /\ nr = [k \in Kind |-> FALSE] /\ polling = FALSE /\ fold = FALSE
    /\ ripi = FALSE /\ cipi = FALSE /\ csd = FALSE
    /\ rq_lock = "none"
    /\ spc = [s \in Sender |-> "none"]
    /\ val = [s \in Sender |-> NoFlags]
    /\ want = FALSE /\ kick = FALSE

Goto(s, l) == spc' = [spc EXCEPT ![s] = l]

\* The CPU takes interrupts except from the idle loop's test until it halts,
\* and inside __schedule(); one that arrives while it is halted ends the halt.
IrqsEnabled == cpc \notin {"clr", "test", "switch"}
Interrupted ==
    /\ cpc' = IF cpc = "halt" THEN "top" ELSE cpc
    /\ kick' = (kick /\ cpc # "halt")
    /\ UNCHANGED <<curr, nxt>>

----------------------------------------------------------------------------
(* Senders. *)

\* A caller of resched_curr() has changed the runqueue under its lock.
ReschedCpu(s) ==
    /\ spc[s] = "none" /\ rq_lock = "none"
    /\ rq_lock' = s
    /\ want' = TRUE
    /\ Goto(s, "rc_test")
    /\ UNCHANGED <<flagVars, ipiVars, cpuVars, val, kick>>

\* test_tsk_need_resched(curr)
AlreadySet == nr[curr]

ReschedCurrTest(s) ==
    /\ spc[s] = "rc_test"
    /\ IF AlreadySet
       THEN Goto(s, "none") /\ rq_lock' = "none"
       ELSE Goto(s, "rc_set") /\ UNCHANGED rq_lock
    /\ UNCHANGED <<flagVars, ipiVars, cpuVars, val, histVars>>

\* Mutant: an idle task is taken to poll.
IdleAlwaysPolls(k) == k # "idle"

\* set_nr_and_not_polling() on the task of kind k: is an interrupt needed?
NotPolling(k) == ~(k = "idle" /\ polling)

ReschedCurrSet(s) ==
    /\ spc[s] = "rc_set"
    /\ nr' = [nr EXCEPT ![curr] = TRUE]
    /\ IF NotPolling(curr)
       THEN Goto(s, "rc_ipi") /\ UNCHANGED rq_lock
       ELSE Goto(s, "none") /\ rq_lock' = "none"
    /\ UNCHANGED <<polling, fold, ipiVars, cpuVars, val, histVars>>

ReschedCurrIpi(s) ==
    /\ spc[s] = "rc_ipi"
    /\ ripi' = TRUE
    /\ rq_lock' = "none"
    /\ Goto(s, "none")
    /\ UNCHANGED <<flagVars, cipi, csd, cpuVars, val, histVars>>

\* wake_up_idle_cpu() holds no lock: the idle task need not be current.
WakeUpIdleCpu(s) ==
    /\ spc[s] = "none"
    /\ nr' = [nr EXCEPT !["idle"] = TRUE]
    /\ Goto(s, IF NotPolling("idle") THEN "wi_ipi" ELSE "none")
    /\ kick' = (kick \/ cpc = "halt")
    /\ UNCHANGED <<polling, fold, ipiVars, rq_lock, cpuVars, val, want>>

WakeUpIdleIpi(s) ==
    /\ spc[s] = "wi_ipi"
    /\ ripi' = TRUE
    /\ Goto(s, "none")
    /\ UNCHANGED <<flagVars, cipi, csd, rq_lock, cpuVars, val, histVars>>

\* __smp_call_single_queue(): only the first entry calls
\* send_call_function_single_ipi().
CallSingleQueue(s) ==
    /\ spc[s] = "none"
    /\ csd' = TRUE
    /\ Goto(s, IF csd THEN "none" ELSE "cs_read")
    /\ UNCHANGED <<flagVars, ripi, cipi, rq_lock, cpuVars, val, histVars>>

WakeUpIfIdle(s) ==
    /\ spc[s] = "none" /\ curr = "idle"
    /\ Goto(s, "ii_read")
    /\ kick' = (kick \/ cpc = "halt")
    /\ UNCHANGED <<flagVars, ipiVars, rq_lock, cpuVars, val, want>>

\* val = READ_ONCE(ti->flags)
ReadFlags(s) ==
    /\ \/ spc[s] = "cs_read" /\ Goto(s, "cs_cas")
       \/ spc[s] = "ii_read" /\ Goto(s, "ii_cas")
    /\ val' = [val EXCEPT ![s] = IdleFlags]
    /\ UNCHANGED <<flagVars, ipiVars, rq_lock, cpuVars, histVars>>

\* One turn of the loop of set_nr_if_polling(rq->idle).
SetNrIfPolling(s, yes, no) ==
    IF ~val[s].polling
    THEN Goto(s, no) /\ val' = [val EXCEPT ![s] = NoFlags] /\ UNCHANGED nr
    ELSE IF val[s].nr
    THEN Goto(s, yes) /\ val' = [val EXCEPT ![s] = NoFlags] /\ UNCHANGED nr
    ELSE IF val[s] = IdleFlags
    THEN /\ nr' = [nr EXCEPT !["idle"] = TRUE]
         /\ Goto(s, yes) /\ val' = [val EXCEPT ![s] = NoFlags]
    ELSE val' = [val EXCEPT ![s] = IdleFlags] /\ UNCHANGED <<nr, spc>>

\* Mutant: the interrupt is sent if the idle task polls.
NegationDropped(s) ==
    /\ spc[s] = "cs_cas"
    /\ SetNrIfPolling(s, "cs_ipi", "none")
    /\ UNCHANGED <<polling, fold, ipiVars, rq_lock, cpuVars, histVars>>

SendCallFunctionSingle(s) ==
    /\ spc[s] = "cs_cas"
    /\ SetNrIfPolling(s, "none", "cs_ipi")
    /\ UNCHANGED <<polling, fold, ipiVars, rq_lock, cpuVars, histVars>>

CallFunctionIpi(s) ==
    /\ spc[s] = "cs_ipi"
    /\ cipi' = TRUE
    /\ Goto(s, "none")
    /\ UNCHANGED <<flagVars, ripi, csd, rq_lock, cpuVars, val, histVars>>

WakeUpIfIdleSet(s) ==
    /\ spc[s] = "ii_cas"
    /\ SetNrIfPolling(s, "none", "ii_lock")
    /\ UNCHANGED <<polling, fold, ipiVars, rq_lock, cpuVars, histVars>>

\* Mutant: the second look at rq->curr is the wrong way round.
KickBusy(s) ==
    /\ spc[s] = "ii_lock" /\ rq_lock = "none"
    /\ ripi' = (ripi \/ curr # "idle")
    /\ Goto(s, "none")
    /\ UNCHANGED <<flagVars, cipi, csd, rq_lock, cpuVars, val, histVars>>

\* The second look at rq->curr, under the lock.
WakeUpIfIdleIpi(s) ==
    /\ spc[s] = "ii_lock" /\ rq_lock = "none"
    /\ ripi' = (ripi \/ curr = "idle")
    /\ Goto(s, "none")
    /\ UNCHANGED <<flagVars, cipi, csd, rq_lock, cpuVars, val, histVars>>

----------------------------------------------------------------------------
(* The target CPU: interrupts. *)

\* scheduler_ipi(): preempt_fold_need_resched()
SchedulerIpi ==
    /\ ripi /\ IrqsEnabled
    /\ ripi' = FALSE
    /\ fold' = (fold \/ nr[curr])
    /\ Interrupted
    /\ UNCHANGED <<nr, polling, cipi, csd, rq_lock, sndVars, want>>

\* resched_curr() of the CPU's own rq, in an interrupt.
SetNeedResched ==
    /\ nr' = [nr EXCEPT ![curr] = TRUE]
    /\ fold' = TRUE
    /\ want' = TRUE

\* The call-function interrupt: sched_ttwu_pending() activates the queued
\* tasks, which preempt the idle task and may preempt another.
CallFunctionInterrupt ==
    /\ cipi /\ IrqsEnabled /\ rq_lock = "none"
    /\ cipi' = FALSE
    /\ csd' = FALSE
    /\ \/ csd /\ SetNeedResched
       \/ (~csd \/ curr # "idle") /\ UNCHANGED <<nr, fold, want>>
    /\ Interrupted
    /\ UNCHANGED <<polling, ripi, rq_lock, sndVars>>

\* The tick.
Tick ==
    /\ IrqsEnabled /\ rq_lock = "none"
    /\ SetNeedResched
    /\ Interrupted
    /\ UNCHANGED <<polling, ipiVars, rq_lock, sndVars>>

----------------------------------------------------------------------------
(* The target CPU: do_idle() and __schedule(). *)

IdleTop ==
    /\ cpc = "top"
    /\ polling' = TRUE
    /\ cpc' = "poll"
    /\ UNCHANGED <<nr, fold, ipiVars, rq_lock, curr, nxt, sndVars, histVars>>

IdlePoll ==
    /\ cpc = "poll"
    /\ cpc' = IF nr["idle"] THEN "exit" ELSE "clr"
    /\ UNCHANGED <<flagVars, ipiVars, rq_lock, curr, nxt, sndVars, histVars>>

\* current_clr_polling_and_test(), with interrupts off; then sti; hlt.
IdleClrPolling ==
    /\ cpc = "clr"
    /\ polling' = FALSE
    /\ cpc' = "test"
    /\ UNCHANGED <<nr, fold, ipiVars, rq_lock, curr, nxt, sndVars, histVars>>

IdleTest ==
    /\ cpc = "test"
    /\ cpc' = IF nr["idle"] THEN "top" ELSE "halt"
    /\ UNCHANGED <<flagVars, ipiVars, rq_lock, curr, nxt, sndVars, histVars>>

\* The end of do_idle(): polling is over before the call queue is flushed.
IdleExit ==
    /\ cpc = "exit"
    /\ polling' = FALSE
    /\ fold' = TRUE
    /\ cpc' = "flush"
    /\ UNCHANGED <<nr, ipiVars, rq_lock, curr, nxt, sndVars, histVars>>

IdleFlush ==
    /\ cpc = "flush" /\ rq_lock = "none"
    /\ csd' = FALSE
    /\ cpc' = "sched"
    /\ IF csd THEN SetNeedResched ELSE UNCHANGED <<nr, fold, want>>
    /\ UNCHANGED <<polling, ripi, cipi, rq_lock, curr, nxt, sndVars, kick>>

\* __schedule() takes the rq lock and picks a task.
Pick ==
    /\ rq_lock = "none"
    /\ rq_lock' = "cpu"
    /\ nxt' \in Kind
    /\ want' = FALSE
    /\ cpc' = "switch"
    /\ UNCHANGED <<flagVars, ipiVars, curr, sndVars, kick>>

IdleSchedule == cpc = "sched" /\ Pick
Preempt == cpc = "run" /\ fold /\ Pick
Block == cpc = "run" /\ Pick

\* clear_tsk_need_resched(prev)
ClearedTask == curr

Switch ==
    /\ cpc = "switch"
    /\ nr' = [nr EXCEPT ![ClearedTask] = FALSE]
    /\ fold' = FALSE
    /\ curr' = nxt
    /\ nxt' = "idle"
    /\ rq_lock' = "none"
    /\ cpc' = IF nxt = "idle" THEN "loop" ELSE "run"
    /\ UNCHANGED <<polling, ipiVars, sndVars, histVars>>

\* schedule_idle(): while (need_resched())
IdleLoop ==
    /\ cpc = "loop"
    /\ cpc' = IF nr["idle"] THEN "sched" ELSE "top"
    /\ UNCHANGED <<flagVars, ipiVars, rq_lock, curr, nxt, sndVars, histVars>>

----------------------------------------------------------------------------

SenderStep(s) ==
    \/ ReschedCurrTest(s) \/ ReschedCurrSet(s) \/ ReschedCurrIpi(s)
    \/ WakeUpIdleIpi(s) \/ ReadFlags(s) \/ SendCallFunctionSingle(s)
    \/ CallFunctionIpi(s) \/ WakeUpIfIdleSet(s) \/ WakeUpIfIdleIpi(s)

SenderCall(s) ==
    \/ "resched" \in Calls /\ ReschedCpu(s)
    \/ "idle" \in Calls /\ WakeUpIdleCpu(s)
    \/ "call" \in Calls /\ CallSingleQueue(s)
    \/ "if_idle" \in Calls /\ WakeUpIfIdle(s)

Interrupt == SchedulerIpi \/ CallFunctionInterrupt
IdleStep ==
    \/ IdleTop \/ IdlePoll \/ IdleClrPolling \/ IdleTest \/ IdleExit
    \/ IdleFlush \/ IdleSchedule \/ IdleLoop

Next ==
    \/ \E s \in Sender : SenderStep(s) \/ SenderCall(s)
    \/ Interrupt \/ Tick \/ IdleStep \/ Preempt \/ Block \/ Switch

Spec == Init /\ [][Next]_vars

\* The CPU goes on, serves its interrupts and preempts when told to; senders
\* finish their calls.  Locks are queued.  There need be no tick, no further
\* sender, and no task need ever block.
FairSpec ==
    /\ Spec
    /\ WF_vars(Switch) /\ SF_vars(SchedulerIpi) /\ SF_vars(CallFunctionInterrupt)
    /\ SF_vars(IdleStep) /\ SF_vars(Preempt)
    /\ \A s \in Sender : SF_vars(SenderStep(s))

----------------------------------------------------------------------------
(* Properties. *)

IdlePlaces == {"top", "poll", "clr", "test", "halt", "exit", "flush", "sched", "loop"}

TypeOK ==
    /\ curr \in Kind /\ nxt \in Kind
    /\ nr \in [Kind -> BOOLEAN]
    /\ {polling, fold, ripi, cipi, csd, want, kick} \subseteq BOOLEAN
    /\ rq_lock \in Sender \cup {"cpu", "none"}
    /\ cpc \in IdlePlaces \cup {"run", "switch"}
    /\ spc \in [Sender -> {"none", "rc_test", "rc_set", "rc_ipi", "wi_ipi", "cs_read",
                           "cs_cas", "cs_ipi", "ii_read", "ii_cas", "ii_lock"}]
    /\ val \in [Sender -> [nr : BOOLEAN, polling : BOOLEAN]]

SenderAt(places) == \E s \in Sender : spc[s] \in places

\* A reschedule interrupt is pending or a sender is about to send it.
KickComing ==
    ripi \/ cipi \/ SenderAt({"rc_ipi", "wi_ipi", "cs_ipi", "ii_read", "ii_cas", "ii_lock"})

\* A halted CPU is not left asleep with a request: whoever finds the flag set
\* and sends nothing, or asks for the idle task to be woken, may rely on an
\* interrupt that is on its way (core.c:517, 605, 2339).
NoSleepOnRequest == cpc = "halt" /\ (nr["idle"] \/ kick) => KickComing

\* A request to reschedule is acted on without a tick to help: a sender that finds the
\* flag set may leave it to whoever set it ("anybody setting TIF_NEED_RESCHED remotely
\* (for the first time) will also send this IPI", sched.h:1745).
ReschedHonoured == want ~> ~want

\* So is a queued call: an idle task that was seen polling serves it on its way out
\* ("the idle task promises to call sched_ttwu_pending() and reschedule soon",
\* core.c:380).
CallsServed == csd ~> ~csd
=============================================================================
