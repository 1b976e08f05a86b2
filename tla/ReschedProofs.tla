--------------------------- MODULE ReschedProofs ---------------------------
(***************************************************************************)
(* That no request to a CPU gets lost between its idle loop and those who  *)
(* leave the interrupt out: for every set of senders and every choice of   *)
(* what they call.                                                         *)
(***************************************************************************)
EXTENDS Resched, TLAPS

Rc == {"rc_test", "rc_set", "rc_ipi"}

\* Where the CPU is: it polls at three places, takes the rq lock to switch, and runs
\* the idle task in the idle loop.  Senders in resched_curr() hold the lock.
CpuInv ==
    /\ cpc \in IdlePlaces => curr = "idle"
    /\ cpc = "run" => curr = "task"
    /\ polling => cpc \in {"poll", "clr", "exit"}
    /\ cpc = "switch" <=> rq_lock = "cpu"
    /\ \A s \in Sender : spc[s] \in Rc <=> rq_lock = s

\* The flag of a task that is not current is clear, as __schedule() clears it on the
\* way out; only the idle task's flag is set remotely while it is not current.
FlagInv == nr["task"] => curr = "task"

\* A sender whose interrupt is certain: one in wake_up_if_idle() that has read the
\* flags while the idle task did not poll, or has yet to read them.
Sends(s) ==
    \/ spc[s] \in {"rc_ipi", "wi_ipi", "cs_ipi", "ii_read", "ii_lock"}
    \/ spc[s] = "ii_cas" /\ ~val[s].polling

\* NoSleepOnRequest is not inductive: a sender that has read "polling" before the CPU
\* halted sends nothing, so it must not be the one that the request relies on.
SleepInv ==
    /\ kick => cpc = "halt"
    /\ cpc = "halt" /\ (nr["idle"] \/ kick) => ripi \/ cipi \/ \E s \in Sender : Sends(s)

\* The interrupt of whoever set the flag of a running task has not come yet, or it has
\* been folded into the preempt count.
FoldInv ==
    cpc = "run" /\ nr["task"] => fold \/ ripi \/ \E s \in Sender : spc[s] = "rc_ipi"

\* A request that has been made is in the flag of the current task, or its sender is
\* about to set it.
WantInv ==
    want => /\ cpc # "switch"
            /\ nr[curr] \/ \E s \in Sender : spc[s] \in {"rc_test", "rc_set"}

\* A sender of a call that has not left it to the idle task.
Calling(s) ==
    \/ spc[s] \in {"cs_read", "cs_ipi"}
    \/ spc[s] = "cs_cas" /\ ~(val[s].nr /\ val[s].polling)

\* The idle task has been told to leave its loop and has not flushed the call queue.
Leaving == nr["idle"] /\ cpc \in {"top", "poll", "clr", "test", "exit", "flush"}

\* A queued call has its interrupt pending, or a sender that will see to it, or the idle
\* task will.
CallInv == csd => cipi \/ Leaving \/ \E s \in Sender : Calling(s)

IInv == TypeOK /\ CpuInv /\ FlagInv /\ SleepInv /\ FoldInv /\ WantInv /\ CallInv

\* A request to reschedule is never forgotten: until __schedule() has picked a task,
\* the flag of the current task is set or a sender is about to set it, and if that
\* task is not the idle one, the CPU has been told or an interrupt is on its way
\* ("anybody setting TIF_NEED_RESCHED remotely (for the first time) will also send this
\* IPI", sched.h:1745).
RequestKept ==
    want => \/ SenderAt({"rc_test", "rc_set"})
            \/ nr[curr] /\ (cpc = "run" => fold \/ ripi \/ SenderAt({"rc_ipi"}))

\* Nor is a queued call: an interrupt for it is pending, a sender is still at work, or
\* the idle task is leaving its loop and has not yet flushed the queue (core.c:380).
CallKept ==
    csd => cipi \/ Leaving \/ SenderAt({"cs_read", "cs_cas", "cs_ipi"})

----------------------------------------------------------------------------
(* One lemma per action: the types and the place of the CPU, the request, the halt and *)
(* the call queue. *)

USE SenderAssumption
USE DEF flagVars, ipiVars, cpuVars, sndVars, histVars, Goto, Kind, IdlePlaces, Rc

\* One turn of the loop of set_nr_if_polling() keeps the types.
LEMMA SetNrIfPollingTypes ==
  ASSUME TypeOK, NEW s \in Sender, NEW yes, NEW no,
         {yes, no} \subseteq {"none", "cs_ipi", "ii_lock"}, SetNrIfPolling(s, yes, no)
  PROVE  /\ nr' \in [Kind -> BOOLEAN]
         /\ spc' \in [Sender -> {"none", "rc_test", "rc_set", "rc_ipi", "wi_ipi", "cs_read",
                                 "cs_cas", "cs_ipi", "ii_read", "ii_cas", "ii_lock"}]
         /\ val' \in [Sender -> [nr : BOOLEAN, polling : BOOLEAN]]
<1>1. nr' \in [Kind -> BOOLEAN]
  <2>1. nr' = nr \/ nr' = [nr EXCEPT !["idle"] = TRUE]
    BY DEF SetNrIfPolling
  <2> QED
    BY <2>1 DEF TypeOK
<1>2. spc' = [spc EXCEPT ![s] = yes] \/ spc' = [spc EXCEPT ![s] = no] \/ spc' = spc
  BY DEF SetNrIfPolling
<1>3. NoFlags \in [nr : BOOLEAN, polling : BOOLEAN] /\ IdleFlags \in [nr : BOOLEAN, polling : BOOLEAN]
  BY DEF TypeOK, NoFlags, IdleFlags
<1>4. \E f \in [nr : BOOLEAN, polling : BOOLEAN] : val' = [val EXCEPT ![s] = f]
  BY <1>3 DEF SetNrIfPolling
<1> QED
  BY <1>1, <1>2, <1>4 DEF TypeOK

\* A caller of resched_curr() takes the lock that no sender and no switch holds.
LEMMA ReschedCpuKeeps ==
  ASSUME IInv, NEW s \in Sender, ReschedCpu(s)
  PROVE  IInv'
<1> USE DEF IInv, TypeOK, CpuInv, ReschedCpu
<1>1. TypeOK' /\ CpuInv'
  OBVIOUS
<1>2. FlagInv' /\ FoldInv' /\ WantInv'
  BY DEF FlagInv, FoldInv, WantInv
<1>3. SleepInv'
  BY DEF SleepInv, Sends
<1>4. CallInv'
  BY DEF CallInv, Calling, Leaving
<1> QED
  BY <1>1, <1>2, <1>3, <1>4

\* The flag that is found set has been set by somebody who has told the CPU, or will.
LEMMA ReschedCurrTestKeeps ==
  ASSUME IInv, NEW s \in Sender, ReschedCurrTest(s)
  PROVE  IInv'
<1> USE DEF IInv, TypeOK, CpuInv, ReschedCurrTest, AlreadySet
<1>1. TypeOK' /\ CpuInv'
  OBVIOUS
<1>2. FlagInv' /\ FoldInv' /\ WantInv'
  BY DEF FlagInv, FoldInv, WantInv
<1>3. SleepInv'
  BY DEF SleepInv, Sends
<1>4. CallInv'
  BY DEF CallInv, Calling, Leaving
<1> QED
  BY <1>1, <1>2, <1>3, <1>4

\* The flag of the idle task is set without an interrupt only while it polls.
LEMMA ReschedCurrSetKeeps ==
  ASSUME IInv, NEW s \in Sender, ReschedCurrSet(s)
  PROVE  IInv'
<1> USE DEF IInv, TypeOK, CpuInv, ReschedCurrSet, NotPolling
<1>1. TypeOK' /\ CpuInv'
  OBVIOUS
<1>2. FlagInv' /\ FoldInv' /\ WantInv'
  BY DEF FlagInv, FoldInv, WantInv
<1>3. SleepInv'
  BY DEF SleepInv, Sends
<1>4. CallInv'
  BY DEF CallInv, Calling, Leaving
<1> QED
  BY <1>1, <1>2, <1>3, <1>4

\* The interrupt of resched_curr() is sent under the lock.
LEMMA ReschedCurrIpiKeeps ==
  ASSUME IInv, NEW s \in Sender, ReschedCurrIpi(s)
  PROVE  IInv'
<1> USE DEF IInv, TypeOK, CpuInv, ReschedCurrIpi
<1>1. TypeOK' /\ CpuInv'
  OBVIOUS
<1>2. FlagInv' /\ FoldInv' /\ WantInv'
  BY DEF FlagInv, FoldInv, WantInv
<1>3. SleepInv'
  BY DEF SleepInv, Sends
<1>4. CallInv'
  BY DEF CallInv, Calling, Leaving
<1> QED
  BY <1>1, <1>2, <1>3, <1>4

\* wake_up_idle_cpu() leaves the interrupt out only if the idle task polls.
LEMMA WakeUpIdleCpuKeeps ==
  ASSUME IInv, NEW s \in Sender, WakeUpIdleCpu(s)
  PROVE  IInv'
<1> USE DEF IInv, TypeOK, CpuInv, WakeUpIdleCpu, NotPolling
<1>1. TypeOK' /\ CpuInv'
  OBVIOUS
<1>2. FlagInv' /\ FoldInv' /\ WantInv'
  BY DEF FlagInv, FoldInv, WantInv
<1>3. SleepInv'
  BY DEF SleepInv, Sends
<1>4. CallInv'
  BY DEF CallInv, Calling, Leaving
<1> QED
  BY <1>1, <1>2, <1>3, <1>4

\* The interrupt of wake_up_idle_cpu() reaches a CPU that may have halted.
LEMMA WakeUpIdleIpiKeeps ==
  ASSUME IInv, NEW s \in Sender, WakeUpIdleIpi(s)
  PROVE  IInv'
<1> USE DEF IInv, TypeOK, CpuInv, WakeUpIdleIpi
<1>1. TypeOK' /\ CpuInv'
  OBVIOUS
<1>2. FlagInv' /\ FoldInv' /\ WantInv'
  BY DEF FlagInv, FoldInv, WantInv
<1>3. SleepInv'
  BY DEF SleepInv, Sends
<1>4. CallInv'
  BY DEF CallInv, Calling, Leaving
<1> QED
  BY <1>1, <1>2, <1>3, <1>4

\* Whoever finds the call queue not empty relies on the sender of the first entry.
LEMMA CallSingleQueueKeeps ==
  ASSUME IInv, NEW s \in Sender, CallSingleQueue(s)
  PROVE  IInv'
<1> USE DEF IInv, TypeOK, CpuInv, CallSingleQueue
<1>1. TypeOK' /\ CpuInv'
  OBVIOUS
<1>2. FlagInv' /\ FoldInv' /\ WantInv'
  BY DEF FlagInv, FoldInv, WantInv
<1>3. SleepInv'
  BY DEF SleepInv, Sends
<1>4. CallInv'
  BY DEF CallInv, Calling, Leaving
<1> QED
  BY <1>1, <1>2, <1>3, <1>4

\* wake_up_if_idle() has yet to read the flags.
LEMMA WakeUpIfIdleKeeps ==
  ASSUME IInv, NEW s \in Sender, WakeUpIfIdle(s)
  PROVE  IInv'
<1> USE DEF IInv, TypeOK, CpuInv, WakeUpIfIdle
<1>1. TypeOK' /\ CpuInv'
  OBVIOUS
<1>2. FlagInv' /\ FoldInv' /\ WantInv'
  BY DEF FlagInv, FoldInv, WantInv
<1>3. SleepInv'
  BY DEF SleepInv, Sends
<1>4. CallInv'
  BY DEF CallInv, Calling, Leaving
<1> QED
  BY <1>1, <1>2, <1>3, <1>4

\* Flags that say "polling" are read from a CPU that is not halted; if they say
\* "polling" and "need resched", the idle task is leaving its loop.
LEMMA ReadFlagsKeeps ==
  ASSUME IInv, NEW s \in Sender, ReadFlags(s)
  PROVE  IInv'
<1> USE DEF IInv, TypeOK, CpuInv, ReadFlags, IdleFlags
<1>1. TypeOK' /\ CpuInv'
  OBVIOUS
<1>2. FlagInv' /\ FoldInv' /\ WantInv'
  BY DEF FlagInv, FoldInv, WantInv
<1>3. SleepInv'
  BY DEF SleepInv, Sends
<1>4. CallInv'
  BY DEF CallInv, Calling, Leaving
<1> QED
  BY <1>1, <1>2, <1>3, <1>4

\* send_call_function_single_ipi(): if the flags were out of date the sender looks again,
\* otherwise the idle task polls and has the flag, or the interrupt is sent.
LEMMA SendCallFunctionSingleKeeps ==
  ASSUME IInv, NEW s \in Sender, SendCallFunctionSingle(s)
  PROVE  IInv'
<1> USE DEF IInv
<1>1. TypeOK' /\ CpuInv'
  <2>1. SetNrIfPolling(s, "none", "cs_ipi")
    BY DEF SendCallFunctionSingle
  <2>2. /\ nr' \in [Kind -> BOOLEAN]
        /\ spc' \in [Sender -> {"none", "rc_test", "rc_set", "rc_ipi", "wi_ipi", "cs_read",
                                "cs_cas", "cs_ipi", "ii_read", "ii_cas", "ii_lock"}]
        /\ val' \in [Sender -> [nr : BOOLEAN, polling : BOOLEAN]]
    BY <2>1, SetNrIfPollingTypes
  <2>3. TypeOK'
    BY <2>2 DEF TypeOK, SendCallFunctionSingle
  <2>4. CpuInv'
    BY DEF TypeOK, CpuInv, SendCallFunctionSingle, SetNrIfPolling
  <2> QED
    BY <2>3, <2>4
<1>2. FlagInv' /\ FoldInv' /\ WantInv'
  BY DEF TypeOK, CpuInv, FlagInv, FoldInv, WantInv, SendCallFunctionSingle, SetNrIfPolling,
     IdleFlags, NoFlags
<1>3. SleepInv'
  BY DEF TypeOK, CpuInv, SleepInv, Sends, SendCallFunctionSingle, SetNrIfPolling, IdleFlags,
     NoFlags
<1>4. CallInv'
  BY DEF TypeOK, CpuInv, CallInv, Calling, Leaving, SendCallFunctionSingle, SetNrIfPolling,
     IdleFlags, NoFlags
<1> QED
  BY <1>1, <1>2, <1>3, <1>4

\* The interrupt for the call queue is sent.
LEMMA CallFunctionIpiKeeps ==
  ASSUME IInv, NEW s \in Sender, CallFunctionIpi(s)
  PROVE  IInv'
<1> USE DEF IInv, TypeOK, CpuInv, CallFunctionIpi
<1>1. TypeOK' /\ CpuInv'
  OBVIOUS
<1>2. FlagInv' /\ FoldInv' /\ WantInv'
  BY DEF FlagInv, FoldInv, WantInv
<1>3. SleepInv'
  BY DEF SleepInv, Sends
<1>4. CallInv'
  BY DEF CallInv, Calling, Leaving
<1> QED
  BY <1>1, <1>2, <1>3, <1>4

\* The same for wake_up_if_idle(); what it read while the CPU polled is not relied on.
LEMMA WakeUpIfIdleSetKeeps ==
  ASSUME IInv, NEW s \in Sender, WakeUpIfIdleSet(s)
  PROVE  IInv'
<1> USE DEF IInv
<1>1. TypeOK' /\ CpuInv'
  <2>1. SetNrIfPolling(s, "none", "ii_lock")
    BY DEF WakeUpIfIdleSet
  <2>2. /\ nr' \in [Kind -> BOOLEAN]
        /\ spc' \in [Sender -> {"none", "rc_test", "rc_set", "rc_ipi", "wi_ipi", "cs_read",
                                "cs_cas", "cs_ipi", "ii_read", "ii_cas", "ii_lock"}]
        /\ val' \in [Sender -> [nr : BOOLEAN, polling : BOOLEAN]]
    BY <2>1, SetNrIfPollingTypes
  <2>3. TypeOK'
    BY <2>2 DEF TypeOK, WakeUpIfIdleSet
  <2>4. CpuInv'
    BY DEF TypeOK, CpuInv, WakeUpIfIdleSet, SetNrIfPolling
  <2> QED
    BY <2>3, <2>4
<1>2. FlagInv' /\ FoldInv' /\ WantInv'
  BY DEF TypeOK, CpuInv, FlagInv, FoldInv, WantInv, WakeUpIfIdleSet, SetNrIfPolling,
     IdleFlags, NoFlags
<1>3. SleepInv'
  BY DEF TypeOK, CpuInv, SleepInv, Sends, WakeUpIfIdleSet, SetNrIfPolling, IdleFlags,
     NoFlags
<1>4. CallInv'
  BY DEF TypeOK, CpuInv, CallInv, Calling, Leaving, WakeUpIfIdleSet, SetNrIfPolling,
     IdleFlags, NoFlags
<1> QED
  BY <1>1, <1>2, <1>3, <1>4

\* A CPU that is halted runs the idle task, so that the interrupt is sent.
LEMMA WakeUpIfIdleIpiKeeps ==
  ASSUME IInv, NEW s \in Sender, WakeUpIfIdleIpi(s)
  PROVE  IInv'
<1> USE DEF IInv, TypeOK, CpuInv, WakeUpIfIdleIpi
<1>1. TypeOK' /\ CpuInv'
  OBVIOUS
<1>2. FlagInv' /\ FoldInv' /\ WantInv'
  BY DEF FlagInv, FoldInv, WantInv
<1>3. SleepInv'
  BY DEF SleepInv, Sends
<1>4. CallInv'
  BY DEF CallInv, Calling, Leaving
<1> QED
  BY <1>1, <1>2, <1>3, <1>4

\* scheduler_ipi() folds the flag of the current task, and ends a halt.
LEMMA SchedulerIpiKeeps ==
  ASSUME IInv, SchedulerIpi
  PROVE  IInv'
<1> USE DEF IInv, TypeOK, CpuInv, SchedulerIpi, Interrupted, IrqsEnabled
<1>1. TypeOK' /\ CpuInv'
  OBVIOUS
<1>2. FlagInv' /\ FoldInv' /\ WantInv'
  BY DEF FlagInv, FoldInv, WantInv
<1>3. SleepInv'
  BY DEF SleepInv, Sends
<1>4. CallInv'
  BY DEF CallInv, Calling, Leaving
<1> QED
  BY <1>1, <1>2, <1>3, <1>4

\* The call-function interrupt empties the queue, and ends a halt.
LEMMA CallFunctionInterruptKeeps ==
  ASSUME IInv, CallFunctionInterrupt
  PROVE  IInv'
<1> USE DEF IInv, TypeOK, CpuInv, CallFunctionInterrupt, Interrupted, IrqsEnabled, SetNeedResched
<1>1. TypeOK' /\ CpuInv'
  <2>1. TypeOK'
    <3>1. CASE csd /\ SetNeedResched
      BY <3>1
    <3>2. CASE UNCHANGED <<nr, fold, want>>
      BY <3>2
    <3> QED
      BY <3>1, <3>2
  <2>2. CpuInv'
    OBVIOUS
  <2> QED
    BY ONLY <2>1, <2>2
<1>2. FlagInv' /\ FoldInv' /\ WantInv'
  BY DEF FlagInv, FoldInv, WantInv
<1>3. SleepInv'
  BY DEF SleepInv, Sends
<1>4. CallInv'
  BY DEF CallInv, Calling, Leaving
<1> QED
  BY <1>1, <1>2, <1>3, <1>4

\* The tick sets the flag and the fold together, and ends a halt.
LEMMA TickKeeps ==
  ASSUME IInv, Tick
  PROVE  IInv'
<1> USE DEF IInv, TypeOK, CpuInv, Tick, Interrupted, IrqsEnabled, SetNeedResched
<1>1. TypeOK' /\ CpuInv'
  OBVIOUS
<1>2. FlagInv' /\ FoldInv' /\ WantInv'
  BY DEF FlagInv, FoldInv, WantInv
<1>3. SleepInv'
  BY DEF SleepInv, Sends
<1>4. CallInv'
  BY DEF CallInv, Calling, Leaving
<1> QED
  BY <1>1, <1>2, <1>3, <1>4

\* Polling begins before the flag is looked at.
LEMMA IdleTopKeeps ==
  ASSUME IInv, IdleTop
  PROVE  IInv'
<1> USE DEF IInv, TypeOK, CpuInv, IdleTop
<1>1. TypeOK' /\ CpuInv'
  OBVIOUS
<1>2. FlagInv' /\ FoldInv' /\ WantInv'
  BY DEF FlagInv, FoldInv, WantInv
<1>3. SleepInv'
  BY DEF SleepInv, Sends
<1>4. CallInv'
  BY DEF CallInv, Calling, Leaving
<1> QED
  BY <1>1, <1>2, <1>3, <1>4

\* With the flag set the idle task leaves its loop, where it flushes the queue.
LEMMA IdlePollKeeps ==
  ASSUME IInv, IdlePoll
  PROVE  IInv'
<1> USE DEF IInv, TypeOK, CpuInv, IdlePoll
<1>1. TypeOK' /\ CpuInv'
  OBVIOUS
<1>2. FlagInv' /\ FoldInv' /\ WantInv'
  BY DEF FlagInv, FoldInv, WantInv
<1>3. SleepInv'
  BY DEF SleepInv, Sends
<1>4. CallInv'
  BY DEF CallInv, Calling, Leaving
<1> QED
  BY <1>1, <1>2, <1>3, <1>4

\* Polling ends before the flag is looked at again.
LEMMA IdleClrPollingKeeps ==
  ASSUME IInv, IdleClrPolling
  PROVE  IInv'
<1> USE DEF IInv, TypeOK, CpuInv, IdleClrPolling
<1>1. TypeOK' /\ CpuInv'
  OBVIOUS
<1>2. FlagInv' /\ FoldInv' /\ WantInv'
  BY DEF FlagInv, FoldInv, WantInv
<1>3. SleepInv'
  BY DEF SleepInv, Sends
<1>4. CallInv'
  BY DEF CallInv, Calling, Leaving
<1> QED
  BY <1>1, <1>2, <1>3, <1>4

\* The CPU halts only with the flag clear, and then nobody has left a kick.
LEMMA IdleTestKeeps ==
  ASSUME IInv, IdleTest
  PROVE  IInv'
<1> USE DEF IInv, TypeOK, CpuInv, IdleTest
<1>1. TypeOK' /\ CpuInv'
  OBVIOUS
<1>2. FlagInv' /\ FoldInv' /\ WantInv'
  BY DEF FlagInv, FoldInv, WantInv
<1>3. SleepInv'
  BY DEF SleepInv, Sends
<1>4. CallInv'
  BY DEF CallInv, Calling, Leaving
<1> QED
  BY <1>1, <1>2, <1>3, <1>4

\* Polling is over before the queue is flushed.
LEMMA IdleExitKeeps ==
  ASSUME IInv, IdleExit
  PROVE  IInv'
<1> USE DEF IInv, TypeOK, CpuInv, IdleExit
<1>1. TypeOK' /\ CpuInv'
  OBVIOUS
<1>2. FlagInv' /\ FoldInv' /\ WantInv'
  BY DEF FlagInv, FoldInv, WantInv
<1>3. SleepInv'
  BY DEF SleepInv, Sends
<1>4. CallInv'
  BY DEF CallInv, Calling, Leaving
<1> QED
  BY <1>1, <1>2, <1>3, <1>4

\* The queue is flushed.
LEMMA IdleFlushKeeps ==
  ASSUME IInv, IdleFlush
  PROVE  IInv'
<1> USE DEF IInv, TypeOK, CpuInv, IdleFlush, SetNeedResched
<1>1. TypeOK' /\ CpuInv'
  OBVIOUS
<1>2. FlagInv' /\ FoldInv' /\ WantInv'
  BY DEF FlagInv, FoldInv, WantInv
<1>3. SleepInv'
  BY DEF SleepInv, Sends
<1>4. CallInv'
  BY DEF CallInv, Calling, Leaving
<1> QED
  BY <1>1, <1>2, <1>3, <1>4

\* __schedule() takes the lock; the request is acted on.
LEMMA PickKeeps ==
  ASSUME IInv, cpc \in {"sched", "run"}, Pick
  PROVE  IInv'
<1> USE DEF IInv, TypeOK, CpuInv, Pick
<1>1. TypeOK' /\ CpuInv'
  OBVIOUS
<1>2. FlagInv' /\ FoldInv' /\ WantInv'
  BY DEF FlagInv, FoldInv, WantInv
<1>3. SleepInv'
  BY DEF SleepInv, Sends
<1>4. CallInv'
  BY DEF CallInv, Calling, Leaving
<1> QED
  BY <1>1, <1>2, <1>3, <1>4

\* __schedule() clears the flag of the task it leaves, under the lock.
LEMMA SwitchKeeps ==
  ASSUME IInv, Switch
  PROVE  IInv'
<1> USE DEF IInv, TypeOK, CpuInv, Switch, ClearedTask
<1>1. TypeOK' /\ CpuInv'
  OBVIOUS
<1>2. FlagInv' /\ FoldInv' /\ WantInv'
  BY DEF FlagInv, FoldInv, WantInv
<1>3. SleepInv'
  BY DEF SleepInv, Sends
<1>4. CallInv'
  BY DEF CallInv, Calling, Leaving
<1> QED
  BY <1>1, <1>2, <1>3, <1>4

\* schedule_idle() goes round again if the flag has been set meanwhile.
LEMMA IdleLoopKeeps ==
  ASSUME IInv, IdleLoop
  PROVE  IInv'
<1> USE DEF IInv, TypeOK, CpuInv, IdleLoop
<1>1. TypeOK' /\ CpuInv'
  OBVIOUS
<1>2. FlagInv' /\ FoldInv' /\ WantInv'
  BY DEF FlagInv, FoldInv, WantInv
<1>3. SleepInv'
  BY DEF SleepInv, Sends
<1>4. CallInv'
  BY DEF CallInv, Calling, Leaving
<1> QED
  BY <1>1, <1>2, <1>3, <1>4

----------------------------------------------------------------------------
(* The theorems. *)

\* Every step keeps the invariant.
LEMMA NextInv == IInv /\ [Next]_vars => IInv'
<1> SUFFICES ASSUME IInv, [Next]_vars
             PROVE  IInv'
  OBVIOUS
<1>1. ASSUME NEW s \in Sender, SenderStep(s)
      PROVE  IInv'
  BY <1>1, ReschedCurrTestKeeps, ReschedCurrSetKeeps, ReschedCurrIpiKeeps, WakeUpIdleIpiKeeps,
     ReadFlagsKeeps, SendCallFunctionSingleKeeps, CallFunctionIpiKeeps, WakeUpIfIdleSetKeeps,
     WakeUpIfIdleIpiKeeps DEF SenderStep
<1>2. ASSUME NEW s \in Sender, SenderCall(s)
      PROVE  IInv'
  BY <1>2, ReschedCpuKeeps, WakeUpIdleCpuKeeps, CallSingleQueueKeeps, WakeUpIfIdleKeeps
     DEF SenderCall
<1>3. CASE Interrupt \/ Tick
  BY <1>3, SchedulerIpiKeeps, CallFunctionInterruptKeeps, TickKeeps DEF Interrupt
<1>4. CASE IdleStep
  BY <1>4, IdleTopKeeps, IdlePollKeeps, IdleClrPollingKeeps, IdleTestKeeps, IdleExitKeeps,
     IdleFlushKeeps, PickKeeps, IdleLoopKeeps DEF IdleStep, IdleSchedule
<1>5. CASE Preempt \/ Block \/ Switch
  BY <1>5, PickKeeps, SwitchKeeps DEF Preempt, Block
<1>6. CASE UNCHANGED vars
  BY <1>6 DEF vars, IInv, TypeOK, CpuInv, FlagInv, SleepInv, FoldInv, WantInv, CallInv,
     Sends, Calling, Leaving
<1> QED
  BY <1>1, <1>2, <1>3, <1>4, <1>5, <1>6 DEF Next

\* The strengthened invariant holds in every reachable state: at every moment somebody
\* can be named on whom a request or a call relies (core.c:517-616, 2339-2366).
THEOREM ReschedInvariance == Spec => []IInv
<1>1. Init => IInv
  <2> SUFFICES ASSUME Init
               PROVE  IInv
    OBVIOUS
  <2>1. NoFlags \in [nr : BOOLEAN, polling : BOOLEAN]
    BY DEF NoFlags
  <2>2. TypeOK
    BY <2>1 DEF Init, TypeOK
  <2>3. CpuInv
    BY DEF Init, CpuInv
  <2> QED
    BY <2>2, <2>3 DEF Init, IInv, FlagInv, SleepInv, FoldInv, WantInv, CallInv
<1> QED
  BY <1>1, NextInv, PTL DEF Spec

\* A halted CPU is never left asleep with a request: whoever sends no interrupt, because
\* the flag is set or the idle task was seen polling, may rely on one that is on its way
\* (core.c:517, 605, 2339).
THEOREM NeverAsleep == Spec => []NoSleepOnRequest
<1>1. IInv => NoSleepOnRequest
  BY DEF IInv, SleepInv, Sends, NoSleepOnRequest, KickComing, SenderAt
<1> QED
  BY <1>1, ReschedInvariance, PTL

\* No request to reschedule is forgotten, the part of ReschedHonoured that does not
\* need fairness (sched.h:1745).
THEOREM RequestsKept == Spec => []RequestKept
<1>1. IInv => RequestKept
  BY DEF IInv, TypeOK, CpuInv, FoldInv, WantInv, RequestKept, SenderAt
<1> QED
  BY <1>1, ReschedInvariance, PTL

\* No queued call is forgotten, the part of CallsServed that does not need fairness
\* (core.c:380, 2339).
THEOREM CallsKept == Spec => []CallKept
<1>1. IInv => CallKept
  BY DEF IInv, CallInv, Calling, CallKept, SenderAt
<1> QED
  BY <1>1, ReschedInvariance, PTL

=============================================================================
