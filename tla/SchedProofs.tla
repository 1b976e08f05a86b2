---------------------------- MODULE SchedProofs ----------------------------
(***************************************************************************)
(* IndInv is an inductive invariant of Sched, for any set of CPUs and      *)
(* tasks, any cache topology and any width of the counters, and the safety *)
(* properties it implies.  One lemma per action shows that the action      *)
(* preserves every conjunct; an action with alternatives is split by CASE. *)
(***************************************************************************)
EXTENDS SchedInv, FiniteSetTheorems, SequenceTheorems, TLAPS

USE CpuAssumption, TaskAssumption, ProgramAssumption
USE DEF taskVars, lockVars, rqVars, loadVars, ioVars, cntVars, listVars, progVars,
        evtVars, ctlVars
USE DEF Idle, Stopper, None, TASK_ON_RQ_QUEUED, TASK_ON_RQ_MIGRATING, TtwuPc, SwitchPc,
        StopPc, SleepMask, SchedState, set_task_cpu,
        IrqsEnabled, ttwu_queue_wakelist
USE DEF IndInv, TypeOK

(***************************************************************************)
(* Counters, and the stopper's work list.                                  *)
(***************************************************************************)

\* A remainder is within the width: the unsigned counters wrap, they do not
\* leave their range.
LEMMA ModRange == \A a \in Int, b \in Nat \ {0} : a % b \in 0 .. (b - 1)
OBVIOUS

\* Sets of tasks are finite, so they can be counted.
LEMMA SubsetCardinality == \A S \in SUBSET Task : Cardinality(S) \in Nat
BY FS_Subset, FS_CardinalityType

\* Incrementing a counter, as __schedule() does, keeps it in its width.
LEMMA BumpType ==
  ASSUME NEW m \in Nat \ {0}, NEW f \in [Task -> 0 .. m - 1], NEW x
  PROVE  Bump(f, x, m) \in [Task -> 0 .. m - 1]
<1>1. CASE x \in Task
  <2>1. f[x] + 1 \in Int
    BY <1>1
  <2>2. (f[x] + 1) % m \in 0 .. m - 1
    BY <2>1, ModRange
  <2> QED BY <1>1, <2>2 DEF Bump
<1>2. CASE x \notin Task
  BY <1>2 DEF Bump
<1> QED BY <1>1, <1>2

\* ttwu_do_activate() keeps nr_uninterruptible in its width.
LEMMA ActivateLoad ==
  ASSUME nr_uninterruptible \in [Cpu -> 0 .. LoadMod - 1],
         NEW c \in Cpu, NEW S \in SUBSET Task, ttwu_do_activate(c, S)
  PROVE  nr_uninterruptible' \in [Cpu -> 0 .. LoadMod - 1]
<1> DEFINE n == Cardinality(Contributors(S))
<1>1. n \in Nat
  <2>1. Contributors(S) \in SUBSET Task
    BY DEF Contributors
  <2> QED BY <2>1, SubsetCardinality
<1>2. (nr_uninterruptible[c] - n) % LoadMod \in 0 .. LoadMod - 1
  <2>1. nr_uninterruptible[c] \in 0 .. LoadMod - 1
    OBVIOUS
  <2>2. nr_uninterruptible[c] - n \in Int
    <3> HIDE DEF n
    <3> QED BY <1>1, <2>1
  <2> QED BY <2>2, ModRange, WidthAssumption
<1>3. nr_uninterruptible'
        = [nr_uninterruptible EXCEPT ![c] = (nr_uninterruptible[c] - n) % LoadMod]
  BY DEF ttwu_do_activate
<1> HIDE DEF n
<1> QED BY <1>2, <1>3

\* An item of a stopper's work list.
Work == [task : Task, dest : Cpu, caller : Task]

\* Appending work keeps what was there.
LEMMA AppendWork ==
  ASSUME NEW s \in Seq(Work), NEW e \in Work
  PROVE  /\ Append(s, e) \in Seq(Work) /\ Append(s, e) # <<>>
         /\ \A i \in DOMAIN Append(s, e) :
               Append(s, e)[i] = e \/ (i \in DOMAIN s /\ Append(s, e)[i] = s[i])
<1>1. Append(s, e) \in Seq(Work) /\ Append(s, e) # <<>>
  BY AppendProperties
<1>2. \A i \in DOMAIN Append(s, e) :
        Append(s, e)[i] = e \/ (i \in DOMAIN s /\ Append(s, e)[i] = s[i])
  BY AppendProperties, LenProperties
<1> QED BY <1>1, <1>2

\* The first item, and that the others stay.
LEMMA HeadWork ==
  ASSUME NEW s \in Seq(Work), s # <<>>
  PROVE  /\ Head(s) \in Work /\ Tail(s) \in Seq(Work)
         /\ 1 \in DOMAIN s /\ Head(s) = s[1]
         /\ \A i \in DOMAIN Tail(s) : \E j \in DOMAIN s : Tail(s)[i] = s[j]
<1>1. Head(s) \in Work /\ Tail(s) \in Seq(Work) /\ 1 \in DOMAIN s /\ Head(s) = s[1]
  BY HeadTailProperties, EmptySeq, LenProperties
<1>2. ASSUME NEW i \in DOMAIN Tail(s) PROVE \E j \in DOMAIN s : Tail(s)[i] = s[j]
  <2>1. i + 1 \in DOMAIN s /\ Tail(s)[i] = s[i + 1]
    BY <1>1, HeadTailProperties, LenProperties
  <2> QED BY <2>1
<1> QED BY <1>1, <1>2

\* Whoever waits for a stopper is a task that has been started.
LEMMA StopCaller ==
  ASSUME IndInv, NEW d \in Cpu, NEW i \in DOMAIN stopq[d]
  PROVE  stopq[d][i].caller \in Task /\ tpc[stopq[d][i].caller] \notin {"free", "new"}
<1>1. stopq[d] \in Seq(Work)
  BY DEF ProgType, Work
<1>2. stopq[d][i] \in Work
  BY <1>1, ElementOfSeq, LenProperties
<1>3. tpc[stopq[d][i].caller] \notin {"free", "new"}
  BY DEF ProgInv
<1> QED
  BY <1>2, <1>3 DEF Work

\* What is known of the head of a work list that is not empty.
StopFacts(c) ==
    /\ Head(stopq[c]) \in Work /\ Tail(stopq[c]) \in Seq(Work)
    /\ tpc[Head(stopq[c]).caller] \notin {"free", "new"}
    /\ \A i \in DOMAIN Tail(stopq[c]) :
          \E j \in DOMAIN stopq[c] : Tail(stopq[c])[i] = stopq[c][j]

\* The stopper finds work where migration_cpu_stop() expects it.
LEMMA StopWork ==
  ASSUME IndInv, NEW c \in Cpu,
         pc[c] \in StopPc \/ (pc[c] = "move" /\ curr[c] = Stopper)
  PROVE  StopFacts(c)
<1>1. stopq[c] \in Seq(Work) /\ stopq[c] # <<>>
  BY DEF LocalsInv, ProgType, Work
<1>2. /\ Head(stopq[c]) \in Work /\ Tail(stopq[c]) \in Seq(Work)
      /\ 1 \in DOMAIN stopq[c] /\ Head(stopq[c]) = stopq[c][1]
      /\ \A i \in DOMAIN Tail(stopq[c]) :
            \E j \in DOMAIN stopq[c] : Tail(stopq[c])[i] = stopq[c][j]
  BY <1>1, HeadWork
<1>3. tpc[Head(stopq[c]).caller] \notin {"free", "new"}
  BY <1>2 DEF ProgInv
<1> QED
  BY <1>2, <1>3 DEF StopFacts

(***************************************************************************)
(* A task that is current, and a task in the hands of a waker or a mover.  *)
(***************************************************************************)

CurrentFacts(c, t) ==
    /\ on_rq[t] = TASK_ON_RQ_QUEUED /\ on_cpu[t] /\ cpu[t] = c
    /\ tpc[t] \notin {"free", "new"}
    /\ state[t] \notin {"WAKING", "NEW"}
    /\ \A d \in Cpu : t \notin wakelist[d] \cup pending[d]
    /\ \A d \in Cpu : pc[d] \in TtwuPc \ {"ttwu_on_rq", "ttwu_remote"} => tgt[d] # t

\* The current task of a running CPU is queued there, so no wakeup of it has
\* got beyond the first look at on_rq.
LEMMA CurrentTask ==
  ASSUME IndInv, NEW c \in Cpu, NEW t \in Task, Running(c, t)
  PROVE  CurrentFacts(c, t)
<1>1. on_rq[t] = TASK_ON_RQ_QUEUED /\ on_cpu[t] /\ cpu[t] = c
  BY DEF ExecInv, Executes, Running, task_on_rq_queued
<1>2. state[t] \notin {"WAKING", "NEW"}
  BY <1>1 DEF QueueInv
<1>3. tpc[t] \notin {"free", "new"}
  BY <1>1 DEF ProgInv
<1>4. \A d \in Cpu : t \notin wakelist[d] \cup pending[d]
  BY <1>1 DEF ListInv
<1>5. \A d \in Cpu : pc[d] \in TtwuPc \ {"ttwu_on_rq", "ttwu_remote"} => tgt[d] # t
  BY <1>1 DEF WakerInv
<1> QED
  BY <1>1, <1>2, <1>3, <1>4, <1>5 DEF CurrentFacts

\* A task being woken or moved has been started.
LEMMA TargetStarted ==
  ASSUME IndInv, NEW c \in Cpu, pc[c] \in TtwuPc \cup {"move", "attach"}
  PROVE  tgt[c] \in Task /\ tpc[tgt[c]] \notin {"free", "new"}
<1>1. tgt[c] \in Task
  BY DEF LocalsInv
<1>2. CASE pc[c] \in {"move", "attach"}
  BY <1>1, <1>2 DEF ProgInv, QueueInv, task_on_rq_migrating
<1>3. CASE pc[c] \in TtwuPc
  BY <1>1, <1>3 DEF ProgInv, WakerInv
<1> QED
  BY <1>1, <1>2, <1>3

(***************************************************************************)
(* Every action preserves IndInv.                                          *)
(***************************************************************************)

\* set_current_state() changes the state of a task that is current, hence
\* queued and in no waker's hands beyond the first look.
LEMMA SetCurrentStateInv ==
  ASSUME IndInv, NEW c \in Cpu, NEW t \in Task, NEW s \in SleepStates,
         SetCurrentState(c, t, s)
  PROVE  IndInv'
<1> USE DEF SetCurrentState, AtWork, Running
<1>a. CurrentFacts(c, t)
  BY CurrentTask
<1> USE DEF CurrentFacts
<1>1. TaskType'  BY <1>a DEF TaskType
<1>2. RqType'  BY <1>a DEF RqType, TaskType, CtlType
<1>3. AccountType'  BY <1>a DEF AccountType, CtlType
<1>4. ProgType'  BY <1>a DEF ProgType
<1>5. CtlType'  BY <1>a DEF CtlType
<1>6. LocalsInv'  BY <1>a DEF LocalsInv, CtlType
<1>7. ProgInv'  BY <1>a DEF ProgInv, ProgType
<1>8. LockInv'  BY <1>a DEF LockInv, TaskType, CtlType, LocalsInv
<1>9. WakerInv'  BY <1>a DEF WakerInv, CtlType, LocalsInv, TaskType
<1>10. ListInv'  BY <1>a DEF ListInv, RqType, TaskType
<1>11. QueueInv'
  BY <1>a DEF QueueInv, RunqueueConsistent, task_on_rq_queued, task_on_rq_migrating,
      TaskType, RqType, CtlType, LocalsInv
<1>12. ExecInv'
  BY <1>a DEF ExecInv, Executes, task_on_rq_queued, TaskType, RqType, CtlType, LocalsInv
<1> QED
  BY <1>1, <1>2, <1>3, <1>4, <1>5, <1>6, <1>7, <1>8, <1>9, <1>10, <1>11, <1>12

\* Leaving the wait loop: the store of TASK_RUNNING is to a queued task.
LEMMA ConditionTrueInv ==
  ASSUME IndInv, NEW c \in Cpu, NEW t \in Task,
         ConditionTrue(c, t)
  PROVE  IndInv'
<1> USE DEF ConditionTrue, Running
<1>a. CurrentFacts(c, t)
  BY CurrentTask
<1> USE DEF CurrentFacts
<1>1. TaskType'  BY <1>a DEF TaskType
<1>2. RqType'  BY <1>a DEF RqType, TaskType, CtlType
<1>3. AccountType'  BY <1>a DEF AccountType
<1>4. ProgType'  BY <1>a DEF ProgType
<1>5. CtlType'  BY <1>a DEF CtlType
<1>6. LocalsInv'  BY <1>a DEF LocalsInv, CtlType
<1>7. ProgInv'  BY <1>a DEF ProgInv, ProgType
<1>8. LockInv'  BY <1>a DEF LockInv, TaskType, CtlType, LocalsInv
<1>9. WakerInv'  BY <1>a DEF WakerInv, CtlType, LocalsInv, TaskType
<1>10. ListInv'  BY <1>a DEF ListInv, RqType, TaskType
<1>11. QueueInv'
  BY <1>a DEF QueueInv, RunqueueConsistent, task_on_rq_queued, task_on_rq_migrating,
      TaskType, RqType, CtlType, LocalsInv
<1>12. ExecInv'
  BY <1>a DEF ExecInv, Executes, task_on_rq_queued, TaskType, RqType, CtlType, LocalsInv
<1> QED
  BY <1>1, <1>2, <1>3, <1>4, <1>5, <1>6, <1>7, <1>8, <1>9, <1>10, <1>11, <1>12

\* On to schedule(): only the program counter and in_iowait move.
LEMMA ConditionFalseInv ==
  ASSUME IndInv, NEW c \in Cpu, NEW t \in Task, NEW io \in BOOLEAN,
         ConditionFalse(c, t, io)
  PROVE  IndInv'
<1> USE DEF ConditionFalse, Running
<1>a. CurrentFacts(c, t)
  BY CurrentTask
<1> USE DEF CurrentFacts
<1>1. TaskType'  BY <1>a DEF TaskType
<1>2. RqType'  BY <1>a DEF RqType, TaskType, CtlType
<1>3. AccountType'  BY <1>a DEF AccountType
<1>4. ProgType'  BY <1>a DEF ProgType
<1>5. CtlType'  BY <1>a DEF CtlType
<1>6. LocalsInv'  BY <1>a DEF LocalsInv, CtlType
<1>7. ProgInv'  BY <1>a DEF ProgInv, ProgType
<1>8. LockInv'  BY <1>a DEF LockInv, TaskType, CtlType, LocalsInv
<1>9. WakerInv'  BY <1>a DEF WakerInv, CtlType, LocalsInv, TaskType
<1>10. ListInv'  BY <1>a DEF ListInv, RqType, TaskType
<1>11. QueueInv'
  BY <1>a DEF QueueInv, RunqueueConsistent, task_on_rq_queued, task_on_rq_migrating,
      TaskType, RqType, CtlType, LocalsInv
<1>12. ExecInv'
  BY <1>a DEF ExecInv, Executes, task_on_rq_queued, TaskType, RqType, CtlType, LocalsInv
<1> QED
  BY <1>1, <1>2, <1>3, <1>4, <1>5, <1>6, <1>7, <1>8, <1>9, <1>10, <1>11, <1>12

\* A task goes on in its program, and nobody else is concerned.
LEMMA ProgMoves ==
  ASSUME IndInv, NEW t \in Task, NEW v, tpc[t] \notin {"free", "new"},
         v \notin {"free", "new", "forked", "stop_one"}, tpc' = [tpc EXCEPT ![t] = v],
         UNCHANGED <<targ, state, on_rq, on_cpu, stopq>>
  PROVE  ProgInv'
<1>1. DOMAIN tpc = Task /\ ProgInv
  BY DEF ProgType
<1>2. \A d \in Cpu : \A i \in DOMAIN stopq[d] :
          stopq[d][i].caller \in Task /\ tpc[stopq[d][i].caller] \notin {"free", "new"}
  BY StopCaller
<1>3. \A u \in Task : tpc'[u] = IF u = t THEN v ELSE tpc[u]
  BY <1>1
<1> QED
  BY <1>1, <1>2, <1>3 DEF ProgInv

\* Back from schedule(): the program starts over.
LEMMA ScheduleReturnInv ==
  ASSUME IndInv, NEW c \in Cpu, NEW t \in Task,
         ScheduleReturn(c, t)
  PROVE  IndInv'
<1> USE DEF ScheduleReturn, Running
<1>a. CurrentFacts(c, t)
  BY CurrentTask
<1> USE DEF CurrentFacts
<1>1. TaskType'  BY <1>a DEF TaskType
<1>2. RqType'  BY <1>a DEF RqType, TaskType, CtlType
<1>3. AccountType'  BY <1>a DEF AccountType, CtlType
<1>4. ProgType'  BY <1>a DEF ProgType
<1>5. CtlType'  BY <1>a DEF CtlType
<1>6. LocalsInv'  BY <1>a DEF LocalsInv, CtlType
<1>7. ProgInv'
  <2>1. /\ tpc' = [tpc EXCEPT ![t] = "work"]
        /\ UNCHANGED <<targ, state, on_rq, on_cpu, stopq>>
    OBVIOUS
  <2> HIDE DEF ScheduleReturn
  <2> QED
    BY <1>a, <2>1, ProgMoves
<1>8. LockInv'  BY <1>a DEF LockInv, TaskType, CtlType, LocalsInv
<1>9. WakerInv'  BY <1>a DEF WakerInv, CtlType, LocalsInv, TaskType
<1>10. ListInv'  BY <1>a DEF ListInv, RqType, TaskType
<1>11. QueueInv'
  BY <1>a DEF QueueInv, RunqueueConsistent, task_on_rq_queued, task_on_rq_migrating,
      TaskType, RqType, CtlType, LocalsInv
<1>12. ExecInv'
  BY <1>a DEF ExecInv, Executes, task_on_rq_queued, TaskType, RqType, CtlType, LocalsInv
<1> QED
  BY <1>1, <1>2, <1>3, <1>4, <1>5, <1>6, <1>7, <1>8, <1>9, <1>10, <1>11, <1>12

\* TASK_DEAD is stored with pi_lock free, so no waker relies on the state.
LEMMA SetSpecialStateInv ==
  ASSUME IndInv, NEW c \in Cpu, NEW t \in Task,
         SetSpecialState(c, t)
  PROVE  IndInv'
<1> USE DEF SetSpecialState, AtWork, Running, SpecialStateLocked
<1>a. CurrentFacts(c, t)
  BY CurrentTask
<1> USE DEF CurrentFacts
<1>1. TaskType'  BY <1>a DEF TaskType
<1>2. RqType'  BY <1>a DEF RqType, TaskType, CtlType
<1>3. AccountType'  BY <1>a DEF AccountType, CtlType
<1>4. ProgType'  BY <1>a DEF ProgType
<1>5. CtlType'  BY <1>a DEF CtlType
<1>6. LocalsInv'  BY <1>a DEF LocalsInv, CtlType
<1>7. ProgInv'  BY <1>a DEF ProgInv, ProgType
<1>8. LockInv'  BY <1>a DEF LockInv, TaskType, CtlType, LocalsInv
<1>9. WakerInv'  BY <1>a DEF WakerInv, CtlType, LocalsInv, TaskType, LockInv
<1>10. ListInv'  BY <1>a DEF ListInv, RqType, TaskType
<1>11. QueueInv'
  BY <1>a DEF QueueInv, RunqueueConsistent, task_on_rq_queued, task_on_rq_migrating,
      TaskType, RqType, CtlType, LocalsInv
<1>12. ExecInv'
  BY <1>a DEF ExecInv, Executes, task_on_rq_queued, TaskType, RqType, CtlType, LocalsInv
<1> QED
  BY <1>1, <1>2, <1>3, <1>4, <1>5, <1>6, <1>7, <1>8, <1>9, <1>10, <1>11, <1>12

\* The counter is reset; the protocol state does not move.
LEMMA Start_to_countInv ==
  ASSUME IndInv, NEW c \in Cpu, NEW t \in Task,
         start_to_count(c, t)
  PROVE  IndInv'
<1> USE DEF start_to_count, AtWork, Running, SwitchedOut
<1>1. TaskType'  BY DEF TaskType
<1>2. RqType'  BY DEF RqType, TaskType, CtlType
<1>3. AccountType'
  <2>1. nvcsw[t] + nivcsw[t] \in Int
    BY WidthAssumption DEF AccountType
  <2>2. SwitchedOut(t) % UIntMod \in 0 .. UIntMod - 1
    <3>1. SwitchedOut(t) \in 0 .. CswMod - 1
      BY <2>1, ModRange, WidthAssumption
    <3> HIDE DEF SwitchedOut
    <3>2. SwitchedOut(t) \in Int
      BY <3>1, WidthAssumption
    <3> QED BY <3>2, ModRange, WidthAssumption
  <2>3. process_switches_count' \in [Task -> 0 .. UIntMod - 1]
    BY WidthAssumption DEF AccountType
  <2>4. meter' \in [Task -> 0 .. UIntMod - 1]
    <3> DEFINE base == SwitchedOut(t) % UIntMod
    <3>1. base \in 0 .. UIntMod - 1 /\ meter' = [meter EXCEPT ![t] = base]
      BY <2>2
    <3> HIDE DEF base, start_to_count
    <3> QED BY <3>1 DEF AccountType
  <2> QED
    BY <2>3, <2>4 DEF AccountType
<1>4. ProgType'  BY DEF ProgType
<1>5. CtlType'  BY DEF CtlType
<1>6. LocalsInv'  BY DEF LocalsInv, CtlType
<1>7. ProgInv'  BY DEF ProgInv, ProgType
<1>8. LockInv'  BY DEF LockInv, TaskType, CtlType, LocalsInv
<1>9. WakerInv'  BY DEF WakerInv, CtlType, LocalsInv, TaskType
<1>10. ListInv'  BY DEF ListInv, RqType, TaskType
<1>11. QueueInv'
  BY DEF QueueInv, RunqueueConsistent, task_on_rq_queued, task_on_rq_migrating,
      TaskType, RqType, CtlType, LocalsInv
<1>12. ExecInv'
  BY DEF ExecInv, Executes, task_on_rq_queued, TaskType, RqType, CtlType, LocalsInv
<1> QED
  BY <1>1, <1>2, <1>3, <1>4, <1>5, <1>6, <1>7, <1>8, <1>9, <1>10, <1>11, <1>12

\* A change of affinity: the mask alone, a request to the stopper, or a move
\* of a task that is queued, does not run, and whose locks are free.
LEMMA SetCpusAllowedInv ==
  ASSUME IndInv, NEW c \in Cpu, NEW t \in Task, NEW p \in Task, NEW m \in NewMasks, NEW dest \in Cpu,
         SetCpusAllowed(c, t, p, m, dest)
  PROVE  IndInv'
<1> USE DEF SetCpusAllowed, AtWork, Running, CanTaskRqLock, task_on_rq_queued,
    task_on_rq_migrating, NeedsStopper
<1>a. CurrentFacts(c, t)
  BY CurrentTask
<1> USE DEF CurrentFacts
<1>1. CASE MaskOnly(p, m)
  <2> USE DEF MaskOnly
  <2>1. TaskType'  BY <1>a, <1>1 DEF TaskType
  <2>2. RqType'  BY <1>a, <1>1 DEF RqType, TaskType, CtlType
  <2>3. AccountType'  BY <1>a, <1>1 DEF AccountType, CtlType
  <2>4. ProgType'  BY <1>a, <1>1 DEF ProgType
  <2>5. CtlType'  BY <1>a, <1>1 DEF CtlType
  <2>6. LocalsInv'  BY <1>a, <1>1 DEF LocalsInv, CtlType
  <2>7. ProgInv'  BY <1>a, <1>1 DEF ProgInv, ProgType
  <2>8. LockInv'  BY <1>a, <1>1 DEF LockInv, TaskType, CtlType, LocalsInv
  <2>9. WakerInv'  BY <1>a, <1>1 DEF WakerInv, CtlType, LocalsInv, TaskType
  <2>10. ListInv'  BY <1>a, <1>1 DEF ListInv, RqType, TaskType
  <2>11. QueueInv'
    BY <1>a, <1>1 DEF QueueInv, RunqueueConsistent, task_on_rq_queued,
        task_on_rq_migrating, TaskType, RqType, CtlType, LocalsInv
  <2>12. ExecInv'
    BY <1>a, <1>1 DEF ExecInv, Executes, task_on_rq_queued, TaskType, RqType, CtlType,
        LocalsInv
  <2> QED
    BY <2>1, <2>2, <2>3, <2>4, <2>5, <2>6, <2>7, <2>8, <2>9, <2>10, <2>11, <2>12
<1>2. CASE AskStopper(t, p, m, dest)
  <2> USE DEF AskStopper
  <2>1. TaskType'  BY <1>a, <1>2 DEF TaskType
  <2>2. RqType'  BY <1>a, <1>2 DEF RqType, TaskType, CtlType
  <2>3. AccountType'  BY <1>a, <1>2 DEF AccountType, CtlType
  <2>4. ProgType'
    <3> DEFINE work == [task |-> p, dest |-> dest, src |-> cpu[p]]
    <3>1. /\ tpc' = [tpc EXCEPT ![t] = "stop_one"]
          /\ targ' = [targ EXCEPT ![t] = work]
          /\ UNCHANGED <<stopq, cond, sigpending>>
      BY <1>2 DEF evtVars
    <3>2. work \in [task : Task \cup {None}, dest : Cpu \cup {None}, src : Cpu \cup {None}]
      BY DEF TaskType
    <3> HIDE DEF work, SetCpusAllowed, AskStopper
    <3> QED
      BY <3>1, <3>2 DEF ProgType
  <2>5. CtlType'  BY <1>a, <1>2 DEF CtlType
  <2>6. LocalsInv'  BY <1>a, <1>2 DEF LocalsInv, CtlType
  <2>7. ProgInv'
    <3>1. \A u \in Task : tpc'[u] = (IF u = t THEN "stop_one" ELSE tpc[u])
      BY <1>2 DEF ProgType
    <3>2. targ'[t] \in [task : Task, dest : Cpu, src : Cpu]
      BY <1>2 DEF ProgType, TaskType
    <3>3. \A u \in Task : u # t => targ'[u] = targ[u]
      BY <1>2 DEF ProgType
    <3>4. \A d \in Cpu : \A i \in DOMAIN stopq'[d] : tpc'[stopq'[d][i].caller] \notin {"free", "new"}
      BY <3>1, StopCaller
    <3>5. UNCHANGED <<state, on_rq, on_cpu>>
      BY <1>2
    <3> QED
      BY <3>1, <3>2, <3>3, <3>4, <3>5, <1>a DEF ProgInv
  <2>8. LockInv'  BY <1>a, <1>2 DEF LockInv, TaskType, CtlType, LocalsInv
  <2>9. WakerInv'  BY <1>a, <1>2 DEF WakerInv, CtlType, LocalsInv, TaskType
  <2>10. ListInv'  BY <1>a, <1>2 DEF ListInv, RqType, TaskType
  <2>11. QueueInv'
    BY <1>a, <1>2 DEF QueueInv, RunqueueConsistent, task_on_rq_queued,
        task_on_rq_migrating, TaskType, RqType, CtlType, LocalsInv
  <2>12. ExecInv'
    BY <1>a, <1>2 DEF ExecInv, Executes, task_on_rq_queued, TaskType, RqType, CtlType,
        LocalsInv
  <2> QED
    BY <2>1, <2>2, <2>3, <2>4, <2>5, <2>6, <2>7, <2>8, <2>9, <2>10, <2>11, <2>12
<1>3. CASE MoveNow(c, p, m, dest)
  <2> USE DEF MoveNow, move_queued_task
  <2>1. TaskType'  BY <1>a, <1>3 DEF TaskType
  <2>2. RqType'  BY <1>a, <1>3 DEF RqType, TaskType, CtlType
  <2>3. AccountType'  BY <1>a, <1>3 DEF AccountType, CtlType
  <2>4. ProgType'  BY <1>a, <1>3 DEF ProgType, RqType, CtlType, TaskType, LocalsInv
  <2>5. CtlType'  BY <1>a, <1>3 DEF CtlType
  <2>6. LocalsInv'  BY <1>a, <1>3 DEF LocalsInv, CtlType
  <2>7. ProgInv'  BY <1>a, <1>3 DEF ProgInv, ProgType
  <2>8. LockInv'  BY <1>a, <1>3 DEF LockInv, TaskType, CtlType, LocalsInv
  <2>9. WakerInv'  BY <1>a, <1>3 DEF WakerInv, CtlType, LocalsInv, TaskType
  <2>10. ListInv'  BY <1>a, <1>3 DEF ListInv, RqType, TaskType
  <2>11. QueueInv'
    BY <1>a, <1>3 DEF QueueInv, RunqueueConsistent, task_on_rq_queued,
        task_on_rq_migrating, TaskType, RqType, CtlType, LocalsInv
  <2>12. ExecInv'
    BY <1>a, <1>3 DEF ExecInv, Executes, task_on_rq_queued, TaskType, RqType, CtlType,
        LocalsInv
  <2> QED
    BY <2>1, <2>2, <2>3, <2>4, <2>5, <2>6, <2>7, <2>8, <2>9, <2>10, <2>11, <2>12
<1> QED
  BY <1>1, <1>2, <1>3

\* sched_exec() asks the stopper of its own CPU.
LEMMA SchedExecInv ==
  ASSUME IndInv, NEW c \in Cpu, NEW t \in Task, NEW dest \in Cpu,
         SchedExec(c, t, dest)
  PROVE  IndInv'
<1> USE DEF SchedExec, AtWork, Running, is_cpu_allowed
<1>a. CurrentFacts(c, t)
  BY CurrentTask
<1> USE DEF CurrentFacts
<1>1. TaskType'  BY <1>a DEF TaskType
<1>2. RqType'  BY <1>a DEF RqType, TaskType, CtlType
<1>3. AccountType'  BY <1>a DEF AccountType, CtlType
<1>4. ProgType'  BY <1>a DEF ProgType
<1>5. CtlType'  BY <1>a DEF CtlType
<1>6. LocalsInv'  BY <1>a DEF LocalsInv, CtlType
<1>7. ProgInv'
  <2>1. /\ tpc' = [tpc EXCEPT ![t] = "stop_one"]
        /\ targ' = [targ EXCEPT ![t] = [task |-> t, dest |-> dest, src |-> c]]
        /\ UNCHANGED <<state, on_rq, on_cpu, stopq>>
    OBVIOUS
  <2>2. /\ DOMAIN tpc = Task /\ DOMAIN targ = Task /\ tpc[t] \notin {"free", "new"} /\ ProgInv
    BY <1>a DEF ProgType
  <2>3. \A d \in Cpu : \A i \in DOMAIN stopq[d] :
            stopq[d][i].caller \in Task /\ tpc[stopq[d][i].caller] \notin {"free", "new"}
    BY StopCaller
  <2>4. [task |-> t, dest |-> dest, src |-> c] \in [task : Task, dest : Cpu, src : Cpu]
    OBVIOUS
  <2> QED
    BY ONLY <2>1, <2>2, <2>3, <2>4, t \in Task DEF ProgInv
<1>8. LockInv'  BY <1>a DEF LockInv, TaskType, CtlType, LocalsInv
<1>9. WakerInv'  BY <1>a DEF WakerInv, CtlType, LocalsInv, TaskType
<1>10. ListInv'  BY <1>a DEF ListInv, RqType, TaskType
<1>11. QueueInv'
  BY <1>a DEF QueueInv, RunqueueConsistent, task_on_rq_queued, task_on_rq_migrating,
      TaskType, RqType, CtlType, LocalsInv
<1>12. ExecInv'
  BY <1>a DEF ExecInv, Executes, task_on_rq_queued, TaskType, RqType, CtlType, LocalsInv
<1> QED
  BY <1>1, <1>2, <1>3, <1>4, <1>5, <1>6, <1>7, <1>8, <1>9, <1>10, <1>11, <1>12

\* Work for the stopper is appended; the caller waits.
LEMMA StopOneCpuInv ==
  ASSUME IndInv, NEW c \in Cpu, NEW t \in Task,
         StopOneCpu(c, t)
  PROVE  IndInv'
<1> USE DEF StopOneCpu, Running, NoArg
<1>a. CurrentFacts(c, t)
  BY CurrentTask
<1> USE DEF CurrentFacts
<1>b. targ[t] \in [task : Task, dest : Cpu, src : Cpu]
  BY DEF ProgInv
<1> DEFINE q == stopq[targ[t].src]
           w == [task |-> targ[t].task, dest |-> targ[t].dest, caller |-> t]
<1>c. q \in Seq(Work) /\ w \in Work
  BY <1>b DEF ProgType, Work
<1>d. /\ Append(q, w) \in Seq(Work) /\ Append(q, w) # <<>>
      /\ \A i \in DOMAIN Append(q, w) :
            Append(q, w)[i] = w \/ (i \in DOMAIN q /\ Append(q, w)[i] = q[i])
  <2> HIDE DEF q, w
  <2> QED BY <1>c, AppendWork
<1>1. TaskType'  BY <1>a, <1>b DEF TaskType
<1>2. RqType'  BY <1>a, <1>b DEF RqType, TaskType, CtlType
<1>3. AccountType'  BY <1>a, <1>b DEF AccountType
<1>4. ProgType'  BY <1>a, <1>b DEF ProgType, ProgInv
<1>5. CtlType'  BY <1>a, <1>b DEF CtlType
<1>6. LocalsInv'
  <2>1. \A d \in Cpu : stopq[d] # <<>> => stopq'[d] # <<>>
    BY <1>b, <1>d DEF ProgType
  <2> QED
    BY <2>1 DEF LocalsInv
<1>7. ProgInv'
  <2>1. \A u \in Task : targ'[u] = (IF u = t THEN NoArg ELSE targ[u])
    BY DEF ProgType
  <2>2. \A u \in Task : tpc'[u] = (IF u = t THEN "stop_wait" ELSE tpc[u])
    BY DEF ProgType
  <2>3. stopq' = [stopq EXCEPT ![targ[t].src] = Append(q, w)] /\ w.caller = t
    OBVIOUS
  <2>4. ASSUME NEW d \in Cpu, NEW i \in DOMAIN stopq'[d]
        PROVE  tpc'[stopq'[d][i].caller] \notin {"free", "new"}
    <3> HIDE DEF q, w
    <3>1. stopq'[d][i] = w \/ (i \in DOMAIN stopq[d] /\ stopq'[d][i] = stopq[d][i])
      <4>1. CASE d = targ[t].src
        <5>1. stopq'[d] = Append(q, w) /\ q = stopq[d]
          BY <4>1, <2>3, <1>b DEF q, ProgType
        <5> QED
          BY <5>1, <1>d
      <4>2. CASE d # targ[t].src
        BY <4>2, <2>3, <1>b DEF ProgType
      <4> QED
        BY <4>1, <4>2
    <3>2. CASE stopq'[d][i] = w
      <4> HIDE DEF StopOneCpu
      <4> QED BY <3>2, <2>2, <2>3
    <3>3. CASE i \in DOMAIN stopq[d] /\ stopq'[d][i] = stopq[d][i]
      BY <3>3, <2>2, StopCaller
    <3> QED
      BY <3>1, <3>2, <3>3
  <2>5. UNCHANGED <<state, on_rq, on_cpu>>
    OBVIOUS
  <2> HIDE DEF StopOneCpu
  <2> QED
    BY <2>1, <2>2, <2>4, <2>5, <1>a DEF ProgInv
<1>8. LockInv'  BY <1>a, <1>b DEF LockInv, TaskType, CtlType, LocalsInv
<1>9. WakerInv'  BY <1>a, <1>b DEF WakerInv, CtlType, LocalsInv, TaskType
<1>10. ListInv'  BY <1>a, <1>b DEF ListInv, RqType, TaskType
<1>11. QueueInv'
  BY <1>a, <1>b DEF QueueInv, RunqueueConsistent, task_on_rq_queued,
      task_on_rq_migrating, TaskType, RqType, CtlType, LocalsInv
<1>12. ExecInv'
  BY <1>a, <1>b DEF ExecInv, Executes, task_on_rq_queued, TaskType, RqType, CtlType,
      LocalsInv
<1> QED
  BY <1>1, <1>2, <1>3, <1>4, <1>5, <1>6, <1>7, <1>8, <1>9, <1>10, <1>11, <1>12

\* The child gets TASK_NEW; it was free, so on no queue and no CPU.
LEMMA SchedForkInv ==
  ASSUME IndInv, NEW c \in Cpu, NEW t \in Task, NEW p \in Task,
         SchedFork(c, t, p)
  PROVE  IndInv'
<1> USE DEF SchedFork, AtWork, Running, NoArg
<1>a. CurrentFacts(c, t)
  BY CurrentTask
<1> USE DEF CurrentFacts
<1>b. p # t /\ tpc[p] = "free" /\ state[p] = "DEAD" /\ on_rq[p] = 0 /\ ~on_cpu[p]
  BY <1>a DEF ProgInv
<1>1. TaskType'  BY <1>a, <1>b DEF TaskType
<1>2. RqType'  BY <1>a, <1>b DEF RqType, TaskType, CtlType
<1>3. AccountType'
  <2>1. nvcsw[p] + nivcsw[p] \in Int
    BY WidthAssumption DEF AccountType
  <2>2. SwitchedOut(p) \in 0 .. CswMod - 1
    BY <2>1, ModRange, WidthAssumption DEF SwitchedOut
  <2>3. SwitchedOut(p) - process_switches_count[t] - 1 \in Int
    BY <2>2, WidthAssumption DEF AccountType
  <2>4. InheritedBase(p, t) \in 0 .. UIntMod - 1
    BY <2>3, ModRange, WidthAssumption DEF InheritedBase
  <2> QED
    BY <1>a, <1>b, <2>4 DEF AccountType
<1>4. ProgType'  BY <1>a, <1>b DEF ProgType
<1>5. CtlType'  BY <1>a, <1>b DEF CtlType
<1>6. LocalsInv'  BY <1>a, <1>b DEF LocalsInv, CtlType
<1>7. ProgInv'
  <2>1. \A u \in Task : tpc'[u] = (IF u = p THEN "new" ELSE IF u = t THEN "forked" ELSE tpc[u])
    BY <1>b DEF ProgType
  <2>2. \A u \in Task : targ'[u] = (IF u = t THEN [NoArg EXCEPT !.task = p] ELSE targ[u])
    BY DEF ProgType
  <2>3. targ'[t].task = p
    BY <2>2
  <2>4. \A u \in Task : state'[u] = (IF u = p THEN "NEW" ELSE state[u])
    BY DEF TaskType
  <2>5. \A u \in Task : u # t /\ tpc[u] = "forked" => targ[u].task \in Task \ {p}
    BY DEF ProgInv
  <2>6. \A u \in Task : tpc'[u] = "stop_one" => targ'[u] \in [task : Task, dest : Cpu, src : Cpu]
    BY <2>1, <2>2 DEF ProgInv
  <2>7. ASSUME NEW u \in Task, tpc'[u] = "forked"
        PROVE  targ'[u].task \in Task /\ tpc'[targ'[u].task] = "new"
    <3>1. CASE u = t
      BY <3>1, <2>1, <2>3
    <3>2. CASE u # t
      <4>1. tpc[u] = "forked" /\ targ'[u] = targ[u]
        BY <3>2, <2>1, <2>2, <2>7
      <4>2. targ[u].task \in Task \ {p} /\ tpc[targ[u].task] = "new"
        BY <3>2, <4>1, <2>5 DEF ProgInv
      <4>3. targ[u].task # t
        BY <4>2, <1>a
      <4> QED
        BY <4>1, <4>2, <4>3, <2>1
    <3> QED
      BY <3>1, <3>2
  <2>8. ASSUME NEW u \in Task, NEW v \in Task, tpc'[u] = "forked", tpc'[v] = "forked",
               targ'[u].task = targ'[v].task
        PROVE  u = v
    <3> HIDE DEF SchedFork
    <3>1. \A x \in {u, v} : x # t => tpc[x] = "forked" /\ targ'[x] = targ[x] /\ targ'[x].task # p
      BY <2>1, <2>2, <2>5, <2>8
    <3> QED
      BY <3>1, <2>3, <2>8 DEF ProgInv
  <2>9. \A u \in Task : tpc'[u] = "free" => state'[u] = "DEAD" /\ on_rq'[u] = 0 /\ ~on_cpu'[u]
    BY <2>1, <2>4 DEF ProgInv
  <2>10. \A u \in Task : tpc'[u] = "new" => state'[u] = "NEW" /\ on_rq'[u] = 0 /\ ~on_cpu'[u]
    BY <2>1, <2>4, <1>b DEF ProgInv
  <2>11. \A d \in Cpu : \A i \in DOMAIN stopq'[d] : tpc'[stopq'[d][i].caller] \notin {"free", "new"}
    <3>1. UNCHANGED stopq
      OBVIOUS
    <3> HIDE DEF SchedFork
    <3> QED BY <3>1, <2>1, <1>b, StopCaller
  <2> HIDE DEF SchedFork
  <2> QED
    BY <2>6, <2>7, <2>8, <2>9, <2>10, <2>11 DEF ProgInv
<1>8. LockInv'  BY <1>a, <1>b DEF LockInv, TaskType, CtlType, LocalsInv
<1>9. WakerInv'
  BY <1>a, <1>b DEF WakerInv, TaskType, RqType, CtlType, ProgType, LocalsInv, LockInv,
      ListInv, QueueInv, RunqueueConsistent, task_on_rq_queued, task_on_rq_migrating,
      ExecInv, Executes, ProgInv
<1>10. ListInv'
  BY <1>a, <1>b DEF ListInv, TaskType, RqType, CtlType, ProgType, LocalsInv, LockInv,
      WakerInv, QueueInv, RunqueueConsistent, task_on_rq_queued, task_on_rq_migrating,
      ExecInv, Executes, ProgInv
<1>11. QueueInv'
  <2>1. /\ state' = [state EXCEPT ![p] = "NEW"] /\ cpu' = [cpu EXCEPT ![p] = c]
        /\ UNCHANGED <<on_rq, rq, pc, tgt, lrq>>
    OBVIOUS
  <2>2. on_rq[p] = 0
    BY <1>b DEF ProgInv
  <2>3. QueueInv /\ DOMAIN state = Task /\ DOMAIN cpu = Task /\ p \in Task
        /\ rq \in [Cpu -> SUBSET Task]
    BY DEF TaskType, RqType
  <2>4. \A d \in Cpu : pc[d] \in {"move", "attach"} => tgt[d] # p
    BY <2>2 DEF QueueInv, task_on_rq_migrating
  <2> QED
    BY ONLY <2>1, <2>2, <2>3, <2>4 DEF QueueInv, RunqueueConsistent, task_on_rq_queued,
        task_on_rq_migrating
<1>12. ExecInv'
  BY <1>a, <1>b DEF ExecInv, Executes, task_on_rq_queued, TaskType, RqType, CtlType,
      ProgType, LocalsInv, LockInv, WakerInv, ListInv, QueueInv, RunqueueConsistent,
      task_on_rq_migrating, ProgInv
<1> QED
  BY <1>1, <1>2, <1>3, <1>4, <1>5, <1>6, <1>7, <1>8, <1>9, <1>10, <1>11, <1>12

\* The child is queued for the first time, by its only parent.
LEMMA WakeUpNewTaskInv ==
  ASSUME IndInv, NEW c \in Cpu, NEW t \in Task, NEW dest \in Cpu,
         WakeUpNewTask(c, t, dest)
  PROVE  IndInv'
<1> USE DEF WakeUpNewTask, Running, NoArg, is_cpu_allowed
<1>a. CurrentFacts(c, t)
  BY CurrentTask
<1> USE DEF CurrentFacts
<1> DEFINE p == targ[t].task
<1>b. p \in Task /\ tpc[p] = "new" /\ p # t /\ state[p] = "NEW" /\ on_rq[p] = 0 /\ ~on_cpu[p]
  BY <1>a DEF ProgInv
<1>1. TaskType'  BY <1>a, <1>b DEF TaskType, CtlType, LocalsInv, ProgType, ProgInv
<1>2. RqType'
  BY <1>b DEF RqType
<1>3. AccountType'  BY <1>a, <1>b DEF AccountType, CtlType
<1>4. ProgType'  BY <1>a, <1>b DEF ProgType, RqType, CtlType, LocalsInv
<1>5. CtlType'  BY <1>a, <1>b DEF CtlType
<1>6. LocalsInv'  BY <1>a, <1>b DEF LocalsInv, CtlType
<1>7. ProgInv'
  <2>1. \A u \in Task : tpc'[u] = (IF u = p \/ u = t THEN "work" ELSE tpc[u])
    BY <1>b DEF ProgType
  <2>2. \A u \in Task : targ'[u] = (IF u = t THEN NoArg ELSE targ[u])
    BY DEF ProgType
  <2>3. \A u \in Task : u # p => state'[u] = state[u] /\ on_rq'[u] = on_rq[u]
    BY <1>b DEF TaskType
  <2>4. \A u \in Task : u # t /\ tpc[u] = "forked" => targ[u].task \in Task \ {p, t}
    BY <1>a DEF ProgInv
  <2>5. \A u \in Task : tpc'[u] \in {"forked", "stop_one"} =>
            u # t /\ tpc'[u] = tpc[u] /\ targ'[u] = targ[u]
    <3> HIDE DEF WakeUpNewTask, p
    <3> QED BY <2>1, <2>2
  <2>6. ASSUME NEW u \in Task, tpc'[u] = "forked"
        PROVE  targ'[u].task \in Task /\ tpc'[targ'[u].task] = "new"
    <3> HIDE DEF WakeUpNewTask, p
    <3>1. targ[u].task \in Task \ {p, t} /\ tpc[targ[u].task] = "new" /\ targ'[u] = targ[u]
      BY <2>4, <2>5, <2>6 DEF ProgInv
    <3> QED
      BY <3>1, <2>1
  <2>7. \A u, v \in Task : tpc'[u] = "forked" /\ tpc'[v] = "forked"
                            /\ targ'[u].task = targ'[v].task => u = v
    <3> HIDE DEF WakeUpNewTask, p
    <3> QED BY <2>5 DEF ProgInv
  <2>8. \A u \in Task : tpc'[u] \in {"free", "new"} => u # p /\ tpc'[u] = tpc[u]
    <3> HIDE DEF WakeUpNewTask, p
    <3> QED BY <2>1
  <2>9. \A d \in Cpu : \A i \in DOMAIN stopq'[d] : tpc'[stopq'[d][i].caller] \notin {"free", "new"}
    <3>1. UNCHANGED stopq
      OBVIOUS
    <3> HIDE DEF WakeUpNewTask, p
    <3> QED BY <3>1, <2>1, StopCaller
  <2>10. UNCHANGED on_cpu
    OBVIOUS
  <2> HIDE DEF WakeUpNewTask, p
  <2> QED
    BY <2>3, <2>5, <2>6, <2>7, <2>8, <2>9, <2>10 DEF ProgInv
<1>8. LockInv'  BY <1>a, <1>b DEF LockInv, TaskType, CtlType, LocalsInv
<1>9. WakerInv'  BY <1>a, <1>b DEF WakerInv, CtlType, LocalsInv, TaskType, LockInv
<1>10. ListInv'
  BY <1>a, <1>b DEF ListInv, TaskType, RqType, CtlType, ProgType, LocalsInv, LockInv,
      WakerInv, QueueInv, RunqueueConsistent, task_on_rq_queued, task_on_rq_migrating,
      ExecInv, Executes, ProgInv
<1>11. QueueInv'
  BY <1>a, <1>b DEF QueueInv, RunqueueConsistent, task_on_rq_queued,
      task_on_rq_migrating, TaskType, RqType, CtlType, LocalsInv, ProgInv, ProgType
<1>12. ExecInv'
  BY <1>a, <1>b DEF ExecInv, Executes, task_on_rq_queued, TaskType, RqType, CtlType,
      ProgType, LocalsInv, LockInv, WakerInv, ListInv, QueueInv, RunqueueConsistent,
      task_on_rq_migrating, ProgInv
<1> QED
  BY <1>1, <1>2, <1>3, <1>4, <1>5, <1>6, <1>7, <1>8, <1>9, <1>10, <1>11, <1>12

\* The increment of nr_iowait, on the way to pick_next_task().
LEMMA IowaitIncInv ==
  ASSUME IndInv, NEW c \in Cpu,
         IowaitInc(c)
  PROVE  IndInv'
<1> USE DEF IowaitInc
<1>1. TaskType'  BY DEF TaskType
<1>2. RqType'  BY DEF RqType, TaskType, CtlType
<1>3. AccountType'  BY DEF AccountType
<1>4. ProgType'  BY DEF ProgType
<1>5. CtlType'  BY DEF CtlType
<1>6. LocalsInv'  BY DEF LocalsInv, CtlType
<1>7. ProgInv'  BY DEF ProgInv, ProgType
<1>8. LockInv'  BY DEF LockInv, TaskType, CtlType, LocalsInv
<1>9. WakerInv'  BY DEF WakerInv, CtlType, LocalsInv, TaskType
<1>10. ListInv'  BY DEF ListInv, RqType, TaskType
<1>11. QueueInv'
  BY DEF QueueInv, RunqueueConsistent, task_on_rq_queued, task_on_rq_migrating,
      TaskType, RqType, CtlType, LocalsInv
<1>12. ExecInv'
  BY DEF ExecInv, Executes, task_on_rq_queued, TaskType, RqType, CtlType, LocalsInv
<1> QED
  BY <1>1, <1>2, <1>3, <1>4, <1>5, <1>6, <1>7, <1>8, <1>9, <1>10, <1>11, <1>12

\* The switch: next is taken from this CPU's queue, so it belongs here and
\* runs nowhere else.
LEMMA SwitchInv ==
  ASSUME IndInv, NEW c \in Cpu, NEW next \in Task \cup {Idle, Stopper},
         Switch(c, next)
  PROVE  IndInv'
<1> USE DEF Switch, pick_next_task, Bump, CountSwitch
<1>1. TaskType'  BY DEF TaskType
<1>2. RqType'  BY DEF RqType, TaskType, CtlType
<1>3. AccountType'
  <2> USE WidthAssumption
  <2>1. nvcsw' \in [Task -> 0 .. CswMod - 1] /\ nivcsw' \in [Task -> 0 .. CswMod - 1]
    <3> HIDE DEF Bump
    <3> QED BY BumpType DEF AccountType
  <2>2. process_switches_count' \in [Task -> 0 .. UIntMod - 1]
    <3> HIDE DEF Bump
    <3> QED BY BumpType DEF AccountType
  <2> QED
    BY <2>1, <2>2 DEF AccountType
<1>4. ProgType'  BY DEF ProgType
<1>5. CtlType'  BY DEF CtlType
<1>6. LocalsInv'
  <2>1. /\ pc[c] = "pick" /\ next # tgt[c]
        /\ pc' = [pc EXCEPT ![c] = "finish"] /\ curr' = [curr EXCEPT ![c] = next]
        /\ UNCHANGED <<tgt, lrq, stopq, pending>>
    BY DEF listVars, progVars
  <2> HIDE DEF Switch
  <2> QED BY <2>1 DEF LocalsInv, CtlType, RqType
<1>7. ProgInv'
  <2>1. next \in Task => tpc[next] \notin {"free", "new"}
    <3>1. next \in Task => next \in rq[c]
      OBVIOUS
    <3>2. next \in Task => on_rq[next] = TASK_ON_RQ_QUEUED
      BY <3>1 DEF QueueInv, RunqueueConsistent, task_on_rq_queued
    <3> QED
      BY <3>2 DEF ProgInv
  <2>2. \A u \in Task : tpc[u] \in {"free", "new"} => on_cpu'[u] = on_cpu[u]
    BY <2>1 DEF TaskType
  <2>3. UNCHANGED <<tpc, targ, stopq, state, on_rq>>
    OBVIOUS
  <2> HIDE DEF Switch
  <2> QED
    BY <2>2, <2>3 DEF ProgInv
<1>8. LockInv'  BY DEF LockInv, TaskType, CtlType, LocalsInv
<1>9. WakerInv'  BY DEF WakerInv, CtlType, LocalsInv, TaskType
<1>10. ListInv'  BY DEF ListInv, RqType, TaskType
<1>11. QueueInv'
  BY DEF QueueInv, RunqueueConsistent, task_on_rq_queued, task_on_rq_migrating,
      TaskType, RqType, CtlType, LocalsInv
<1>12. ExecInv'
  BY DEF ExecInv, Executes, task_on_rq_queued, TaskType, RqType, CtlType, LocalsInv,
      QueueInv, RunqueueConsistent, task_on_rq_migrating
<1> QED
  BY <1>1, <1>2, <1>3, <1>4, <1>5, <1>6, <1>7, <1>8, <1>9, <1>10, <1>11, <1>12

\* prev is picked again, so it is still queued.
LEMMA NoSwitchInv ==
  ASSUME IndInv, NEW c \in Cpu,
         NoSwitch(c)
  PROVE  IndInv'
<1> USE DEF NoSwitch, pick_next_task, Return
<1>1. TaskType'  BY DEF TaskType
<1>2. RqType'  BY DEF RqType, TaskType, CtlType
<1>3. AccountType'  BY DEF AccountType
<1>4. ProgType'  BY DEF ProgType
<1>5. CtlType'  BY DEF CtlType
<1>6. LocalsInv'  BY DEF LocalsInv, CtlType
<1>7. ProgInv'  BY DEF ProgInv, ProgType
<1>8. LockInv'  BY DEF LockInv, TaskType, RqType, CtlType
<1>9. WakerInv'  BY DEF WakerInv, CtlType, LocalsInv, TaskType
<1>10. ListInv'  BY DEF ListInv, RqType, TaskType
<1>11. QueueInv'
  BY DEF QueueInv, RunqueueConsistent, task_on_rq_queued, task_on_rq_migrating,
      TaskType, RqType, CtlType, LocalsInv
<1>12. ExecInv'
  BY DEF ExecInv, Executes, task_on_rq_queued, TaskType, RqType, CtlType, LocalsInv,
      QueueInv, RunqueueConsistent, task_on_rq_migrating
<1> QED
  BY <1>1, <1>2, <1>3, <1>4, <1>5, <1>6, <1>7, <1>8, <1>9, <1>10, <1>11, <1>12

\* prev is released; its stack was in use here and nowhere else.
LEMMA FinishTaskSwitchInv ==
  ASSUME IndInv, NEW c \in Cpu,
         FinishTaskSwitch(c)
  PROVE  IndInv'
<1> USE DEF FinishTaskSwitch, finish_task
<1>1. TaskType'  BY DEF TaskType
<1>2. RqType'  BY DEF RqType, TaskType, CtlType
<1>3. AccountType'  BY DEF AccountType, CtlType
<1>4. ProgType'  BY DEF ProgType
<1>5. CtlType'  BY DEF CtlType, TaskType
<1>6. LocalsInv'  BY DEF LocalsInv, CtlType
<1>7. ProgInv'  BY DEF ProgInv, ProgType
<1>8. LockInv'  BY DEF LockInv, TaskType, RqType, CtlType
<1>9. WakerInv'  BY DEF WakerInv, CtlType, LocalsInv, TaskType
<1>10. ListInv'  BY DEF ListInv, RqType, TaskType
<1>11. QueueInv'
  BY DEF QueueInv, RunqueueConsistent, task_on_rq_queued, task_on_rq_migrating,
      TaskType, RqType, CtlType, LocalsInv
<1>12. ExecInv'
  BY DEF ExecInv, Executes, task_on_rq_queued, TaskType, RqType, CtlType, LocalsInv
<1> QED
  BY <1>1, <1>2, <1>3, <1>4, <1>5, <1>6, <1>7, <1>8, <1>9, <1>10, <1>11, <1>12

\* The last reference of a dead task; the protocol state does not move.
LEMMA ReapInv ==
  ASSUME IndInv, NEW c \in Cpu,
         Reap(c)
  PROVE  IndInv'
<1> USE DEF Reap, Return, PrevDied
<1>1. TaskType'  BY DEF TaskType
<1>2. RqType'  BY DEF RqType, TaskType, CtlType
<1>3. AccountType'
  <2>1. usage' \in [Task -> Int]
    <3>1. CASE tgt[c] \in Task
      <4>1. usage[tgt[c]] - 1 \in Int
        BY <3>1 DEF AccountType
      <4>2. usage' = usage \/ usage' = [usage EXCEPT ![tgt[c]] = usage[tgt[c]] - 1]
        OBVIOUS
      <4> QED
        BY <3>1, <4>1, <4>2 DEF AccountType
    <3>2. CASE tgt[c] \notin Task
      <4>1. usage' = usage
        BY <3>2 DEF AccountType
      <4> QED
        BY <4>1 DEF AccountType
    <3> QED
      BY <3>1, <3>2
  <2> QED
    BY <2>1 DEF AccountType
<1>4. ProgType'  BY DEF ProgType
<1>5. CtlType'  BY DEF CtlType
<1>6. LocalsInv'  BY DEF LocalsInv, CtlType
<1>7. ProgInv'  BY DEF ProgInv, ProgType
<1>8. LockInv'  BY DEF LockInv, TaskType, CtlType, LocalsInv
<1>9. WakerInv'  BY DEF WakerInv, CtlType, LocalsInv, TaskType
<1>10. ListInv'  BY DEF ListInv, RqType, TaskType
<1>11. QueueInv'
  BY DEF QueueInv, RunqueueConsistent, task_on_rq_queued, task_on_rq_migrating,
      TaskType, RqType, CtlType, LocalsInv
<1>12. ExecInv'
  BY DEF ExecInv, Executes, task_on_rq_queued, TaskType, RqType, CtlType, LocalsInv
<1> QED
  BY <1>1, <1>2, <1>3, <1>4, <1>5, <1>6, <1>7, <1>8, <1>9, <1>10, <1>11, <1>12

\* A waker takes pi_lock if the state matches.
LEMMA TtwuLockInv ==
  ASSUME IndInv, NEW c \in Cpu,
         TtwuLock(c)
  PROVE  IndInv'
<1> USE DEF TtwuLock
<1>1. CASE TtwuMatch(c)
  <2> USE DEF TtwuMatch
  <2>1. TaskType'  BY <1>1 DEF TaskType, CtlType, LocalsInv
  <2>2. RqType'  BY <1>1 DEF RqType, TaskType, CtlType
  <2>3. AccountType'  BY <1>1 DEF AccountType
  <2>4. ProgType'  BY <1>1 DEF ProgType, RqType, CtlType, TaskType, LocalsInv
  <2>5. CtlType'  BY <1>1 DEF CtlType
  <2>6. LocalsInv'  BY <1>1 DEF LocalsInv, CtlType
  <2>7. ProgInv'  BY <1>1 DEF ProgInv, ProgType
  <2>8. LockInv'  BY <1>1 DEF LockInv, TaskType, CtlType, LocalsInv
  <2>9. WakerInv'  BY <1>1 DEF WakerInv, CtlType, LocalsInv, TaskType
  <2>10. ListInv'  BY <1>1 DEF ListInv, RqType, TaskType
  <2>11. QueueInv'
    BY <1>1 DEF QueueInv, RunqueueConsistent, task_on_rq_queued, task_on_rq_migrating,
        TaskType, RqType, CtlType, LocalsInv
  <2>12. ExecInv'
    BY <1>1 DEF ExecInv, Executes, task_on_rq_queued, TaskType, RqType, CtlType, LocalsInv
  <2> QED
    BY <2>1, <2>2, <2>3, <2>4, <2>5, <2>6, <2>7, <2>8, <2>9, <2>10, <2>11, <2>12
<1>2. CASE TtwuNoMatch(c)
  <2> USE DEF TtwuNoMatch, Return
  <2>1. TaskType'  BY <1>2 DEF TaskType
  <2>2. RqType'  BY <1>2 DEF RqType, TaskType, CtlType
  <2>3. AccountType'  BY <1>2 DEF AccountType
  <2>4. ProgType'  BY <1>2 DEF ProgType
  <2>5. CtlType'  BY <1>2 DEF CtlType
  <2>6. LocalsInv'  BY <1>2 DEF LocalsInv, CtlType
  <2>7. ProgInv'  BY <1>2 DEF ProgInv, ProgType
  <2>8. LockInv'  BY <1>2 DEF LockInv, TaskType, CtlType, LocalsInv
  <2>9. WakerInv'  BY <1>2 DEF WakerInv, CtlType, LocalsInv, TaskType
  <2>10. ListInv'  BY <1>2 DEF ListInv, RqType, TaskType
  <2>11. QueueInv'
    BY <1>2 DEF QueueInv, RunqueueConsistent, task_on_rq_queued, task_on_rq_migrating,
        TaskType, RqType, CtlType, LocalsInv
  <2>12. ExecInv'
    BY <1>2 DEF ExecInv, Executes, task_on_rq_queued, TaskType, RqType, CtlType, LocalsInv
  <2> QED
    BY <2>1, <2>2, <2>3, <2>4, <2>5, <2>6, <2>7, <2>8, <2>9, <2>10, <2>11, <2>12
<1> QED
  BY <1>1, <1>2

\* The unlocked read of on_rq: a dequeued task sleeps, since its state was
\* seen to match and nobody else may change it.
LEMMA TtwuOnRqInv ==
  ASSUME IndInv, NEW c \in Cpu,
         TtwuOnRq(c)
  PROVE  IndInv'
<1> USE DEF TtwuOnRq, ReadOnRq
<1>a. tgt[c] \in Task /\ tpc[tgt[c]] \notin {"free", "new"}
  BY TargetStarted
<1>1. CASE on_rq[tgt[c]] # 0
  <2>1. TaskType'  BY <1>a, <1>1 DEF TaskType
  <2>2. RqType'  BY <1>a, <1>1 DEF RqType, TaskType, CtlType
  <2>3. AccountType'  BY <1>a, <1>1 DEF AccountType, CtlType
  <2>4. ProgType'  BY <1>a, <1>1 DEF ProgType
  <2>5. CtlType'  BY <1>a, <1>1 DEF CtlType, TaskType
  <2>6. LocalsInv'  BY <1>a, <1>1 DEF LocalsInv, CtlType, RqType, TaskType
  <2>7. ProgInv'  BY <1>a, <1>1 DEF ProgInv, ProgType
  <2>8. LockInv'  BY <1>a, <1>1 DEF LockInv, TaskType, CtlType, LocalsInv
  <2>9. WakerInv'  BY <1>a, <1>1 DEF WakerInv, CtlType, LocalsInv, TaskType
  <2>10. ListInv'  BY <1>a, <1>1 DEF ListInv, RqType, TaskType
  <2>11. QueueInv'
    BY <1>a, <1>1 DEF QueueInv, RunqueueConsistent, task_on_rq_queued,
        task_on_rq_migrating, TaskType, RqType, CtlType, LocalsInv
  <2>12. ExecInv'
    BY <1>a, <1>1 DEF ExecInv, Executes, task_on_rq_queued, TaskType, RqType, CtlType,
        LocalsInv
  <2> QED
    BY <2>1, <2>2, <2>3, <2>4, <2>5, <2>6, <2>7, <2>8, <2>9, <2>10, <2>11, <2>12
<1>2. CASE on_rq[tgt[c]] = 0
  <2>1. TaskType'  BY <1>a, <1>2 DEF TaskType
  <2>2. RqType'  BY <1>a, <1>2 DEF RqType, TaskType, CtlType
  <2>3. AccountType'  BY <1>a, <1>2 DEF AccountType, CtlType
  <2>4. ProgType'  BY <1>a, <1>2 DEF ProgType
  <2>5. CtlType'  BY <1>a, <1>2 DEF CtlType
  <2>6. LocalsInv'  BY <1>a, <1>2 DEF LocalsInv, CtlType
  <2>7. ProgInv'  BY <1>a, <1>2 DEF ProgInv, ProgType
  <2>8. LockInv'  BY <1>a, <1>2 DEF LockInv, TaskType, CtlType, LocalsInv
  <2>9. WakerInv'
    BY <1>a, <1>2 DEF WakerInv, CtlType, LocalsInv, TaskType, RqType, LockInv, QueueInv,
        RunqueueConsistent, task_on_rq_queued, task_on_rq_migrating
  <2>10. ListInv'  BY <1>a, <1>2 DEF ListInv, RqType, TaskType
  <2>11. QueueInv'
    BY <1>a, <1>2 DEF QueueInv, RunqueueConsistent, task_on_rq_queued,
        task_on_rq_migrating, TaskType, RqType, CtlType, LocalsInv
  <2>12. ExecInv'
    BY <1>a, <1>2 DEF ExecInv, Executes, task_on_rq_queued, TaskType, RqType, CtlType,
        LocalsInv
  <2> QED
    BY <2>1, <2>2, <2>3, <2>4, <2>5, <2>6, <2>7, <2>8, <2>9, <2>10, <2>11, <2>12
<1> QED
  BY <1>1, <1>2

\* The light wakeup, or the discovery that it does not apply.
LEMMA TtwuRemoteInv ==
  ASSUME IndInv, NEW c \in Cpu,
         TtwuRemote(c)
  PROVE  IndInv'
<1> USE DEF TtwuRemote, task_on_rq_queued, task_on_rq_migrating
<1>a. tgt[c] \in Task /\ tpc[tgt[c]] \notin {"free", "new"}
  BY TargetStarted
<1>1. CASE TtwuChase(c, tgt[c])
  <2> USE DEF TtwuChase
  <2>1. TaskType'  BY <1>a, <1>1 DEF TaskType
  <2>2. RqType'  BY <1>a, <1>1 DEF RqType, TaskType, CtlType
  <2>3. AccountType'  BY <1>a, <1>1 DEF AccountType, CtlType
  <2>4. ProgType'  BY <1>a, <1>1 DEF ProgType
  <2>5. CtlType'  BY <1>a, <1>1 DEF CtlType, TaskType
  <2>6. LocalsInv'  BY <1>a, <1>1 DEF LocalsInv, CtlType, RqType, TaskType
  <2>7. ProgInv'  BY <1>a, <1>1 DEF ProgInv, ProgType
  <2>8. LockInv'  BY <1>a, <1>1 DEF LockInv, TaskType, CtlType, LocalsInv
  <2>9. WakerInv'  BY <1>a, <1>1 DEF WakerInv, CtlType, LocalsInv, TaskType
  <2>10. ListInv'  BY <1>a, <1>1 DEF ListInv, RqType, TaskType
  <2>11. QueueInv'
    BY <1>a, <1>1 DEF QueueInv, RunqueueConsistent, task_on_rq_queued,
        task_on_rq_migrating, TaskType, RqType, CtlType, LocalsInv
  <2>12. ExecInv'
    BY <1>a, <1>1 DEF ExecInv, Executes, task_on_rq_queued, TaskType, RqType, CtlType,
        LocalsInv
  <2> QED
    BY <2>1, <2>2, <2>3, <2>4, <2>5, <2>6, <2>7, <2>8, <2>9, <2>10, <2>11, <2>12
<1>2. CASE TtwuFlip(c, tgt[c])
  <2> USE DEF TtwuFlip, Return
  <2>1. TaskType'  BY <1>a, <1>2 DEF TaskType
  <2>2. RqType'  BY <1>a, <1>2 DEF RqType, TaskType, CtlType
  <2>3. AccountType'  BY <1>a, <1>2 DEF AccountType, CtlType
  <2>4. ProgType'  BY <1>a, <1>2 DEF ProgType, RqType, CtlType, TaskType, LocalsInv
  <2>5. CtlType'  BY <1>a, <1>2 DEF CtlType
  <2>6. LocalsInv'  BY <1>a, <1>2 DEF LocalsInv, CtlType
  <2>7. ProgInv'  BY <1>a, <1>2 DEF ProgInv, ProgType
  <2>8. LockInv'  BY <1>a, <1>2 DEF LockInv, TaskType, CtlType, LocalsInv
  <2>9. WakerInv'  BY <1>a, <1>2 DEF WakerInv, CtlType, LocalsInv, TaskType
  <2>10. ListInv'  BY <1>a, <1>2 DEF ListInv, RqType, TaskType
  <2>11. QueueInv'
    BY <1>a, <1>2 DEF QueueInv, RunqueueConsistent, task_on_rq_queued,
        task_on_rq_migrating, TaskType, RqType, CtlType, LocalsInv
  <2>12. ExecInv'
    BY <1>a, <1>2 DEF ExecInv, Executes, task_on_rq_queued, TaskType, RqType, CtlType,
        LocalsInv
  <2> QED
    BY <2>1, <2>2, <2>3, <2>4, <2>5, <2>6, <2>7, <2>8, <2>9, <2>10, <2>11, <2>12
<1>3. CASE TtwuMissed(c, tgt[c])
  <2> USE DEF TtwuMissed
  <2>1. TaskType'  BY <1>a, <1>3 DEF TaskType
  <2>2. RqType'  BY <1>a, <1>3 DEF RqType, TaskType, CtlType
  <2>3. AccountType'  BY <1>a, <1>3 DEF AccountType, CtlType
  <2>4. ProgType'  BY <1>a, <1>3 DEF ProgType
  <2>5. CtlType'  BY <1>a, <1>3 DEF CtlType
  <2>6. LocalsInv'  BY <1>a, <1>3 DEF LocalsInv, CtlType
  <2>7. ProgInv'  BY <1>a, <1>3 DEF ProgInv, ProgType
  <2>8. LockInv'  BY <1>a, <1>3 DEF LockInv, TaskType, CtlType, LocalsInv
  <2>9. WakerInv'
    BY <1>a, <1>3 DEF WakerInv, CtlType, LocalsInv, TaskType, RqType, LockInv, QueueInv,
        RunqueueConsistent, task_on_rq_queued, task_on_rq_migrating
  <2>10. ListInv'  BY <1>a, <1>3 DEF ListInv, RqType, TaskType
  <2>11. QueueInv'
    BY <1>a, <1>3 DEF QueueInv, RunqueueConsistent, task_on_rq_queued,
        task_on_rq_migrating, TaskType, RqType, CtlType, LocalsInv
  <2>12. ExecInv'
    BY <1>a, <1>3 DEF ExecInv, Executes, task_on_rq_queued, TaskType, RqType, CtlType,
        LocalsInv
  <2> QED
    BY <2>1, <2>2, <2>3, <2>4, <2>5, <2>6, <2>7, <2>8, <2>9, <2>10, <2>11, <2>12
<1> QED
  BY <1>1, <1>2, <1>3

\* TASK_WAKING is stored to a task that sleeps off its queue.
LEMMA TtwuWakingInv ==
  ASSUME IndInv, NEW c \in Cpu,
         TtwuWaking(c)
  PROVE  IndInv'
<1> USE DEF TtwuWaking, IowaitRq
<1>a. tgt[c] \in Task /\ tpc[tgt[c]] \notin {"free", "new"}
  BY TargetStarted
<1>1. TaskType'  BY <1>a DEF TaskType
<1>2. RqType'  BY <1>a DEF RqType, TaskType, CtlType
<1>3. AccountType'
  <2>1. cpu[tgt[c]] \in Cpu /\ nr_iowait[cpu[tgt[c]]] - 1 \in Int
    BY <1>a DEF AccountType, TaskType
  <2>2. \/ nr_iowait' = nr_iowait
        \/ nr_iowait' = [nr_iowait EXCEPT ![cpu[tgt[c]]] = nr_iowait[cpu[tgt[c]]] - 1]
    OBVIOUS
  <2>3. nr_iowait' \in [Cpu -> Int]
    BY <2>1, <2>2 DEF AccountType
  <2> QED
    BY <2>3 DEF AccountType
<1>4. ProgType'  BY <1>a DEF ProgType, RqType, CtlType, TaskType, LocalsInv
<1>5. CtlType'  BY <1>a DEF CtlType
<1>6. LocalsInv'  BY <1>a DEF LocalsInv, CtlType
<1>7. ProgInv'  BY <1>a DEF ProgInv, ProgType
<1>8. LockInv'  BY <1>a DEF LockInv, TaskType, CtlType, LocalsInv
<1>9. WakerInv'
  BY <1>a DEF WakerInv, CtlType, LocalsInv, TaskType, RqType, LockInv, ListInv
<1>10. ListInv'  BY <1>a DEF ListInv, RqType, TaskType
<1>11. QueueInv'
  BY <1>a DEF QueueInv, RunqueueConsistent, task_on_rq_queued, task_on_rq_migrating,
      TaskType, RqType, CtlType, LocalsInv, WakerInv
<1>12. ExecInv'
  BY <1>a DEF ExecInv, Executes, task_on_rq_queued, TaskType, RqType, CtlType, LocalsInv
<1> QED
  BY <1>1, <1>2, <1>3, <1>4, <1>5, <1>6, <1>7, <1>8, <1>9, <1>10, <1>11, <1>12

\* The decision for or against the wakelist of the CPU still switching p out.
LEMMA TtwuOnCpuInv ==
  ASSUME IndInv, NEW c \in Cpu,
         TtwuOnCpu(c)
  PROVE  IndInv'
<1> USE DEF TtwuOnCpu
<1>a. tgt[c] \in Task /\ tpc[tgt[c]] \notin {"free", "new"}
  BY TargetStarted
<1>1. CASE on_cpu[tgt[c]] /\ ttwu_queue_cond(c, cpu[tgt[c]], TRUE)
  <2>a. /\ pc[c] = "ttwu_on_cpu" /\ pc' = [pc EXCEPT ![c] = "ttwu_wakelist"]
        /\ lrq' = [lrq EXCEPT ![c] = cpu[tgt[c]]]
        /\ UNCHANGED <<taskVars, lockVars, rqVars, loadVars, ioVars, cntVars, listVars,
                       progVars, evtVars, tgt, mask, voluntary, prev_state>>
    BY <1>1
  <2> HIDE DEF TtwuOnCpu
  <2>1. TaskType'  BY <1>a, <2>a DEF TaskType
  <2>2. RqType'  BY <1>a, <2>a DEF RqType, TaskType, CtlType
  <2>3. AccountType'  BY <1>a, <2>a DEF AccountType, CtlType
  <2>4. ProgType'  BY <1>a, <2>a DEF ProgType
  <2>5. CtlType'  BY <1>a, <2>a DEF CtlType, TaskType
  <2>6. LocalsInv'  BY <1>a, <2>a DEF LocalsInv, CtlType, RqType, TaskType
  <2>7. ProgInv'  BY <1>a, <2>a DEF ProgInv, ProgType
  <2>8. LockInv'  BY <1>a, <2>a DEF LockInv, TaskType, CtlType, LocalsInv
  <2>9. WakerInv'  BY <1>a, <2>a DEF WakerInv, CtlType, LocalsInv, TaskType
  <2>10. ListInv'  BY <1>a, <2>a DEF ListInv, RqType, TaskType
  <2>11. QueueInv'
    BY <1>a, <2>a DEF QueueInv, RunqueueConsistent, task_on_rq_queued,
        task_on_rq_migrating, TaskType, RqType, CtlType, LocalsInv
  <2>12. ExecInv'
    BY <1>a, <2>a DEF ExecInv, Executes, task_on_rq_queued, TaskType, RqType, CtlType,
        LocalsInv
  <2> QED
    BY <2>1, <2>2, <2>3, <2>4, <2>5, <2>6, <2>7, <2>8, <2>9, <2>10, <2>11, <2>12
<1>2. CASE ~(on_cpu[tgt[c]] /\ ttwu_queue_cond(c, cpu[tgt[c]], TRUE))
  <2>a. /\ pc[c] = "ttwu_on_cpu" /\ pc' = [pc EXCEPT ![c] = "ttwu_select"]
        /\ lrq' = [lrq EXCEPT ![c] = None]
        /\ UNCHANGED <<taskVars, lockVars, rqVars, loadVars, ioVars, cntVars, listVars,
                       progVars, evtVars, tgt, mask, voluntary, prev_state>>
    BY <1>2
  <2> HIDE DEF TtwuOnCpu
  <2>1. TaskType'  BY <1>a, <2>a DEF TaskType
  <2>2. RqType'  BY <1>a, <2>a DEF RqType, TaskType, CtlType
  <2>3. AccountType'  BY <1>a, <2>a DEF AccountType
  <2>4. ProgType'  BY <1>a, <2>a DEF ProgType
  <2>5. CtlType'  BY <1>a, <2>a DEF CtlType
  <2>6. LocalsInv'  BY <1>a, <2>a DEF LocalsInv, CtlType
  <2>7. ProgInv'  BY <1>a, <2>a DEF ProgInv, ProgType
  <2>8. LockInv'  BY <1>a, <2>a DEF LockInv, TaskType, CtlType, LocalsInv
  <2>9. WakerInv'  BY <1>a, <2>a DEF WakerInv, CtlType, LocalsInv, TaskType
  <2>10. ListInv'  BY <1>a, <2>a DEF ListInv, RqType, TaskType
  <2>11. QueueInv'
    BY <1>a, <2>a DEF QueueInv, RunqueueConsistent, task_on_rq_queued,
        task_on_rq_migrating, CtlType, LocalsInv, TaskType, RqType
  <2>12. ExecInv'
    BY <1>a, <2>a DEF ExecInv, Executes, task_on_rq_queued, TaskType, RqType, CtlType,
        LocalsInv
  <2> QED
    BY <2>1, <2>2, <2>3, <2>4, <2>5, <2>6, <2>7, <2>8, <2>9, <2>10, <2>11, <2>12
<1> QED
  BY <1>1, <1>2

\* p enters the wakelist of the CPU it belongs to, and pi_lock is released.
LEMMA TtwuWakelistInv ==
  ASSUME IndInv, NEW c \in Cpu,
         TtwuWakelist(c)
  PROVE  IndInv'
<1> USE DEF TtwuWakelist, Return
<1>a. tgt[c] \in Task /\ tpc[tgt[c]] \notin {"free", "new"}
  BY TargetStarted
<1>1. TaskType'  BY <1>a DEF TaskType
<1>2. RqType'  BY <1>a DEF RqType, CtlType, LocalsInv
<1>3. AccountType'  BY <1>a DEF AccountType, CtlType
<1>4. ProgType'  BY <1>a DEF ProgType, RqType, CtlType, TaskType, LocalsInv
<1>5. CtlType'  BY <1>a DEF CtlType
<1>6. LocalsInv'  BY <1>a DEF LocalsInv, CtlType
<1>7. ProgInv'  BY <1>a DEF ProgInv, ProgType
<1>8. LockInv'  BY <1>a DEF LockInv, TaskType, CtlType, LocalsInv
<1>9. WakerInv'  BY <1>a DEF WakerInv, CtlType, LocalsInv, TaskType, LockInv
<1>10. ListInv'  BY <1>a DEF ListInv, RqType, TaskType, CtlType, WakerInv, LocalsInv
<1>11. QueueInv'
  BY <1>a DEF QueueInv, RunqueueConsistent, task_on_rq_queued, task_on_rq_migrating,
      TaskType, RqType, CtlType, LocalsInv
<1>12. ExecInv'
  BY <1>a DEF ExecInv, Executes, task_on_rq_queued, TaskType, RqType, CtlType, LocalsInv
<1> QED
  BY <1>1, <1>2, <1>3, <1>4, <1>5, <1>6, <1>7, <1>8, <1>9, <1>10, <1>11, <1>12

\* p is on no CPU any more when its cpu changes.
LEMMA TtwuSelectInv ==
  ASSUME IndInv, NEW c \in Cpu, NEW dest \in Cpu,
         TtwuSelect(c, dest)
  PROVE  IndInv'
<1> USE DEF TtwuSelect, SwitchedAway
<1>a. tgt[c] \in Task /\ tpc[tgt[c]] \notin {"free", "new"}
  BY TargetStarted
<1>1. TaskType'  BY <1>a DEF TaskType
<1>2. RqType'  BY <1>a DEF RqType, TaskType, CtlType
<1>3. AccountType'  BY <1>a DEF AccountType, CtlType
<1>4. ProgType'  BY <1>a DEF ProgType, RqType, CtlType, TaskType, LocalsInv
<1>5. CtlType'  BY <1>a DEF CtlType
<1>6. LocalsInv'  BY <1>a DEF LocalsInv, CtlType
<1>7. ProgInv'  BY <1>a DEF ProgInv, ProgType
<1>8. LockInv'  BY <1>a DEF LockInv, TaskType, CtlType, LocalsInv
<1>9. WakerInv'  BY <1>a DEF WakerInv, CtlType, LocalsInv, TaskType, LockInv
<1>10. ListInv'  BY <1>a DEF ListInv, RqType, TaskType, CtlType, WakerInv, LocalsInv
<1>11. QueueInv'
  BY <1>a DEF QueueInv, RunqueueConsistent, task_on_rq_queued, task_on_rq_migrating,
      TaskType, RqType, CtlType, LocalsInv, WakerInv
<1>12. ExecInv'
  BY <1>a DEF ExecInv, Executes, task_on_rq_queued, TaskType, RqType, CtlType, LocalsInv
<1> QED
  BY <1>1, <1>2, <1>3, <1>4, <1>5, <1>6, <1>7, <1>8, <1>9, <1>10, <1>11, <1>12

\* p was off its queue and in the waker's hands; now it is queued.
LEMMA TtwuQueueInv ==
  ASSUME IndInv, NEW c \in Cpu,
         TtwuQueue(c)
  PROVE  IndInv'
<1> USE DEF TtwuQueue, Return, ttwu_do_activate
<1>a. tgt[c] \in Task /\ tpc[tgt[c]] \notin {"free", "new"}
  BY TargetStarted
<1>1. TaskType'  BY <1>a DEF TaskType
<1>2. RqType'  BY <1>a DEF RqType, CtlType, LocalsInv
<1>3. AccountType'
  <2>1. lrq[c] \in Cpu /\ {tgt[c]} \in SUBSET Task
    BY <1>a DEF LocalsInv
  <2>2. nr_uninterruptible' \in [Cpu -> 0 .. LoadMod - 1]
    <3> HIDE DEF ttwu_do_activate
    <3> QED BY <2>1, ActivateLoad DEF AccountType
  <2> QED
    BY <2>2 DEF AccountType
<1>4. ProgType'  BY <1>a DEF ProgType, RqType, CtlType, TaskType, LocalsInv
<1>5. CtlType'  BY <1>a DEF CtlType
<1>6. LocalsInv'  BY <1>a DEF LocalsInv, CtlType
<1>7. ProgInv'  BY <1>a DEF ProgInv, ProgType
<1>8. LockInv'  BY <1>a DEF LockInv, TaskType, CtlType, LocalsInv
<1>9. WakerInv'  BY <1>a DEF WakerInv, CtlType, LocalsInv, TaskType, LockInv
<1>10. ListInv'  BY <1>a DEF ListInv, RqType, TaskType, CtlType, WakerInv, LocalsInv
<1>11. QueueInv'
  BY <1>a DEF QueueInv, RunqueueConsistent, task_on_rq_queued, task_on_rq_migrating,
      TaskType, RqType, CtlType, LocalsInv, WakerInv
<1>12. ExecInv'
  BY <1>a DEF ExecInv, Executes, task_on_rq_queued, TaskType, RqType, CtlType, LocalsInv
<1> QED
  BY <1>1, <1>2, <1>3, <1>4, <1>5, <1>6, <1>7, <1>8, <1>9, <1>10, <1>11, <1>12

\* A whole wakelist is queued on the CPU its tasks belong to.
LEMMA SchedTtwuPendingInv ==
  ASSUME IndInv, NEW c \in Cpu,
         SchedTtwuPending(c)
  PROVE  IndInv'
<1> USE DEF SchedTtwuPending, ttwu_do_activate
<1>1. TaskType'  BY DEF TaskType
<1>2. RqType'  BY DEF RqType, TaskType, CtlType
<1>3. AccountType'
  <2>1. pending[c] \in SUBSET Task
    BY DEF RqType
  <2>2. nr_uninterruptible' \in [Cpu -> 0 .. LoadMod - 1]
    <3> HIDE DEF ttwu_do_activate
    <3> QED BY <2>1, ActivateLoad DEF AccountType
  <2> QED
    BY <2>2 DEF AccountType
<1>4. ProgType'  BY DEF ProgType
<1>5. CtlType'  BY DEF CtlType
<1>6. LocalsInv'  BY DEF LocalsInv, CtlType, RqType
<1>7. ProgInv'  BY DEF ProgInv, ProgType, TaskType, ListInv, RqType
<1>8. LockInv'  BY DEF LockInv, TaskType, CtlType, LocalsInv
<1>9. WakerInv'  BY DEF WakerInv, CtlType, LocalsInv, TaskType, RqType, LockInv, ListInv
<1>10. ListInv'  BY DEF ListInv, RqType, TaskType
<1>11. QueueInv'
  BY DEF QueueInv, RunqueueConsistent, task_on_rq_queued, task_on_rq_migrating,
      TaskType, RqType, CtlType, LocalsInv, ListInv
<1>12. ExecInv'
  BY DEF ExecInv, Executes, task_on_rq_queued, TaskType, RqType, CtlType, LocalsInv
<1> QED
  BY <1>1, <1>2, <1>3, <1>4, <1>5, <1>6, <1>7, <1>8, <1>9, <1>10, <1>11, <1>12

\* The stopper moves a queued task of its own CPU, which cannot be running
\* because the stopper is.
LEMMA MigrationCpuStopInv ==
  ASSUME IndInv, NEW c \in Cpu,
         MigrationCpuStop(c)
  PROVE  IndInv'
<1> USE DEF MigrationCpuStop, task_on_rq_queued
<1>a. StopFacts(c)
  BY StopWork
<1> USE DEF StopFacts, Work
<1>1. CASE StopMove(c, Head(stopq[c]).task, Head(stopq[c]).dest)
  <2>p. PICK p \in Task, dest \in Cpu : p = Head(stopq[c]).task /\ dest = Head(stopq[c]).dest
    BY <1>a
  <2>m. /\ on_rq' = [on_rq EXCEPT ![p] = TASK_ON_RQ_MIGRATING]
        /\ rq' = [rq EXCEPT ![c] = @ \ {p}] /\ cpu' = [cpu EXCEPT ![p] = dest]
        /\ pi_lock' = [pi_lock EXCEPT ![p] = c] /\ tgt' = [tgt EXCEPT ![c] = p]
        /\ lrq' = [lrq EXCEPT ![c] = dest] /\ pc' = [pc EXCEPT ![c] = "move"]
        /\ pc[c] = "stop_lock" /\ pi_lock[p] = None /\ rq_lock[c] = None
        /\ cpu[p] = c /\ task_on_rq_queued(p)
        /\ UNCHANGED <<state, on_cpu, cpus_mask, rq_lock, curr, loadVars, ioVars, cntVars,
                       listVars, tpc, targ, stopq, evtVars, mask, voluntary, prev_state>>
    BY <1>1, <2>p DEF StopMove, move_queued_task
  <2> HIDE DEF MigrationCpuStop
  <2>a. ~on_cpu[p]
    <3>1. curr[c] = Stopper
      BY <2>m DEF LocalsInv
    <3>2. ~Executes(c, p)
      BY <2>m, <3>1 DEF Executes
    <3> QED
      BY <2>m, <3>2 DEF ExecInv
  <2>b. \A d \in Cpu : /\ d # c => pc'[d] = pc[d] /\ tgt'[d] = tgt[d] /\ lrq'[d] = lrq[d]
                       /\ pc[d] \in TtwuPc \cup {"move"} => tgt[d] # p
    BY <2>m DEF CtlType, LockInv
  <2>1. TaskType'  BY <2>m DEF TaskType
  <2>2. RqType'  BY <2>m DEF RqType
  <2>3. AccountType'  BY <2>m DEF AccountType
  <2>4. ProgType'  BY <2>m DEF ProgType
  <2>5. CtlType'  BY <2>m DEF CtlType
  <2>6. LocalsInv'  BY <2>m DEF LocalsInv, CtlType
  <2>7. ProgInv'  BY <2>m DEF ProgInv, ProgType
  <2>8. LockInv'
    <3>1. \A d \in Cpu : rq_lock'[d] = IF pc'[d] \in SwitchPc THEN d ELSE None
      BY <2>m DEF LockInv, CtlType
    <3>2. ASSUME NEW d \in Cpu, NEW t \in Task
          PROVE  pi_lock'[t] = d <=> tgt'[d] = t /\ pc'[d] \in TtwuPc \cup {"move"}
      <4>1. pi_lock'[t] = IF t = p THEN c ELSE pi_lock[t]
        BY <2>m DEF TaskType
      <4>2. pi_lock[t] = d <=> tgt[d] = t /\ pc[d] \in TtwuPc \cup {"move"}
        BY DEF LockInv
      <4>3. CASE d = c
        <5>1. tgt'[d] = p /\ pc'[d] = "move" /\ pi_lock[t] # c
          BY <2>m, <4>2, <4>3 DEF CtlType
        <5> QED
          BY ONLY <4>1, <4>3, <5>1
      <4>4. CASE d # c
        BY ONLY <2>b, <4>1, <4>2, <4>4, d \in Cpu
      <4> QED
        BY <4>3, <4>4
    <3> QED
      BY ONLY <3>1, <3>2 DEF LockInv
  <2>9. WakerInv'
    <3>1. \A t \in Task : t # p => on_rq'[t] = on_rq[t] /\ cpu'[t] = cpu[t]
      BY <2>m DEF TaskType
    <3>2. \A d \in Cpu : pc'[d] \in TtwuPc =>
              /\ pc'[d] = pc[d] /\ tgt'[d] = tgt[d] /\ lrq'[d] = lrq[d] /\ tgt[d] \in Task \ {p}
      BY <2>m, <2>b DEF CtlType, LocalsInv
    <3>3. WakerInv /\ UNCHANGED <<state, wakelist, pending>>
      BY <2>m
    <3> QED
      BY ONLY <3>1, <3>2, <3>3 DEF WakerInv, TtwuPc
  <2>10. ListInv'
    <3>1. \A d \in Cpu : p \notin wakelist[d] \cup pending[d]
      BY <2>m DEF ListInv, task_on_rq_queued
    <3> QED
      BY <2>m, <3>1 DEF ListInv, TaskType, RqType
  <2>11. QueueInv'
    BY <2>m, <2>b DEF QueueInv, RunqueueConsistent, task_on_rq_queued,
        task_on_rq_migrating, TaskType, RqType, CtlType
  <2>12. ExecInv'
    <3>1. \A d \in Cpu, t \in Task : Executes(d, t)' <=> Executes(d, t)
      BY <2>m, <2>b, <2>a DEF Executes, CtlType
    <3>2. \A t \in Task : t # p => on_rq'[t] = on_rq[t] /\ cpu'[t] = cpu[t]
      BY <2>m DEF TaskType
    <3>3. \A d \in Cpu : pc'[d] \notin {"iowait", "pick"} /\ curr[d] \in Task
              => pc[d] \notin {"iowait", "pick"} /\ curr[d] # p
      BY <2>m, <2>b, <2>a DEF ExecInv, Executes, LocalsInv
    <3>4. ExecInv /\ cpu \in [Task -> Cpu] /\ UNCHANGED <<on_cpu, curr>> /\ ~on_cpu[p]
      BY <2>m, <2>a DEF TaskType
    <3> QED
      BY ONLY <3>1, <3>2, <3>3, <3>4 DEF ExecInv, task_on_rq_queued
  <2> QED
    BY <2>1, <2>2, <2>3, <2>4, <2>5, <2>6, <2>7, <2>8, <2>9, <2>10, <2>11, <2>12
<1>2. CASE StopNothing(c, Head(stopq[c]).task, Head(stopq[c]).dest)
  <2> USE DEF StopNothing, StopDone, Return
  <2>1. TaskType'  BY <1>a, <1>2 DEF TaskType
  <2>2. RqType'  BY <1>a, <1>2 DEF RqType, TaskType, CtlType
  <2>3. AccountType'  BY <1>a, <1>2 DEF AccountType
  <2>4. ProgType'  BY <1>a, <1>2 DEF ProgType
  <2>5. CtlType'  BY <1>a, <1>2 DEF CtlType
  <2>6. LocalsInv'
    <3>1. /\ pc' = [pc EXCEPT ![c] = "run"] /\ tgt' = [tgt EXCEPT ![c] = None]
          /\ lrq' = [lrq EXCEPT ![c] = None]
          /\ UNCHANGED <<curr, pending>> /\ pc[c] = "stop_lock"
      BY <1>2
    <3>2. \A d \in Cpu : d # c => stopq'[d] = stopq[d]
      BY <1>2 DEF ProgType
    <3>3. \A d \in Cpu : d # c => pc'[d] = pc[d] /\ tgt'[d] = tgt[d] /\ lrq'[d] = lrq[d]
      BY <3>1 DEF CtlType
    <3>4. pc'[c] = "run" /\ pending[c] = {} /\ LocalsInv /\ UNCHANGED <<curr, pending>>
      BY <3>1 DEF CtlType, LocalsInv
    <3> QED
      BY ONLY <3>2, <3>3, <3>4 DEF LocalsInv
  <2>7. ProgInv'
    <3>1. /\ tpc' = [tpc EXCEPT ![Head(stopq[c]).caller] = "work"]
          /\ stopq' = [stopq EXCEPT ![c] = Tail(stopq[c])] /\ UNCHANGED targ
      BY <1>2
    <3>2. \A u \in Task : tpc'[u] = (IF u = Head(stopq[c]).caller THEN "work" ELSE tpc[u])
      BY <3>1, <1>a DEF ProgType
    <3>3. \A d \in Cpu : \A i \in DOMAIN stopq'[d] : \E j \in DOMAIN stopq[d] : stopq'[d][i] = stopq[d][j]
      <4> HIDE DEF MigrationCpuStop, StopNothing
      <4> QED BY <3>1, <1>a DEF ProgType
    <3>4. ASSUME NEW d \in Cpu, NEW i \in DOMAIN stopq'[d]
          PROVE  tpc'[stopq'[d][i].caller] \notin {"free", "new"}
      <4>1. PICK j \in DOMAIN stopq[d] : stopq'[d][i] = stopq[d][j]
        BY <3>3
      <4>2. stopq[d][j].caller \in Task /\ tpc[stopq[d][j].caller] \notin {"free", "new"}
        BY StopCaller
      <4> QED
        BY <3>2, <4>1, <4>2
    <3>5. \A u \in Task : tpc[u] \in {"free", "new"} => tpc'[u] = tpc[u]
      BY <3>2, <1>a
    <3>6. \A u \in Task : tpc'[u] \in {"free", "new", "forked", "stop_one"} => tpc'[u] = tpc[u]
      BY <3>2
    <3>7. \A u \in Task : tpc'[u] \in {"free", "new"} =>
              state'[u] = state[u] /\ on_rq'[u] = on_rq[u] /\ on_cpu'[u] = on_cpu[u]
      BY <3>6, <1>2 DEF TaskType
    <3> HIDE DEF MigrationCpuStop, StopNothing
    <3> QED
      BY <3>1, <3>4, <3>5, <3>6, <3>7 DEF ProgInv
  <2>8. LockInv'  BY <1>a, <1>2 DEF LockInv, TaskType, CtlType, LocalsInv
  <2>9. WakerInv'  BY <1>a, <1>2 DEF WakerInv, CtlType, LocalsInv, TaskType
  <2>10. ListInv'  BY <1>a, <1>2 DEF ListInv, RqType, TaskType
  <2>11. QueueInv'
    BY <1>a, <1>2 DEF QueueInv, RunqueueConsistent, task_on_rq_queued,
        task_on_rq_migrating, TaskType, RqType, CtlType, LocalsInv
  <2>12. ExecInv'
    BY <1>a, <1>2 DEF ExecInv, Executes, task_on_rq_queued, TaskType, RqType, CtlType,
        LocalsInv
  <2> QED
    BY <2>1, <2>2, <2>3, <2>4, <2>5, <2>6, <2>7, <2>8, <2>9, <2>10, <2>11, <2>12
<1> QED
  BY <1>1, <1>2

\* A moving task arrives; the stopper completes its work.
LEMMA MoveEnqueueInv ==
  ASSUME IndInv, NEW c \in Cpu,
         MoveEnqueue(c)
  PROVE  IndInv'
<1> USE DEF MoveEnqueue, Return
<1>a. tgt[c] \in Task /\ tpc[tgt[c]] \notin {"free", "new"}
  BY TargetStarted
<1>1. CASE curr[c] = Stopper
  <2> USE DEF StopDone
  <2>a. StopFacts(c)
    BY <1>1, StopWork
  <2> USE DEF StopFacts, Work
  <2>1. TaskType'  BY <1>a, <1>1, <2>a DEF TaskType
  <2>2. RqType'  BY <1>a, <1>1, <2>a DEF RqType, CtlType, LocalsInv
  <2>3. AccountType'  BY <1>a, <1>1, <2>a DEF AccountType
  <2>4. ProgType'
    <3>1. stopq' = [stopq EXCEPT ![c] = Tail(stopq[c])]
      BY <1>1
    <3>2. stopq' \in [Cpu -> Seq([task : Task, dest : Cpu, caller : Task])]
      BY <3>1, <2>a DEF ProgType
    <3>3. tpc' = [tpc EXCEPT ![Head(stopq[c]).caller] = "work"] /\ UNCHANGED <<targ, cond, sigpending>>
      BY <1>1
    <3> QED
      BY <3>2, <3>3, <2>a DEF ProgType
  <2>5. CtlType'  BY <1>a, <1>1, <2>a DEF CtlType
  <2>6. LocalsInv'  BY <1>a, <1>1, <2>a DEF LocalsInv, CtlType, RqType, ProgType
  <2>7. ProgInv'
    <3>1. /\ tpc' = [tpc EXCEPT ![Head(stopq[c]).caller] = "work"]
          /\ stopq' = [stopq EXCEPT ![c] = Tail(stopq[c])] /\ UNCHANGED targ
      BY <1>1
    <3>2. \A u \in Task : tpc'[u] = (IF u = Head(stopq[c]).caller THEN "work" ELSE tpc[u])
      BY <3>1, <2>a DEF ProgType
    <3>3. \A d \in Cpu : \A i \in DOMAIN stopq'[d] : \E j \in DOMAIN stopq[d] : stopq'[d][i] = stopq[d][j]
      <4> HIDE DEF MoveEnqueue
      <4> QED BY <3>1, <2>a DEF ProgType
    <3>4. ASSUME NEW d \in Cpu, NEW i \in DOMAIN stopq'[d]
          PROVE  tpc'[stopq'[d][i].caller] \notin {"free", "new"}
      <4>1. PICK j \in DOMAIN stopq[d] : stopq'[d][i] = stopq[d][j]
        BY <3>3
      <4>2. stopq[d][j].caller \in Task /\ tpc[stopq[d][j].caller] \notin {"free", "new"}
        BY StopCaller
      <4> QED
        BY <3>2, <4>1, <4>2
    <3>5. \A u \in Task : tpc[u] \in {"free", "new"} => tpc'[u] = tpc[u]
      BY <3>2, <2>a
    <3>6. \A u \in Task : tpc'[u] \in {"free", "new", "forked", "stop_one"} => tpc'[u] = tpc[u]
      BY <3>2
    <3>7. \A u \in Task : tpc'[u] \in {"free", "new"} =>
              state'[u] = state[u] /\ on_rq'[u] = on_rq[u] /\ on_cpu'[u] = on_cpu[u]
      BY <3>6, <1>a DEF TaskType
    <3> HIDE DEF MoveEnqueue
    <3> QED
      BY <3>1, <3>4, <3>5, <3>6, <3>7 DEF ProgInv
  <2>8. LockInv'
    <3>1. /\ pi_lock' = [pi_lock EXCEPT ![tgt[c]] = None] /\ pc' = [pc EXCEPT ![c] = "run"]
          /\ tgt' = [tgt EXCEPT ![c] = None] /\ UNCHANGED rq_lock /\ pc[c] = "move"
      BY <1>1
    <3>2. /\ DOMAIN pi_lock = Task /\ DOMAIN pc = Cpu /\ DOMAIN tgt = Cpu /\ LockInv
          /\ tgt[c] \in Task
      BY <1>a DEF TaskType, CtlType
    <3> QED
      BY ONLY <3>1, <3>2, c \in Cpu, CpuAssumption DEF LockInv, None, TtwuPc, SwitchPc
  <2>9. WakerInv'
    BY <1>a, <1>1, <2>a DEF WakerInv, CtlType, LocalsInv, TaskType, LockInv
  <2>10. ListInv'
    BY <1>a, <1>1, <2>a DEF ListInv, RqType, TaskType, QueueInv, RunqueueConsistent,
        task_on_rq_queued, task_on_rq_migrating, CtlType, LocalsInv
  <2>11. QueueInv'
    <3>1. /\ rq' = [rq EXCEPT ![lrq[c]] = @ \cup {tgt[c]}]
          /\ on_rq' = [on_rq EXCEPT ![tgt[c]] = TASK_ON_RQ_QUEUED]
          /\ UNCHANGED <<cpu, state>>
      OBVIOUS
    <3>2. /\ pc[c] = "move" /\ lrq[c] \in Cpu /\ cpu[tgt[c]] = lrq[c]
          /\ task_on_rq_migrating(tgt[c])
      BY <1>a DEF QueueInv, TaskType
    <3>3. \A d \in Cpu : pc'[d] \in {"move", "attach"} =>
              d # c /\ pc'[d] = pc[d] /\ tgt'[d] = tgt[d] /\ lrq'[d] = lrq[d]
      BY DEF CtlType
    <3>4. RunqueueConsistent'
      BY <3>1, <3>2, <1>a DEF QueueInv, RunqueueConsistent, task_on_rq_queued,
          task_on_rq_migrating, TaskType, RqType
    <3>5. \A d \in Cpu : pc[d] \in {"move", "attach"} /\ d # c => tgt[d] # tgt[c]
      BY <3>2 DEF QueueInv
    <3> HIDE DEF MoveEnqueue
    <3> QED
      BY <3>1, <3>2, <3>3, <3>4, <3>5, <1>a DEF QueueInv, task_on_rq_migrating, TaskType
  <2>12. ExecInv'
    <3>1. /\ on_rq' = [on_rq EXCEPT ![tgt[c]] = TASK_ON_RQ_QUEUED] /\ pc[c] = "move"
          /\ pc' = [pc EXCEPT ![c] = "run"] /\ tgt' = [tgt EXCEPT ![c] = None]
          /\ UNCHANGED <<curr, on_cpu, cpu>>
      BY <1>1
    <3>2. /\ DOMAIN on_rq = Task /\ DOMAIN pc = Cpu /\ DOMAIN tgt = Cpu /\ ExecInv
          /\ cpu \in [Task -> Cpu] /\ tgt[c] \in Task
      BY <1>a DEF TaskType, CtlType
    <3>3. \A d \in Cpu, t \in Task : Executes(d, t)' <=> Executes(d, t)
      BY ONLY <3>1, <3>2, c \in Cpu DEF Executes
    <3>4. \A t \in Task : on_rq[t] = TASK_ON_RQ_QUEUED => on_rq'[t] = TASK_ON_RQ_QUEUED
      BY ONLY <3>1, <3>2
    <3>5. \A d \in Cpu : pc'[d] \notin {"iowait", "pick"} => pc[d] \notin {"iowait", "pick"}
      BY ONLY <3>1, <3>2, c \in Cpu
    <3> QED
      BY ONLY <3>1, <3>2, <3>3, <3>4, <3>5 DEF ExecInv, task_on_rq_queued
  <2> QED
    BY <2>1, <2>2, <2>3, <2>4, <2>5, <2>6, <2>7, <2>8, <2>9, <2>10, <2>11, <2>12
<1>2. CASE curr[c] # Stopper
  <2>1. TaskType'  BY <1>a, <1>2 DEF TaskType
  <2>2. RqType'  BY <1>a, <1>2 DEF RqType, CtlType, LocalsInv
  <2>3. AccountType'  BY <1>a, <1>2 DEF AccountType
  <2>4. ProgType'  BY <1>a, <1>2 DEF ProgType, RqType, CtlType, TaskType, LocalsInv
  <2>5. CtlType'  BY <1>a, <1>2 DEF CtlType
  <2>6. LocalsInv'  BY <1>a, <1>2 DEF LocalsInv, CtlType
  <2>7. ProgInv'  BY <1>a, <1>2 DEF ProgInv, ProgType
  <2>8. LockInv'  BY <1>a, <1>2 DEF LockInv, TaskType, CtlType, LocalsInv
  <2>9. WakerInv'  BY <1>a, <1>2 DEF WakerInv, CtlType, LocalsInv, TaskType, LockInv
  <2>10. ListInv'
    BY <1>a, <1>2 DEF ListInv, RqType, TaskType, QueueInv, RunqueueConsistent,
        task_on_rq_queued, task_on_rq_migrating, CtlType, LocalsInv
  <2>11. QueueInv'
    BY <1>a, <1>2 DEF QueueInv, RunqueueConsistent, task_on_rq_queued,
        task_on_rq_migrating, TaskType, RqType, CtlType, LocalsInv
  <2>12. ExecInv'
    BY <1>a, <1>2 DEF ExecInv, Executes, task_on_rq_queued, TaskType, RqType, CtlType,
        LocalsInv
  <2> QED
    BY <2>1, <2>2, <2>3, <2>4, <2>5, <2>6, <2>7, <2>8, <2>9, <2>10, <2>11, <2>12
<1> QED
  BY <1>1, <1>2

\* A pulled task arrives.
LEMMA AttachTaskInv ==
  ASSUME IndInv, NEW c \in Cpu,
         AttachTask(c)
  PROVE  IndInv'
<1> USE DEF AttachTask, Return
<1>a. tgt[c] \in Task /\ tpc[tgt[c]] \notin {"free", "new"}
  BY TargetStarted
<1>1. TaskType'  BY <1>a DEF TaskType
<1>2. RqType'  BY <1>a DEF RqType, TaskType, CtlType
<1>3. AccountType'  BY <1>a DEF AccountType, CtlType
<1>4. ProgType'  BY <1>a DEF ProgType, RqType, CtlType, TaskType, LocalsInv
<1>5. CtlType'  BY <1>a DEF CtlType
<1>6. LocalsInv'  BY <1>a DEF LocalsInv, CtlType
<1>7. ProgInv'  BY <1>a DEF ProgInv, ProgType
<1>8. LockInv'  BY <1>a DEF LockInv, TaskType, CtlType, LocalsInv
<1>9. WakerInv'
  BY <1>a DEF WakerInv, CtlType, LocalsInv, TaskType, RqType, LockInv, QueueInv,
      RunqueueConsistent, task_on_rq_queued, task_on_rq_migrating
<1>10. ListInv'
  BY <1>a DEF ListInv, RqType, TaskType, QueueInv, RunqueueConsistent,
      task_on_rq_queued, task_on_rq_migrating, CtlType, LocalsInv
<1>11. QueueInv'
  BY <1>a DEF QueueInv, RunqueueConsistent, task_on_rq_queued, task_on_rq_migrating,
      TaskType, RqType, CtlType, LocalsInv
<1>12. ExecInv'
  BY <1>a DEF ExecInv, Executes, task_on_rq_queued, TaskType, RqType, CtlType, LocalsInv
<1> QED
  BY <1>1, <1>2, <1>3, <1>4, <1>5, <1>6, <1>7, <1>8, <1>9, <1>10, <1>11, <1>12

\* A wakeup of the current task: a store to a queued task.
LEMMA WakeCurrentInv ==
  ASSUME IndInv, NEW c \in Cpu, NEW p \in Task, NEW kind \in WakeKinds,
         WakeCurrent(c, p, kind)
  PROVE  IndInv'
<1> USE DEF WakeCurrent, Announce, Running, WakeMask
<1>a. CurrentFacts(c, p)
  BY CurrentTask
<1> USE DEF CurrentFacts
<1>1. TaskType'  BY <1>a DEF TaskType
<1>2. RqType'  BY <1>a DEF RqType, TaskType, CtlType
<1>3. AccountType'  BY <1>a DEF AccountType
<1>4. ProgType'  BY <1>a DEF ProgType
<1>5. CtlType'  BY <1>a DEF CtlType
<1>6. LocalsInv'  BY <1>a DEF LocalsInv, CtlType
<1>7. ProgInv'  BY <1>a DEF ProgInv, ProgType
<1>8. LockInv'  BY <1>a DEF LockInv, TaskType, CtlType, LocalsInv
<1>9. WakerInv'  BY <1>a DEF WakerInv, CtlType, LocalsInv, TaskType
<1>10. ListInv'  BY <1>a DEF ListInv, RqType, TaskType
<1>11. QueueInv'
  BY <1>a DEF QueueInv, RunqueueConsistent, task_on_rq_queued, task_on_rq_migrating,
      TaskType, RqType, CtlType, LocalsInv
<1>12. ExecInv'
  BY <1>a DEF ExecInv, Executes, task_on_rq_queued, TaskType, RqType, CtlType, LocalsInv
<1> QED
  BY <1>1, <1>2, <1>3, <1>4, <1>5, <1>6, <1>7, <1>8, <1>9, <1>10, <1>11, <1>12

\* The announcement of a wakeup: only the CONDITION, the signal and the
\* waker's locals move.
LEMMA WakeInv ==
  ASSUME IndInv, NEW c \in Cpu, NEW p \in Task, NEW kind \in WakeKinds,
         Wake(c, p, kind)
  PROVE  IndInv'
<1> USE DEF Wake, Announce, WakeMask
<1>1. TaskType'  BY DEF TaskType
<1>2. RqType'  BY DEF RqType, TaskType, CtlType
<1>3. AccountType'  BY DEF AccountType, CtlType
<1>4. ProgType'  BY DEF ProgType
<1>5. CtlType'  BY DEF CtlType
<1>6. LocalsInv'  BY DEF LocalsInv, CtlType
<1>7. ProgInv'  BY DEF ProgInv, ProgType
<1>8. LockInv'  BY DEF LockInv, TaskType, CtlType, LocalsInv
<1>9. WakerInv'  BY DEF WakerInv, CtlType, LocalsInv, TaskType
<1>10. ListInv'  BY DEF ListInv, RqType, TaskType
<1>11. QueueInv'
  BY DEF QueueInv, RunqueueConsistent, task_on_rq_queued, task_on_rq_migrating,
      TaskType, RqType, CtlType, LocalsInv
<1>12. ExecInv'
  BY DEF ExecInv, Executes, task_on_rq_queued, TaskType, RqType, CtlType, LocalsInv
<1> QED
  BY <1>1, <1>2, <1>3, <1>4, <1>5, <1>6, <1>7, <1>8, <1>9, <1>10, <1>11, <1>12

\* The wakelist becomes the private list of the handler.
LEMMA TtwuIpiInv ==
  ASSUME IndInv, NEW c \in Cpu,
         TtwuIpi(c)
  PROVE  IndInv'
<1> USE DEF TtwuIpi
<1>1. TaskType'  BY DEF TaskType
<1>2. RqType'  BY DEF RqType, TaskType, CtlType
<1>3. AccountType'  BY DEF AccountType
<1>4. ProgType'  BY DEF ProgType
<1>5. CtlType'  BY DEF CtlType
<1>6. LocalsInv'  BY DEF LocalsInv, CtlType
<1>7. ProgInv'  BY DEF ProgInv, ProgType
<1>8. LockInv'  BY DEF LockInv, TaskType, CtlType, LocalsInv
<1>9. WakerInv'  BY DEF WakerInv, CtlType, LocalsInv, TaskType
<1>10. ListInv'  BY DEF ListInv, RqType, TaskType
<1>11. QueueInv'
  BY DEF QueueInv, RunqueueConsistent, task_on_rq_queued, task_on_rq_migrating,
      TaskType, RqType, CtlType, LocalsInv
<1>12. ExecInv'
  BY DEF ExecInv, Executes, task_on_rq_queued, TaskType, RqType, CtlType, LocalsInv
<1> QED
  BY <1>1, <1>2, <1>3, <1>4, <1>5, <1>6, <1>7, <1>8, <1>9, <1>10, <1>11, <1>12

\* The load balancer takes a queued task that does not run.
LEMMA DetachTaskInv ==
  ASSUME IndInv, NEW c \in Cpu, NEW p \in Task,
         DetachTask(c, p)
  PROVE  IndInv'
<1> USE DEF DetachTask, task_on_rq_queued
<1>1. TaskType'  BY DEF TaskType
<1>2. RqType'  BY DEF RqType, TaskType, CtlType
<1>3. AccountType'  BY DEF AccountType
<1>4. ProgType'  BY DEF ProgType, RqType, CtlType, TaskType, LocalsInv
<1>5. CtlType'  BY DEF CtlType
<1>6. LocalsInv'  BY DEF LocalsInv, CtlType
<1>7. ProgInv'  BY DEF ProgInv, ProgType
<1>8. LockInv'  BY DEF LockInv, TaskType, CtlType, LocalsInv
<1>9. WakerInv'  BY DEF WakerInv, CtlType, LocalsInv, TaskType
<1>10. ListInv'  BY DEF ListInv, RqType, TaskType
<1>11. QueueInv'
  BY DEF QueueInv, RunqueueConsistent, task_on_rq_queued, task_on_rq_migrating,
      TaskType, RqType, CtlType, LocalsInv
<1>12. ExecInv'
  BY DEF ExecInv, Executes, task_on_rq_queued, TaskType, RqType, CtlType, LocalsInv
<1> QED
  BY <1>1, <1>2, <1>3, <1>4, <1>5, <1>6, <1>7, <1>8, <1>9, <1>10, <1>11, <1>12

\* __schedule(false) takes the current task off the queue unless it is awake
\* again or a signal cancels its sleep.
LEMMA ScheduleInv ==
  ASSUME IndInv, NEW c \in Cpu, NEW t \in Task,
         Schedule(c, t)
  PROVE  IndInv'
<1> USE DEF Schedule, Running, AfterSchedule, signal_pending_state
<1>a. CurrentFacts(c, t)
  BY CurrentTask
<1> USE DEF CurrentFacts
<1>1. CASE KeepRunnable(c, t)
  <2> USE DEF KeepRunnable
  <2>1. TaskType'  BY <1>a, <1>1 DEF TaskType
  <2>2. RqType'  BY <1>a, <1>1 DEF RqType, TaskType, CtlType
  <2>3. AccountType'  BY <1>a, <1>1 DEF AccountType, CtlType
  <2>4. ProgType'  BY <1>a, <1>1 DEF ProgType, RqType, CtlType, LocalsInv
  <2>5. CtlType'  BY <1>a, <1>1 DEF CtlType
  <2>6. LocalsInv'  BY <1>a, <1>1 DEF LocalsInv, CtlType
  <2>7. ProgInv'  BY <1>a, <1>1 DEF ProgInv, ProgType
  <2>8. LockInv'  BY <1>a, <1>1 DEF LockInv, TaskType, RqType, CtlType
  <2>9. WakerInv'  BY <1>a, <1>1 DEF WakerInv, CtlType, LocalsInv, TaskType
  <2>10. ListInv'  BY <1>a, <1>1 DEF ListInv, RqType, TaskType
  <2>11. QueueInv'
    BY <1>a, <1>1 DEF QueueInv, RunqueueConsistent, task_on_rq_queued,
        task_on_rq_migrating, TaskType, RqType, CtlType, LocalsInv
  <2>12. ExecInv'
    BY <1>a, <1>1 DEF ExecInv, Executes, task_on_rq_queued, TaskType, RqType, CtlType,
        LocalsInv
  <2> QED
    BY <2>1, <2>2, <2>3, <2>4, <2>5, <2>6, <2>7, <2>8, <2>9, <2>10, <2>11, <2>12
<1>2. CASE CancelSleep(c, t)
  <2> USE DEF CancelSleep
  <2>1. TaskType'  BY <1>a, <1>2 DEF TaskType
  <2>2. RqType'  BY <1>a, <1>2 DEF RqType, TaskType, CtlType
  <2>3. AccountType'  BY <1>a, <1>2 DEF AccountType
  <2>4. ProgType'  BY <1>a, <1>2 DEF ProgType, RqType, CtlType, LocalsInv
  <2>5. CtlType'  BY <1>a, <1>2 DEF CtlType
  <2>6. LocalsInv'  BY <1>a, <1>2 DEF LocalsInv, CtlType
  <2>7. ProgInv'  BY <1>a, <1>2 DEF ProgInv, ProgType
  <2>8. LockInv'  BY <1>a, <1>2 DEF LockInv, TaskType, RqType, CtlType
  <2>9. WakerInv'  BY <1>a, <1>2 DEF WakerInv, CtlType, LocalsInv, TaskType
  <2>10. ListInv'  BY <1>a, <1>2 DEF ListInv, RqType, TaskType
  <2>11. QueueInv'
    BY <1>a, <1>2 DEF QueueInv, RunqueueConsistent, task_on_rq_queued,
        task_on_rq_migrating, TaskType, RqType, CtlType, LocalsInv
  <2>12. ExecInv'
    BY <1>a, <1>2 DEF ExecInv, Executes, task_on_rq_queued, TaskType, RqType, CtlType,
        LocalsInv
  <2> QED
    BY <2>1, <2>2, <2>3, <2>4, <2>5, <2>6, <2>7, <2>8, <2>9, <2>10, <2>11, <2>12
<1>3. CASE Deactivate(c, t)
  <2> USE DEF Deactivate
  <2>1. TaskType'  BY <1>a, <1>3 DEF TaskType
  <2>2. RqType'  BY <1>a, <1>3 DEF RqType, TaskType, CtlType
  <2>3. AccountType'
    <3>1. nr_uninterruptible' \in [Cpu -> 0 .. LoadMod - 1]
      <4>1. nr_uninterruptible[c] + 1 \in Int
        BY WidthAssumption DEF AccountType
      <4>2. (nr_uninterruptible[c] + 1) % LoadMod \in 0 .. LoadMod - 1
        BY <4>1, ModRange, WidthAssumption
      <4>3. \/ nr_uninterruptible' = nr_uninterruptible
            \/ nr_uninterruptible'
                  = [nr_uninterruptible EXCEPT ![c] = (nr_uninterruptible[c] + 1) % LoadMod]
        BY <1>3
      <4> QED
        BY <4>2, <4>3 DEF AccountType
    <3>2. sched_contributes_to_load' \in [Task -> BOOLEAN]
      BY <1>3 DEF AccountType
    <3> QED
      BY <3>1, <3>2 DEF AccountType
  <2>4. ProgType'  BY <1>a, <1>3 DEF ProgType, RqType, CtlType, LocalsInv
  <2>5. CtlType'  BY <1>a, <1>3 DEF CtlType
  <2>6. LocalsInv'  BY <1>a, <1>3 DEF LocalsInv, CtlType
  <2>7. ProgInv'  BY <1>a, <1>3 DEF ProgInv, ProgType
  <2>8. LockInv'  BY <1>a, <1>3 DEF LockInv, TaskType, RqType, CtlType
  <2>9. WakerInv'  BY <1>a, <1>3 DEF WakerInv, CtlType, LocalsInv, TaskType
  <2>10. ListInv'  BY <1>a, <1>3 DEF ListInv, RqType, TaskType
  <2>11. QueueInv'
    BY <1>a, <1>3 DEF QueueInv, RunqueueConsistent, task_on_rq_queued,
        task_on_rq_migrating, TaskType, RqType, CtlType, LocalsInv
  <2>12. ExecInv'
    BY <1>a, <1>3 DEF ExecInv, Executes, task_on_rq_queued, TaskType, RqType, CtlType,
        LocalsInv
  <2> QED
    BY <2>1, <2>2, <2>3, <2>4, <2>5, <2>6, <2>7, <2>8, <2>9, <2>10, <2>11, <2>12
<1> QED
  BY <1>1, <1>2, <1>3

\* __schedule(true): the current task keeps its place.
LEMMA PreemptInv ==
  ASSUME IndInv, NEW c \in Cpu, NEW t \in Task,
         Preempt(c, t)
  PROVE  IndInv'
<1> USE DEF Preempt, Running
<1>a. CurrentFacts(c, t)
  BY CurrentTask
<1> USE DEF CurrentFacts
<1>1. TaskType'  BY <1>a DEF TaskType
<1>2. RqType'  BY <1>a DEF RqType, TaskType, CtlType
<1>3. AccountType'  BY <1>a DEF AccountType, CtlType
<1>4. ProgType'  BY <1>a DEF ProgType
<1>5. CtlType'  BY <1>a DEF CtlType
<1>6. LocalsInv'  BY <1>a DEF LocalsInv, CtlType
<1>7. ProgInv'  BY <1>a DEF ProgInv, ProgType
<1>8. LockInv'  BY <1>a DEF LockInv, TaskType, RqType, CtlType
<1>9. WakerInv'  BY <1>a DEF WakerInv, CtlType, LocalsInv, TaskType
<1>10. ListInv'  BY <1>a DEF ListInv, RqType, TaskType
<1>11. QueueInv'
  BY <1>a DEF QueueInv, RunqueueConsistent, task_on_rq_queued, task_on_rq_migrating,
      TaskType, RqType, CtlType, LocalsInv
<1>12. ExecInv'
  BY <1>a DEF ExecInv, Executes, task_on_rq_queued, TaskType, RqType, CtlType, LocalsInv
<1> QED
  BY <1>1, <1>2, <1>3, <1>4, <1>5, <1>6, <1>7, <1>8, <1>9, <1>10, <1>11, <1>12

\* Idle and the stopper enter __schedule().
LEMMA PseudoScheduleInv ==
  ASSUME IndInv, NEW c \in Cpu,
         PseudoSchedule(c)
  PROVE  IndInv'
<1> USE DEF PseudoSchedule
<1>1. TaskType'  BY DEF TaskType
<1>2. RqType'  BY DEF RqType, TaskType, CtlType
<1>3. AccountType'  BY DEF AccountType, TaskType, RqType, CtlType, LocalsInv
<1>4. ProgType'  BY DEF ProgType
<1>5. CtlType'  BY DEF CtlType
<1>6. LocalsInv'  BY DEF LocalsInv, CtlType
<1>7. ProgInv'  BY DEF ProgInv, ProgType
<1>8. LockInv'  BY DEF LockInv, TaskType, RqType, CtlType
<1>9. WakerInv'  BY DEF WakerInv, CtlType, LocalsInv, TaskType
<1>10. ListInv'  BY DEF ListInv, RqType, TaskType
<1>11. QueueInv'
  BY DEF QueueInv, RunqueueConsistent, task_on_rq_queued, task_on_rq_migrating,
      TaskType, RqType, CtlType, LocalsInv
<1>12. ExecInv'
  BY DEF ExecInv, Executes, task_on_rq_queued, TaskType, RqType, CtlType, LocalsInv
<1> QED
  BY <1>1, <1>2, <1>3, <1>4, <1>5, <1>6, <1>7, <1>8, <1>9, <1>10, <1>11, <1>12

\* The stopper takes the wakelist.
LEMMA StopFlushInv ==
  ASSUME IndInv, NEW c \in Cpu,
         StopFlush(c)
  PROVE  IndInv'
<1> USE DEF StopFlush, Running
<1>1. TaskType'  BY DEF TaskType
<1>2. RqType'  BY DEF RqType, TaskType, CtlType
<1>3. AccountType'  BY DEF AccountType
<1>4. ProgType'  BY DEF ProgType
<1>5. CtlType'  BY DEF CtlType
<1>6. LocalsInv'  BY DEF LocalsInv, CtlType, RqType
<1>7. ProgInv'  BY DEF ProgInv, ProgType
<1>8. LockInv'  BY DEF LockInv, TaskType, CtlType, LocalsInv
<1>9. WakerInv'  BY DEF WakerInv, CtlType, LocalsInv, TaskType
<1>10. ListInv'  BY DEF ListInv, RqType, TaskType
<1>11. QueueInv'
  BY DEF QueueInv, RunqueueConsistent, task_on_rq_queued, task_on_rq_migrating,
      TaskType, RqType, CtlType, LocalsInv
<1>12. ExecInv'
  BY DEF ExecInv, Executes, task_on_rq_queued, TaskType, RqType, CtlType, LocalsInv
<1> QED
  BY <1>1, <1>2, <1>3, <1>4, <1>5, <1>6, <1>7, <1>8, <1>9, <1>10, <1>11, <1>12

(***************************************************************************)
(* The invariant, and what follows from it.                                *)
(***************************************************************************)

\* The scheduler starts with every live task queued where it belongs, every
\* lock free and every CPU idle.
LEMMA InitInv == Init => IndInv
<1> SUFFICES ASSUME Init PROVE IndInv
  OBVIOUS
<1> USE DEF Init
<1>1. TaskType
  BY DEF TaskType
<1>2. RqType
  BY DEF RqType
<1>3. AccountType
  BY WidthAssumption DEF AccountType
<1>4. ProgType
  <2>1. <<>> \in Seq(Work)
    BY EmptySeq
  <2> QED
    BY <2>1 DEF ProgType, NoArg, Work
<1>5. CtlType
  BY DEF CtlType
<1>6. LocalsInv
  BY DEF LocalsInv
<1>7. ProgInv
  BY DEF ProgInv
<1>8. LockInv
  BY DEF LockInv
<1>9. WakerInv
  BY DEF WakerInv
<1>10. ListInv
  BY DEF ListInv
<1>11. QueueInv
  BY DEF QueueInv, RunqueueConsistent, task_on_rq_queued
<1>12. ExecInv
  BY DEF ExecInv, Executes
<1> QED
  BY <1>1, <1>2, <1>3, <1>4, <1>5, <1>6, <1>7, <1>8, <1>9, <1>10, <1>11, <1>12

\* A step that changes nothing preserves the invariant.
LEMMA StutterInv == IndInv /\ UNCHANGED vars => IndInv'
<1> SUFFICES ASSUME IndInv, UNCHANGED vars PROVE IndInv'
  OBVIOUS
<1> USE DEF vars
<1>1. TaskType' /\ RqType'
  BY DEF TaskType, RqType
<1>2. AccountType'
  BY DEF AccountType
<1>3. ProgType' /\ CtlType'
  BY DEF ProgType, CtlType
<1>4. LocalsInv' /\ LockInv'
  BY DEF LocalsInv, LockInv
<1>5. ProgInv'
  BY DEF ProgInv
<1>6. WakerInv' /\ ListInv'
  BY DEF WakerInv, ListInv
<1>7. QueueInv' /\ ExecInv'
  BY DEF QueueInv, RunqueueConsistent, task_on_rq_queued, task_on_rq_migrating, ExecInv,
      Executes
<1> QED
  BY <1>1, <1>2, <1>3, <1>4, <1>5, <1>6, <1>7

\* The steps of a task's program preserve the invariant.
LEMMA ProgramInv ==
  ASSUME IndInv, NEW c \in Cpu, NEW t \in Task, Program(c, t)
  PROVE  IndInv'
<1> HIDE DEF IndInv
<1>1. ASSUME NEW s \in SleepStates, SetCurrentState(c, t, s) PROVE IndInv'
  BY <1>1, SetCurrentStateInv
<1>2. ASSUME NEW io \in BOOLEAN, ConditionFalse(c, t, io) PROVE IndInv'
  BY <1>2, ConditionFalseInv
<1>3. ASSUME NEW p \in Task, NEW m \in NewMasks, NEW dest \in Cpu,
             SetCpusAllowed(c, t, p, m, dest)
      PROVE  IndInv'
  BY <1>3, SetCpusAllowedInv
<1>4. ASSUME NEW p \in Task, SchedFork(c, t, p) PROVE IndInv'
  BY <1>4, SchedForkInv
<1>5. ASSUME NEW dest \in Cpu, SchedExec(c, t, dest) \/ WakeUpNewTask(c, t, dest)
      PROVE  IndInv'
  BY <1>5, SchedExecInv, WakeUpNewTaskInv
<1>6. ASSUME ConditionTrue(c, t) \/ ScheduleReturn(c, t) \/ SetSpecialState(c, t)
                \/ start_to_count(c, t) \/ StopOneCpu(c, t)
      PROVE  IndInv'
  BY <1>6, ConditionTrueInv, ScheduleReturnInv, SetSpecialStateInv, Start_to_countInv,
     StopOneCpuInv
<1>7. {FALSE, IoSleep} \subseteq BOOLEAN
  OBVIOUS
<1> QED
  BY <1>1, <1>2, <1>3, <1>4, <1>5, <1>6, <1>7 DEF Program

\* The steps of a kernel path preserve the invariant.
LEMMA KernelInv ==
  ASSUME IndInv, NEW c \in Cpu, Kernel(c)
  PROVE  IndInv'
BY IowaitIncInv, SwitchInv, NoSwitchInv, FinishTaskSwitchInv, ReapInv, TtwuLockInv,
   TtwuOnRqInv, TtwuRemoteInv, TtwuWakingInv, TtwuOnCpuInv, TtwuWakelistInv,
   TtwuSelectInv, TtwuQueueInv, SchedTtwuPendingInv, MigrationCpuStopInv,
   MoveEnqueueInv, AttachTaskInv DEF Kernel

\* Interrupts preserve the invariant.
LEMMA InterruptInv ==
  ASSUME IndInv, NEW c \in Cpu, Interrupt(c)
  PROVE  IndInv'
BY WakeCurrentInv, WakeInv, TtwuIpiInv, DetachTaskInv DEF Interrupt

\* Scheduling points preserve the invariant.
LEMMA RescheduleInv ==
  ASSUME IndInv, NEW c \in Cpu, Reschedule(c)
  PROVE  IndInv'
BY ScheduleInv, PreemptInv, PseudoScheduleInv, StopFlushInv DEF Reschedule

\* Every step preserves the invariant.
LEMMA NextInv == IndInv /\ [Next]_vars => IndInv'
<1> SUFFICES ASSUME IndInv, [Next]_vars PROVE IndInv'
  OBVIOUS
<1> HIDE DEF IndInv
<1>1. CASE UNCHANGED vars
  BY <1>1, StutterInv
<1>2. ASSUME NEW c \in Cpu, NEW t \in Task, Program(c, t) PROVE IndInv'
  BY <1>2, ProgramInv
<1>3. ASSUME NEW c \in Cpu, Kernel(c) PROVE IndInv'
  BY <1>3, KernelInv
<1>4. ASSUME NEW c \in Cpu, Interrupt(c) PROVE IndInv'
  BY <1>4, InterruptInv
<1>5. ASSUME NEW c \in Cpu, Reschedule(c) PROVE IndInv'
  BY <1>5, RescheduleInv
<1> QED
  BY <1>1, <1>2, <1>3, <1>4, <1>5 DEF Next

\* Whatever the number of CPUs and tasks, the masks, the topology and the
\* widths, the locks, wakers, queues and stacks of core.c stay consistent.
THEOREM Invariance == Spec => []IndInv
BY InitInv, NextInv, PTL DEF Spec

\* Every field of task_struct and rq keeps a value of its type, the wrapping
\* counters their width.
THEOREM TypeCorrect == Spec => []TypeOK
<1>1. IndInv => TypeOK
  OBVIOUS
<1> QED
  BY <1>1, Invariance, PTL

\* on_rq and cpu of a task, written under different locks by try_to_wake_up(),
\* move_queued_task(), the load balancer and __schedule(), always agree with
\* the runqueues.
THEOREM RunqueuesAgree == Spec => []RunqueueConsistent
<1>1. IndInv => RunqueueConsistent
  BY DEF QueueInv
<1> QED
  BY <1>1, Invariance, PTL

\* The on_cpu handshake of finish_task() and try_to_wake_up() keeps a task off
\* a second CPU while the first still uses its stack.
THEOREM StacksExclusive == Spec => []SingleExecution
<1>1. IndInv => SingleExecution
  BY DEF ExecInv, TaskType, SingleExecution
<1> QED
  BY <1>1, Invariance, PTL

\* my_get_cpu_number() returns the CPU its caller runs on.
THEOREM CpuNumberCorrect == Spec => []CpuNumberRight
<1>1. IndInv => CpuNumberRight
  BY DEF ExecInv, Executes, CpuNumberRight, my_get_cpu_number
<1> QED
  BY <1>1, Invariance, PTL

\* No WARN_ON of ttwu_queue_cond() and sched_ttwu_pending() fires: what is on
\* a wakelist is off every CPU when it is activated, and belongs to the CPU
\* that activates it.
THEOREM WakelistsSane == Spec => []WakelistSane
<1>1. ASSUME IndInv PROVE WakelistSane
  <2>1. ASSUME NEW c \in Cpu, NEW p \in pending[c]
        PROVE  ~on_cpu[p] /\ cpu[p] = c /\ state[p] = "WAKING"
    <3>1. p \in Task /\ state[p] = "WAKING" /\ on_rq[p] = 0 /\ cpu[p] = c
      BY <1>1, <2>1 DEF ListInv, RqType
    <3>2. pc[c] \in {"pending", "stop_pending"}
      BY <1>1, <2>1 DEF LocalsInv
    <3>3. ~Executes(c, p)
      BY <1>1, <3>1, <3>2 DEF ExecInv, Executes, task_on_rq_queued
    <3> QED
      BY <1>1, <3>1, <3>3 DEF ExecInv
  <2>2. ASSUME NEW c \in Cpu, pc[c] = "ttwu_on_cpu", on_cpu[tgt[c]]
        PROVE  cpu[tgt[c]] # c
    <3>1. tgt[c] \in Task /\ on_rq[tgt[c]] = 0
      BY <1>1, <2>2 DEF LocalsInv, WakerInv
    <3>2. ~Executes(c, tgt[c])
      BY <1>1, <2>2, <3>1 DEF ExecInv, Executes, task_on_rq_queued
    <3> QED
      BY <1>1, <2>2, <3>1, <3>2 DEF ExecInv
  <2> QED
    BY <2>1, <2>2 DEF WakelistSane
<1> QED
  BY <1>1, Invariance, PTL

(***************************************************************************)
(* The one action property: nobody but its waker touches a TASK_WAKING     *)
(* task.                                                                   *)
(***************************************************************************)

\* A task's program writes only the state of the task itself, which runs, and
\* of the child it forks.
LEMMA ProgramWaking ==
  ASSUME IndInv, NEW c \in Cpu, NEW t \in Task, Program(c, t)
  PROVE  WakingKept
<1> USE DEF WakingKept
<1>1. ASSUME NEW s \in SleepStates, SetCurrentState(c, t, s) PROVE WakingKept
  <2>1. CurrentFacts(c, t)
    BY <1>1, CurrentTask DEF SetCurrentState, AtWork
  <2> QED
    BY <1>1, <2>1 DEF SetCurrentState, CurrentFacts, TaskType
<1>2. ASSUME ConditionTrue(c, t) PROVE WakingKept
  <2>1. CurrentFacts(c, t)
    BY <1>2, CurrentTask DEF ConditionTrue
  <2> QED
    BY <1>2, <2>1 DEF ConditionTrue, CurrentFacts, TaskType
<1>3. ASSUME SetSpecialState(c, t) PROVE WakingKept
  <2>1. CurrentFacts(c, t)
    BY <1>3, CurrentTask DEF SetSpecialState, AtWork
  <2> QED
    BY <1>3, <2>1 DEF SetSpecialState, CurrentFacts, TaskType
<1>4. ASSUME NEW p \in Task, SchedFork(c, t, p) PROVE WakingKept
  BY <1>4 DEF SchedFork, ProgInv, TaskType
<1>5. ASSUME NEW dest \in Cpu, WakeUpNewTask(c, t, dest) PROVE WakingKept
  <2>1. targ[t].task \in Task /\ state[targ[t].task] = "NEW"
    BY <1>5 DEF WakeUpNewTask, ProgInv
  <2> QED
    BY <1>5, <2>1 DEF WakeUpNewTask, TaskType
<1>6. ASSUME UNCHANGED state PROVE WakingKept
  BY <1>6
<1>7. \A io : ConditionFalse(c, t, io) => UNCHANGED state
  BY DEF ConditionFalse
<1>8. \A p, m, dest : SetCpusAllowed(c, t, p, m, dest) => UNCHANGED state
  BY DEF SetCpusAllowed
<1>9. ScheduleReturn(c, t) \/ start_to_count(c, t)
        \/ StopOneCpu(c, t) \/ (\E dest \in Cpu : SchedExec(c, t, dest))
          => UNCHANGED state
  BY DEF ScheduleReturn, start_to_count, StopOneCpu, SchedExec
<1> HIDE DEF WakingKept
<1> QED
  BY <1>1, <1>2, <1>3, <1>4, <1>5, <1>6, <1>7, <1>8, <1>9 DEF Program

\* In the kernel paths, only the two activations take a task out of
\* TASK_WAKING.
LEMMA KernelWaking ==
  ASSUME IndInv, NEW c \in Cpu, Kernel(c)
  PROVE  WakingKept
<1> USE DEF WakingKept
<1>1. ASSUME TtwuRemote(c) PROVE WakingKept
  <2>1. tgt[c] \in Task /\ state[tgt[c]] # "WAKING"
    BY <1>1, TargetStarted DEF TtwuRemote, WakerInv
  <2> QED
    BY <1>1, <2>1 DEF TtwuRemote, TtwuChase, TtwuFlip, TtwuMissed, TaskType
<1>2. ASSUME TtwuWaking(c) PROVE WakingKept
  <2>1. tgt[c] \in Task /\ state[tgt[c]] # "WAKING"
    BY <1>2, TargetStarted DEF TtwuWaking, WakerInv
  <2> QED
    BY <1>2, <2>1 DEF TtwuWaking, TaskType
<1>3. ASSUME TtwuQueue(c) PROVE WakingKept
  <2>1. on_rq[tgt[c]] = 0
    BY <1>3 DEF TtwuQueue, WakerInv
  <2> QED
    BY <1>3, <2>1 DEF TtwuQueue, ttwu_do_activate
<1>4. ASSUME SchedTtwuPending(c) PROVE WakingKept
  <2>1. \A p \in pending[c] : on_rq[p] = 0
    BY DEF ListInv
  <2> QED
    BY <1>4, <2>1 DEF SchedTtwuPending, ttwu_do_activate
<1>5. ASSUME UNCHANGED state PROVE WakingKept
  BY <1>5
<1>6. \A next : Switch(c, next) => UNCHANGED state
  BY DEF Switch
<1>7. \A dest : TtwuSelect(c, dest) => UNCHANGED state
  BY DEF TtwuSelect
<1>8. IowaitInc(c) \/ NoSwitch(c) \/ FinishTaskSwitch(c) \/ Reap(c) \/ TtwuLock(c)
        \/ TtwuOnRq(c) \/ TtwuOnCpu(c) \/ TtwuWakelist(c) => UNCHANGED state
  BY DEF IowaitInc, NoSwitch, FinishTaskSwitch, Reap, TtwuLock, TtwuOnRq, TtwuOnCpu,
      TtwuWakelist
<1>9. MigrationCpuStop(c) \/ MoveEnqueue(c) \/ AttachTask(c) => UNCHANGED state
  BY DEF MigrationCpuStop, MoveEnqueue, AttachTask
<1> HIDE DEF WakingKept
<1> QED
  BY <1>1, <1>2, <1>3, <1>4, <1>5, <1>6, <1>7, <1>8, <1>9 DEF Kernel

\* Interrupts and scheduling points write the state of the current task only.
LEMMA RescheduleWaking ==
  ASSUME IndInv, NEW c \in Cpu, Interrupt(c) \/ Reschedule(c)
  PROVE  WakingKept
<1> USE DEF WakingKept
<1>1. ASSUME NEW p \in Task, NEW kind \in WakeKinds, WakeCurrent(c, p, kind)
      PROVE  WakingKept
  <2>1. state[p] # "WAKING"
    BY <1>1, CurrentTask DEF WakeCurrent, CurrentFacts
  <2> QED
    BY <1>1, <2>1 DEF WakeCurrent, TaskType
<1>2. ASSUME NEW t \in Task, Schedule(c, t) PROVE WakingKept
  <2>1. state[t] # "WAKING"
    BY <1>2, CurrentTask DEF Schedule, CurrentFacts
  <2> QED
    BY <1>2, <2>1 DEF Schedule, KeepRunnable, CancelSleep, Deactivate, TaskType
<1>3. ASSUME UNCHANGED state PROVE WakingKept
  BY <1>3
<1>4. \A p, kind : Wake(c, p, kind) => UNCHANGED state
  BY DEF Wake
<1>5. \A p : DetachTask(c, p) \/ Preempt(c, p) => UNCHANGED state
  BY DEF DetachTask, Preempt
<1>6. TtwuIpi(c) \/ PseudoSchedule(c) \/ StopFlush(c) => UNCHANGED state
  BY DEF TtwuIpi, PseudoSchedule, StopFlush
<1> HIDE DEF WakingKept
<1> QED
  BY <1>1, <1>2, <1>3, <1>4, <1>5, <1>6 DEF Interrupt, Reschedule

\* Once try_to_wake_up() has set TASK_WAKING, nothing else writes p->state
\* until the task is queued.
THEOREM WakingIsOwned == Spec => WakingOwned
<1>1. IndInv /\ [Next]_vars => [WakingKept]_vars
  <2> SUFFICES ASSUME IndInv, Next PROVE WakingKept
    OBVIOUS
  <2> HIDE DEF IndInv
  <2> QED
    BY ProgramWaking, KernelWaking, RescheduleWaking DEF Next
<1> QED
  BY <1>1, Invariance, PTL DEF Spec, WakingOwned

=============================================================================
