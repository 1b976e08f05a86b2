------------------------------- MODULE WakeQ -------------------------------
(***************************************************************************)
(* Wake queues (core.c, __wake_q_add() to wake_up_q()): a waker collects   *)
(* tasks on a list of its own while it holds its locks and wakes them when *)
(* it has dropped them.  The link is a field of the task, so a task is on  *)
(* at most one list, and a second waker relies on the first one's wakeup.  *)
(*                                                                         *)
(* The callers are outside the repository and come in two kinds.  One      *)
(* holds the lock of the wait list over wake_q_add(), so that the task     *)
(* cannot leave meanwhile; the other has a reference of its own, which     *)
(* wake_q_add_safe() consumes.  Both make the awaited condition true       *)
(* first, as the comment on wake_q_add() demands.                          *)
(***************************************************************************)
EXTENDS Tasks, Integers, FiniteSetsExt, SequencesExt

CONSTANT Waker    \* contexts with a wake_q_head of their own

ASSUME WakerAssumption == IsFiniteSet(Waker) /\ IsFiniteSet(Task)
ASSUME NodeAssumption ==
    /\ {"NULL", "TAIL", "HEAD"} \cap Task = {}
    /\ "none" \notin Waker

VARIABLES
    next, state, usage,        \* task_struct: wake_q.next, state, usage
    first, lastp,              \* wake_q_head
    tpc, cond, wait_lock,      \* a task's wait loop, what it awaits, the lock
    wpc, task, safe, node,     \* a waker's place and locals
    listed                     \* history: the tasks claimed for each list

sleeperVars == <<state, tpc, cond, wait_lock>>
headVars == <<first, lastp>>
ctlVars == <<wpc, task, safe, node>>
wakeqVars == <<sleeperVars, headVars, ctlVars, next, usage, listed>>

NULL == "NULL"
WAKE_Q_TAIL == "TAIL"
HeadFirst == "HEAD"      \* lastp = &head->first
None == "none"
Node == Task \cup {WAKE_Q_TAIL}

WakeQInit ==
    /\ next = [t \in Task |-> NULL]
    /\ state = [t \in Task |-> "RUNNING"]
    /\ usage = [t \in Task |-> 1]
    /\ first = [w \in Waker |-> WAKE_Q_TAIL]
    /\ lastp = [w \in Waker |-> HeadFirst]
    /\ tpc = [t \in Task |-> "work"]
    /\ cond = [t \in Task |-> FALSE]
    /\ wait_lock = [t \in Task |-> None]
    /\ wpc = [w \in Waker |-> "idle"]
    /\ task = [w \in Waker |-> NULL]
    /\ safe = [w \in Waker |-> FALSE]
    /\ node = [w \in Waker |-> WAKE_Q_TAIL]
    /\ listed = [w \in Waker |-> <<>>]

----------------------------------------------------------------------------
(* The sleepers. *)

SetCurrentState(t) ==
    /\ tpc[t] \in {"work", "wait"}
    /\ state' = [state EXCEPT ![t] = "SLEEP"]
    /\ tpc' = [tpc EXCEPT ![t] = "check"]
    /\ UNCHANGED <<cond, wait_lock, headVars, ctlVars, next, usage, listed>>

\* The condition holds: the task takes itself off the wait list and goes on.
\* It is not: the task calls schedule().
Check(t) ==
    /\ tpc[t] = "check"
    /\ \/ /\ cond[t] /\ wait_lock[t] = None
          /\ cond' = [cond EXCEPT ![t] = FALSE]
          /\ state' = [state EXCEPT ![t] = "RUNNING"]
          /\ tpc' = [tpc EXCEPT ![t] = "work"]
       \/ /\ ~cond[t]
          /\ tpc' = [tpc EXCEPT ![t] = "sched"]
          /\ UNCHANGED <<cond, state>>
    /\ UNCHANGED <<wait_lock, headVars, ctlVars, next, usage, listed>>

\* schedule() returns to a task only in TASK_RUNNING.
Resume(t) ==
    /\ tpc[t] = "sched" /\ state[t] = "RUNNING"
    /\ tpc' = [tpc EXCEPT ![t] = "wait"]
    /\ UNCHANGED <<state, cond, wait_lock, headVars, ctlVars, next, usage, listed>>

\* A task that leaves the wait list for good, under its lock, and dies.
Exit(t) ==
    /\ tpc[t] = "work" /\ wait_lock[t] = None
    /\ tpc' = [tpc EXCEPT ![t] = "gone"]
    /\ state' = [state EXCEPT ![t] = "DEAD"]
    /\ usage' = [usage EXCEPT ![t] = @ - 1]
    /\ UNCHANGED <<cond, wait_lock, headVars, ctlVars, next, listed>>

\* The task_struct is freed and used for a new task: dup_task_struct() sets
\* wake_q.next to NULL.
Recycle(t) ==
    /\ tpc[t] = "gone" /\ usage[t] = 0
    /\ tpc' = [tpc EXCEPT ![t] = "work"]
    /\ state' = [state EXCEPT ![t] = "RUNNING"]
    /\ usage' = [usage EXCEPT ![t] = 1]
    /\ next' = [next EXCEPT ![t] = NULL]
    /\ cond' = [cond EXCEPT ![t] = FALSE]
    /\ UNCHANGED <<wait_lock, headVars, ctlVars, listed>>

----------------------------------------------------------------------------
(* Adding a task. *)

FindTask(w, t) ==
    /\ wpc[w] = "idle" /\ tpc[t] # "gone" /\ wait_lock[t] = None
    /\ task' = [task EXCEPT ![w] = t]
    /\ wpc' = [wpc EXCEPT ![w] = "event"]
    /\ \/ /\ safe' = [safe EXCEPT ![w] = FALSE]
          /\ wait_lock' = [wait_lock EXCEPT ![t] = w]
          /\ UNCHANGED usage
       \/ /\ safe' = [safe EXCEPT ![w] = TRUE]
          /\ usage' = [usage EXCEPT ![t] = @ + 1]
          /\ UNCHANGED wait_lock
    /\ UNCHANGED <<state, tpc, cond, headVars, node, next, listed>>

MakeConditionTrue(w) ==
    /\ wpc[w] = "event"
    /\ cond' = [cond EXCEPT ![task[w]] = TRUE]
    /\ wpc' = [wpc EXCEPT ![w] = "add"]
    /\ UNCHANGED <<state, tpc, wait_lock, headVars, task, safe, node, next, usage, listed>>

\* The cmpxchg of __wake_q_add() succeeds: the task is ours to wake.
Claimed(w) ==
    /\ next[task[w]] = NULL
    /\ next' = [next EXCEPT ![task[w]] = WAKE_Q_TAIL]
    /\ listed' = [listed EXCEPT ![w] = Append(@, task[w])]
    /\ wpc' = [wpc EXCEPT ![w] = "link"]
    /\ UNCHANGED <<task, usage>>

\* It fails: another waker will do it.  wake_q_add_safe() drops the reference.
AlreadyQueued(w) ==
    /\ next[task[w]] # NULL
    /\ IF safe[w]
       THEN /\ usage' = [usage EXCEPT ![task[w]] = @ - 1]
            /\ wpc' = [wpc EXCEPT ![w] = "idle"]
            /\ task' = [task EXCEPT ![w] = NULL]
       ELSE /\ wpc' = [wpc EXCEPT ![w] = "unlock"]
            /\ UNCHANGED <<usage, task>>
    /\ UNCHANGED <<next, listed>>

WakeQAdd(w) ==
    /\ wpc[w] = "add"
    /\ Claimed(w) \/ AlreadyQueued(w)
    /\ UNCHANGED <<sleeperVars, headVars, safe, node>>

\* Mutant: the second store is left out.
LastpStays(w) ==
    /\ IF lastp[w] = HeadFirst
       THEN first' = [first EXCEPT ![w] = task[w]] /\ UNCHANGED next
       ELSE next' = [next EXCEPT ![lastp[w]] = task[w]] /\ UNCHANGED first
    /\ UNCHANGED lastp

\* *head->lastp = node; head->lastp = &node->next
AppendNode(w) ==
    /\ IF lastp[w] = HeadFirst
       THEN first' = [first EXCEPT ![w] = task[w]] /\ UNCHANGED next
       ELSE next' = [next EXCEPT ![lastp[w]] = task[w]] /\ UNCHANGED first
    /\ lastp' = [lastp EXCEPT ![w] = task[w]]

WakeQLink(w) ==
    /\ wpc[w] = "link"
    /\ AppendNode(w)
    /\ IF safe[w]
       THEN /\ wpc' = [wpc EXCEPT ![w] = "idle"]
            /\ task' = [task EXCEPT ![w] = NULL]
       ELSE /\ wpc' = [wpc EXCEPT ![w] = "get"]
            /\ UNCHANGED task
    /\ UNCHANGED <<sleeperVars, safe, node, usage, listed>>

\* Mutant: no reference is taken for the list.
NoReference(w) ==
    /\ wpc[w] = "get"
    /\ wpc' = [wpc EXCEPT ![w] = "unlock"]
    /\ UNCHANGED <<sleeperVars, headVars, task, safe, node, next, usage, listed>>

\* get_task_struct() in wake_q_add()
WakeQGet(w) ==
    /\ wpc[w] = "get"
    /\ usage' = [usage EXCEPT ![task[w]] = @ + 1]
    /\ wpc' = [wpc EXCEPT ![w] = "unlock"]
    /\ UNCHANGED <<sleeperVars, headVars, task, safe, node, next, listed>>

Unlock(w) ==
    /\ wpc[w] = "unlock"
    /\ wait_lock' = [wait_lock EXCEPT ![task[w]] = None]
    /\ task' = [task EXCEPT ![w] = NULL]
    /\ wpc' = [wpc EXCEPT ![w] = "idle"]
    /\ UNCHANGED <<state, tpc, cond, headVars, safe, node, next, usage, listed>>

----------------------------------------------------------------------------
(* wake_up_q() *)

WakeUpQ(w) ==
    /\ wpc[w] = "idle" /\ first[w] # WAKE_Q_TAIL
    /\ node' = [node EXCEPT ![w] = first[w]]
    /\ wpc' = [wpc EXCEPT ![w] = "walk"]
    /\ UNCHANGED <<sleeperVars, headVars, task, safe, next, usage, listed>>

\* node = node->next
Advance(w) ==
    /\ wpc[w] = "walk" /\ node[w] # WAKE_Q_TAIL
    /\ task' = [task EXCEPT ![w] = node[w]]
    /\ node' = [node EXCEPT ![w] = next[node[w]]]
    /\ wpc' = [wpc EXCEPT ![w] = "clear"]
    /\ UNCHANGED <<sleeperVars, headVars, safe, next, usage, listed>>

\* task->wake_q.next = NULL
ClearNext(w) ==
    /\ wpc[w] = "clear"
    /\ next' = [next EXCEPT ![task[w]] = NULL]
    /\ listed' = [listed EXCEPT ![w] = Tail(@)]
    /\ wpc' = [wpc EXCEPT ![w] = "wake"]
    /\ UNCHANGED <<sleeperVars, headVars, task, safe, node, usage>>

\* Mutant: the loop releases the task without waking it.
WakeForgotten(w) ==
    /\ wpc[w] = "wake"
    /\ wpc' = [wpc EXCEPT ![w] = "put"]
    /\ UNCHANGED <<sleeperVars, headVars, task, safe, node, next, usage, listed>>

WakeUpProcess(w) ==
    /\ wpc[w] = "wake"
    /\ state' = [state EXCEPT ![task[w]] = IF @ = "SLEEP" THEN "RUNNING" ELSE @]
    /\ wpc' = [wpc EXCEPT ![w] = "put"]
    /\ UNCHANGED <<tpc, cond, wait_lock, headVars, task, safe, node, next, usage, listed>>

PutTask(w) ==
    /\ wpc[w] = "put"
    /\ usage' = [usage EXCEPT ![task[w]] = @ - 1]
    /\ task' = [task EXCEPT ![w] = NULL]
    /\ wpc' = [wpc EXCEPT ![w] = "walk"]
    /\ UNCHANGED <<sleeperVars, headVars, safe, node, next, listed>>

\* The loop ends; the caller's next DEFINE_WAKE_Q starts an empty list.
EndOfList(w) ==
    /\ wpc[w] = "walk" /\ node[w] = WAKE_Q_TAIL
    /\ first' = [first EXCEPT ![w] = WAKE_Q_TAIL]
    /\ lastp' = [lastp EXCEPT ![w] = HeadFirst]
    /\ wpc' = [wpc EXCEPT ![w] = "idle"]
    /\ UNCHANGED <<sleeperVars, task, safe, node, next, usage, listed>>

----------------------------------------------------------------------------

WakerStep(w) ==
    \/ MakeConditionTrue(w) \/ WakeQAdd(w) \/ WakeQLink(w) \/ WakeQGet(w)
    \/ Unlock(w) \/ Advance(w) \/ ClearNext(w) \/ WakeUpProcess(w)
    \/ PutTask(w) \/ EndOfList(w)

SleeperStep(t) ==
    \/ SetCurrentState(t) \/ Check(t) \/ Resume(t)
    \/ Exit(t) \/ Recycle(t)

WakeQNext ==
    \/ \E t \in Task : SleeperStep(t)
    \/ \E w \in Waker : \/ WakerStep(w) \/ WakeUpQ(w)
                        \/ \E t \in Task : FindTask(w, t)

WakeQSpec == WakeQInit /\ [][WakeQNext]_wakeqVars

----------------------------------------------------------------------------
(* Properties. *)

Adding == {"idle", "event", "add", "link", "get", "unlock"}

WakeQTypeOK ==
    /\ next \in [Task -> Node \cup {NULL}]
    /\ state \in [Task -> {"RUNNING", "SLEEP", "DEAD"}]
    /\ usage \in [Task -> Nat]
    /\ first \in [Waker -> Node]
    /\ lastp \in [Waker -> Task \cup {HeadFirst}]
    /\ tpc \in [Task -> {"work", "check", "sched", "wait", "gone"}]
    /\ cond \in [Task -> BOOLEAN]
    /\ wait_lock \in [Task -> Waker \cup {None}]
    /\ wpc \in [Waker -> Adding \cup {"walk", "clear", "wake", "put"}]
    /\ task \in [Waker -> Task \cup {NULL}]
    /\ safe \in [Waker -> BOOLEAN]
    /\ node \in [Waker -> Node]
    /\ listed \in [Waker -> Seq(Task)]

\* The number of nodes of a list that are linked: the last one claimed is not
\* yet, between the two stores of __wake_q_add().
Linked(w) == IF wpc[w] = "link" THEN Len(listed[w]) - 1 ELSE Len(listed[w])

\* What the loop of wake_up_q() will look at next.
Remaining(w) ==
    CASE wpc[w] \in Adding -> first[w]
      [] wpc[w] = "clear"  -> task[w]
      [] OTHER             -> node[w]

\* The chain of links of a list is the sequence of the tasks its waker claimed
\* and has not released: none is dropped, none is on two lists, although other
\* wakers test and set the links of the same tasks (core.c:416-437, 491-492).
ListIntact ==
    /\ \A w \in Waker :
        LET q == listed[w]  n == Linked(w) IN
        /\ n >= 0
        /\ Remaining(w) = IF n = 0 THEN WAKE_Q_TAIL ELSE q[1]
        /\ \A i \in 1..n : next[q[i]] = IF i = n THEN WAKE_Q_TAIL ELSE q[i + 1]
        /\ wpc[w] = "link" => q[n + 1] = task[w] /\ next[task[w]] = WAKE_Q_TAIL
        /\ wpc[w] = "clear" => n > 0 /\ node[w] = next[task[w]]
        /\ wpc[w] \in Adding => lastp[w] = IF n = 0 THEN HeadFirst ELSE q[n]
    /\ \A w, v \in Waker : \A i \in 1..Len(listed[w]), j \in 1..Len(listed[v]) :
        listed[w][i] = listed[v][j] => w = v /\ i = j
    /\ \A t \in Task : next[t] # NULL =>
        \E w \in Waker : \E i \in 1..Len(listed[w]) : listed[w][i] = t

\* A wakeup of t that is still to come from w.
WillWake(w, t) ==
    \/ \E i \in 1..Len(listed[w]) : listed[w][i] = t
    \/ task[w] = t /\ wpc[w] \in {"add", "wake"}

\* A sleeper whose condition is true is woken by somebody, also when the waker
\* that made it true found the task on another list and left (core.c:421-423:
\* "will get the wakeup due to that").
NoLostWakeup ==
    \A t \in Task :
        tpc[t] = "sched" /\ state[t] = "SLEEP" /\ cond[t] =>
            \E w \in Waker : WillWake(w, t)

\* The tasks that some waker will wake.
Owed == {t \in Task : \E w \in Waker : WillWake(w, t)}

W == INSTANCE Wakeups WITH state <- state, tpc <- tpc, cond <- cond, owed <- Owed

\* The wake queues implement Wakeups: from the moment a condition is made true a wakeup
\* is owed, also by a waker that finds the task on another list and leaves, it is
\* settled by waking the task only, and no task_struct is reused before (core.c:416-500).
WakeupsOwed == W!Spec

\* The references to t: its own, one for each list it is on, one for a waker
\* that has it in hand.  wake_q_add() takes the list's after the claim, so
\* until then it leans on the caller's lock.
ListRefs(t) ==
    {w \in Waker :
        /\ \E i \in 1..Len(listed[w]) : listed[w][i] = t
        /\ ~(wpc[w] \in {"link", "get"} /\ ~safe[w] /\ task[w] = t)}
HandRefs(t) ==
    {w \in Waker :
        /\ task[w] = t
        /\ \/ wpc[w] \in {"wake", "put"}
           \/ wpc[w] \in {"event", "add"} /\ safe[w]}

\* References are neither leaked nor dropped twice, whichever of two racing wakers
\* wins the claim, and no waker holds a pointer to a task_struct that has been freed
\* (core.c:452-456, 475-479, 485-500).
RefExact ==
    /\ \A t \in Task :
           usage[t] = (IF tpc[t] = "gone" THEN 0 ELSE 1)
                      + Cardinality(ListRefs(t)) + Cardinality(HandRefs(t))
    /\ \A w \in Waker :
           /\ task[w] # NULL => usage[task[w]] > 0
           /\ \A i \in 1..Len(listed[w]) : usage[listed[w][i]] > 0
=============================================================================
