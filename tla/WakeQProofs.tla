----------------------------- MODULE WakeQProofs -----------------------------
(***************************************************************************)
(* That wake queues lose no task and no wakeup and count their references  *)
(* exactly, for every set of wakers and tasks.                             *)
(***************************************************************************)
EXTENDS WakeQ, FiniteSetTheorems, TLAPS

USE WakerAssumption, NodeAssumption
USE DEF NULL, WAKE_Q_TAIL, HeadFirst, None, Node

\* w has claimed t for its list and has not released it.
InQ(w, t) == \E i \in 1..Len(listed[w]) : listed[w][i] = t

\* The list of one waker, as ListIntact has it.
ListOK(w) ==
    LET q == listed[w]  n == Linked(w) IN
    /\ n >= 0
    /\ Remaining(w) = IF n = 0 THEN WAKE_Q_TAIL ELSE q[1]
    /\ \A i \in 1..n : next[q[i]] = IF i = n THEN WAKE_Q_TAIL ELSE q[i + 1]
    /\ wpc[w] = "link" => q[n + 1] = task[w] /\ next[task[w]] = WAKE_Q_TAIL
    /\ wpc[w] = "clear" => n > 0 /\ node[w] = next[task[w]]
    /\ wpc[w] \in Adding => lastp[w] = IF n = 0 THEN HeadFirst ELSE q[n]

\* No task is on two lists or twice on one.
Distinct ==
    \A w, v \in Waker : \A i \in 1..Len(listed[w]), j \in 1..Len(listed[v]) :
        listed[w][i] = listed[v][j] => w = v /\ i = j

\* A link that is set belongs to a list.
Owned == \A t \in Task : next[t] # NULL => \E w \in Waker : InQ(w, t)

ListInv == (\A w \in Waker : ListOK(w)) /\ Distinct /\ Owned

\* Where a waker has a task in hand, and what it has done to it.
Locking == {"event", "add", "link", "get", "unlock"}
Place(w) ==
    /\ wpc[w] \in {"idle", "walk"} <=> task[w] = NULL
    /\ wpc[w] = "get" => Len(listed[w]) > 0 /\ listed[w][Len(listed[w])] = task[w]
    /\ wpc[w] \in {"get", "unlock"} => ~safe[w]
    /\ wpc[w] \in Locking /\ ~safe[w] => wait_lock[task[w]] = w
PlaceInv == \A w \in Waker : Place(w)

\* A task whose wait list is locked does not die.
LockInv == \A t \in Task : wait_lock[t] # None => tpc[t] # "gone"

\* What of usage[t] is the task's own, and what is a waker's, as RefExact has it.
Own(t) == IF tpc[t] = "gone" THEN 0 ELSE 1
OnList(w, t) == InQ(w, t) /\ ~(wpc[w] \in {"link", "get"} /\ ~safe[w] /\ task[w] = t)
InHand(w, t) ==
    task[w] = t /\ (wpc[w] \in {"wake", "put"} \/ (wpc[w] \in {"event", "add"} /\ safe[w]))
Share(w, t) == (IF OnList(w, t) THEN 1 ELSE 0) + (IF InHand(w, t) THEN 1 ELSE 0)
RefCount ==
    \A t \in Task : usage[t] = Own(t) + Cardinality(ListRefs(t)) + Cardinality(HandRefs(t))

IInv == WakeQTypeOK /\ ListInv /\ PlaceInv /\ LockInv /\ RefCount /\ NoLostWakeup

\* A step of w leaves the other wakers alone.
Others(w) ==
    \A v \in Waker \ {w} :
        /\ wpc'[v] = wpc[v] /\ task'[v] = task[v] /\ safe'[v] = safe[v] /\ node'[v] = node[v]
        /\ first'[v] = first[v] /\ lastp'[v] = lastp[v] /\ listed'[v] = listed[v]

-----------------------------------------------------------------------------
(***************************************************************************)
(* Lists.                                                                  *)
(***************************************************************************)

\* The members of a list that has grown or shrunk.
LEMMA AppendMembers ==
  ASSUME NEW q \in Seq(Task), NEW t \in Task
  PROVE  /\ Append(q, t) \in Seq(Task) /\ Len(Append(q, t)) = Len(q) + 1
         /\ Append(q, t)[Len(q) + 1] = t /\ \A i \in 1..Len(q) : Append(q, t)[i] = q[i]
OBVIOUS

\* What is left of a list when its first task is released.
LEMMA TailMembers ==
  ASSUME NEW q \in Seq(Task), Len(q) > 0
  PROVE  /\ Tail(q) \in Seq(Task) /\ Len(Tail(q)) = Len(q) - 1
         /\ \A i \in 1..(Len(q) - 1) : Tail(q)[i] = q[i + 1]
<1>1. q # <<>>
  OBVIOUS
<1> QED
  BY <1>1

\* The link of a task on a list is set, so that no cmpxchg claims it again.
LEMMA MembersLinked ==
  ASSUME WakeQTypeOK, ListInv, NEW w \in Waker, NEW t \in Task, InQ(w, t)
  PROVE  next[t] # NULL
<1>1. listed[w] \in Seq(Task) /\ ListOK(w)
  BY DEF WakeQTypeOK, ListInv
<1> PICK i \in 1..Len(listed[w]) : listed[w][i] = t
  BY DEF InQ
<1>2. CASE i <= Linked(w)
  <2>1. Linked(w) \in Nat /\ Linked(w) <= Len(listed[w])
    BY <1>1 DEF ListOK, Linked
  <2>2. next[t] = IF i = Linked(w) THEN WAKE_Q_TAIL ELSE listed[w][i + 1]
    BY <1>1, <1>2, <2>1 DEF ListOK
  <2>3. i # Linked(w) => listed[w][i + 1] \in Task
    BY <1>1, <1>2, <2>1
  <2> QED
    BY <2>2, <2>3
<1>3. CASE ~(i <= Linked(w))
  <2>1. wpc[w] = "link" /\ i = Linked(w) + 1
    BY <1>1, <1>3 DEF Linked
  <2> QED
    BY <1>1, <2>1 DEF ListOK
<1> QED
  BY <1>2, <1>3

\* A task is on the list of one waker only.
LEMMA OneList ==
  ASSUME ListInv, NEW w \in Waker, NEW v \in Waker, NEW t, InQ(w, t), InQ(v, t)
  PROVE  w = v
BY DEF ListInv, Distinct, InQ

\* A list stays intact while its links are left alone.
LEMMA ListFrame ==
  ASSUME WakeQTypeOK, NEW v \in Waker, ListOK(v),
         wpc'[v] = wpc[v], task'[v] = task[v], node'[v] = node[v],
         first'[v] = first[v], lastp'[v] = lastp[v], listed'[v] = listed[v],
         \A t \in Task : InQ(v, t) => next'[t] = next[t]
  PROVE  ListOK(v)'
<1> DEFINE q == listed[v]  n == Linked(v)
<1>1. q \in Seq(Task) /\ Linked(v)' = n /\ Remaining(v)' = Remaining(v)
  BY DEF WakeQTypeOK, Linked, Remaining
<1>2. n \in Nat /\ n <= Len(q) /\ (wpc[v] = "link" => n + 1 = Len(q))
  BY <1>1 DEF ListOK, Linked
<1>3. \A i \in 1..Len(q) : next'[q[i]] = next[q[i]]
  BY <1>1 DEF InQ
<1>4. \A i \in 1..n : next'[q[i]] = IF i = n THEN WAKE_Q_TAIL ELSE q[i + 1]
  BY <1>2, <1>3 DEF ListOK
<1>5. wpc[v] = "link" => q[n + 1] = task[v] /\ next'[task[v]] = WAKE_Q_TAIL
  BY <1>2, <1>3 DEF ListOK
<1>6. wpc[v] = "clear" => n > 0 /\ node[v] = next'[task[v]]
  <2> SUFFICES ASSUME wpc[v] = "clear" PROVE n > 0 /\ node[v] = next'[task[v]]
    OBVIOUS
  <2>1. n > 0 /\ task[v] = q[1] /\ node[v] = next[task[v]]
    BY <1>2 DEF ListOK, Remaining, Adding
  <2> QED
    BY <1>2, <1>3, <2>1
<1> QED
  BY <1>1, <1>2, <1>4, <1>5, <1>6 DEF ListOK

\* A waker touches only the links of its own list and of tasks that are on none.
LEMMA OtherLists ==
  ASSUME WakeQTypeOK, ListInv, NEW w \in Waker, Others(w),
         \A t \in Task : next'[t] # next[t] => next[t] = NULL \/ InQ(w, t)
  PROVE  \A v \in Waker \ {w} : ListOK(v)'
<1> TAKE v \in Waker \ {w}
<1>1. \A t \in Task : InQ(v, t) => next'[t] = next[t]
  BY MembersLinked, OneList
<1>2. ListOK(v)
  BY DEF ListInv
<1> QED
  BY <1>1, <1>2, ListFrame DEF Others

\* A waker that looks neither at its list nor at a link.
LEMMA SameLists ==
  ASSUME WakeQTypeOK, ListInv, NEW w \in Waker, Others(w),
         UNCHANGED <<first, lastp, next, listed, node>>,
         \/ {wpc[w], wpc'[w]} \subseteq Adding \ {"link"}
         \/ {wpc[w], wpc'[w]} \subseteq {"walk", "wake", "put"}
  PROVE  ListInv'
<1>1. \A v \in Waker \ {w} : ListOK(v)'
  BY OtherLists
<1>2. ListOK(w)'
  BY DEF ListInv, ListOK, Linked, Remaining, Adding
<1>3. Distinct' /\ Owned'
  BY DEF ListInv, Distinct, Owned, InQ
<1> QED
  BY <1>1, <1>2, <1>3 DEF ListInv

-----------------------------------------------------------------------------
(***************************************************************************)
(* References.                                                             *)
(***************************************************************************)

\* One waker enters or leaves a set of wakers.
LEMMA CountStep ==
  ASSUME NEW S \in SUBSET Waker, NEW T \in SUBSET Waker, NEW w \in Waker, S \ {w} = T \ {w}
  PROVE  /\ Cardinality(S) \in Nat /\ Cardinality(T) \in Nat
         /\ Cardinality(T) = Cardinality(S) - (IF w \in S THEN 1 ELSE 0)
                                            + (IF w \in T THEN 1 ELSE 0)
<1>1. IsFiniteSet(S) /\ IsFiniteSet(T)
  BY FS_Subset
<1>2. Cardinality(S) \in Nat /\ Cardinality(T) \in Nat
  BY <1>1, FS_CardinalityType
<1>3. Cardinality(S \ {w}) = IF w \in S THEN Cardinality(S) - 1 ELSE Cardinality(S)
  BY <1>1, FS_RemoveElement
<1>4. Cardinality(T \ {w}) = IF w \in T THEN Cardinality(T) - 1 ELSE Cardinality(T)
  BY <1>1, FS_RemoveElement
<1>5. Cardinality(S \ {w}) = Cardinality(T \ {w})
  OBVIOUS
<1> QED
  BY <1>2, <1>3, <1>4, <1>5

\* The two sets of references are those of the wakers.
LEMMA RefSets ==
  ASSUME NEW t
  PROVE  /\ ListRefs(t) = {w \in Waker : OnList(w, t)}
         /\ HandRefs(t) = {w \in Waker : InHand(w, t)}
BY DEF ListRefs, HandRefs, OnList, InHand, InQ

\* usage follows the references of the one waker that makes a step.
LEMMA RefStep ==
  ASSUME RefCount, NEW w \in Waker, Others(w), usage \in [Task -> Nat], UNCHANGED tpc,
         \A t \in Task : usage'[t] = usage[t] - Share(w, t) + Share(w, t)'
  PROVE  RefCount' /\ \A t \in Task : usage'[t] \in Nat
<1> SUFFICES ASSUME NEW t \in Task
             PROVE  /\ usage'[t] = Own(t)' + Cardinality(ListRefs(t)')
                                           + Cardinality(HandRefs(t)')
                    /\ usage'[t] \in Nat
  BY DEF RefCount
<1>1. \A v \in Waker \ {w} : (OnList(v, t)' <=> OnList(v, t)) /\ (InHand(v, t)' <=> InHand(v, t))
  BY DEF Others, OnList, InHand, InQ
<1>2. /\ ListRefs(t)' = {v \in Waker : OnList(v, t)'}
      /\ HandRefs(t)' = {v \in Waker : InHand(v, t)'}
  BY DEF ListRefs, HandRefs, OnList, InHand, InQ
<1>3. ListRefs(t) \ {w} = ListRefs(t)' \ {w} /\ HandRefs(t) \ {w} = HandRefs(t)' \ {w}
  BY <1>1, <1>2, RefSets
<1>4. /\ w \in ListRefs(t) <=> OnList(w, t)
      /\ w \in HandRefs(t) <=> InHand(w, t)
      /\ w \in ListRefs(t)' <=> OnList(w, t)'
      /\ w \in HandRefs(t)' <=> InHand(w, t)'
      /\ {ListRefs(t), ListRefs(t)', HandRefs(t), HandRefs(t)'} \subseteq SUBSET Waker
  BY <1>2, RefSets
<1> DEFINE l == Cardinality(ListRefs(t))  h == Cardinality(HandRefs(t))
           m == Cardinality(ListRefs(t)')  k == Cardinality(HandRefs(t)')
<1>5. /\ l \in Nat /\ m \in Nat
      /\ m = l - (IF OnList(w, t) THEN 1 ELSE 0) + (IF OnList(w, t)' THEN 1 ELSE 0)
  BY <1>3, <1>4, CountStep
<1>6. /\ h \in Nat /\ k \in Nat
      /\ k = h - (IF InHand(w, t) THEN 1 ELSE 0) + (IF InHand(w, t)' THEN 1 ELSE 0)
  BY <1>3, <1>4, CountStep
<1>7. usage[t] = Own(t) + l + h /\ Own(t) \in {0, 1} /\ Own(t)' = Own(t)
  BY DEF RefCount, Own
<1>8. usage'[t] = usage[t] - Share(w, t) + Share(w, t)'
  OBVIOUS
<1> HIDE DEF l, h, m, k
<1>9. usage'[t] = Own(t) + m + k
  BY <1>5, <1>6, <1>7, <1>8 DEF Share
<1> QED
  BY <1>5, <1>6, <1>7, <1>9 DEF m, k

\* Nobody's reference goes away while the wakers stand still.
LEMMA RefSame ==
  ASSUME RefCount, UNCHANGED <<listed, wpc, safe, task>>,
         usage \in [Task -> Nat], \A t \in Task : usage'[t] = usage[t] - Own(t) + Own(t)'
  PROVE  RefCount' /\ \A t \in Task : usage'[t] \in Nat
<1> SUFFICES ASSUME NEW t \in Task
             PROVE  /\ usage'[t] = Own(t)' + Cardinality(ListRefs(t)')
                                           + Cardinality(HandRefs(t)')
                    /\ usage'[t] \in Nat
  BY DEF RefCount
<1>1. ListRefs(t)' = ListRefs(t) /\ HandRefs(t)' = HandRefs(t)
  BY DEF ListRefs, HandRefs
<1>2. Cardinality(ListRefs(t)) \in Nat /\ Cardinality(HandRefs(t)) \in Nat
  <2>1. ListRefs(t) \subseteq Waker /\ HandRefs(t) \subseteq Waker
    BY DEF ListRefs, HandRefs
  <2> QED
    BY <2>1, FS_Subset, FS_CardinalityType
<1>3. usage[t] = Own(t) + Cardinality(ListRefs(t)) + Cardinality(HandRefs(t))
  BY DEF RefCount
<1>4. Own(t) \in {0, 1} /\ Own(t)' \in {0, 1}
  BY DEF Own
<1> QED
  BY <1>1, <1>2, <1>3, <1>4

\* A reference that somebody has keeps the task_struct from being freed.
LEMMA RefHeld ==
  ASSUME RefCount, WakeQTypeOK, NEW t \in Task,
         tpc[t] # "gone" \/ \E w \in Waker : OnList(w, t) \/ InHand(w, t)
  PROVE  usage[t] > 0
<1>1. /\ IsFiniteSet(ListRefs(t)) /\ IsFiniteSet(HandRefs(t))
      /\ Cardinality(ListRefs(t)) \in Nat /\ Cardinality(HandRefs(t)) \in Nat
  <2>1. ListRefs(t) \subseteq Waker /\ HandRefs(t) \subseteq Waker
    BY DEF ListRefs, HandRefs
  <2> QED
    BY <2>1, FS_Subset, FS_CardinalityType
<1>2. usage[t] = Own(t) + Cardinality(ListRefs(t)) + Cardinality(HandRefs(t))
  BY DEF RefCount
<1>3. CASE tpc[t] # "gone"
  BY <1>1, <1>2, <1>3 DEF Own
<1>4. CASE \E w \in Waker : OnList(w, t) \/ InHand(w, t)
  <2>1. ListRefs(t) # {} \/ HandRefs(t) # {}
    BY <1>4, RefSets
  <2>2. Cardinality(ListRefs(t)) > 0 \/ Cardinality(HandRefs(t)) > 0
    BY <1>1, <2>1, FS_EmptySet
  <2> QED
    BY <1>1, <1>2, <2>2 DEF Own
<1> QED
  BY <1>3, <1>4

\* A task that a waker has claimed or has in hand has not been freed: there is a
\* reference to it, or its wait list is locked.
LEMMA ClaimHeld ==
  ASSUME IInv, NEW w \in Waker, NEW t \in Task, InQ(w, t) \/ task[w] = t
  PROVE  usage[t] > 0
<1>1. WakeQTypeOK /\ RefCount /\ Place(w) /\ ListOK(w)
  BY DEF IInv, PlaceInv, ListInv
<1>2. OnList(w, t) \/ InHand(w, t) \/ tpc[t] # "gone"
  <2>1. CASE wpc[w] \in Locking /\ ~safe[w] /\ task[w] = t
    <3>1. wait_lock[t] = w
      BY <1>1, <2>1 DEF Place
    <3> QED
      BY <3>1 DEF IInv, LockInv
  <2>2. CASE InQ(w, t) /\ ~(wpc[w] \in Locking /\ ~safe[w] /\ task[w] = t)
    BY <2>2 DEF OnList, Locking
  <2>3. CASE ~InQ(w, t) /\ ~(wpc[w] \in Locking /\ ~safe[w] /\ task[w] = t)
    <3>1. wpc[w] \notin {"idle", "walk", "get", "unlock"}
      BY <1>1, <2>3 DEF Place, Locking
    <3>2. wpc[w] # "clear"
      <4> SUFFICES ASSUME wpc[w] = "clear" PROVE FALSE
        OBVIOUS
      <4>1. Linked(w) > 0 /\ task[w] = listed[w][1] /\ Linked(w) = Len(listed[w])
        BY <1>1 DEF ListOK, Remaining, Adding, Linked, WakeQTypeOK
      <4> QED
        BY <1>1, <2>3, <4>1 DEF InQ, WakeQTypeOK
    <3>3. wpc[w] # "link"
      <4> SUFFICES ASSUME wpc[w] = "link" PROVE FALSE
        OBVIOUS
      <4>1. Linked(w) = Len(listed[w]) - 1 /\ Len(listed[w]) \in Nat
        BY <1>1 DEF Linked, WakeQTypeOK
      <4>2. Linked(w) >= 0 /\ listed[w][Linked(w) + 1] = task[w]
        BY <1>1 DEF ListOK
      <4>3. Linked(w) + 1 \in 1..Len(listed[w])
        BY <4>1, <4>2
      <4> QED
        BY <2>3, <4>2, <4>3 DEF InQ
    <3> QED
      BY <1>1, <2>3, <3>1, <3>2, <3>3 DEF InHand, Locking, WakeQTypeOK, Adding
  <2> QED
    BY <2>1, <2>2, <2>3
<1> QED
  BY <1>1, <1>2, RefHeld

-----------------------------------------------------------------------------
(***************************************************************************)
(* What a step of a waker leaves to the other ones.                        *)
(***************************************************************************)

\* Every action of a waker stores to its own variables only.
LEMMA StepOthers ==
  ASSUME WakeQTypeOK, NEW w \in Waker,
         WakerStep(w) \/ WakeUpQ(w) \/ \E t \in Task : FindTask(w, t)
  PROVE  Others(w)
<1>1. CASE MakeConditionTrue(w) \/ WakeQGet(w) \/ Unlock(w) \/ WakeUpProcess(w) \/ PutTask(w)
  BY <1>1 DEF MakeConditionTrue, WakeQGet, Unlock, WakeUpProcess, PutTask, Others, WakeQTypeOK,
              headVars
<1>2. CASE WakeQAdd(w)
  BY <1>2 DEF WakeQAdd, Claimed, AlreadyQueued, Others, WakeQTypeOK, headVars
<1>3. CASE WakeQLink(w)
  BY <1>3 DEF WakeQLink, AppendNode, Others, WakeQTypeOK
<1>4. CASE Advance(w) \/ ClearNext(w) \/ EndOfList(w) \/ WakeUpQ(w)
  BY <1>4 DEF Advance, ClearNext, EndOfList, WakeUpQ, Others, WakeQTypeOK, headVars
<1>5. CASE \E t \in Task : FindTask(w, t)
  BY <1>5 DEF FindTask, Others, WakeQTypeOK, headVars
<1> QED
  BY <1>1, <1>2, <1>3, <1>4, <1>5 DEF WakerStep

\* No waker takes the lock of a wait list from another one.
LEMMA OtherPlaces ==
  ASSUME WakeQTypeOK, PlaceInv, NEW w \in Waker, Others(w),
         \A t \in Task : wait_lock'[t] = wait_lock[t] \/ wait_lock[t] \in {None, w}
  PROVE  \A v \in Waker \ {w} : Place(v)'
<1> TAKE v \in Waker \ {w}
<1>1. Place(v)
  BY DEF PlaceInv
<1>2. /\ wpc'[v] = wpc[v] /\ task'[v] = task[v] /\ safe'[v] = safe[v]
      /\ listed'[v] = listed[v]
  BY DEF Others
<1>3. ASSUME wpc[v] \in Locking, ~safe[v]
      PROVE  wait_lock'[task[v]] = v
  <2>1. wait_lock[task[v]] = v /\ task[v] \in Task
    BY <1>1, <1>3 DEF Place, Locking, WakeQTypeOK
  <2> QED
    BY <2>1
<1> QED
  BY <1>1, <1>2, <1>3 DEF Place

\* A wakeup stays owed while no sleeper makes a step.
LEMMA WakeupKept ==
  ASSUME NoLostWakeup, NEW w \in Waker, Others(w), UNCHANGED <<state, tpc, cond>>,
         \A t \in Task : WillWake(w, t) => \E v \in Waker : WillWake(v, t)'
  PROVE  NoLostWakeup'
<1>1. \A t \in Task, v \in Waker \ {w} : WillWake(v, t) => WillWake(v, t)'
  BY DEF WillWake, Others
<1> QED
  BY <1>1 DEF NoLostWakeup

-----------------------------------------------------------------------------
(***************************************************************************)
(* The steps of a waker that adds a task.                                  *)
(***************************************************************************)

\* The waker takes the lock or a reference.
LEMMA FindTaskInv ==
  ASSUME IInv, NEW w \in Waker, NEW t \in Task, FindTask(w, t)
  PROVE  IInv'
<1> USE DEF IInv, headVars
<1>1. Others(w)
  BY StepOthers
<1>2. /\ wpc[w] = "idle" /\ wpc'[w] = "event" /\ task'[w] = t /\ task[w] = NULL
      /\ tpc[t] # "gone" /\ wait_lock[t] = None
      /\ UNCHANGED <<first, lastp, next, listed, node, state, tpc, cond>>
  BY DEF FindTask, WakeQTypeOK, PlaceInv, Place
<1>3. ListInv'
  BY <1>1, <1>2, SameLists DEF Adding
<1>4. PlaceInv'
  <2>1. \A v \in Waker \ {w} : Place(v)'
    <3>1. \A u \in Task : wait_lock'[u] = wait_lock[u] \/ wait_lock[u] \in {None, w}
      BY <1>2 DEF FindTask, WakeQTypeOK
    <3> HIDE DEF IInv
    <3>2. WakeQTypeOK /\ PlaceInv
      BY DEF IInv
    <3> QED
      BY ONLY <1>1, <3>1, <3>2, w \in Waker, OtherPlaces
  <2>2. Place(w)'
    BY <1>2 DEF Place, FindTask, WakeQTypeOK
  <2> QED
    BY <2>1, <2>2 DEF PlaceInv
<1>5. LockInv'
  BY <1>2 DEF LockInv, FindTask, WakeQTypeOK
<1>6. RefCount' /\ \A u \in Task : usage'[u] \in Nat
  <2>1. \A u \in Task : usage'[u] = usage[u] - Share(w, u) + Share(w, u)'
    <3> TAKE u \in Task
    <3>1. OnList(w, u) <=> OnList(w, u)'
      BY <1>2 DEF OnList, InQ
    <3>2. ~InHand(w, u) /\ (InHand(w, u)' <=> u = t /\ safe'[w])
      BY <1>2 DEF InHand
    <3>3. usage'[u] = IF u = t /\ safe'[w] THEN usage[u] + 1 ELSE usage[u]
      BY DEF FindTask, WakeQTypeOK
    <3>4. usage[u] \in Nat
      BY DEF WakeQTypeOK
    <3> QED
      BY <3>1, <3>2, <3>3, <3>4 DEF Share
  <2> QED
    BY <1>1, <1>2, <2>1, RefStep DEF WakeQTypeOK
<1>7. NoLostWakeup'
  BY <1>1, <1>2, WakeupKept DEF WillWake
<1>8. WakeQTypeOK'
  <2>1. \/ /\ safe' = [safe EXCEPT ![w] = FALSE] /\ wait_lock' = [wait_lock EXCEPT ![t] = w]
           /\ usage' = usage
        \/ /\ safe' = [safe EXCEPT ![w] = TRUE] /\ usage' = [usage EXCEPT ![t] = @ + 1]
           /\ wait_lock' = wait_lock
    BY DEF FindTask
  <2>2. /\ usage' \in [Task -> Nat] /\ safe' \in [Waker -> BOOLEAN]
        /\ wait_lock' \in [Task -> Waker \cup {None}] /\ task' \in [Waker -> Task \cup {NULL}]
    <3>1. task' = [task EXCEPT ![w] = t]
      BY DEF FindTask
    <3>2. usage' \in [Task -> Nat]
      <4>1. usage \in [Task -> Nat] /\ (usage' = usage \/ usage' = [usage EXCEPT ![t] = @ + 1])
        BY <2>1 DEF WakeQTypeOK
      <4> QED BY <4>1
    <3>3. safe' \in [Waker -> BOOLEAN]
      BY <2>1 DEF WakeQTypeOK
    <3>4. wait_lock' \in [Task -> Waker \cup {None}]
      <4>1. /\ wait_lock \in [Task -> Waker \cup {None}]
            /\ wait_lock' = wait_lock \/ wait_lock' = [wait_lock EXCEPT ![t] = w]
        BY <2>1 DEF WakeQTypeOK
      <4> QED BY <4>1
    <3>5. task' \in [Waker -> Task \cup {NULL}]
      BY <3>1 DEF WakeQTypeOK
    <3> QED
      BY <3>2, <3>3, <3>4, <3>5
  <2>3. wpc' \in [Waker -> Adding \cup {"walk", "clear", "wake", "put"}]
    BY DEF FindTask, WakeQTypeOK, Adding
  <2> QED
    BY <1>2, <2>1, <2>2, <2>3 DEF WakeQTypeOK
<1> QED
  BY <1>3, <1>4, <1>5, <1>6, <1>7, <1>8

\* The condition is true before the claim: the waker is then the one to wake the
\* task, or finds the one who is.
LEMMA ConditionInv ==
  ASSUME IInv, NEW w \in Waker, MakeConditionTrue(w)
  PROVE  IInv'
<1> USE DEF IInv, headVars
<1>1. Others(w)
  BY StepOthers DEF WakerStep
<1>2. /\ wpc[w] = "event" /\ wpc' = [wpc EXCEPT ![w] = "add"] /\ wpc'[w] = "add"
      /\ UNCHANGED <<first, lastp, next, listed, node, state, tpc, wait_lock, task, safe, usage>>
  BY DEF MakeConditionTrue, WakeQTypeOK
<1>9. task[w] \in Task
  BY <1>2 DEF WakeQTypeOK, PlaceInv, Place
<1>3. ListInv'
  BY <1>1, <1>2, SameLists DEF Adding
<1>4. PlaceInv' /\ LockInv'
  <2>1. \A v \in Waker \ {w} : Place(v)'
    BY <1>1, <1>2, OtherPlaces
  <2>2. Place(w)'
    BY <1>2 DEF PlaceInv, Place, Locking
  <2> QED
    BY <1>2, <2>1, <2>2 DEF PlaceInv, LockInv
<1>5. RefCount'
  <2>1. \A u \in Task : usage'[u] = usage[u] - Share(w, u) + Share(w, u)'
    <3> TAKE u \in Task
    <3>1. OnList(w, u) <=> OnList(w, u)'
      BY <1>2 DEF OnList, InQ
    <3>2. InHand(w, u) <=> InHand(w, u)'
      BY <1>2 DEF InHand
    <3> QED
      BY <1>2, <3>1, <3>2 DEF Share, WakeQTypeOK
  <2> QED
    BY <1>1, <1>2, <2>1, RefStep DEF WakeQTypeOK
<1>6. NoLostWakeup'
  <2>1. \A t \in Task, v \in Waker : WillWake(v, t) => WillWake(v, t)'
    BY <1>1, <1>2 DEF WillWake, Others
  <2>2. WillWake(w, task[w])'
    BY <1>2 DEF WillWake
  <2>3. \A t \in Task : t # task[w] => cond'[t] = cond[t]
    BY DEF MakeConditionTrue, WakeQTypeOK
  <2> QED
    BY <1>2, <1>9, <2>1, <2>2, <2>3 DEF NoLostWakeup
<1>7. WakeQTypeOK'
  BY <1>2, <1>9 DEF MakeConditionTrue, WakeQTypeOK, Adding
<1> QED
  BY <1>3, <1>4, <1>5, <1>6, <1>7

\* The task was on no list, or its link would have been set.
LEMMA ClaimedInv ==
  ASSUME IInv, NEW w \in Waker, WakeQAdd(w), Claimed(w)
  PROVE  IInv'
<1> USE DEF IInv
<1>1. Others(w)
  BY StepOthers DEF WakerStep
<1>2. /\ wpc[w] = "add" /\ wpc' = [wpc EXCEPT ![w] = "link"] /\ wpc'[w] = "link"
      /\ UNCHANGED <<first, lastp, node, sleeperVars, task, safe, usage>>
  BY DEF WakeQAdd, Claimed, WakeQTypeOK, headVars
<1> PICK t \in Task : t = task[w]
  BY <1>2 DEF WakeQTypeOK, PlaceInv, Place
<1>3. /\ next[t] = NULL /\ next' = [next EXCEPT ![t] = WAKE_Q_TAIL]
      /\ listed' = [listed EXCEPT ![w] = Append(@, t)]
  BY DEF Claimed
<1> PICK q \in Seq(Task) : q = listed[w]
  BY DEF WakeQTypeOK
<1> PICK r : r = Append(q, t)
  OBVIOUS
<1>4. /\ r \in Seq(Task) /\ Len(r) = Len(q) + 1 /\ Len(q) \in Nat
      /\ r[Len(q) + 1] = t /\ \A i \in 1..Len(q) : r[i] = q[i]
  BY AppendMembers
<1>5. listed'[w] = r /\ \A v \in Waker \ {w} : listed'[v] = listed[v]
  BY <1>3 DEF WakeQTypeOK
<1>6. \A v \in Waker : ~InQ(v, t)
  BY <1>3, MembersLinked
<1>7. ListInv'
  <2>1. \A v \in Waker \ {w} : ListOK(v)'
    BY <1>1, <1>3, OtherLists DEF WakeQTypeOK
  <2>2. ListOK(w)'
    <3>1. ListOK(w) /\ Linked(w) = Len(q) /\ Linked(w)' = Len(q) /\ Remaining(w) = first[w]
          /\ Remaining(w)' = first[w]
      BY <1>2, <1>4, <1>5 DEF ListInv, Linked, Remaining, Adding
    <3>2. first[w] = IF Len(q) = 0 THEN WAKE_Q_TAIL ELSE r[1]
      BY <1>4, <3>1 DEF ListOK
    <3>3. \A i \in 1..Len(q) : next'[r[i]] = IF i = Len(q) THEN WAKE_Q_TAIL ELSE r[i + 1]
      <4> TAKE i \in 1..Len(q)
      <4>1. next[q[i]] = IF i = Len(q) THEN WAKE_Q_TAIL ELSE q[i + 1]
        BY <3>1 DEF ListOK
      <4>2. q[i] # t /\ q[i] \in Task
        BY <1>6 DEF InQ
      <4>3. next'[q[i]] = next[q[i]]
        BY <1>3, <4>2 DEF WakeQTypeOK
      <4>4. r[i] = q[i] /\ (i # Len(q) => r[i + 1] = q[i + 1])
        BY <1>4
      <4> QED
        BY <4>1, <4>3, <4>4
    <3>4. r[Len(q) + 1] = task'[w] /\ next'[task'[w]] = WAKE_Q_TAIL
      BY <1>2, <1>3, <1>4 DEF WakeQTypeOK
    <3>5. lastp'[w] = IF Len(q) = 0 THEN HeadFirst ELSE r[Len(q)]
      BY <1>2, <1>4, <3>1 DEF ListOK, Adding
    <3> QED
      BY <1>2, <1>4, <1>5, <3>1, <3>2, <3>3, <3>4, <3>5 DEF ListOK
  <2>3. Distinct'
    <3> SUFFICES ASSUME NEW v \in Waker, NEW u \in Waker, NEW i \in 1..Len(listed'[v]),
                        NEW j \in 1..Len(listed'[u]), listed'[v][i] = listed'[u][j]
                 PROVE  v = u /\ i = j
      BY DEF Distinct
    <3>1. ASSUME NEW x \in Waker, NEW k \in 1..Len(listed'[x])
          PROVE  \/ k \in 1..Len(listed[x]) /\ listed'[x][k] = listed[x][k]
                 \/ x = w /\ k = Len(q) + 1 /\ listed'[x][k] = t
      <4>1. CASE x = w
        BY <1>4, <1>5, <4>1
      <4>2. CASE x # w
        BY <1>5, <4>2
      <4> QED BY <4>1, <4>2
    <3> QED
      BY <1>6, <3>1 DEF InQ, ListInv, Distinct
  <2>4. \A v \in Waker, u \in Task : InQ(v, u) => InQ(v, u)'
    <3> TAKE v \in Waker, u \in Task
    <3>1. CASE v = w
      BY <1>4, <1>5, <3>1 DEF InQ
    <3>2. CASE v # w
      BY <1>5, <3>2 DEF InQ
    <3> QED BY <3>1, <3>2
  <2>5. InQ(w, t)'
    BY <1>4, <1>5 DEF InQ
  <2>6. Owned'
    BY <1>3, <2>4, <2>5 DEF Owned, ListInv, WakeQTypeOK
  <2> QED
    BY <2>1, <2>2, <2>3, <2>6 DEF ListInv
<1>8. PlaceInv' /\ LockInv'
  <2>1. \A v \in Waker \ {w} : Place(v)'
    BY <1>1, <1>2, OtherPlaces DEF sleeperVars
  <2>2. Place(w)'
    BY <1>2 DEF PlaceInv, Place, Locking, sleeperVars
  <2> QED
    BY <1>2, <2>1, <2>2 DEF PlaceInv, LockInv, sleeperVars
<1>9. \A u \in Task : InQ(w, u)' <=> InQ(w, u) \/ u = t
  <2> TAKE u \in Task
  <2> QED BY <1>4, <1>5 DEF InQ
<1>10. RefCount'
  <2>1. \A u \in Task : usage'[u] = usage[u] - Share(w, u) + Share(w, u)'
    <3> TAKE u \in Task
    <3>1. CASE u = t
      <4>1. (OnList(w, u)' <=> safe[w]) /\ ~OnList(w, u)
        BY <1>2, <1>6, <1>9, <3>1 DEF OnList
      <4>2. (InHand(w, u) <=> safe[w]) /\ ~InHand(w, u)'
        BY <1>2, <3>1 DEF InHand
      <4> QED
        BY <1>2, <4>1, <4>2 DEF Share, WakeQTypeOK
    <3>2. CASE u # t
      <4>1. OnList(w, u)' <=> OnList(w, u)
        BY <1>2, <1>9, <3>2 DEF OnList
      <4>2. ~InHand(w, u) /\ ~InHand(w, u)'
        BY <1>2, <3>2 DEF InHand
      <4> QED
        BY <1>2, <4>1, <4>2 DEF Share, WakeQTypeOK
    <3> QED
      BY <3>1, <3>2
  <2> QED
    BY <1>1, <1>2, <2>1, RefStep DEF WakeQTypeOK, sleeperVars
<1>11. NoLostWakeup'
  <2>1. \A u \in Task : WillWake(w, u) => WillWake(w, u)'
    BY <1>2, <1>9 DEF WillWake, InQ
  <2> QED
    BY <1>1, <1>2, <2>1, WakeupKept DEF sleeperVars
<1>12. WakeQTypeOK'
  BY <1>2, <1>3, <1>4 DEF WakeQTypeOK, Adding, sleeperVars
<1> QED
  BY <1>7, <1>8, <1>10, <1>11, <1>12

\* The task is on the list of another waker, which will wake it.
LEMMA AlreadyQueuedInv ==
  ASSUME IInv, NEW w \in Waker, WakeQAdd(w), AlreadyQueued(w)
  PROVE  IInv'
<1> USE DEF IInv
<1>1. Others(w)
  BY StepOthers DEF WakerStep
<1> PICK t \in Task : t = task[w]
  BY DEF WakeQAdd, WakeQTypeOK, PlaceInv, Place
<1>2. /\ wpc[w] = "add" /\ next[t] # NULL
      /\ UNCHANGED <<first, lastp, node, sleeperVars, safe, next, listed>>
      /\ IF safe[w]
         THEN /\ usage' = [usage EXCEPT ![t] = @ - 1] /\ wpc' = [wpc EXCEPT ![w] = "idle"]
              /\ task' = [task EXCEPT ![w] = NULL]
         ELSE wpc' = [wpc EXCEPT ![w] = "unlock"] /\ UNCHANGED <<usage, task>>
  BY DEF WakeQAdd, AlreadyQueued, headVars
<1>3. /\ wpc'[w] = IF safe[w] THEN "idle" ELSE "unlock"
      /\ task'[w] = IF safe[w] THEN NULL ELSE t
      /\ \A u \in Task : usage'[u] = IF safe[w] /\ u = t THEN usage[u] - 1 ELSE usage[u]
  BY <1>2 DEF WakeQTypeOK
<1>4. ListInv'
  BY <1>1, <1>2, <1>3, SameLists DEF Adding
<1>5. PlaceInv' /\ LockInv'
  <2>1. \A v \in Waker \ {w} : Place(v)'
    BY <1>1, <1>2, OtherPlaces DEF sleeperVars
  <2>2. Place(w)'
    BY <1>2, <1>3 DEF PlaceInv, Place, Locking, sleeperVars
  <2> QED
    BY <1>2, <2>1, <2>2 DEF PlaceInv, LockInv, sleeperVars
<1>6. RefCount' /\ \A u \in Task : usage'[u] \in Nat
  <2>1. \A u \in Task : usage'[u] = usage[u] - Share(w, u) + Share(w, u)'
    <3> TAKE u \in Task
    <3>1. OnList(w, u)' <=> OnList(w, u)
      BY <1>2, <1>3 DEF OnList, InQ
    <3>2. (InHand(w, u) <=> u = t /\ safe[w]) /\ ~InHand(w, u)'
      BY <1>2, <1>3 DEF InHand
    <3>3. usage[u] \in Nat
      BY DEF WakeQTypeOK
    <3> QED
      BY <1>3, <3>1, <3>2, <3>3 DEF Share
  <2> QED
    BY <1>1, <1>2, <2>1, RefStep DEF WakeQTypeOK, sleeperVars
<1>7. NoLostWakeup'
  <2>1. PICK v \in Waker : InQ(v, t)
    BY <1>2 DEF ListInv, Owned
  <2>2. WillWake(v, t)'
    BY <1>2, <2>1 DEF WillWake, InQ
  <2>3. \A u \in Task : WillWake(w, u) => WillWake(w, u)' \/ u = t
    BY <1>2 DEF WillWake
  <2> QED
    BY <1>1, <1>2, <2>2, <2>3, WakeupKept DEF sleeperVars
<1>8. WakeQTypeOK'
  <2>1. usage' \in [Task -> Nat]
    <3>1. usage \in [Task -> Nat] /\ (usage' = usage \/ usage' = [usage EXCEPT ![t] = @ - 1])
      BY <1>2 DEF WakeQTypeOK
    <3> QED BY <1>6, <3>1
  <2>2. task' \in [Waker -> Task \cup {NULL}]
    <3>1. task \in [Waker -> Task \cup {NULL}] /\ (task' = task \/ task' = [task EXCEPT ![w] = NULL])
      BY <1>2 DEF WakeQTypeOK
    <3> QED BY <3>1
  <2>3. wpc' \in [Waker -> Adding \cup {"walk", "clear", "wake", "put"}]
    <3>1. /\ wpc \in [Waker -> Adding \cup {"walk", "clear", "wake", "put"}]
          /\ wpc' = [wpc EXCEPT ![w] = "idle"] \/ wpc' = [wpc EXCEPT ![w] = "unlock"]
      BY <1>2 DEF WakeQTypeOK
    <3> QED BY <3>1 DEF Adding
  <2> QED
    BY <1>2, <2>1, <2>2, <2>3 DEF WakeQTypeOK, sleeperVars
<1> QED
  BY <1>4, <1>5, <1>6, <1>7, <1>8

\* The two stores that link the claimed task to the end of the list.
LEMMA WakeQLinkInv ==
  ASSUME IInv, NEW w \in Waker, WakeQLink(w)
  PROVE  IInv'
<1> USE DEF IInv
<1>1. Others(w)
  BY StepOthers DEF WakerStep
<1> PICK t \in Task : t = task[w]
  BY DEF WakeQLink, WakeQTypeOK, PlaceInv, Place
<1> PICK q \in Seq(Task) : q = listed[w]
  BY DEF WakeQTypeOK
<1>12. Linked(w) = Len(q) - 1 /\ Linked(w) >= 0 /\ Len(q) \in Nat
  <2>1. ListOK(w) /\ wpc[w] = "link"
    BY DEF ListInv, WakeQLink
  <2> QED
    BY <2>1 DEF ListOK, Linked
<1> DEFINE n == Len(q) - 1
<1>13. n \in Nat /\ n = Linked(w) /\ Len(q) = n + 1
  BY <1>12
<1> HIDE DEF n
<1>0. Len(q) = n + 1 /\ (\A i \in 1..(n + 1) : q[i] \in Task) /\ (n # 0 => n \in 1..(n + 1))
  <2>1. \A i \in 1..Len(q) : q[i] \in Task
    OBVIOUS
  <2> QED
    BY <1>13, <2>1
<1>2. /\ wpc[w] = "link" /\ UNCHANGED <<node, sleeperVars, safe, usage, listed>>
      /\ \/ safe[w] /\ wpc' = [wpc EXCEPT ![w] = "idle"] /\ task' = [task EXCEPT ![w] = NULL]
         \/ ~safe[w] /\ wpc' = [wpc EXCEPT ![w] = "get"] /\ task' = task
  BY DEF WakeQLink
<1>11. /\ wpc'[w] = IF safe[w] THEN "idle" ELSE "get"
       /\ task'[w] = IF safe[w] THEN NULL ELSE t
  BY <1>2 DEF WakeQTypeOK
<1>3. /\ first[w] = IF n = 0 THEN WAKE_Q_TAIL ELSE q[1]
      /\ \A i \in 1..n : next[q[i]] = IF i = n THEN WAKE_Q_TAIL ELSE q[i + 1]
      /\ q[n + 1] = t /\ next[t] = WAKE_Q_TAIL
      /\ lastp[w] = IF n = 0 THEN HeadFirst ELSE q[n]
  <2>1. ListOK(w)
    BY DEF ListInv
  <2>2. Remaining(w) = first[w] /\ wpc[w] \in Adding
    BY <1>2 DEF Remaining, Adding
  <2> QED
    BY <1>2, <1>13, <2>1, <2>2 DEF ListOK
<1>4. /\ lastp' = [lastp EXCEPT ![w] = t]
      /\ n = 0 => first' = [first EXCEPT ![w] = t] /\ next' = next
      /\ n # 0 => first' = first /\ next' = [next EXCEPT ![q[n]] = t]
  <2>1. n # 0 => lastp[w] = q[n] /\ lastp[w] # HeadFirst
    BY <1>0, <1>3, <1>13
  <2>2. n = 0 => lastp[w] = HeadFirst
    BY <1>3
  <2> QED
    BY <2>1, <2>2 DEF WakeQLink, AppendNode
<1>5. \A i, j \in 1..(n + 1) : q[i] = q[j] => i = j
  BY <1>13 DEF ListInv, Distinct
<1>6. ListInv'
  <2>1. \A u \in Task : next'[u] # next[u] => InQ(w, u)
    <3>1. n # 0 => InQ(w, q[n])
      BY <1>0, <1>13 DEF InQ
    <3> QED
      BY <1>0, <1>4, <3>1 DEF WakeQTypeOK
  <2>2. \A v \in Waker \ {w} : ListOK(v)'
    BY <1>1, <2>1, OtherLists
  <2>3. ListOK(w)'
    <3>1. Linked(w)' = n + 1 /\ Remaining(w)' = first'[w]
      BY <1>0, <1>2, <1>11, <1>13 DEF Linked, Remaining, Adding
    <3>2. first'[w] = q[1]
      BY <1>3, <1>4, <1>13 DEF WakeQTypeOK
    <3>3. \A i \in 1..(n + 1) : next'[q[i]] = IF i = n + 1 THEN WAKE_Q_TAIL ELSE q[i + 1]
      <4> TAKE i \in 1..(n + 1)
      <4>1. q[i] \in Task
        BY <1>0
      <4>2. CASE n = 0
        BY <1>3, <1>4, <1>13, <4>2
      <4>3. CASE n # 0
        <5>1. n \in 1..(n + 1) /\ q[n] \in Task
          BY <1>0, <4>3
        <5>2. next'[q[i]] = IF i = n THEN t ELSE next[q[i]]
          BY <1>4, <1>5, <1>13, <4>1, <4>3, <5>1 DEF WakeQTypeOK
        <5>3. CASE i = n
          BY <1>3, <1>13, <5>2, <5>3
        <5>4. CASE i = n + 1
          BY <1>3, <1>13, <5>2, <5>4
        <5>5. CASE i \in 1..n /\ i # n
          BY <1>3, <1>13, <5>2, <5>5
        <5> QED
          BY <1>13, <5>3, <5>4, <5>5
      <4> QED
        BY <4>2, <4>3
    <3>4. lastp'[w] = q[n + 1]
      BY <1>3, <1>4, <1>13 DEF WakeQTypeOK
    <3> QED
      BY <1>0, <1>2, <1>11, <1>13, <3>1, <3>2, <3>3, <3>4 DEF ListOK
  <2>4. Distinct'
    BY <1>2 DEF ListInv, Distinct
  <2>5. Owned'
    <3>1. \A v \in Waker, u \in Task : InQ(v, u)' <=> InQ(v, u)
      BY <1>2 DEF InQ
    <3> QED
      BY <2>1, <3>1 DEF ListInv, Owned
  <2> QED
    BY <2>2, <2>3, <2>4, <2>5 DEF ListInv
<1>7. PlaceInv' /\ LockInv'
  <2>1. \A v \in Waker \ {w} : Place(v)'
    BY <1>1, <1>2, OtherPlaces DEF sleeperVars
  <2>2. Place(w)'
    <3>1. Place(w) /\ wait_lock' = wait_lock /\ listed'[w] = q /\ safe'[w] = safe[w]
      BY <1>2 DEF PlaceInv, sleeperVars
    <3>2. Len(q) > 0 /\ q[Len(q)] = t
      BY <1>3, <1>13
    <3> QED
      BY <1>2, <1>11, <3>1, <3>2 DEF Place, Locking
  <2> QED
    BY <1>2, <2>1, <2>2 DEF PlaceInv, LockInv, sleeperVars
<1>8. RefCount'
  <2>1. \A u \in Task : usage'[u] = usage[u] - Share(w, u) + Share(w, u)'
    <3> TAKE u \in Task
    <3>1. OnList(w, u)' <=> OnList(w, u)
      BY <1>2, <1>11 DEF OnList, InQ
    <3>2. ~InHand(w, u) /\ ~InHand(w, u)'
      BY <1>2, <1>11 DEF InHand
    <3> QED
      BY <1>2, <3>1, <3>2 DEF Share, WakeQTypeOK
  <2> QED
    BY <1>1, <1>2, <2>1, RefStep DEF WakeQTypeOK, sleeperVars
<1>9. NoLostWakeup'
  <2>1. \A u \in Task : WillWake(w, u) => WillWake(w, u)'
    BY <1>2, <1>11 DEF WillWake
  <2> QED
    BY <1>1, <1>2, <2>1, WakeupKept DEF sleeperVars
<1>10. WakeQTypeOK'
  <2>1. lastp' \in [Waker -> Task \cup {HeadFirst}]
    BY <1>4 DEF WakeQTypeOK
  <2>5. first' \in [Waker -> Node] /\ next' \in [Task -> Node \cup {NULL}]
    <3>1. first \in [Waker -> Node] /\ next \in [Task -> Node \cup {NULL}]
      BY DEF WakeQTypeOK
    <3>2. CASE n = 0
      BY <1>4, <3>1, <3>2
    <3>3. CASE n # 0
      BY <1>0, <1>4, <3>1, <3>3
    <3> QED BY <3>2, <3>3
  <2>3. /\ wpc' \in [Waker -> Adding \cup {"walk", "clear", "wake", "put"}]
        /\ task' \in [Waker -> Task \cup {NULL}]
    <3>1. /\ wpc \in [Waker -> Adding \cup {"walk", "clear", "wake", "put"}]
          /\ task \in [Waker -> Task \cup {NULL}]
      BY DEF WakeQTypeOK
    <3>2. CASE safe[w]
      BY <1>2, <3>1, <3>2 DEF Adding
    <3>3. CASE ~safe[w]
      BY <1>2, <3>1, <3>3 DEF Adding
    <3> QED BY <3>2, <3>3
  <2> QED
    BY <1>2, <2>1, <2>3, <2>5 DEF WakeQTypeOK, sleeperVars
<1> QED
  BY <1>6, <1>7, <1>8, <1>9, <1>10

\* The reference of the list, while the lock still keeps the task alive.
LEMMA WakeQGetInv ==
  ASSUME IInv, NEW w \in Waker, WakeQGet(w)
  PROVE  IInv'
<1> USE DEF IInv
<1>1. Others(w)
  BY StepOthers DEF WakerStep
<1> PICK t \in Task : t = task[w]
  BY DEF WakeQGet, WakeQTypeOK, PlaceInv, Place
<1>2. /\ wpc[w] = "get" /\ wpc' = [wpc EXCEPT ![w] = "unlock"] /\ wpc'[w] = "unlock"
      /\ UNCHANGED <<first, lastp, node, sleeperVars, task, safe, next, listed>>
      /\ usage' = [usage EXCEPT ![t] = @ + 1]
  BY DEF WakeQGet, WakeQTypeOK, headVars
<1>3. InQ(w, t) /\ ~safe[w]
  <2>1. Len(listed[w]) \in Nat
    BY DEF WakeQTypeOK
  <2>2. Len(listed[w]) > 0 /\ listed[w][Len(listed[w])] = t /\ ~safe[w]
    BY <1>2 DEF PlaceInv, Place
  <2> QED
    BY <2>1, <2>2 DEF InQ
<1>4. ListInv'
  BY <1>1, <1>2, SameLists DEF Adding
<1>5. PlaceInv' /\ LockInv'
  <2>1. \A v \in Waker \ {w} : Place(v)'
    BY <1>1, <1>2, OtherPlaces DEF sleeperVars
  <2>2. Place(w)'
    BY <1>2 DEF PlaceInv, Place, Locking, sleeperVars
  <2> QED
    BY <1>2, <2>1, <2>2 DEF PlaceInv, LockInv, sleeperVars
<1>6. RefCount'
  <2>1. \A u \in Task : usage'[u] = usage[u] - Share(w, u) + Share(w, u)'
    <3> TAKE u \in Task
    <3>1. usage[u] \in Nat /\ usage'[u] = IF u = t THEN usage[u] + 1 ELSE usage[u]
      BY <1>2 DEF WakeQTypeOK
    <3>2. ~InHand(w, u) /\ ~InHand(w, u)'
      BY <1>2 DEF InHand
    <3>3. OnList(w, u)' <=> OnList(w, u) \/ u = t
      BY <1>2, <1>3 DEF OnList, InQ
    <3>4. u = t => ~OnList(w, u)
      BY <1>2, <1>3 DEF OnList
    <3> QED
      BY <3>1, <3>2, <3>3, <3>4 DEF Share
  <2> QED
    BY <1>1, <1>2, <2>1, RefStep DEF WakeQTypeOK, sleeperVars
<1>7. NoLostWakeup'
  <2>1. \A u \in Task : WillWake(w, u) => WillWake(w, u)'
    BY <1>2 DEF WillWake
  <2> QED
    BY <1>1, <1>2, <2>1, WakeupKept DEF sleeperVars
<1>8. WakeQTypeOK'
  BY <1>2 DEF WakeQTypeOK, Adding, sleeperVars
<1> QED
  BY <1>4, <1>5, <1>6, <1>7, <1>8

\* The lock is released when the list has its reference.
LEMMA UnlockInv ==
  ASSUME IInv, NEW w \in Waker, Unlock(w)
  PROVE  IInv'
<1> USE DEF IInv
<1>1. Others(w)
  BY StepOthers DEF WakerStep
<1> PICK t \in Task : t = task[w]
  BY DEF Unlock, WakeQTypeOK, PlaceInv, Place
<1>2. /\ wpc[w] = "unlock" /\ wpc' = [wpc EXCEPT ![w] = "idle"] /\ wpc'[w] = "idle"
      /\ UNCHANGED <<first, lastp, node, state, tpc, cond, usage, safe, next, listed>>
      /\ wait_lock' = [wait_lock EXCEPT ![t] = None]
      /\ task' = [task EXCEPT ![w] = NULL] /\ task'[w] = NULL
  BY DEF Unlock, WakeQTypeOK, headVars
<1>3. wait_lock[t] = w /\ ~safe[w]
  BY <1>2 DEF PlaceInv, Place, Locking
<1>4. ListInv'
  BY <1>1, <1>2, SameLists DEF Adding
<1>5. PlaceInv' /\ LockInv'
  <2>1. \A u \in Task : wait_lock'[u] = wait_lock[u] \/ wait_lock[u] \in {None, w}
    BY <1>2, <1>3 DEF WakeQTypeOK
  <2>2. \A v \in Waker \ {w} : Place(v)'
    BY <1>1, <2>1, OtherPlaces
  <2>3. Place(w)'
    BY <1>2 DEF Place, Locking
  <2>4. LockInv'
    BY <1>2 DEF LockInv, WakeQTypeOK
  <2> QED
    BY <2>2, <2>3, <2>4 DEF PlaceInv
<1>6. RefCount'
  <2>1. \A u \in Task : usage'[u] = usage[u] - Share(w, u) + Share(w, u)'
    <3> TAKE u \in Task
    <3>1. ~InHand(w, u) /\ ~InHand(w, u)'
      BY <1>2 DEF InHand
    <3>2. OnList(w, u)' <=> OnList(w, u)
      BY <1>2 DEF OnList, InQ
    <3> QED
      BY <1>2, <3>1, <3>2 DEF Share, WakeQTypeOK
  <2> QED
    BY <1>1, <1>2, <2>1, RefStep DEF WakeQTypeOK
<1>7. NoLostWakeup'
  <2>1. \A u \in Task : WillWake(w, u) => WillWake(w, u)'
    BY <1>2 DEF WillWake
  <2> QED
    BY <1>1, <1>2, <2>1, WakeupKept
<1>8. WakeQTypeOK'
  BY <1>2 DEF WakeQTypeOK, Adding
<1> QED
  BY <1>4, <1>5, <1>6, <1>7, <1>8

-----------------------------------------------------------------------------
(***************************************************************************)
(* The steps of wake_up_q().                                               *)
(***************************************************************************)

\* The loop begins or ends: the list stays what it is.
LEMMA WalkInv ==
  ASSUME IInv, NEW w \in Waker, WakeUpQ(w) \/ EndOfList(w)
  PROVE  IInv'
<1> USE DEF IInv
<1>1. Others(w)
  BY StepOthers DEF WakerStep
<1>2. UNCHANGED <<sleeperVars, task, safe, next, usage, listed>>
  BY DEF WakeUpQ, EndOfList
<1>3. {wpc[w], wpc'[w]} \subseteq {"idle", "walk"} /\ task[w] = NULL
  BY DEF WakeUpQ, EndOfList, WakeQTypeOK, PlaceInv, Place
<1>4. ListInv'
  <2>1. \A v \in Waker \ {w} : ListOK(v)'
    BY <1>1, <1>2, OtherLists
  <2> PICK q \in Seq(Task) : q = listed[w]
    BY DEF WakeQTypeOK
  <2>2. Linked(w) = Len(q) /\ Linked(w)' = Len(q) /\ Len(q) \in Nat /\ ListOK(w)
    BY <1>2, <1>3 DEF Linked, ListInv
  <2>3. \A i \in 1..Len(q) : next'[q[i]] = IF i = Len(q) THEN WAKE_Q_TAIL ELSE q[i + 1]
    BY <1>2, <2>2 DEF ListOK
  <2>4. CASE WakeUpQ(w)
    <3>1. Remaining(w)' = first[w] /\ Remaining(w) = first[w] /\ wpc'[w] = "walk"
      BY <2>4 DEF WakeUpQ, Remaining, Adding, WakeQTypeOK
    <3>2. ListOK(w)'
      BY <1>2, <2>2, <2>3, <3>1 DEF ListOK, Adding
    <3> QED
      BY <1>2, <2>1, <3>2 DEF ListInv, Distinct, Owned, InQ
  <2>5. CASE EndOfList(w)
    <3>1. /\ Remaining(w)' = WAKE_Q_TAIL /\ Remaining(w) = WAKE_Q_TAIL /\ wpc'[w] = "idle"
          /\ lastp'[w] = HeadFirst
      BY <2>5 DEF EndOfList, Remaining, Adding, WakeQTypeOK
    <3>2. Len(q) = 0
      <4>1. Len(q) # 0 => q[1] \in Task
        OBVIOUS
      <4> QED
        BY <2>2, <3>1, <4>1 DEF ListOK
    <3>3. ListOK(w)'
      BY <1>2, <2>2, <2>3, <3>1, <3>2 DEF ListOK, Adding
    <3> QED
      BY <1>2, <2>1, <3>3 DEF ListInv, Distinct, Owned, InQ
  <2> QED
    BY <2>4, <2>5
<1>5. PlaceInv' /\ LockInv'
  <2>1. \A v \in Waker \ {w} : Place(v)'
    BY <1>1, <1>2, OtherPlaces DEF sleeperVars
  <2>2. Place(w)'
    BY <1>2, <1>3 DEF Place, Locking
  <2> QED
    BY <1>2, <2>1, <2>2 DEF PlaceInv, LockInv, sleeperVars
<1>6. RefCount'
  <2>1. \A u \in Task : usage'[u] = usage[u] - Share(w, u) + Share(w, u)'
    <3> TAKE u \in Task
    <3>1. ~InHand(w, u) /\ ~InHand(w, u)'
      BY <1>2, <1>3 DEF InHand
    <3>2. OnList(w, u)' <=> OnList(w, u)
      BY <1>2, <1>3 DEF OnList, InQ
    <3> QED
      BY <1>2, <3>1, <3>2 DEF Share, WakeQTypeOK
  <2> QED
    BY <1>1, <1>2, <2>1, RefStep DEF WakeQTypeOK, sleeperVars
<1>7. NoLostWakeup'
  <2>1. \A u \in Task : WillWake(w, u) => WillWake(w, u)'
    BY <1>2, <1>3 DEF WillWake
  <2> QED
    BY <1>1, <1>2, <2>1, WakeupKept DEF sleeperVars
<1>8. WakeQTypeOK'
  <2>1. CASE WakeUpQ(w)
    BY <1>2, <2>1 DEF WakeUpQ, WakeQTypeOK, Adding, sleeperVars, headVars
  <2>2. CASE EndOfList(w)
    BY <1>2, <2>2 DEF EndOfList, WakeQTypeOK, Adding, sleeperVars, headVars
  <2> QED
    BY <2>1, <2>2
<1> QED
  BY <1>4, <1>5, <1>6, <1>7, <1>8

\* The loop looks at the next task of the list.
LEMMA AdvanceInv ==
  ASSUME IInv, NEW w \in Waker, Advance(w)
  PROVE  IInv'
<1> USE DEF IInv
<1>1. Others(w)
  BY StepOthers DEF WakerStep
<1>2. UNCHANGED <<sleeperVars, first, lastp, safe, next, usage, listed>>
  BY DEF Advance, headVars
<1> PICK t \in Task : t = node[w]
  BY DEF Advance, WakeQTypeOK
<1>3. /\ wpc[w] = "walk" /\ task' = [task EXCEPT ![w] = t] /\ task'[w] = t
      /\ node' = [node EXCEPT ![w] = next[t]] /\ node'[w] = next[t]
      /\ wpc' = [wpc EXCEPT ![w] = "clear"] /\ wpc'[w] = "clear" /\ task[w] = NULL
  BY DEF Advance, WakeQTypeOK, PlaceInv, Place
<1> PICK q \in Seq(Task) : q = listed[w]
  BY DEF WakeQTypeOK
<1>4. Linked(w) = Len(q) /\ Linked(w)' = Len(q) /\ Len(q) \in Nat /\ ListOK(w)
  BY <1>2, <1>3 DEF Linked, ListInv
<1>5. Remaining(w) = t /\ Remaining(w)' = t
  BY <1>3 DEF Remaining, Adding
<1>6. Len(q) > 0 /\ q[1] = t
  BY <1>4, <1>5 DEF ListOK
<1>7. ListInv'
  <2>1. \A v \in Waker \ {w} : ListOK(v)'
    BY <1>1, <1>2, OtherLists
  <2>2. ListOK(w)'
    BY <1>2, <1>3, <1>4, <1>5, <1>6 DEF ListOK, Adding
  <2> QED
    BY <1>2, <2>1, <2>2 DEF ListInv, Distinct, Owned, InQ
<1>8. PlaceInv' /\ LockInv'
  <2>1. \A v \in Waker \ {w} : Place(v)'
    BY <1>1, <1>2, OtherPlaces DEF sleeperVars
  <2>2. Place(w)'
    BY <1>2, <1>3 DEF Place, Locking
  <2> QED
    BY <1>2, <2>1, <2>2 DEF PlaceInv, LockInv, sleeperVars
<1>9. RefCount'
  <2>1. \A u \in Task : usage'[u] = usage[u] - Share(w, u) + Share(w, u)'
    <3> TAKE u \in Task
    <3>1. ~InHand(w, u) /\ ~InHand(w, u)'
      BY <1>2, <1>3 DEF InHand
    <3>2. OnList(w, u)' <=> OnList(w, u)
      BY <1>2, <1>3 DEF OnList, InQ
    <3> QED
      BY <1>2, <3>1, <3>2 DEF Share, WakeQTypeOK
  <2> QED
    BY <1>1, <1>2, <2>1, RefStep DEF WakeQTypeOK, sleeperVars
<1>10. NoLostWakeup'
  <2>1. \A u \in Task : WillWake(w, u) => WillWake(w, u)'
    BY <1>2, <1>3 DEF WillWake
  <2> QED
    BY <1>1, <1>2, <2>1, WakeupKept DEF sleeperVars
<1>11. WakeQTypeOK'
  <2>1. InQ(w, t)
    BY <1>6 DEF InQ
  <2>2. next[t] \in Node
    BY <2>1, MembersLinked DEF WakeQTypeOK
  <2> QED
    BY <1>2, <1>3, <2>2 DEF WakeQTypeOK, Adding, sleeperVars
<1> QED
  BY <1>7, <1>8, <1>9, <1>10, <1>11

\* The task may be claimed for another list from here on; its wakeup is in hand.
LEMMA ClearNextInv ==
  ASSUME IInv, NEW w \in Waker, ClearNext(w)
  PROVE  IInv'
<1> USE DEF IInv
<1>1. Others(w)
  BY StepOthers DEF WakerStep
<1>2. /\ UNCHANGED <<sleeperVars, first, lastp, task, safe, node, usage>>
      /\ wpc[w] = "clear" /\ wpc' = [wpc EXCEPT ![w] = "wake"] /\ wpc'[w] = "wake"
  BY DEF ClearNext, headVars, WakeQTypeOK
<1> PICK t \in Task : t = task[w]
  BY <1>2 DEF WakeQTypeOK, PlaceInv, Place
<1>3. next' = [next EXCEPT ![t] = NULL] /\ listed' = [listed EXCEPT ![w] = Tail(@)]
  BY DEF ClearNext
<1> PICK q \in Seq(Task) : q = listed[w]
  BY DEF WakeQTypeOK
<1> PICK r : r = Tail(q)
  OBVIOUS
<1>4. Linked(w) = Len(q) /\ Len(q) \in Nat /\ ListOK(w) /\ Remaining(w) = t
  BY <1>2 DEF Linked, ListInv, Remaining, Adding
<1>5. Len(q) > 0 /\ q[1] = t /\ node[w] = next[t]
  BY <1>2, <1>4 DEF ListOK
<1>6. r \in Seq(Task) /\ Len(r) = Len(q) - 1 /\ \A i \in 1..(Len(q) - 1) : r[i] = q[i + 1]
  BY <1>5, TailMembers
<1>7. listed'[w] = r /\ \A v \in Waker \ {w} : listed'[v] = listed[v]
  BY <1>3 DEF WakeQTypeOK
<1>8. \A i \in 1..Len(q) : q[i] = t => i = 1
  BY <1>5 DEF ListInv, Distinct
<1>9. \A u \in Task : InQ(w, u)' <=> InQ(w, u) /\ u # t
  <2> TAKE u \in Task
  <2>1. ASSUME InQ(w, u)' PROVE InQ(w, u) /\ u # t
    <3> PICK i \in 1..Len(r) : r[i] = u
      BY <1>7, <2>1 DEF InQ
    <3>1. i + 1 \in 1..Len(q) /\ q[i + 1] = u /\ i + 1 # 1
      BY <1>4, <1>6
    <3> QED
      BY <1>8, <3>1 DEF InQ
  <2>2. ASSUME InQ(w, u), u # t PROVE InQ(w, u)'
    <3> PICK i \in 1..Len(q) : q[i] = u
      BY <2>2 DEF InQ
    <3>1. i - 1 \in 1..Len(r) /\ r[i - 1] = q[i]
      BY <1>4, <1>5, <1>6, <2>2
    <3> QED
      BY <1>7, <3>1 DEF InQ
  <2> QED
    BY <2>1, <2>2
<1>10. InQ(w, t)
  BY <1>4, <1>5 DEF InQ
<1>11. ListInv'
  <2>1. \A v \in Waker \ {w} : ListOK(v)'
    BY <1>1, <1>3, <1>10, OtherLists DEF WakeQTypeOK
  <2>2. ListOK(w)'
    <3>1. Linked(w)' = Len(r) /\ Remaining(w)' = next[t]
      BY <1>2, <1>5, <1>7 DEF Linked, Remaining, Adding
    <3>2. \A i \in 1..Len(q) : next[q[i]] = IF i = Len(q) THEN WAKE_Q_TAIL ELSE q[i + 1]
      BY <1>4 DEF ListOK
    <3>3. next[t] = IF Len(r) = 0 THEN WAKE_Q_TAIL ELSE r[1]
      <4>1. 1 \in 1..Len(q) /\ (Len(r) = 0 <=> 1 = Len(q))
        BY <1>4, <1>5, <1>6
      <4>2. Len(r) # 0 => r[1] = q[1 + 1]
        <5>1. Len(q) \in Nat /\ Len(q) > 0 /\ Len(r) = Len(q) - 1
          BY <1>4, <1>5, <1>6
        <5>2. Len(r) # 0 => 1 \in 1..(Len(q) - 1)
          BY ONLY <5>1
        <5> QED
          BY <1>6, <5>2
      <4>3. next[q[1]] = IF 1 = Len(q) THEN WAKE_Q_TAIL ELSE q[1 + 1]
        BY <3>2, <4>1
      <4> QED
        BY <1>5, <4>1, <4>2, <4>3
    <3>4. \A i \in 1..Len(r) : next'[r[i]] = IF i = Len(r) THEN WAKE_Q_TAIL ELSE r[i + 1]
      <4> TAKE i \in 1..Len(r)
      <4>1. i + 1 \in 1..Len(q) /\ r[i] = q[i + 1] /\ q[i + 1] # t /\ q[i + 1] \in Task
        BY <1>4, <1>6, <1>8
      <4>2. next'[r[i]] = next[q[i + 1]]
        BY <1>3, <4>1 DEF WakeQTypeOK
      <4>3. next[q[i + 1]] = IF i + 1 = Len(q) THEN WAKE_Q_TAIL ELSE q[i + 2]
        BY <3>2, <4>1
      <4>4. i # Len(r) => r[i + 1] = q[i + 2]
        BY <1>4, <1>6
      <4> QED
        BY <1>4, <1>6, <4>2, <4>3, <4>4
    <3> QED
      BY <1>2, <1>6, <1>7, <3>1, <3>3, <3>4 DEF ListOK, Adding
  <2>3. Distinct'
    <3> SUFFICES ASSUME NEW v \in Waker, NEW u \in Waker, NEW i \in 1..Len(listed'[v]),
                        NEW j \in 1..Len(listed'[u]), listed'[v][i] = listed'[u][j]
                 PROVE  v = u /\ i = j
      BY DEF Distinct
    <3> DEFINE At(x, k) == IF x = w THEN k + 1 ELSE k
    <3>1. ASSUME NEW x \in Waker, NEW k \in 1..Len(listed'[x])
          PROVE  At(x, k) \in 1..Len(listed[x]) /\ listed'[x][k] = listed[x][At(x, k)]
      <4>1. CASE x = w
        <5>1. k \in 1..Len(r) /\ k + 1 \in 1..Len(q)
          <6>1. listed'[x] = r
            BY <1>7, <4>1
          <6>2. k \in 1..Len(r)
            BY <6>1
          <6> QED
            BY <1>4, <1>6, <6>2
        <5> QED
          BY <1>4, <1>6, <1>7, <4>1, <5>1
      <4>2. CASE x # w
        BY <1>7, <4>2
      <4> QED BY <4>1, <4>2
    <3>2. At(v, i) \in 1..Len(listed[v]) /\ At(u, j) \in 1..Len(listed[u])
          /\ listed[v][At(v, i)] = listed[u][At(u, j)]
      BY <3>1
    <3> HIDE DEF At
    <3>3. v = u /\ At(v, i) = At(u, j)
      BY <3>2 DEF ListInv, Distinct
    <3> QED
      BY <3>3 DEF At
  <2>4. Owned'
    <3>1. \A u \in Task : next'[u] # NULL => next[u] # NULL /\ u # t
      BY <1>3 DEF WakeQTypeOK
    <3>2. \A v \in Waker, u \in Task : InQ(v, u) /\ u # t => InQ(v, u)'
      <4> TAKE v \in Waker, u \in Task
      <4>1. CASE v = w
        BY <1>9, <4>1
      <4>2. CASE v # w
        BY <1>7, <4>2 DEF InQ
      <4> QED BY <4>1, <4>2
    <3> QED
      BY <3>1, <3>2 DEF ListInv, Owned
  <2> QED
    BY <2>1, <2>2, <2>3, <2>4 DEF ListInv
<1>12. PlaceInv' /\ LockInv'
  <2>1. \A v \in Waker \ {w} : Place(v)'
    BY <1>1, <1>2, OtherPlaces DEF sleeperVars
  <2>2. Place(w)'
    BY <1>2 DEF Place, Locking
  <2> QED
    BY <1>2, <2>1, <2>2 DEF PlaceInv, LockInv, sleeperVars
<1>13. RefCount'
  <2>1. \A u \in Task : usage'[u] = usage[u] - Share(w, u) + Share(w, u)'
    <3> TAKE u \in Task
    <3>1. ~InHand(w, u) /\ (InHand(w, u)' <=> u = t)
      BY <1>2 DEF InHand
    <3>2. (OnList(w, u) <=> InQ(w, u)) /\ (OnList(w, u)' <=> InQ(w, u)')
      BY <1>2 DEF OnList
    <3> QED
      BY <1>2, <1>9, <1>10, <3>1, <3>2 DEF Share, WakeQTypeOK
  <2> QED
    BY <1>1, <1>2, <2>1, RefStep DEF WakeQTypeOK, sleeperVars
<1>14. NoLostWakeup'
  <2>1. \A u \in Task : WillWake(w, u) => WillWake(w, u)'
    <3>1. \A u \in Task : WillWake(w, u) => InQ(w, u)
      BY <1>2 DEF WillWake, InQ
    <3>2. \A u \in Task : InQ(w, u)' \/ u = t => WillWake(w, u)'
      BY <1>2 DEF WillWake, InQ
    <3> QED
      BY <1>9, <3>1, <3>2
  <2> QED
    BY <1>1, <1>2, <2>1, WakeupKept DEF sleeperVars
<1>15. WakeQTypeOK'
  BY <1>2, <1>3, <1>6 DEF WakeQTypeOK, Adding, sleeperVars
<1> QED
  BY <1>11, <1>12, <1>13, <1>14, <1>15

\* The task is woken.
LEMMA WakeUpProcessInv ==
  ASSUME IInv, NEW w \in Waker, WakeUpProcess(w)
  PROVE  IInv'
<1> USE DEF IInv
<1>1. Others(w)
  BY StepOthers DEF WakerStep
<1> PICK t \in Task : t = task[w]
  BY DEF WakeUpProcess, WakeQTypeOK, PlaceInv, Place
<1>2. /\ wpc[w] = "wake" /\ wpc' = [wpc EXCEPT ![w] = "put"] /\ wpc'[w] = "put"
      /\ UNCHANGED <<first, lastp, node, tpc, cond, wait_lock, task, safe, usage, next, listed>>
      /\ state' = [state EXCEPT ![t] = IF @ = "SLEEP" THEN "RUNNING" ELSE @]
  BY DEF WakeUpProcess, WakeQTypeOK, headVars
<1>3. ListInv'
  BY <1>1, <1>2, SameLists
<1>4. PlaceInv' /\ LockInv'
  <2>1. \A v \in Waker \ {w} : Place(v)'
    BY <1>1, <1>2, OtherPlaces
  <2>2. Place(w)'
    BY <1>2 DEF Place, Locking
  <2> QED
    BY <1>2, <2>1, <2>2 DEF PlaceInv, LockInv
<1>5. RefCount'
  <2>1. \A u \in Task : usage'[u] = usage[u] - Share(w, u) + Share(w, u)'
    <3> TAKE u \in Task
    <3>1. (InHand(w, u)' <=> InHand(w, u)) /\ (OnList(w, u)' <=> OnList(w, u))
      BY <1>2 DEF InHand, OnList, InQ
    <3> QED
      BY <1>2, <3>1 DEF Share, WakeQTypeOK
  <2> QED
    BY <1>1, <1>2, <2>1, RefStep DEF WakeQTypeOK
<1>6. NoLostWakeup'
  <2>1. \A u \in Task : state'[u] = "SLEEP" => state[u] = "SLEEP" /\ u # t
    BY <1>2 DEF WakeQTypeOK
  <2>2. \A u \in Task, v \in Waker : u # t /\ WillWake(v, u) => WillWake(v, u)'
    BY <1>1, <1>2 DEF WillWake, Others
  <2> QED
    BY <1>2, <2>1, <2>2 DEF NoLostWakeup
<1>7. WakeQTypeOK'
  BY <1>2 DEF WakeQTypeOK, Adding
<1> QED
  BY <1>3, <1>4, <1>5, <1>6, <1>7

\* The reference of the list is dropped.
LEMMA PutTaskInv ==
  ASSUME IInv, NEW w \in Waker, PutTask(w)
  PROVE  IInv'
<1> USE DEF IInv
<1>1. Others(w)
  BY StepOthers DEF WakerStep
<1> PICK t \in Task : t = task[w]
  BY DEF PutTask, WakeQTypeOK, PlaceInv, Place
<1>2. /\ wpc[w] = "put" /\ wpc' = [wpc EXCEPT ![w] = "walk"] /\ wpc'[w] = "walk"
      /\ UNCHANGED <<first, lastp, node, sleeperVars, safe, next, listed>>
      /\ task' = [task EXCEPT ![w] = NULL] /\ task'[w] = NULL
      /\ usage' = [usage EXCEPT ![t] = @ - 1]
  BY DEF PutTask, WakeQTypeOK, headVars
<1>3. ListInv'
  BY <1>1, <1>2, SameLists
<1>4. PlaceInv' /\ LockInv'
  <2>1. \A v \in Waker \ {w} : Place(v)'
    BY <1>1, <1>2, OtherPlaces DEF sleeperVars
  <2>2. Place(w)'
    BY <1>2 DEF Place, Locking
  <2> QED
    BY <1>2, <2>1, <2>2 DEF PlaceInv, LockInv, sleeperVars
<1>5. RefCount' /\ \A u \in Task : usage'[u] \in Nat
  <2>1. \A u \in Task : usage'[u] = usage[u] - Share(w, u) + Share(w, u)'
    <3> TAKE u \in Task
    <3>1. (InHand(w, u) <=> u = t) /\ ~InHand(w, u)' /\ (OnList(w, u)' <=> OnList(w, u))
      BY <1>2 DEF InHand, OnList, InQ
    <3>2. usage[u] \in Nat /\ usage'[u] = IF u = t THEN usage[u] - 1 ELSE usage[u]
      BY <1>2 DEF WakeQTypeOK
    <3> QED
      BY <3>1, <3>2 DEF Share
  <2> QED
    BY <1>1, <1>2, <2>1, RefStep DEF WakeQTypeOK, sleeperVars
<1>6. NoLostWakeup'
  <2>1. \A u \in Task : WillWake(w, u) => WillWake(w, u)'
    BY <1>2 DEF WillWake
  <2> QED
    BY <1>1, <1>2, <2>1, WakeupKept DEF sleeperVars
<1>7. WakeQTypeOK'
  <2>1. usage' \in [Task -> Nat]
    BY <1>2, <1>5 DEF WakeQTypeOK
  <2> QED
    BY <1>2, <2>1 DEF WakeQTypeOK, Adding, sleeperVars
<1> QED
  BY <1>3, <1>4, <1>5, <1>6, <1>7

-----------------------------------------------------------------------------
(***************************************************************************)
(* The sleepers, and the theorems.                                         *)
(***************************************************************************)

\* A step of a sleeper leaves the lists alone, but for the link of a task_struct that
\* is used anew; that one is on no list, because nobody has a reference to it.
LEMMA SleeperInv ==
  ASSUME IInv, NEW t \in Task, SleeperStep(t)
  PROVE  IInv'
<1> USE DEF IInv
<1>1. UNCHANGED <<first, lastp, wait_lock, wpc, task, safe, node, listed>>
  BY DEF SleeperStep, SetCurrentState, Check, Resume, Exit, Recycle, headVars, ctlVars
<1>2. \/ next' = next
      \/ next' = [next EXCEPT ![t] = NULL] /\ \A w \in Waker : ~InQ(w, t)
  <2>1. CASE Recycle(t)
    <3>1. usage[t] = 0 /\ next' = [next EXCEPT ![t] = NULL]
      BY <2>1 DEF Recycle
    <3> QED
      BY <3>1, ClaimHeld
  <2>2. CASE SetCurrentState(t) \/ Check(t) \/ Resume(t) \/ Exit(t)
    BY <2>2 DEF SetCurrentState, Check, Resume, Exit
  <2> QED
    BY <2>1, <2>2 DEF SleeperStep
<1>3. ListInv'
  <2>1. \A w \in Waker, u \in Task : InQ(w, u) => next'[u] = next[u]
    BY <1>2 DEF WakeQTypeOK
  <2>2. \A w \in Waker : ListOK(w)'
    BY <1>1, <2>1, ListFrame DEF ListInv
  <2>3. \A u \in Task : next'[u] # NULL => next[u] # NULL
    BY <1>2 DEF WakeQTypeOK
  <2> QED
    BY <1>1, <2>2, <2>3 DEF ListInv, Distinct, Owned, InQ
<1>4. PlaceInv'
  BY <1>1 DEF PlaceInv, Place
<1>5. LockInv'
  <2>1. \A u \in Task : tpc'[u] = "gone" => tpc[u] = "gone" \/ wait_lock[u] = None
    BY DEF SleeperStep, SetCurrentState, Check, Resume, Exit, Recycle, WakeQTypeOK
  <2> QED
    BY <1>1, <2>1 DEF LockInv
<1>6. RefCount' /\ \A u \in Task : usage'[u] \in Nat
  <2>1. \A u \in Task : usage'[u] = usage[u] - Own(u) + Own(u)'
    <3> TAKE u \in Task
    <3>1. usage[u] \in Nat
      BY DEF WakeQTypeOK
    <3>2. CASE SetCurrentState(t) \/ Check(t) \/ Resume(t)
      <4>1. usage' = usage /\ tpc'[u] = "gone" <=> tpc[u] = "gone"
        BY <3>2 DEF SetCurrentState, Check, Resume, WakeQTypeOK
      <4> QED
        BY <3>1, <3>2, <4>1 DEF Own, SetCurrentState, Check, Resume
    <3>3. CASE Exit(t)
      BY <3>1, <3>3 DEF Exit, Own, WakeQTypeOK
    <3>4. CASE Recycle(t)
      BY <3>1, <3>4 DEF Recycle, Own, WakeQTypeOK
    <3> QED
      BY <3>2, <3>3, <3>4 DEF SleeperStep
  <2> QED
    BY <1>1, <2>1, RefSame DEF WakeQTypeOK
<1>7. NoLostWakeup'
  <2>1. \A u \in Task, w \in Waker : WillWake(w, u) => WillWake(w, u)'
    BY <1>1 DEF WillWake
  <2>2. \A u \in Task : tpc'[u] = "sched" /\ state'[u] = "SLEEP" /\ cond'[u]
                        => tpc[u] = "sched" /\ state[u] = "SLEEP" /\ cond[u]
    <3> TAKE u \in Task
    <3>1. CASE SetCurrentState(t)
      BY <3>1 DEF SetCurrentState, WakeQTypeOK
    <3>2. CASE Resume(t)
      BY <3>2 DEF Resume, WakeQTypeOK
    <3>3. CASE Check(t)
      <4>1. \/ tpc' = [tpc EXCEPT ![t] = "work"] /\ cond' = [cond EXCEPT ![t] = FALSE]
               /\ state' = [state EXCEPT ![t] = "RUNNING"]
            \/ tpc' = [tpc EXCEPT ![t] = "sched"] /\ cond' = cond /\ state' = state /\ ~cond[t]
        BY <3>3 DEF Check
      <4>2. tpc \in [Task -> {"work", "check", "sched", "wait", "gone"}]
            /\ cond \in [Task -> BOOLEAN] /\ state \in [Task -> {"RUNNING", "SLEEP", "DEAD"}]
        BY DEF WakeQTypeOK
      <4>3. CASE u = t
        BY <4>1, <4>2, <4>3
      <4>4. CASE u # t
        BY <4>1, <4>2, <4>4
      <4> QED
        BY <4>3, <4>4
    <3>4. CASE Exit(t)
      BY <3>4 DEF Exit, WakeQTypeOK
    <3>5. CASE Recycle(t)
      BY <3>5 DEF Recycle, WakeQTypeOK
    <3> QED
      BY <3>1, <3>2, <3>3, <3>4, <3>5 DEF SleeperStep
  <2> QED
    BY <2>1, <2>2 DEF NoLostWakeup
<1>8. WakeQTypeOK'
  <2>1. next' \in [Task -> Node \cup {NULL}]
    <3>1. next \in [Task -> Node \cup {NULL}]
      BY DEF WakeQTypeOK
    <3>2. next' = next \/ next' = [next EXCEPT ![t] = NULL]
      BY <1>2
    <3> QED
      BY ONLY <3>1, <3>2, t \in Task
  <2>2. /\ usage' \in [Task -> Nat] /\ state' \in [Task -> {"RUNNING", "SLEEP", "DEAD"}]
        /\ tpc' \in [Task -> {"work", "check", "sched", "wait", "gone"}]
        /\ cond' \in [Task -> BOOLEAN]
    <3>1. CASE SetCurrentState(t)
      BY <3>1 DEF SetCurrentState, WakeQTypeOK
    <3>5. CASE Resume(t)
      BY <3>5 DEF Resume, WakeQTypeOK
    <3>2. CASE Check(t)
      <4>1. \/ tpc' = [tpc EXCEPT ![t] = "work"] /\ cond' = [cond EXCEPT ![t] = FALSE]
               /\ state' = [state EXCEPT ![t] = "RUNNING"]
            \/ tpc' = [tpc EXCEPT ![t] = "sched"] /\ cond' = cond /\ state' = state
        BY <3>2 DEF Check
      <4>2. tpc \in [Task -> {"work", "check", "sched", "wait", "gone"}]
            /\ cond \in [Task -> BOOLEAN] /\ state \in [Task -> {"RUNNING", "SLEEP", "DEAD"}]
        BY DEF WakeQTypeOK
      <4>3. usage' \in [Task -> Nat]
        BY <3>2 DEF Check, WakeQTypeOK
      <4> QED
        BY <4>1, <4>2, <4>3
    <3>3. CASE Exit(t)
      <4>1. usage' = [usage EXCEPT ![t] = @ - 1]
        BY <3>3 DEF Exit
      <4>2. usage' \in [Task -> Nat]
        BY <1>6, <4>1 DEF WakeQTypeOK
      <4> QED
        BY <3>3, <4>2 DEF Exit, WakeQTypeOK
    <3>4. CASE Recycle(t)
      BY <3>4 DEF Recycle, WakeQTypeOK
    <3> QED
      BY <3>1, <3>2, <3>3, <3>4, <3>5 DEF SleeperStep
  <2> QED
    BY <1>1, <2>1, <2>2 DEF WakeQTypeOK
<1> QED
  BY <1>3, <1>4, <1>5, <1>6, <1>7, <1>8

\* All lists are empty and every task has its own reference.
LEMMA InitInv == WakeQInit => IInv
<1> SUFFICES ASSUME WakeQInit PROVE IInv
  OBVIOUS
<1>1. WakeQTypeOK
  BY DEF WakeQInit, WakeQTypeOK, Adding
<1>2. \A w \in Waker : listed[w] = <<>> /\ Len(listed[w]) = 0
  BY DEF WakeQInit
<1>3. \A w \in Waker : ListOK(w)
  BY <1>2 DEF WakeQInit, ListOK, Linked, Remaining, Adding
<1>4. Distinct /\ Owned
  BY <1>2 DEF WakeQInit, Distinct, Owned
<1>5. PlaceInv /\ LockInv /\ NoLostWakeup
  BY DEF WakeQInit, PlaceInv, Place, LockInv, NoLostWakeup, Locking
<1>6. RefCount
  <2> SUFFICES ASSUME NEW t \in Task
               PROVE  usage[t] = Own(t) + Cardinality(ListRefs(t)) + Cardinality(HandRefs(t))
    BY DEF RefCount
  <2>1. ListRefs(t) = {} /\ HandRefs(t) = {}
    BY <1>2 DEF WakeQInit, ListRefs, HandRefs
  <2>2. usage[t] = 1 /\ Own(t) = 1
    BY DEF WakeQInit, Own
  <2> QED
    BY <2>1, <2>2, FS_EmptySet
<1> QED
  BY <1>1, <1>3, <1>4, <1>5, <1>6 DEF IInv, ListInv

\* Every step keeps the invariant.
LEMMA NextInv == IInv /\ [WakeQNext]_wakeqVars => IInv'
<1> SUFFICES ASSUME IInv, [WakeQNext]_wakeqVars PROVE IInv'
  OBVIOUS
<1>1. CASE \E t \in Task : SleeperStep(t)
  BY <1>1, SleeperInv
<1>2. CASE \E w \in Waker, t \in Task : FindTask(w, t)
  BY <1>2, FindTaskInv
<1>3. CASE \E w \in Waker : WakeQAdd(w)
  <2>1. \A w \in Waker : WakeQAdd(w) => Claimed(w) \/ AlreadyQueued(w)
    BY DEF WakeQAdd
  <2> QED
    BY <1>3, <2>1, ClaimedInv, AlreadyQueuedInv
<1>4. CASE \E w \in Waker : MakeConditionTrue(w) \/ WakeQLink(w) \/ WakeQGet(w) \/ Unlock(w)
  BY <1>4, ConditionInv, WakeQLinkInv, WakeQGetInv, UnlockInv
<1>5. CASE \E w \in Waker : WakeUpQ(w) \/ Advance(w) \/ ClearNext(w) \/ WakeUpProcess(w)
                            \/ PutTask(w) \/ EndOfList(w)
  BY <1>5, WalkInv, AdvanceInv, ClearNextInv, WakeUpProcessInv, PutTaskInv
<1>6. CASE UNCHANGED wakeqVars
  <2> USE <1>6 DEF wakeqVars, sleeperVars, headVars, ctlVars, IInv
  <2>1. WakeQTypeOK'
    BY DEF WakeQTypeOK
  <2>2. ListInv'
    BY DEF ListInv, ListOK, Linked, Remaining, Distinct, Owned, InQ
  <2>3. PlaceInv' /\ LockInv' /\ NoLostWakeup'
    BY DEF PlaceInv, Place, LockInv, NoLostWakeup, WillWake
  <2>4. RefCount'
    BY DEF RefCount, Own, ListRefs, HandRefs
  <2> QED
    BY <2>1, <2>2, <2>3, <2>4
<1> QED
  BY <1>1, <1>2, <1>3, <1>4, <1>5, <1>6 DEF WakeQNext, WakerStep

\* The inductive invariant.
THEOREM WakeQInvariance == WakeQSpec => []IInv
<1> QED
  BY InitInv, NextInv, PTL DEF WakeQSpec

\* Lists are what their wakers claimed: no task is dropped from a list or put on two,
\* whatever other wakers do to the links of the same tasks.
THEOREM ListsIntact == WakeQSpec => []ListIntact
<1>1. IInv => ListIntact
  BY DEF IInv, ListInv, ListOK, Distinct, Owned, InQ, ListIntact
<1> QED
  BY <1>1, WakeQInvariance, PTL

\* A waker that finds a task on another list may leave: the task is woken.
THEOREM WakeupsKept == WakeQSpec => []NoLostWakeup
<1>1. IInv => NoLostWakeup
  BY DEF IInv
<1> QED
  BY <1>1, WakeQInvariance, PTL

\* The references of the lists are counted exactly, and no waker has a pointer to a
\* task_struct that has been freed.
THEOREM ReferencesExact == WakeQSpec => []RefExact
<1>1. IInv => RefExact
  <2> SUFFICES ASSUME IInv PROVE RefExact
    OBVIOUS
  <2>1. \A t \in Task : usage[t] = (IF tpc[t] = "gone" THEN 0 ELSE 1)
                                   + Cardinality(ListRefs(t)) + Cardinality(HandRefs(t))
    BY DEF IInv, RefCount, Own
  <2>2. \A w \in Waker : task[w] # NULL => usage[task[w]] > 0
    <3> TAKE w \in Waker
    <3>1. task[w] # NULL => task[w] \in Task
      BY DEF IInv, WakeQTypeOK
    <3> QED
      BY <3>1, ClaimHeld
  <2>3. \A w \in Waker : \A i \in 1..Len(listed[w]) : usage[listed[w][i]] > 0
    <3> TAKE w \in Waker
    <3> TAKE i \in 1..Len(listed[w])
    <3>1. listed[w][i] \in Task /\ InQ(w, listed[w][i])
      BY DEF IInv, WakeQTypeOK, InQ
    <3> QED
      BY <3>1, ClaimHeld
  <2> QED
    BY <2>1, <2>2, <2>3 DEF RefExact
<1> QED
  BY <1>1, WakeQInvariance, PTL

-----------------------------------------------------------------------------
(***************************************************************************)
(* Wake queues implement Wakeups.                                          *)
(***************************************************************************)

\* Whether a waker will wake a task, by its list and by the task in its hand.
LEMMA WillWakeIs ==
  ASSUME NEW w, NEW t
  PROVE  WillWake(w, t) <=> InQ(w, t) \/ (task[w] = t /\ wpc[w] \in {"add", "wake"})
BY DEF WillWake, InQ

LEMMA OwedIs ==
  ASSUME NEW t \in Task
  PROVE  /\ t \in Owed <=> \E w \in Waker : WillWake(w, t)
         /\ t \in Owed' <=> \E w \in Waker : WillWake(w, t)'
BY DEF Owed

\* The other wakers owe what they owed before.
LEMMA OthersOwe ==
  ASSUME NEW w \in Waker, Others(w), NEW v \in Waker \ {w}, NEW t
  PROVE  WillWake(v, t)' <=> WillWake(v, t)
<1>1. listed'[v] = listed[v] /\ task'[v] = task[v] /\ wpc'[v] = wpc[v]
  BY DEF Others
<1> QED
  BY <1>1 DEF WillWake

\* A step after which somebody owes each wakeup that the waker owed, and no other.
LEMMA OwedKept ==
  ASSUME NEW w \in Waker, Others(w),
         \A t \in Task : WillWake(w, t) => \E v \in Waker : WillWake(v, t)',
         \A t \in Task : WillWake(w, t)' => \E v \in Waker : WillWake(v, t)
  PROVE  Owed' = Owed
<1>1. ASSUME NEW t \in Task PROVE t \in Owed' <=> t \in Owed
  <2>1. ASSUME NEW v \in Waker, WillWake(v, t) PROVE t \in Owed'
    <3>1. CASE v = w
      BY <2>1, <3>1, OwedIs
    <3>2. CASE v # w
      BY <2>1, <3>2, OthersOwe, OwedIs
    <3> QED
      BY <3>1, <3>2
  <2>2. ASSUME NEW v \in Waker, WillWake(v, t)' PROVE t \in Owed
    <3>1. CASE v = w
      BY <2>2, <3>1, OwedIs
    <3>2. CASE v # w
      BY <2>2, <3>2, OthersOwe, OwedIs
    <3> QED
      BY <3>1, <3>2
  <2> QED
    BY <2>1, <2>2, OwedIs
<1>2. Owed \subseteq Task /\ Owed' \subseteq Task
  BY DEF Owed
<1> QED
  BY <1>1, <1>2

\* The steps that claim, release and wake nothing.
LEMMA QuietSteps ==
  ASSUME IInv, NEW w \in Waker,
         \/ WakeQLink(w) \/ WakeQGet(w) \/ Unlock(w) \/ WakeUpQ(w) \/ Advance(w)
         \/ PutTask(w) \/ EndOfList(w) \/ \E t \in Task : FindTask(w, t)
  PROVE  Owed' = Owed /\ UNCHANGED <<state, tpc, cond>>
<1>1. WakeQTypeOK /\ Others(w)
  BY StepOthers DEF IInv, WakerStep
<1>2. listed' = listed /\ wpc[w] \notin {"add", "wake"} /\ UNCHANGED <<state, tpc, cond>>
  BY DEF WakeQLink, WakeQGet, Unlock, WakeUpQ, Advance, PutTask, EndOfList, FindTask, sleeperVars
<1>3. wpc'[w] \notin {"add", "wake"}
  <2>1. CASE WakeQLink(w)
    BY <1>1, <2>1 DEF WakeQLink, WakeQTypeOK
  <2>2. CASE WakeQGet(w) \/ Unlock(w) \/ WakeUpQ(w) \/ Advance(w) \/ PutTask(w) \/ EndOfList(w)
    BY <1>1, <2>2 DEF WakeQGet, Unlock, WakeUpQ, Advance, PutTask, EndOfList, WakeQTypeOK
  <2>3. CASE \E t \in Task : FindTask(w, t)
    BY <1>1, <2>3 DEF FindTask, WakeQTypeOK
  <2> QED
    BY <2>1, <2>2, <2>3
<1>4. \A t \in Task : WillWake(w, t)' <=> WillWake(w, t)
  BY <1>2, <1>3 DEF WillWake
<1>5. Owed' = Owed
  BY <1>1, <1>4, OwedKept
<1> QED
  BY <1>2, <1>5

\* A claimed task is on the list instead of in the hand of its waker; one that is already
\* claimed is on the list of whoever claimed it.
LEMMA AddOwes ==
  ASSUME IInv, NEW w \in Waker, WakeQAdd(w)
  PROVE  Owed' = Owed /\ UNCHANGED <<state, tpc, cond>>
<1>1. WakeQTypeOK /\ Others(w) /\ Owned
  BY StepOthers DEF IInv, ListInv, WakerStep
<1> PICK t \in Task : t = task[w]
  BY DEF IInv, WakeQAdd, WakeQTypeOK, PlaceInv, Place
<1>2. wpc[w] = "add" /\ UNCHANGED <<state, tpc, cond>>
  BY DEF WakeQAdd, sleeperVars
<1>3. \A u \in Task : WillWake(w, u) <=> InQ(w, u) \/ u = t
  BY <1>2, WillWakeIs
<1>4. CASE Claimed(w)
  <2>1. listed[w] \in Seq(Task) /\ listed'[w] = Append(listed[w], t)
    BY <1>1, <1>4 DEF Claimed, WakeQTypeOK
  <2>2. wpc'[w] = "link"
    BY <1>1, <1>4 DEF Claimed, WakeQTypeOK
  <2>3. \A u \in Task : WillWake(w, u)' <=> InQ(w, u)'
    BY <2>2 DEF WillWake, InQ
  <2>4. \A u \in Task : InQ(w, u)' <=> InQ(w, u) \/ u = t
    <3> TAKE u \in Task
    <3> DEFINE q == listed[w]
    <3>1. /\ Len(Append(q, t)) = Len(q) + 1 /\ Append(q, t)[Len(q) + 1] = t
          /\ \A i \in 1..Len(q) : Append(q, t)[i] = q[i]
      BY <2>1, AppendMembers
    <3>2. InQ(w, u)' <=> \E i \in 1..Len(Append(q, t)) : Append(q, t)[i] = u
      BY <2>1 DEF InQ
    <3>3. Len(q) \in Nat
      BY <2>1
    <3>4. InQ(w, u) <=> \E i \in 1..Len(q) : q[i] = u
      BY DEF InQ
    <3> HIDE DEF q
    <3>5. InQ(w, u)' => InQ(w, u) \/ u = t
      BY <3>1, <3>2, <3>3, <3>4
    <3>6. InQ(w, u) => InQ(w, u)'
      BY <3>1, <3>2, <3>3, <3>4
    <3>7. u = t => InQ(w, u)'
      BY <3>1, <3>2, <3>3
    <3> QED
      BY <3>5, <3>6, <3>7
  <2>5. \A u \in Task : WillWake(w, u)' <=> WillWake(w, u)
    BY <1>3, <2>3, <2>4
  <2>6. Owed' = Owed
    BY <1>1, <2>5, OwedKept
  <2> QED
    BY <1>2, <2>6
<1>5. CASE AlreadyQueued(w)
  <2>1. listed' = listed /\ next[t] # NULL
    BY <1>5 DEF AlreadyQueued
  <2>2. wpc'[w] \notin {"add", "wake"}
    BY <1>1, <1>5 DEF AlreadyQueued, WakeQTypeOK
  <2>3. \A v \in Waker, u \in Task : InQ(v, u)' <=> InQ(v, u)
    BY <2>1 DEF InQ
  <2>4. \A u \in Task : WillWake(w, u)' <=> InQ(w, u)
    BY <2>1, <2>2 DEF WillWake, InQ
  <2>5. PICK v \in Waker : InQ(v, t)
    BY <1>1, <2>1 DEF Owned
  <2>6. WillWake(v, t)'
    BY <2>1, <2>5 DEF WillWake, InQ
  <2>7. \A u \in Task : WillWake(w, u) => \E x \in Waker : WillWake(x, u)'
    BY <1>3, <2>4, <2>6
  <2>8. \A u \in Task : WillWake(w, u)' => \E x \in Waker : WillWake(x, u)
    BY <1>3, <2>4
  <2>9. Owed' = Owed
    BY <1>1, <2>7, <2>8, OwedKept
  <2> QED
    BY <1>2, <2>9
<1> QED
  BY <1>4, <1>5 DEF WakeQAdd

\* A released task is in the hand of its waker.
LEMMA ReleaseOwes ==
  ASSUME IInv, NEW w \in Waker, ClearNext(w)
  PROVE  Owed' = Owed /\ UNCHANGED <<state, tpc, cond>>
<1>1. WakeQTypeOK /\ Others(w) /\ ListOK(w)
  BY StepOthers DEF IInv, ListInv, WakerStep
<1> PICK t \in Task : t = task[w]
  BY DEF IInv, ClearNext, WakeQTypeOK, PlaceInv, Place
<1>2. /\ wpc[w] = "clear" /\ wpc'[w] = "wake" /\ task' = task
      /\ UNCHANGED <<state, tpc, cond>>
  BY <1>1 DEF ClearNext, sleeperVars, WakeQTypeOK
<1>3. listed[w] \in Seq(Task) /\ listed'[w] = Tail(listed[w])
  BY <1>1 DEF ClearNext, WakeQTypeOK
<1>4. Linked(w) = Len(listed[w]) /\ Remaining(w) = t
  BY <1>2 DEF Linked, Remaining, Adding
<1>5. Len(listed[w]) > 0 /\ listed[w][1] = t
  BY <1>1, <1>2, <1>3, <1>4 DEF ListOK
<1>6. \A u \in Task : InQ(w, u)' \/ u = t <=> InQ(w, u)
  <2> TAKE u \in Task
  <2> DEFINE q == listed[w]
  <2>1. Len(Tail(q)) = Len(q) - 1 /\ \A i \in 1..(Len(q) - 1) : Tail(q)[i] = q[i + 1]
    BY <1>3, <1>5, TailMembers
  <2>2. InQ(w, u)' <=> \E i \in 1..Len(Tail(q)) : Tail(q)[i] = u
    BY <1>3 DEF InQ
  <2>3. InQ(w, u) <=> \E i \in 1..Len(q) : q[i] = u
    BY DEF InQ
  <2>4. Len(q) \in Nat /\ Len(q) > 0 /\ q[1] = t
    BY <1>3, <1>5
  <2> HIDE DEF q
  <2>5. InQ(w, u)' => InQ(w, u)
    BY <2>1, <2>2, <2>3, <2>4
  <2>6. u = t => InQ(w, u)
    BY <2>3, <2>4
  <2>7. ASSUME InQ(w, u), u # t PROVE InQ(w, u)'
    <3>1. PICK i \in 1..Len(q) : q[i] = u
      BY <2>3, <2>7
    <3>2. i - 1 \in 1..(Len(q) - 1) /\ (i - 1) + 1 = i
      BY <2>4, <2>7, <3>1
    <3> QED
      BY <2>1, <2>2, <3>1, <3>2
  <2> QED
    BY <2>5, <2>6, <2>7
<1>7. \A u \in Task : WillWake(w, u) <=> InQ(w, u)
  BY <1>2, WillWakeIs
<1>8. \A u \in Task : WillWake(w, u)' <=> InQ(w, u)' \/ u = t
  BY <1>2 DEF WillWake, InQ
<1>9. Owed' = Owed
  BY <1>1, <1>6, <1>7, <1>8, OwedKept
<1> QED
  BY <1>2, <1>9

\* To make the condition true is to owe the wakeup.
LEMMA ConditionOwes ==
  ASSUME IInv, NEW w \in Waker, MakeConditionTrue(w)
  PROVE  \E t \in Task : W!MakeTrue(t)
<1>1. WakeQTypeOK /\ Others(w)
  BY StepOthers DEF IInv, WakerStep
<1> PICK t \in Task : t = task[w]
  BY DEF IInv, MakeConditionTrue, WakeQTypeOK, PlaceInv, Place
<1>2. /\ wpc[w] = "event" /\ wpc'[w] = "add" /\ task' = task /\ listed' = listed
      /\ cond' = [cond EXCEPT ![t] = TRUE] /\ UNCHANGED <<state, tpc>>
  BY <1>1 DEF MakeConditionTrue, WakeQTypeOK
<1>3. \A u \in Task : WillWake(w, u)' <=> WillWake(w, u) \/ u = t
  BY <1>2 DEF WillWake
<1>4. ASSUME NEW u \in Task PROVE u \in Owed' <=> u \in Owed \/ u = t
  BY <1>1, <1>3, OthersOwe, OwedIs
<1>5. Owed' = Owed \cup {t}
  <2>1. Owed \subseteq Task /\ Owed' \subseteq Task
    BY DEF Owed
  <2> QED
    BY <1>4, <2>1
<1> QED
  BY <1>2, <1>5 DEF W!MakeTrue

\* To wake the task settles what this waker owes.
LEMMA WakeSettles ==
  ASSUME IInv, NEW w \in Waker, WakeUpProcess(w)
  PROVE  \E t \in Task : W!Wake(t)
<1>1. WakeQTypeOK /\ Others(w)
  BY StepOthers DEF IInv, WakerStep
<1> PICK t \in Task : t = task[w]
  BY DEF IInv, WakeUpProcess, WakeQTypeOK, PlaceInv, Place
<1>2. /\ wpc[w] = "wake" /\ wpc'[w] = "put" /\ task' = task /\ listed' = listed
      /\ state' = [state EXCEPT ![t] = IF @ = "SLEEP" THEN "RUNNING" ELSE @]
      /\ UNCHANGED <<tpc, cond>>
  BY <1>1 DEF WakeUpProcess, WakeQTypeOK
<1>3. \A u \in Task : u # t => (WillWake(w, u)' <=> WillWake(w, u))
  BY <1>2 DEF WillWake
<1>4. WillWake(w, t)
  BY <1>2 DEF WillWake
<1>5. t \in Owed
  BY <1>4, OwedIs
<1>6. ASSUME NEW u \in Task, u # t PROVE u \in Owed' <=> u \in Owed
  BY <1>1, <1>3, <1>6, OthersOwe, OwedIs
<1>7. Owed' \in {Owed, Owed \ {t}}
  <2>1. Owed \subseteq Task /\ Owed' \subseteq Task
    BY DEF Owed
  <2>2. CASE t \in Owed'
    BY <1>5, <1>6, <2>1, <2>2
  <2>3. CASE t \notin Owed'
    BY <1>5, <1>6, <2>1, <2>3
  <2> QED
    BY <2>2, <2>3
<1> QED
  BY <1>2, <1>5, <1>7 DEF W!Wake

\* The sleepers do as in Wakeups; a task_struct is not reused while a wakeup is owed,
\* since whoever owes it has a reference, or the lock of a task that is there.
LEMMA SleeperOwed ==
  ASSUME IInv, NEW t \in Task, SleeperStep(t)
  PROVE  W!Next
<1>1. Owed' = Owed
  <2>1. listed' = listed /\ task' = task /\ wpc' = wpc
    BY DEF SleeperStep, SetCurrentState, Check, Resume, Exit, Recycle, ctlVars
  <2> QED
    BY <2>1 DEF Owed, WillWake
<1>2. CASE SetCurrentState(t)
  BY <1>1, <1>2 DEF SetCurrentState, W!Next, W!Announce
<1>3. CASE Check(t)
  <2>1. W!Proceed(t) \/ W!Sleep(t)
    BY <1>1, <1>3 DEF Check, W!Proceed, W!Sleep
  <2> QED
    BY <2>1 DEF W!Next
<1>4. CASE Resume(t)
  BY <1>1, <1>4 DEF Resume, W!Next, W!Resume
<1>5. CASE Exit(t)
  BY <1>1, <1>5 DEF Exit, W!Next, W!Die
<1>6. CASE Recycle(t)
  <2>1. t \notin Owed
    <3> SUFFICES ASSUME NEW w \in Waker, WillWake(w, t) PROVE FALSE
      BY OwedIs
    <3>1. InQ(w, t) \/ task[w] = t
      BY WillWakeIs
    <3>2. usage[t] > 0
      BY <3>1, ClaimHeld
    <3> QED
      BY <1>6, <3>2 DEF Recycle
  <2>2. W!Replace(t)
    BY <1>1, <1>6, <2>1 DEF Recycle, W!Replace
  <2> QED
    BY <2>2 DEF W!Next
<1> QED
  BY <1>2, <1>3, <1>4, <1>5, <1>6 DEF SleeperStep

\* Every step is one of Wakeups, or leaves its variables alone.
LEMMA StepImplements == IInv /\ [WakeQNext]_wakeqVars => [W!Next]_(W!vars)
<1> SUFFICES ASSUME IInv, [WakeQNext]_wakeqVars PROVE W!Next \/ UNCHANGED W!vars
  OBVIOUS
<1>1. CASE \E t \in Task : SleeperStep(t)
  BY <1>1, SleeperOwed
<1>2. ASSUME NEW w \in Waker, MakeConditionTrue(w) \/ WakeUpProcess(w) PROVE W!Next
  BY <1>2, ConditionOwes, WakeSettles DEF W!Next
<1>3. ASSUME NEW w \in Waker, WakeQAdd(w) \/ ClearNext(w) PROVE UNCHANGED W!vars
  BY <1>3, AddOwes, ReleaseOwes DEF W!vars
<1>4. ASSUME NEW w \in Waker,
             \/ WakeQLink(w) \/ WakeQGet(w) \/ Unlock(w) \/ WakeUpQ(w) \/ Advance(w)
             \/ PutTask(w) \/ EndOfList(w) \/ \E t \in Task : FindTask(w, t)
      PROVE  UNCHANGED W!vars
  BY <1>4, QuietSteps DEF W!vars
<1>5. CASE UNCHANGED wakeqVars
  BY <1>5 DEF wakeqVars, sleeperVars, ctlVars, W!vars, Owed, WillWake
<1> QED
  BY <1>1, <1>2, <1>3, <1>4, <1>5 DEF WakeQNext, WakerStep

\* For any number of wakers and tasks, wake queues keep the promise of Wakeups: a wakeup is
\* owed from the moment a condition is made true, whoever finds the task claimed and
\* leaves, and only waking the task settles it.
THEOREM ImplementsWakeups == WakeQSpec => WakeupsOwed
<1>1. WakeQInit => W!Init
  <2> SUFFICES ASSUME WakeQInit PROVE W!Init
    OBVIOUS
  <2>1. \A w \in Waker : Len(listed[w]) = 0 /\ wpc[w] = "idle"
    BY DEF WakeQInit
  <2>2. Owed = {}
    BY <2>1 DEF Owed, WillWake
  <2> QED
    BY <2>2 DEF WakeQInit, W!Init
<1> QED
  BY <1>1, StepImplements, WakeQInvariance, PTL DEF WakeQSpec, WakeupsOwed, W!Spec

\* What Wakeups promises is enough: nobody sleeps on with its condition true unless a
\* wakeup is on its way.
THEOREM WakeupsSuffice == WakeupsOwed => []W!NothingLost
<1> DEFINE Types == /\ state \in [Task -> {"RUNNING", "SLEEP", "DEAD"}]
                    /\ tpc \in [Task -> {"work", "check", "sched", "wait", "gone"}]
                    /\ cond \in [Task -> BOOLEAN]
<1>1. W!Init => Types /\ W!NothingLost
  BY DEF W!Init, W!NothingLost
<1>2. Types /\ W!NothingLost /\ [W!Next]_(W!vars) => Types' /\ W!NothingLost'
  <2> SUFFICES ASSUME Types, W!NothingLost, W!Next \/ UNCHANGED W!vars
               PROVE  Types' /\ W!NothingLost'
    OBVIOUS
  <2>1. CASE UNCHANGED W!vars
    BY <2>1 DEF W!vars, W!NothingLost
  <2>2. ASSUME NEW t \in Task, W!Announce(t) \/ W!Proceed(t) PROVE Types' /\ W!NothingLost'
    BY <2>2 DEF W!Announce, W!Proceed, W!NothingLost
  <2>3. ASSUME NEW t \in Task, W!Sleep(t) \/ W!Resume(t) PROVE Types' /\ W!NothingLost'
    BY <2>3 DEF W!Sleep, W!Resume, W!NothingLost
  <2>4. ASSUME NEW t \in Task, W!Die(t) \/ W!Replace(t) PROVE Types' /\ W!NothingLost'
    BY <2>4 DEF W!Die, W!Replace, W!NothingLost
  <2>5. ASSUME NEW t \in Task, W!MakeTrue(t) PROVE Types' /\ W!NothingLost'
    BY <2>5 DEF W!MakeTrue, W!NothingLost
  <2>6. ASSUME NEW t \in Task, W!Wake(t) PROVE Types' /\ W!NothingLost'
    BY <2>6 DEF W!Wake, W!NothingLost
  <2> QED
    BY <2>1, <2>2, <2>3, <2>4, <2>5, <2>6 DEF W!Next
<1> QED
  BY <1>1, <1>2, PTL DEF WakeupsOwed, W!Spec
=============================================================================
