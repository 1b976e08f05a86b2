---------------------------- MODULE Conversions ----------------------------
(***************************************************************************)
(* The conversions between what user space writes to the files of a task   *)
(* group and what the scheduler keeps (core.c, cpu.shares, cpu.weight,     *)
(* cpu.weight.nice), with the tables of weights.                           *)
(* Every file is written under a mutex, so that one write and the reads    *)
(* after it are all there is; the variable is what is written.             *)
(***************************************************************************)
EXTENDS Integers, Sequences, FiniteSetsExt

CONSTANT Written              \* bound: the files and values that are written

VARIABLE input                \* the file and the value, or NoInput

ASSUME WrittenAssumption ==
    Written \subseteq [file : {"weight", "nice", "shares"}, value : Int]

NoInput == [file |-> "none", value |-> 0]

CGROUP_WEIGHT_MIN == 1
CGROUP_WEIGHT_DFL == 100
CGROUP_WEIGHT_MAX == 10000
MIN_NICE == -20
MAX_NICE == 19
MIN_SHARES == 2
MAX_SHARES == 2^18

\* Mutant: the quotient is cut off.
DivDown(x, d) == x \div d

DIV_ROUND_CLOSEST(x, d) == (x + d \div 2) \div d

-----------------------------------------------------------------------------
(* Weights. *)

scale_load(w) == w * 1024

scale_load_down(w) == IF w = 0 THEN 0 ELSE Max({2, w \div 1024})

\* The shares that the group gets.
sched_group_set_shares(shares) ==
    Min({Max({shares, scale_load(MIN_SHARES)}), scale_load(MAX_SHARES)})

\* What a group has before anything is written to it.
root_task_group_load == scale_load(1024)

\* Any nice level is a quarter heavier than the next.
sched_prio_to_weight ==
    << 88761, 71755, 56483, 46273, 36291, 29154, 23254, 18705, 14949, 11916,
       9548, 7620, 6100, 4904, 3906, 3121, 2501, 1991, 1586, 1277,
       1024, 820, 655, 526, 423, 335, 272, 215, 172, 137,
       110, 87, 70, 56, 45, 36, 29, 23, 18, 15 >>

\* Values that scale_load() would lose are cut to MAX_SHARES, as are all large ones.
cpu_shares_write(v) == sched_group_set_shares(scale_load(v))

cpu_shares_read(shares) == scale_load_down(shares)

\* A value that is out of range is refused.
cpu_weight_write(v) ==
    IF v \notin CGROUP_WEIGHT_MIN .. CGROUP_WEIGHT_MAX THEN root_task_group_load
    ELSE sched_group_set_shares(scale_load(DIV_ROUND_CLOSEST(v * 1024, CGROUP_WEIGHT_DFL)))

cpu_weight_read(shares) ==
    DIV_ROUND_CLOSEST(scale_load_down(shares) * CGROUP_WEIGHT_DFL, 1024)

cpu_weight_nice_write(v) ==
    IF v \notin MIN_NICE .. MAX_NICE THEN root_task_group_load
    ELSE sched_group_set_shares(scale_load(sched_prio_to_weight[v - MIN_NICE + 1]))

delta(i, weight) ==
    LET d == sched_prio_to_weight[i] - weight IN IF d < 0 THEN -d ELSE d

\* The loop ends where the distance to the table no longer falls.
cpu_weight_nice_read(shares) ==
    LET weight == scale_load_down(shares)
        n == Len(sched_prio_to_weight)
        ends == {i \in 2..n : delta(i, weight) >= delta(i - 1, weight)} \cup {n + 1}
    IN  Min(ends) - 2 + MIN_NICE

-----------------------------------------------------------------------------
(* Properties. *)

\* The shares of the group after the write.
Shares ==
    IF input.file = "weight" THEN cpu_weight_write(input.value)
    ELSE IF input.file = "nice" THEN cpu_weight_nice_write(input.value)
    ELSE cpu_shares_write(input.value)

\* A weight and a nice value are read back as they were written ("the round-trip
\* conversions preserve the original value over the entire range"), shares up to the
\* bounds, and whatever was written, cpu.weight.nice shows the nice value closest to
\* it although the search stops at the first that is no closer.
FilesRoundTrip ==
    /\ input.file = "weight" /\ input.value \in CGROUP_WEIGHT_MIN .. CGROUP_WEIGHT_MAX
          => cpu_weight_read(Shares) = input.value
    /\ input.file = "nice" /\ input.value \in MIN_NICE .. MAX_NICE
          => cpu_weight_nice_read(Shares) = input.value
    /\ input.file = "shares" /\ input.value \in MIN_SHARES .. MAX_SHARES
          => cpu_shares_read(Shares) = input.value
    /\ input.file \in {"weight", "nice", "shares"} =>
       LET weight == scale_load_down(Shares)
           here == cpu_weight_nice_read(Shares) - MIN_NICE + 1
       IN  \A i \in 1 .. Len(sched_prio_to_weight) : delta(here, weight) <= delta(i, weight)
=============================================================================
