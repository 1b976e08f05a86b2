------------------------------ MODULE Observed ------------------------------
(***************************************************************************)
(* What the kernel tells user space, side by side: the count of switches   *)
(* and the answers of wait_task_inactive() about a task that is being      *)
(* scheduled, values read back from the files of a group, and physical     *)
(* addresses.  The latter two share no state with the scheduler, and the   *)
(* first two do not affect each other: a behaviour is about one of them.   *)
(***************************************************************************)
EXTENDS TaskWait, Conversions, PhysAddr

CONSTANTS Frames,        \* bound: where pages are
          Mapped         \* bound: how many pages a process has in memory

ASSUME FrameAssumption == \A f \in Frames : f \in Nat /\ (f + 1) * PAGE_SIZE <= NX

Memories == UNION {[s -> [frame : Frames, nx : BOOLEAN]] : s \in kSubset(Mapped, Pages)}

\* One value written to a file, or one address of a process with some pages in memory.
FileInput == input \in Written

ProcessInput ==
    \E m \in Memories : \E page \in DOMAIN m, offset \in 0 .. PAGE_SIZE - 1 :
        input = [file |-> "process", memory |-> m, page |-> page, offset |-> offset]

\* No input: the task counts its switches, or is examined.
Examined == [file |-> "wait", value |-> 0]

ObservedInit == WaitInit /\ (input \in {NoInput, Examined} \/ FileInput \/ ProcessInput)

ObservedNext ==
    \/ input.file = "none" /\ SchedStep /\ UNCHANGED input
    \/ input.file = "wait" /\ WaitNext /\ UNCHANGED <<meter, input>>
    \/ input.file \notin {"none", "wait"} /\ UNCHANGED <<vars, waitVars, input>>

ObservedSpec == ObservedInit /\ [][ObservedNext]_<<vars, waitVars, input>>

-----------------------------------------------------------------------------
(* Properties. *)

\* What my_other_get_phy_addr() returns for the input, and where the byte is.
Result ==
    my_other_get_phy_addr(TablesOf(input.memory), Root, input.page * PAGE_SIZE + input.offset)

Byte == input.memory[input.page].frame * PAGE_SIZE + input.offset

\* my_other_get_phy_addr() finds the frame of a page whatever other pages share tables
\* with it, and keeps the offset of the virtual address.  The result differs from the
\* physical address in the NX bit of the entry and in nothing else: PAGE_MASK removes
\* all other flags.
PhysAddrRight ==
    input.file = "process" => Result = Byte + (IF input.memory[input.page].nx THEN NX ELSE 0)

\* The result is the physical address, as hw1/readme.md says of clearing the offset bits
\* with PAGE_MASK and adding the offset.  It is not, for a page that is not executable.
PhysicalAddress == input.file = "process" => Result = Byte
=============================================================================
