------------------------------ MODULE PhysAddr ------------------------------
(***************************************************************************)
(* The page-table walk of the system call my_other_get_phy_addr (homework  *)
(* 1), on the tables that the memory management keeps for a process.       *)
(*                                                                         *)
(* Four levels of tables with PTRS entries each; with four levels p4d is   *)
(* pgd again.  An entry is a number, as in memory: the frame above the     *)
(* offset bits, flags in the offset bits and NX in the top bit.  The walk  *)
(* takes no lock and goes on from an entry that is none.  Pages have the   *)
(* base size.                                                              *)
(***************************************************************************)
EXTENDS Integers

CONSTANTS PTRS,          \* entries of a table
          PAGE_SIZE,
          NX             \* _PAGE_NX, the top bit

Levels == 4

\* The pages under an entry of a table of each level, 1 for the lowest (PMD_SHIFT,
\* PUD_SHIFT and PGDIR_SHIFT without the offset bits).
Span == <<1, PTRS, PTRS * PTRS, PTRS * PTRS * PTRS>>

Pages == 0 .. PTRS * Span[Levels] - 1

\* The offset bits have room for a flag, and the tables are below the top bit.
ASSUME TableAssumption ==
    /\ PTRS \in Nat \ {0} /\ PAGE_SIZE \in Nat \ {0, 1} /\ NX \in Nat /\ NX % PAGE_SIZE = 0
    /\ (2 + PTRS + PTRS * PTRS + PTRS * PTRS * PTRS) * PAGE_SIZE <= NX

PRESENT == 1             \* _PAGE_PRESENT, in the offset bits

\* The index of an address into its table of this level.
TableIndex(level, a) == (a \div (PAGE_SIZE * Span[level])) % PTRS

\* Mutant: one bit of the offset too many is cut off.
MaskTooMuch(x) == x - (x % (2 * PAGE_SIZE))

\* x & PAGE_MASK
PageMask(x) == x - (x % PAGE_SIZE)

\* The frame an upper entry points to (PTE_PFN_MASK has no NX).
Frame(entry) == (entry % NX) \div PAGE_SIZE

\* mem holds the entries of every frame that is a table.
pgd_offset(pgd, a) == <<pgd, TableIndex(4, a)>>
p4d_offset(pgd, a) == pgd
pud_offset(mem, p4d, a) == <<Frame(mem[p4d]), TableIndex(3, a)>>
pmd_offset(mem, pud, a) == <<Frame(mem[pud]), TableIndex(2, a)>>
pte_offset_kernel(mem, pmd, a) == <<Frame(mem[pmd]), TableIndex(1, a)>>

\* The result; page_addr has no offset bits, so that | is +.
my_other_get_phy_addr(mem, pgd, a) ==
    LET p4d == p4d_offset(pgd_offset(pgd, a), a)
        pud == pud_offset(mem, p4d, a)
        pmd == pmd_offset(mem, pud, a)
        pte == pte_offset_kernel(mem, pmd, a)
    IN  PageMask(mem[pte]) + (a % PAGE_SIZE)

-----------------------------------------------------------------------------
(* The tables of a process, from the pages it has in memory. *)

\* Tables are numbered like the nodes of a tree: the root is 1, frame 0 is no table of
\* the process and is full of zeroes.
Root == 1
FirstTable == <<2 + PTRS + PTRS * PTRS, 2 + PTRS, 2, Root>>
Tables == 0 .. FirstTable[1] + Span[Levels] - 1
Node(level, page) == FirstTable[level] + page \div (PTRS * Span[level])

PageEntry(m, page) ==
    m[page].frame * PAGE_SIZE + PRESENT + (IF m[page].nx THEN NX ELSE 0)

\* The entry i of a table: a page, a lower table that holds some page, or none.
Entry(m, table, i) ==
    LET under == {x \in (DOMAIN m) \X (1..Levels) :
                     /\ Node(x[2], x[1]) = table
                     /\ TableIndex(x[2], x[1] * PAGE_SIZE) = i}
    IN  IF under = {} THEN 0
        ELSE LET x == CHOOSE y \in under : TRUE
             IN  IF x[2] = 1 THEN PageEntry(m, x[1])
                 ELSE Node(x[2] - 1, x[1]) * PAGE_SIZE + PRESENT

TablesOf(m) == [x \in Tables \X (0 .. PTRS - 1) |-> Entry(m, x[1], x[2])]
=============================================================================
