-------------------------- MODULE SyscallTableFinder ------------------------
(***************************************************************************)
(* The search for the system call table that init_system_call_table makes  *)
(* before it patches the dispatcher: every page of the kernel's upper      *)
(* addresses, every offset of a page, until the words there look like a    *)
(* table whose unused entries all lead to sys_ni_syscall.  A page is read  *)
(* only if sys_vtpmo, a walk of the page tables, says it is in memory.     *)
(*                                                                         *)
(* An address is a page number (from START) and the number of a word in    *)
(* the page.  A word is a number; those of Text are what the code takes    *)
(* for a pointer to a service routine: aligned, not null and above         *)
(* 0xffffffff00000000.  There are no pages of a gigabyte in this part of   *)
(* the address space.  Memory and page tables stay as they are while the   *)
(* search goes on: another part of the kernel that unmaps a page between   *)
(* sys_vtpmo's answer and the reads that rely on it is outside the model.  *)
(***************************************************************************)
EXTENDS Integers

CONSTANTS
    PageWords,           \* PAGE_SIZE / sizeof(void *)
    NPages,              \* pages between START and MAX_ADDR
    FIRST_NI_SYSCALL, SEVENTH_NI_SYSCALL,
    NiSyscalls,          \* the numbers from the first to the seventh
    Text,                \* words that may point to a service routine
    PML4, PDP, PDE, PTE  \* the index of each page in the tables of each level

ASSUME GeometryAssumption ==
    /\ PageWords \in Nat /\ NPages \in Nat
    /\ FIRST_NI_SYSCALL \in Nat /\ SEVENTH_NI_SYSCALL \in Nat
    /\ 1 <= FIRST_NI_SYSCALL /\ FIRST_NI_SYSCALL <= SEVENTH_NI_SYSCALL
    /\ SEVENTH_NI_SYSCALL < PageWords
    /\ NiSyscalls \subseteq FIRST_NI_SYSCALL .. SEVENTH_NI_SYSCALL
    /\ SEVENTH_NI_SYSCALL \in NiSyscalls

\* A table in the last page may reach into the page behind it.
Pages == 0 .. NPages
Offsets == 0 .. PageWords - 1
NoTable == [page |-> -1, offset |-> 0]

VARIABLES
    memory,              \* memory[p][o]: the words
    page_table,          \* the entries of the page tables
    spc, k, i,           \* the search: place, page, offset
    hacked_syscall_tbl   \* its result

machineVars == <<memory, page_table>>
searchVars  == <<spc, k, i, hacked_syscall_tbl>>

-----------------------------------------------------------------------------
(***************************************************************************)
(* sys_vtpmo: the frame of a page.  An entry of the third level may map a  *)
(* large page, then there is no fourth.                                    *)
(***************************************************************************)
NO_MAP == -1

sys_vtpmo(p) ==
    LET pgd == page_table["pml4"][PML4[p]]
        pud == page_table[pgd.next][PDP[p]]
        pmd == page_table[pud.next][PDE[p]]
        pte == page_table[pmd.next][PTE[p]]
    IN  IF pgd.valid /\ pud.valid /\ pmd.valid /\ (pmd.large \/ pte.valid)
        THEN IF pmd.large THEN pmd.frame ELSE pte.frame
        ELSE NO_MAP

-----------------------------------------------------------------------------
(***************************************************************************)
(* validate_page and syscall_table_finder                                  *)
(***************************************************************************)
\* Word j of what would be a table at offset o of page p: addr[j].
PageOf(p, o, j) == IF o + j < PageWords THEN p ELSE p + 1
OffsetOf(o, j)  == IF o + j < PageWords THEN o + j ELSE o + j - PageWords
Word(p, o, j)   == memory[PageOf(p, o, j)][OffsetOf(o, j)]

\* No used entry before the first unused one leads to the same routine.
good_area(p, o) ==
    \A j \in 1 .. FIRST_NI_SYSCALL - 1 :
        Word(p, o, j) # Word(p, o, FIRST_NI_SYSCALL)

\* The words at this place look like a system call table.
Matches(p, o) ==
    /\ Word(p, o, FIRST_NI_SYSCALL) \in Text
    /\ \A n \in NiSyscalls : Word(p, o, n) = Word(p, o, FIRST_NI_SYSCALL)
    /\ good_area(p, o)

\* The search begins: the module's variables are fresh.
SearchStart ==
    /\ spc' = "page"
    /\ k' = 0
    /\ i' = 0
    /\ hacked_syscall_tbl' = NoTable

NextPage ==
    /\ spc' = "page"
    /\ k' = k + 1
    /\ i' = 0
    /\ UNCHANGED hacked_syscall_tbl

\* The loop over the pages: those that are in memory are looked at.
syscall_table_finder ==
    /\ spc = "page"
    /\ IF k >= NPages
       THEN spc' = "done" /\ UNCHANGED <<k, i, hacked_syscall_tbl>>
       ELSE IF sys_vtpmo(k) # NO_MAP
       THEN spc' = "offset" /\ UNCHANGED <<k, i, hacked_syscall_tbl>>
       ELSE NextPage
    /\ UNCHANGED machineVars

\* Mutant: an off-by-one in what counts as the second page.
CrossesPageLate(o) == o + SEVENTH_NI_SYSCALL > PageWords

\* (page + PAGE_SIZE) == (new_page & ADDRESS_MASK): the last entry that is read
\* lies in the next page.
CrossesPage(o) == o + SEVENTH_NI_SYSCALL >= PageWords

\* The top of validate_page's loop: a second page that is not in memory ends it.
CheckSecondPage ==
    /\ spc = "offset"
    /\ IF CrossesPage(i) /\ sys_vtpmo(k + 1) = NO_MAP
       THEN NextPage
       ELSE spc' = "match" /\ UNCHANGED <<k, i, hacked_syscall_tbl>>
    /\ UNCHANGED machineVars

\* Mutant: the last word of a page is not tried.
MatchPatternShort ==
    /\ spc = "match"
    /\ IF Matches(k, i)
       THEN /\ hacked_syscall_tbl' = [page |-> k, offset |-> i]
            /\ spc' = "done"
            /\ UNCHANGED <<k, i>>
       ELSE IF i + 2 < PageWords
       THEN spc' = "offset" /\ i' = i + 1 /\ UNCHANGED <<k, hacked_syscall_tbl>>
       ELSE NextPage
    /\ UNCHANGED machineVars

\* Mutant: the loop runs one word too far.
MatchPatternLong ==
    /\ spc = "match"
    /\ IF Matches(k, i)
       THEN /\ hacked_syscall_tbl' = [page |-> k, offset |-> i]
            /\ spc' = "done"
            /\ UNCHANGED <<k, i>>
       ELSE IF i + 1 <= PageWords
       THEN spc' = "offset" /\ i' = i + 1 /\ UNCHANGED <<k, hacked_syscall_tbl>>
       ELSE NextPage
    /\ UNCHANGED machineVars

\* The pattern matching, and the end of the loop's body.
MatchPattern ==
    /\ spc = "match"
    /\ IF Matches(k, i)
       THEN /\ hacked_syscall_tbl' = [page |-> k, offset |-> i]
            /\ spc' = "done"
            /\ UNCHANGED <<k, i>>
       ELSE IF i + 1 < PageWords
       THEN spc' = "offset" /\ i' = i + 1 /\ UNCHANGED <<k, hacked_syscall_tbl>>
       ELSE NextPage
    /\ UNCHANGED machineVars

Search == syscall_table_finder \/ CheckSecondPage \/ MatchPattern

-----------------------------------------------------------------------------
(***************************************************************************)
(* Properties                                                              *)
(***************************************************************************)
\* What the processor does with an address: entry n of table t leads to table u.
Leads(t, n, u) == page_table[t][n].valid /\ page_table[t][n].next = u

Present(p) ==
    \E pdp, pde \in DOMAIN page_table :
        /\ Leads("pml4", PML4[p], pdp)
        /\ Leads(pdp, PDP[p], pde)
        /\ page_table[pde][PDE[p]].valid
        /\ \/ page_table[pde][PDE[p]].large
           \/ page_table[page_table[pde][PDE[p]].next][PTE[p]].valid

\* There is a system call table at this place, all of it in memory.
IsTable(p, o) ==
    /\ \A j \in 0 .. SEVENTH_NI_SYSCALL : Present(PageOf(p, o, j))
    /\ Matches(p, o)

\* validate_page never reads a word of a page that is not in memory, although it
\* asks only for the page of the last entry and reads all those before it.
SearchReadsPresentPages ==
    spc = "match" =>
        \A j \in 0 .. SEVENTH_NI_SYSCALL : Present(PageOf(k, i, j))

\* The search ends with the first table in memory, at whatever offset it begins and
\* also when it continues in the next page; without a result there is none.
SearchFindsFirstTable ==
    spc = "done" =>
        LET found == hacked_syscall_tbl
            Before(p, o) == p < found.page \/ (p = found.page /\ o < found.offset)
        IN  /\ found # NoTable => IsTable(found.page, found.offset)
            /\ \A p \in 0 .. NPages - 1, o \in Offsets :
                   IsTable(p, o) => found # NoTable /\ ~ Before(p, o)
=============================================================================
