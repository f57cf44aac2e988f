----------------------- MODULE SyscallTableFinderProofs ---------------------
(***************************************************************************)
(* The loop invariant of the search for the system call table and the      *)
(* lemmas about it, for any number of pages of any size, any contents of   *)
(* memory and any page tables.  Module ModuleLifecycleProofs uses them.    *)
(***************************************************************************)
EXTENDS SyscallTableFinder, TLAPS

\* The page tables lead to page tables.
MapInv ==
    /\ "pml4" \in DOMAIN page_table
    /\ \A t \in DOMAIN page_table, p \in Pages :
          \A n \in {PML4[p], PDP[p], PDE[p], PTE[p]} :
              /\ page_table[t][n].next \in DOMAIN page_table
              /\ page_table[t][n].frame \in Nat

\* sys_vtpmo finds a frame for a page exactly if the processor does.
LEMMA VtpmoExact ==
    ASSUME MapInv, NEW p \in Pages
    PROVE  sys_vtpmo(p) # NO_MAP <=> Present(p)
<1> DEFINE pgd == page_table["pml4"][PML4[p]]
           pud == page_table[pgd.next][PDP[p]]
           pmd == page_table[pud.next][PDE[p]]
           pte == page_table[pmd.next][PTE[p]]
           Walk == pgd.valid /\ pud.valid /\ pmd.valid /\ (pmd.large \/ pte.valid)
<1>1. /\ pgd.next \in DOMAIN page_table
      /\ pud.next \in DOMAIN page_table
      /\ pmd.next \in DOMAIN page_table
      /\ pmd.frame \in Nat /\ pte.frame \in Nat
    BY DEF MapInv
<1>2. sys_vtpmo(p) # NO_MAP <=> Walk
    <2>0. \A n \in Nat : n # NO_MAP
        BY DEF NO_MAP
    <2>1. pmd.frame # NO_MAP /\ pte.frame # NO_MAP
        BY <1>1, <2>0, Zenon
    <2>2. sys_vtpmo(p) = IF Walk THEN IF pmd.large THEN pmd.frame ELSE pte.frame
                         ELSE NO_MAP
        BY Zenon DEF sys_vtpmo
    <2> HIDE DEF pgd, pud, pmd, pte, Walk
    <2>3. CASE Walk
        <3>1. CASE pmd.large
            BY <2>1, <2>2, <2>3, <3>1, Zenon
        <3>2. CASE ~ pmd.large
            BY <2>1, <2>2, <2>3, <3>2, Zenon
        <3> QED
            BY <3>1, <3>2
    <2>4. CASE ~ Walk
        BY <2>2, <2>4, Zenon
    <2> QED
        BY <2>3, <2>4
<1>3. Present(p) => Walk
    BY DEF Present, Leads
<1>4. ASSUME Walk PROVE Present(p)
    <2>1. /\ Leads("pml4", PML4[p], pgd.next)
          /\ Leads(pgd.next, PDP[p], pud.next)
          /\ page_table[pud.next][PDE[p]].valid
          /\ \/ page_table[pud.next][PDE[p]].large
             \/ page_table[page_table[pud.next][PDE[p]].next][PTE[p]].valid
        BY <1>4 DEF Leads
    <2> HIDE DEF pgd, pud
    <2> QED
        BY <1>1, <2>1 DEF Present
<1> QED
    BY <1>2, <1>3, <1>4

-----------------------------------------------------------------------------
\* No table begins before offset o of page p.
NoneBefore(p, o) ==
    \A q \in 0 .. NPages - 1, x \in Offsets :
        IsTable(q, x) => q > p \/ (q = p /\ x >= o)

SearchTypeInv ==
    /\ spc \in {"idle", "page", "offset", "match", "done"}
    /\ k \in Pages /\ i \in Offsets
    /\ hacked_syscall_tbl \in [page : Pages, offset : Offsets] \cup {NoTable}

\* The pages that are looked at are in memory.
LoopInv ==
    /\ spc \in {"offset", "match"} => k < NPages /\ Present(k)
    /\ spc = "match" /\ CrossesPage(i) => Present(k + 1)
    /\ spc = "page" => i = 0

\* What the search knows so far, and what it knows at its end.
FoundInv ==
    /\ spc \in {"page", "offset", "match"} =>
           hacked_syscall_tbl = NoTable /\ NoneBefore(k, i)
    /\ spc = "done" =>
           \/ hacked_syscall_tbl = NoTable /\ NoneBefore(NPages, 0)
           \/ /\ hacked_syscall_tbl = [page |-> k, offset |-> i]
              /\ k < NPages /\ IsTable(k, i) /\ NoneBefore(k, i)

SearchInv == MapInv /\ SearchTypeInv /\ LoopInv /\ FoundInv

\* The pages of a table that begins at offset o of page p: p and perhaps the next.
LEMMA PagesOfTable ==
    ASSUME NEW p \in 0 .. NPages - 1, NEW o \in Offsets
    PROVE  (\A j \in 0 .. SEVENTH_NI_SYSCALL : Present(PageOf(p, o, j)))
               <=> Present(p) /\ (CrossesPage(o) => Present(p + 1))
<1>1. 0 \in 0 .. SEVENTH_NI_SYSCALL /\ SEVENTH_NI_SYSCALL \in 0 .. SEVENTH_NI_SYSCALL
    BY GeometryAssumption
<1>2. PageOf(p, o, 0) = p
    BY GeometryAssumption DEF PageOf, Offsets
<1>3. CrossesPage(o) => PageOf(p, o, SEVENTH_NI_SYSCALL) = p + 1
    BY GeometryAssumption DEF PageOf, Offsets, CrossesPage
<1>4. \A j \in 0 .. SEVENTH_NI_SYSCALL :
          PageOf(p, o, j) = p \/ (CrossesPage(o) /\ PageOf(p, o, j) = p + 1)
    BY GeometryAssumption DEF PageOf, Offsets, CrossesPage
<1> QED
    BY <1>1, <1>2, <1>3, <1>4

\* Whoever leaves memory and page tables alone leaves the tables where they are.
LEMMA TablesStay ==
    ASSUME UNCHANGED machineVars
    PROVE  /\ MapInv' <=> MapInv
           /\ \A p : Present(p)' <=> Present(p)
           /\ \A p, o : IsTable(p, o)' <=> IsTable(p, o)
           /\ \A p, o : NoneBefore(p, o)' <=> NoneBefore(p, o)
<1>1. memory' = memory /\ page_table' = page_table
    BY DEF machineVars
<1>2. MapInv' <=> MapInv
    BY <1>1 DEF MapInv
<1>3. \A p : Present(p)' <=> Present(p)
    BY <1>1 DEF Present, Leads
<1>4. \A p, o : IsTable(p, o)' <=> IsTable(p, o)
    BY <1>1, <1>3 DEF IsTable, Matches, good_area, Word
<1>5. \A p, o : NoneBefore(p, o)' <=> NoneBefore(p, o)
    BY <1>4 DEF NoneBefore
<1> QED
    BY <1>2, <1>3, <1>4, <1>5

LEMMA SearchBegins ==
    ASSUME MapInv, UNCHANGED machineVars, SearchStart
    PROVE  SearchInv'
<1>1. SearchTypeInv' /\ LoopInv'
    BY GeometryAssumption DEF SearchStart, SearchTypeInv, LoopInv, Pages, Offsets
<1>2. NoneBefore(0, 0)
    BY GeometryAssumption DEF NoneBefore, Offsets
<1>3. FoundInv'
    BY <1>2, TablesStay DEF FoundInv, SearchStart
<1> QED
    BY <1>1, <1>3, TablesStay DEF SearchInv

\* The end of a page of which nothing is left.
LEMMA PageDone ==
    ASSUME SearchInv, UNCHANGED machineVars, NextPage, k < NPages,
           \A x \in Offsets : x >= i => ~ IsTable(k, x), spc # "done", spc # "idle"
    PROVE  SearchInv'
<1>1. k \in Nat /\ k + 1 \in Pages /\ i \in Nat
    BY GeometryAssumption DEF SearchInv, SearchTypeInv, Pages, Offsets
<1>2. hacked_syscall_tbl = NoTable /\ NoneBefore(k, i)
    BY DEF SearchInv, FoundInv, SearchTypeInv
<1>3. NoneBefore(k + 1, 0)
    <2> SUFFICES ASSUME NEW q \in 0 .. NPages - 1, NEW x \in Offsets, IsTable(q, x)
                 PROVE  q > k + 1 \/ (q = k + 1 /\ x >= 0)
        BY DEF NoneBefore
    <2>1. q > k \/ (q = k /\ x >= i)
        BY <1>2 DEF NoneBefore
    <2>2. q # k
        BY <2>1, <1>1
    <2> QED
        BY <1>1, <2>1, <2>2, GeometryAssumption DEF Offsets
<1>4. SearchTypeInv' /\ LoopInv'
    BY <1>1, GeometryAssumption DEF NextPage, SearchInv, SearchTypeInv, LoopInv, Offsets
<1>5. FoundInv'
    BY <1>2, <1>3, TablesStay DEF NextPage, FoundInv
<1> QED
    BY <1>4, <1>5, TablesStay DEF SearchInv

LEMMA SearchKeeps == SearchInv /\ Search => SearchInv'
<1> SUFFICES ASSUME SearchInv, Search PROVE SearchInv'
    OBVIOUS
<1>0. /\ k \in 0 .. NPages /\ i \in Offsets /\ MapInv
      /\ UNCHANGED machineVars
      /\ \A p \in Pages : sys_vtpmo(p) # NO_MAP <=> Present(p)
    BY VtpmoExact DEF SearchInv, SearchTypeInv, Pages, Search, syscall_table_finder,
       CheckSecondPage, MatchPattern
<1>1. CASE syscall_table_finder
    <2>1. CASE k >= NPages
        <3>1. k = NPages /\ i = 0 /\ hacked_syscall_tbl = NoTable /\ NoneBefore(k, i)
            BY <1>0, <1>1, <2>1, GeometryAssumption
            DEF syscall_table_finder, SearchInv, LoopInv, FoundInv
        <3> QED
            BY <1>0, <1>1, <2>1, <3>1, TablesStay
            DEF syscall_table_finder, SearchInv, SearchTypeInv, LoopInv, FoundInv
    <2>2. CASE k < NPages /\ sys_vtpmo(k) # NO_MAP
        BY <1>0, <1>1, <2>2, TablesStay, GeometryAssumption
        DEF syscall_table_finder, SearchInv, SearchTypeInv, LoopInv, FoundInv, Pages
    <2>3. CASE k < NPages /\ ~ (sys_vtpmo(k) # NO_MAP)
        <3>1. ~ Present(k) /\ k \in 0 .. NPages - 1
            BY <1>0, <2>3, GeometryAssumption DEF Pages
        <3>2. \A x \in Offsets : ~ IsTable(k, x)
            BY <3>1, PagesOfTable DEF IsTable
        <3>3. NextPage /\ spc = "page"
            <4>1. ~ (k >= NPages)
                BY <1>0, <2>3, GeometryAssumption
            <4> QED
                BY <1>1, <2>3, <4>1, Zenon DEF syscall_table_finder
        <3> QED
            BY <1>0, <2>3, <3>2, <3>3, PageDone
    <2> QED
        BY <1>0, <2>1, <2>2, <2>3, GeometryAssumption
<1>2. CASE CheckSecondPage
    <2>1. spc = "offset" /\ k \in 0 .. NPages - 1 /\ k + 1 \in Pages /\ Present(k)
        BY <1>0, <1>2, GeometryAssumption DEF CheckSecondPage, SearchInv, LoopInv, Pages
    <2>2. CASE CrossesPage(i) /\ sys_vtpmo(k + 1) = NO_MAP
        <3>1. ~ Present(k + 1)
            BY <1>0, <2>1, <2>2
        <3>2. \A x \in Offsets : x >= i => CrossesPage(x)
            BY <1>0, <2>2, GeometryAssumption DEF CrossesPage, Offsets
        <3>3. \A x \in Offsets : x >= i => ~ IsTable(k, x)
            BY <2>1, <3>1, <3>2, PagesOfTable DEF IsTable
        <3>4. NextPage
            BY <1>2, <2>2, Zenon DEF CheckSecondPage
        <3> QED
            BY <1>0, <2>1, <3>3, <3>4, PageDone, GeometryAssumption
    <2>3. CASE ~ (CrossesPage(i) /\ sys_vtpmo(k + 1) = NO_MAP)
        BY <1>0, <1>2, <2>1, <2>3, TablesStay
        DEF CheckSecondPage, SearchInv, SearchTypeInv, LoopInv, FoundInv, CrossesPage
    <2> QED
        BY <2>2, <2>3
<1>3. CASE MatchPattern
    <2>1. /\ spc = "match" /\ k \in 0 .. NPages - 1 /\ k < NPages
          /\ Present(k) /\ (CrossesPage(i) => Present(k + 1))
          /\ hacked_syscall_tbl = NoTable /\ NoneBefore(k, i)
        BY <1>0, <1>3, GeometryAssumption
        DEF MatchPattern, SearchInv, LoopInv, FoundInv
    <2>2. CASE Matches(k, i)
        <3>1. IsTable(k, i)
            BY <1>0, <2>1, <2>2, PagesOfTable DEF IsTable
        <3>2. /\ spc' = "done" /\ k' = k /\ i' = i
              /\ hacked_syscall_tbl' = [page |-> k, offset |-> i]
            BY <1>3, <2>2 DEF MatchPattern
        <3> QED
            BY <1>0, <2>1, <3>1, <3>2, TablesStay
            DEF SearchInv, SearchTypeInv, LoopInv, FoundInv, Pages
    <2>3. CASE ~ Matches(k, i) /\ i + 1 < PageWords
        <3>1. ~ IsTable(k, i)
            BY <2>3 DEF IsTable
        <3>2. NoneBefore(k, i + 1) /\ i + 1 \in Offsets
            BY <1>0, <2>1, <2>3, <3>1, GeometryAssumption DEF NoneBefore, Offsets
        <3>3. /\ spc' = "offset" /\ k' = k /\ i' = i + 1
              /\ hacked_syscall_tbl' = hacked_syscall_tbl
            BY <1>3, <2>3 DEF MatchPattern
        <3> QED
            BY <1>0, <2>1, <3>2, <3>3, TablesStay
            DEF SearchInv, SearchTypeInv, LoopInv, FoundInv
    <2>4. CASE ~ Matches(k, i) /\ ~ (i + 1 < PageWords)
        <3>1. \A x \in Offsets : x >= i => x = i
            BY <1>0, <2>4, GeometryAssumption DEF Offsets
        <3>2. \A x \in Offsets : x >= i => ~ IsTable(k, x)
            BY <2>4, <3>1 DEF IsTable
        <3> QED
            BY <1>0, <1>3, <2>1, <2>4, <3>2, PageDone DEF MatchPattern
    <2> QED
        BY <2>2, <2>3, <2>4
<1> QED
    BY <1>1, <1>2, <1>3 DEF Search

-----------------------------------------------------------------------------
\* The two properties of the search follow from its invariant.
LEMMA SearchIsSafe == SearchInv => SearchReadsPresentPages
<1> SUFFICES ASSUME SearchInv, spc = "match"
             PROVE  \A j \in 0 .. SEVENTH_NI_SYSCALL : Present(PageOf(k, i, j))
    BY DEF SearchReadsPresentPages
<1>1. /\ k \in 0 .. NPages - 1 /\ i \in Offsets
      /\ Present(k) /\ (CrossesPage(i) => Present(k + 1))
    BY GeometryAssumption DEF SearchInv, SearchTypeInv, LoopInv, Pages
<1> QED
    BY <1>1, PagesOfTable

LEMMA SearchIsRight == SearchInv => SearchFindsFirstTable
<1> SUFFICES ASSUME SearchInv, spc = "done" PROVE SearchFindsFirstTable
    BY DEF SearchFindsFirstTable
<1>1. k \in Nat /\ i \in Nat /\ Offsets \subseteq Nat /\ NPages \in Nat
    BY GeometryAssumption DEF SearchInv, SearchTypeInv, Pages, Offsets
<1>2. CASE hacked_syscall_tbl = NoTable /\ NoneBefore(NPages, 0)
    <2>1. \A p \in 0 .. NPages - 1, o \in Offsets : ~ IsTable(p, o)
        BY <1>1, <1>2 DEF NoneBefore
    <2> QED
        BY <1>2, <2>1 DEF SearchFindsFirstTable
<1>3. CASE /\ hacked_syscall_tbl = [page |-> k, offset |-> i]
           /\ k < NPages /\ IsTable(k, i) /\ NoneBefore(k, i)
    <2>1. hacked_syscall_tbl # NoTable
        BY <1>1, <1>3 DEF NoTable
    <2>2. \A p \in 0 .. NPages - 1, o \in Offsets :
              IsTable(p, o) => p > k \/ (p = k /\ o >= i)
        BY <1>3 DEF NoneBefore
    <2>3. hacked_syscall_tbl.page = k /\ hacked_syscall_tbl.offset = i
        BY <1>3
    <2> QED
        BY <1>1, <1>3, <2>1, <2>2, <2>3 DEF SearchFindsFirstTable
<1> QED
    BY <1>2, <1>3 DEF SearchInv, FoundInv
=============================================================================
