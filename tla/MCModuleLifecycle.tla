-------------------------- MODULE MCModuleLifecycle -------------------------
(***************************************************************************)
(* Instances of the module's life cycle for TLC.  A page has four words, a *)
(* table four entries of which the last two are unused, and the search     *)
(* covers two pages.  Each kind of page table entry occurs.                *)
(***************************************************************************)
EXTENDS ModuleLifecycle, TLC

CONSTANTS t1, u1, u2

OneThread == {t1}
TwoAdmins == {u1, u2}
UnusedNumbers == {2, 3}
OneUsedOneUnused == {1, 3}
TextWords == {1, 2, -1, -2}

AllZero == [p \in 0 .. 2 |-> 0]
LowBit  == [p \in 0 .. 2 |-> p % 2]
HighBit == [p \in 0 .. 2 |-> p \div 2]

Entry(valid, large, next) == [valid |-> valid, large |-> large, next |-> next, frame |-> 7]
Void == Entry(FALSE, FALSE, "none")
Table(next) == Entry(TRUE, FALSE, next)
Large == Entry(TRUE, TRUE, "none")
Leaf(valid) == Entry(valid, FALSE, "none")

\* pgd and pud: the single entries of the two upper levels.
PageTables(pgd, pud, pmd0, pmd1, leaves) ==
    [t \in {"pml4", "pdp", "pde", "pt0", "pt1", "none"} |->
        CASE t = "pml4" -> [x \in 0 .. 1 |-> pgd]
          [] t = "pdp"  -> [x \in 0 .. 1 |-> pud]
          [] t = "pde"  -> [x \in 0 .. 1 |-> IF x = 0 THEN pmd0 ELSE pmd1]
          [] t = "pt0"  -> [x \in 0 .. 1 |-> Leaf(x \in leaves)]
          [] t = "pt1"  -> [x \in 0 .. 1 |-> Leaf(x + 2 \in leaves)]
          [] t = "none" -> [x \in 0 .. 1 |-> Void]]

AllMapped == PageTables(Table("pdp"), Table("pde"), Large, Large, {})
SomeMapped ==
    {PageTables(Void, Void, Void, Void, {}), PageTables(Table("pdp"), Void, Void, Void, {})}
    \cup {PageTables(Table("pdp"), Table("pde"), pmd0, pmd1, {}) :
             pmd0 \in {Void, Large}, pmd1 \in {Void, Large}}
    \cup {PageTables(Table("pdp"), Table("pde"), Table("pt0"), Table("pt1"), leaves) :
             leaves \in SUBSET {0, 1, 2} \ {{0, 1, 2}}}

Memory(a, b, c) == LET page(s) == [o \in 0 .. 3 |-> s[o + 1]]
                   IN  [p \in 0 .. 2 |-> page(IF p = 0 THEN a ELSE IF p = 1 THEN b ELSE c)]

\* A table that crosses from the second page into the third, with any page tables; and
\* with all pages in memory: one that fills the second page, one from the last word of
\* the first page with another behind it, and none where the search looks.
Crossing == Memory(<<0, 0, 0, 0>>, <<0, 0, 0, 1>>, <<2, 2, 0, 1>>)
SomeContents ==
    {Memory(<<0, 0, 0, 0>>, <<0, 1, 2, 2>>, <<0, 0, 0, 0>>),
     Memory(<<0, 0, 0, 0>>, <<0, 2, 2, 1>>, <<2, 2, 0, 1>>),
     Memory(<<0, 0, 0, 0>>, <<0, 0, 1, 2>>, <<0, 1, 2, 2>>)}
SomeMachines ==
    {[memory |-> Crossing, page_table |-> pt] : pt \in SomeMapped}
    \cup {[memory |-> mem, page_table |-> AllMapped] : mem \in SomeContents}
=============================================================================
