------------------------------ MODULE PageWalk -------------------------------
(***************************************************************************)
(* pagetable_walking/walk_pg_table.c: insmod walks the page tables of a    *)
(* process, by hand and without a lock, to the word at vaddr.  The process *)
(* is userpage, which maps one page of 4K, or userhugepage, which maps     *)
(* HugePages pages of 2M; it waits, unmaps them and exits.                 *)
(* Memory is abstracted to places <<level, number>>: the table of a level  *)
(* that translates the number-th block of that table's size, or, at level  *)
(* Page, the page that starts at frame number.  Memory that is free, or    *)
(* that never was a table, gives any entry when it is read as a table.     *)
(***************************************************************************)
EXTENDS Naturals

CONSTANTS
  IndexSize,   \* entries of a table, 0x1ff + 1
  PageSize,    \* bytes of a page, 0xfff + 1
  WordSize,    \* sizeof(long)
  HugePages,   \* pages userhugepage maps, 24M / 2M
  Frame        \* the first frame of each page of the mapping, by its position

\* A word has more than one byte, and WordSize - 1 (7) has no divisor in common
\* with PageSize, a power of two.
ASSUME SizeAssumption ==
  /\ IndexSize \in Nat \ {0} /\ PageSize \in Nat \ {0} /\ WordSize \in Nat \ {0, 1}
  /\ \A n \in 1 .. PageSize - 1 : ((WordSize - 1) * n) % PageSize # 0
  /\ HugePages \in Nat \ {0} /\ Frame \in [0 .. HugePages - 1 -> Nat]

\* The levels.
Page == 0
Pte  == 1
Pmd  == 2
Pud  == 3
Pgd  == 4
HugeSize == IndexSize * PageSize
Vaddr    == 0 .. IndexSize * (IndexSize * (IndexSize * HugeSize)) - 1

\* The bytes an entry of a table stands for: 1 << 12, 21, 30 or 39.
Span(level) ==
  CASE level = Pte -> PageSize
    [] level = Pmd -> HugeSize
    [] level = Pud -> IndexSize * HugeSize
    [] level = Pgd -> IndexSize * (IndexSize * HugeSize)
Index(v, level) == (v \div Span(level)) % IndexSize

\* An entry that is not present holds 0; the contents of other memory may lead
\* to any page, or to a table.
Absent == [to |-> <<Page, 0>>, huge |-> FALSE]
Entry  == [to : {<<Page, 0>>, <<Pgd, 0>>}
                  \cup {<<Page, Frame[n]>> : n \in 0 .. HugePages - 1},
           huge : BOOLEAN]

VARIABLES
  user,      \* the process: "mapped", "unmapped" or "exited"
  huge,      \* it is userhugepage
  start,     \* what its mmap returned
  present,   \* the pages of the mapping that have been touched
  vaddr,     \* the module's parameter
  walker,    \* where init_dummy stands
  table,     \* the place pgd_table, pud_table or pmd_table points to
  pte_table, \* what the first read of the pmd entry gave
  read       \* the physical address of the word that is printed

process  == <<user, huge, start, present>>
pageVars == <<process, vaddr, walker, table, pte_table, read>>

NumPages  == IF huge THEN HugePages ELSE 1
PageBytes == IF huge THEN HugeSize ELSE PageSize
PageAt(n) == start + PageBytes * n

\* The process writes to the first word; the other pages have no memory before
\* they are touched, and whether they were is left open.
PageInit ==
  /\ user = "mapped" /\ huge \in BOOLEAN
  /\ vaddr \in Vaddr /\ start \in Vaddr
  /\ start % PageBytes = 0 /\ PageAt(NumPages) - 1 \in Vaddr
  /\ present \in SUBSET (0 .. NumPages - 1) /\ 0 \in present
  /\ walker = "find" /\ table = <<Page, 0>> /\ pte_table = <<Page, 0>> /\ read = 0
-----------------------------------------------------------------------------
\* munmap clears the entries and frees the tables, whose memory is used anew.
Munmap ==
  /\ user = "mapped" /\ user' = "unmapped"
  /\ UNCHANGED <<huge, start, present, vaddr, walker, table, pte_table, read>>

Exit ==
  /\ user = "unmapped" /\ user' = "exited"
  /\ UNCHANGED <<huge, start, present, vaddr, walker, table, pte_table, read>>
-----------------------------------------------------------------------------
Goto(from, to) == walker = from /\ walker' = to /\ UNCHANGED <<process, vaddr>>

\* A dereference of a pointer to nothing.
Oops(from) == Goto(from, "oops") /\ UNCHANGED <<table, pte_table, read>>

\* The entry of a table for the block-th block of Span(level) bytes, if a page
\* of the mapping is in it: the page, or the table one level down.
EntryFor(level, block) ==
  LET last == level = IF huge THEN Pmd ELSE Pte
  IN  {[to   |-> IF last THEN <<Page, Frame[n]>> ELSE <<level - 1, block>>,
        huge |-> huge /\ last] : n \in {k \in present : PageAt(k) \div Span(level) = block}}

\* What one read of the entry at vaddr's index of the table at hand may give.
Deref(level) ==
  IF user = "mapped" /\ table[1] # Page
  THEN LET e == EntryFor(table[1], IndexSize * table[2] + Index(vaddr, level))
       IN  IF e = {} THEN {Absent} ELSE e
  ELSE Entry

\* get_pid_task: NULL if the process is gone, or its mm is.
FindTask ==
  \/ user # "exited" /\ Goto("find", "pgd")
     /\ table' = <<Pgd, 0>> /\ UNCHANGED <<pte_table, read>>
  \/ user = "exited" /\ Oops("find")

\* Mutant: the shift of the pmd index is used for the pud.
WalkPudShift ==
  \E e \in Deref(IF walker = "pud" THEN Pmd ELSE Pgd) :
    /\ Goto("pgd", "pud") \/ Goto("pud", "pmd")
    /\ table' = e.to /\ UNCHANGED <<pte_table, read>>

\* pgd and pud: no entry is checked for being present.  The second read of each
\* only fills an attribute nobody looks at.
Walk ==
  \E e \in Deref(IF walker = "pud" THEN Pud ELSE Pgd) :
    /\ Goto("pgd", "pud") \/ Goto("pud", "pmd")
    /\ table' = e.to /\ UNCHANGED <<pte_table, read>>

\* pmd: the first read of its entry is taken for the address of a table, ...
WalkPmd ==
  \E e \in Deref(Pmd) :
    /\ Goto("pmd", "attribute") /\ pte_table' = e.to
    /\ UNCHANGED <<table, read>>

\* ... the second one tells whether it is one.
TestHuge ==
  \E e \in Deref(Pmd) :
    /\ IF e.huge THEN Goto("attribute", "huge") /\ UNCHANGED table
                 ELSE Goto("attribute", "pte") /\ table' = pte_table
    /\ UNCHANGED <<pte_table, read>>

\* *(page_address + offset): page_address points to long.
PageOffset == WordSize * (vaddr % PageSize)

\* The last read of the entry gives page_address; one before it, or after it
\* for a pte, is only logged.
ReadWord(from, level) ==
  \E e \in Deref(level) :
    /\ Goto(from, "done") /\ read' = e.to[2] * PageSize + PageOffset
    /\ UNCHANGED <<table, pte_table>>

ReadHuge == ReadWord("huge", Pmd)
ReadPage == ReadWord("pte", Pte)

\* An access through the contents of memory that is no table, or no longer.
Fault ==
  \/ table[1] = Page /\ \E at \in {"pud", "pmd", "attribute", "pte", "huge"} : Oops(at)
  \/ user # "mapped" /\ \E at \in {"pte", "huge"} : Oops(at)

Rest == walker \in {"done", "oops"} /\ user = "exited" /\ UNCHANGED pageVars

WalkStep == FindTask \/ Walk \/ WalkPmd \/ TestHuge \/ ReadHuge \/ ReadPage \/ Fault
PageNext == Munmap \/ Exit \/ WalkStep \/ Rest

PageSpec == PageInit /\ [][PageNext]_pageVars
-----------------------------------------------------------------------------
Location == (Page .. Pgd) \X Nat

PageTypeOK ==
  /\ user \in {"mapped", "unmapped", "exited"} /\ huge \in BOOLEAN
  /\ vaddr \in Vaddr /\ start \in Vaddr /\ present \subseteq 0 .. NumPages - 1
  /\ walker \in {"find", "pgd", "pud", "pmd", "attribute", "pte", "huge", "done", "oops"}
  /\ table \in Location /\ pte_table \in Location /\ read \in Nat

\* The bytes of physical memory that the addresses of the n-th page stand for.
Mapped(n)      == user = "mapped" /\ vaddr \in PageAt(n) .. PageAt(n) + PageBytes - 1
Translation(n) == Frame[n] * PageSize + (vaddr - PageAt(n))

\* The state is well typed.  note.txt:62-63, "get final address ... page_address
\* + offset_in_page": the walk of an address in a touched page of the mapping
\* never leaves the process's own tables, and it ends at the word at that
\* address for the first address of the page and for no other: the offset is
\* scaled by WordSize, and for a 2M page cut to PageSize.
ShowsWord ==
  /\ PageTypeOK
  /\ \A n \in present :
       walker \in {"done", "oops"} /\ Mapped(n) =>
         walker = "done" /\ (read = Translation(n) <=> vaddr = PageAt(n))
==============================================================================
