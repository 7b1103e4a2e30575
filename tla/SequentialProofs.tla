-------------------------- MODULE SequentialProofs ---------------------------
(***************************************************************************)
(* Programs that run on their own, for every value of their constants: the *)
(* walk of walk_pg_table.c, the search of serial.sh, the awk programs on   *)
(* job files and the bookkeeping of slabtest.c.                            *)
(***************************************************************************)
EXTENDS PageWalk, Calibrate, SlabTest, JobXml, FiniteSetTheorems, TLAPS
-----------------------------------------------------------------------------
(* PageWalk *)

\* Quotient and remainder are the only ones.
LEMMA DivUnique ==
  ASSUME NEW d \in Nat \ {0}, NEW a \in Nat, NEW c \in 0 .. d - 1
  PROVE  (d * a + c) \div d = a /\ (d * a + c) % d = c
  OBVIOUS

LEMMA DivMod ==
  ASSUME NEW n \in Nat, NEW d \in Nat \ {0}
  PROVE  n = d * (n \div d) + (n % d) /\ n \div d \in Nat /\ n % d \in 0 .. d - 1
  OBVIOUS

LEMMA Multiple ==
  ASSUME NEW n \in Nat, NEW d \in Nat \ {0}, n % d = 0
  PROVE  \E a \in Nat : n = d * a
<1>1. n = d * (n \div d) + 0 /\ n \div d \in Nat
  BY DivMod
<1>2. d * (n \div d) + 0 = d * (n \div d)
  BY <1>1
<1> QED
  BY <1>1, <1>2

\* The block of size * m bytes an address is in: its block of size bytes, by m.
LEMMA BlockOfBlock ==
  ASSUME NEW size \in Nat \ {0}, NEW m \in Nat \ {0}, NEW v \in Nat
  PROVE  v \div (size * m) = (v \div size) \div m
<1> DEFINE q == v \div size
           r == v % size
           a == q \div m
           b == q % m
<1>1. v = size * q + r /\ q \in Nat /\ r \in 0 .. size - 1
  BY DivMod
<1>2. q = m * a + b /\ a \in Nat /\ b \in 0 .. m - 1
  BY <1>1, DivMod
<1> HIDE DEF q, r, a, b
<1>3. size * q = (size * m) * a + size * b
  BY <1>1, <1>2
<1>4. size * b \in Nat /\ size * b <= size * (m - 1)
  BY <1>2
<1>5. size * (m - 1) + (size - 1) = size * m - 1 /\ size * m \in Nat \ {0}
  OBVIOUS
<1>6. size * b + r \in 0 .. size * m - 1
  BY <1>1, <1>4, <1>5
<1>7. size * q + r = (size * m) * a + (size * b + r)
  BY <1>1, <1>2, <1>3, <1>4
<1>8. (size * q + r) \div (size * m) = a
  BY <1>2, <1>5, <1>6, <1>7, DivUnique
<1> QED
  BY <1>1, <1>8 DEF q, a

\* Two addresses in one block of size bytes are in one block of m times that.
LEMMA SameBlock ==
  ASSUME NEW size \in Nat \ {0}, NEW m \in Nat \ {0},
         NEW first \in Nat, first % size = 0, NEW v \in first .. first + size - 1
  PROVE  v \div (size * m) = first \div (size * m)
<1>1. PICK a \in Nat : first = size * a
  BY Multiple
<1>2. v - first \in 0 .. size - 1 /\ v = size * a + (v - first) /\ first = size * a + 0
  BY <1>1
<1>3. v \div size = a /\ first \div size = a
  BY <1>2, DivUnique
<1>4. v \in Nat /\ first \in Nat
  OBVIOUS
<1>5. v \div (size * m) = (v \div size) \div m
  BY <1>4, BlockOfBlock
<1>6. first \div (size * m) = (first \div size) \div m
  BY <1>4, BlockOfBlock
<1> QED
  BY <1>3, <1>5, <1>6

\* The sizes, as numbers.
LEMMA Sizes ==
  ASSUME PageTypeOK
  PROVE  /\ IndexSize \in Nat \ {0} /\ PageSize \in Nat \ {0} /\ WordSize \in Nat \ {0, 1}
         /\ HugeSize \in Nat \ {0} /\ PageBytes \in Nat \ {0} /\ NumPages \in Nat \ {0}
         /\ vaddr \in Nat /\ start \in Nat /\ huge \in BOOLEAN
         /\ \A n \in present : n \in Nat /\ PageAt(n) \in Nat /\ Frame[n] \in Nat
<1>1. /\ IndexSize \in Nat \ {0} /\ PageSize \in Nat \ {0} /\ WordSize \in Nat \ {0, 1}
      /\ HugePages \in Nat \ {0} /\ Frame \in [0 .. HugePages - 1 -> Nat]
  BY SizeAssumption
<1>2. HugeSize \in Nat \ {0}
  BY <1>1 DEF HugeSize
<1>3. PageBytes \in Nat \ {0} /\ NumPages \in Nat \ {0} /\ NumPages <= HugePages
  BY <1>1, <1>2 DEF PageBytes, NumPages
<1>4. vaddr \in Nat /\ start \in Nat /\ huge \in BOOLEAN
  BY DEF PageTypeOK, Vaddr
<1>5. ASSUME NEW n \in present PROVE n \in Nat /\ PageAt(n) \in Nat /\ Frame[n] \in Nat
  <2>1. n \in 0 .. NumPages - 1
    BY DEF PageTypeOK
  <2>2. n \in 0 .. HugePages - 1
    BY <1>1, <1>3, <2>1
  <2>3. PageBytes * n \in Nat
    BY <1>3, <2>2
  <2> QED
    BY <1>1, <1>4, <2>2, <2>3 DEF PageAt
<1> QED
  BY <1>1, <1>2, <1>3, <1>4, <1>5

\* Every level's span is IndexSize times that of the level below, and a multiple
\* of the page's size from the level on where the page hangs.
LEMMA Spans ==
  ASSUME PageTypeOK, NEW level \in Pte .. Pgd, huge => level # Pte
  PROVE  /\ Span(level) \in Nat \ {0}
         /\ level # Pgd => Span(level + 1) = Span(level) * IndexSize
         /\ \E m \in Nat \ {0} : Span(level) = PageBytes * m
<1> DEFINE H == HugeSize
<1>1. IndexSize \in Nat \ {0} /\ PageSize \in Nat \ {0} /\ huge \in BOOLEAN /\ H \in Nat \ {0}
      /\ H = PageSize * IndexSize
  BY Sizes DEF HugeSize
<1>2. PageBytes = IF huge THEN H ELSE PageSize
  BY DEF PageBytes
<1>3. /\ Span(1) = PageSize /\ Span(2) = H
      /\ Span(3) = IndexSize * H /\ Span(4) = IndexSize * (IndexSize * H)
  BY DEF Span, Pte, Pmd, Pud, Pgd
<1> HIDE DEF H
<1>4. IndexSize * H \in Nat \ {0} /\ IndexSize * H = H * IndexSize
  BY <1>1
<1>5. IndexSize * IndexSize \in Nat \ {0} /\ IndexSize * (IndexSize * IndexSize) \in Nat \ {0}
  BY <1>1
<1>6. /\ IndexSize * (IndexSize * H) \in Nat \ {0}
      /\ IndexSize * (IndexSize * H) = (IndexSize * H) * IndexSize
  BY <1>1, <1>4
<1>7. /\ IndexSize * H = PageSize * (IndexSize * IndexSize)
      /\ IndexSize * (IndexSize * H) = H * (IndexSize * IndexSize)
      /\ IndexSize * (IndexSize * H) = PageSize * (IndexSize * (IndexSize * IndexSize))
      /\ PageSize = PageSize * 1 /\ H = H * 1
  BY <1>1
<1>8. level \in {1, 2, 3, 4} /\ (huge => level # 1)
  BY DEF Pte, Pgd
<1>9. Span(level) \in Nat \ {0}
  BY <1>1, <1>3, <1>4, <1>6, <1>8
<1>10. level # 4 => Span(level + 1) = Span(level) * IndexSize
  BY <1>1, <1>3, <1>4, <1>6, <1>8
<1>11. \E m \in Nat \ {0} : Span(level) = PageBytes * m
  <2>1. CASE huge
    <3>1. PageBytes = H /\ level \in {2, 3, 4}
      BY <1>2, <1>8, <2>1
    <3> QED
      BY <1>1, <1>3, <1>4, <1>5, <1>7, <3>1
  <2>2. CASE ~ huge
    <3>1. PageBytes = PageSize
      BY <1>2, <2>2
    <3> QED
      BY <1>1, <1>3, <1>5, <1>7, <1>8, <3>1
  <2> QED
    BY <2>1, <2>2
<1> QED
  BY <1>9, <1>10, <1>11 DEF Pgd

\* Every page of the mapping starts at a multiple of its size.
LEMMA PageAligned ==
  ASSUME PageTypeOK, start % PageBytes = 0, NEW n \in Nat
  PROVE  \E a \in Nat : PageAt(n) = PageBytes * (a + n) /\ PageAt(n) % PageBytes = 0
<1>1. PICK a \in Nat : start = PageBytes * a
  BY Multiple, Sizes
<1>2. PageAt(n) = PageBytes * (a + n) /\ PageBytes * (a + n) = PageBytes * (a + n) + 0
  BY <1>1, Sizes DEF PageAt
<1>3. PageBytes \in Nat \ {0} /\ a + n \in Nat /\ 0 \in 0 .. PageBytes - 1
  BY <1>1, Sizes
<1>4. (PageBytes * (a + n) + 0) % PageBytes = 0
  BY <1>3, DivUnique
<1> QED
  BY <1>2, <1>4

\* An address of a page is in the block, of each level, that the page is in.
LEMMA PageBlock ==
  ASSUME PageTypeOK, start % PageBytes = 0, NEW n \in present, Mapped(n),
         NEW level \in Pte .. Pgd, huge => level # Pte
  PROVE  PageAt(n) \div Span(level) = vaddr \div Span(level)
<1>1. PICK m \in Nat \ {0} : Span(level) = PageBytes * m
  BY Spans
<1>2. PageAt(n) \in Nat /\ PageAt(n) % PageBytes = 0
  BY Sizes, PageAligned
<1>3. vaddr \in PageAt(n) .. PageAt(n) + PageBytes - 1
  BY DEF Mapped
<1> QED
  BY <1>1, <1>2, <1>3, Sizes, SameBlock

\* The table that translates the block an address is in, and the index of the
\* address, give the number of its block of the size of an entry.
LEMMA EntryNumber ==
  ASSUME PageTypeOK, NEW level \in Pte .. Pud, huge => level # Pte
  PROVE  IndexSize * (vaddr \div Span(level + 1)) + Index(vaddr, level) = vaddr \div Span(level)
<1> DEFINE q == vaddr \div Span(level)
<1>1. level \in Pte .. Pgd /\ level # Pgd
  BY DEF Pte, Pud, Pgd
<1>2. Span(level) \in Nat \ {0} /\ Span(level + 1) = Span(level) * IndexSize
  BY <1>1, Spans
<1>3. vaddr \in Nat /\ IndexSize \in Nat \ {0}
  BY Sizes
<1>4. vaddr \div Span(level + 1) = q \div IndexSize /\ q \in Nat
  <2> DEFINE S == Span(level)
  <2>1. S \in Nat \ {0} /\ Span(level + 1) = S * IndexSize
    BY <1>2
  <2> HIDE DEF S
  <2>2. vaddr \div (S * IndexSize) = (vaddr \div S) \div IndexSize /\ vaddr \div S \in Nat
    BY <1>3, <2>1, BlockOfBlock, DivMod
  <2> QED
    BY <2>1, <2>2 DEF S
<1>5. Index(vaddr, level) = q % IndexSize
  BY DEF Index
<1> HIDE DEF q
<1>6. IndexSize * (q \div IndexSize) + (q % IndexSize) = q
  BY <1>3, <1>4, DivMod
<1> QED
  BY <1>4, <1>5, <1>6 DEF q

LEMMA RootNumber ==
  ASSUME PageTypeOK
  PROVE  IndexSize * 0 + Index(vaddr, Pgd) = vaddr \div Span(Pgd)
<1> DEFINE S == Span(Pgd)
           q == vaddr \div S
           r == vaddr % S
<1>1. Pgd \in Pte .. Pgd /\ (huge => Pgd # Pte)
  BY DEF Pte, Pgd
<1>2. S \in Nat \ {0}
  BY <1>1, Spans
<1>3. IndexSize \in Nat \ {0} /\ vaddr \in Nat /\ vaddr < IndexSize * S
  BY Sizes DEF PageTypeOK, Vaddr, Span, Pte, Pmd, Pud, Pgd
<1> HIDE DEF S
<1>4. vaddr = S * q + r /\ q \in Nat /\ r \in Nat
  BY <1>2, <1>3, DivMod
<1>5. Index(vaddr, Pgd) = q % IndexSize
  BY DEF Index, S
<1> HIDE DEF q, r
<1>6. q < IndexSize
  <2> SUFFICES ASSUME q >= IndexSize PROVE FALSE
    BY <1>3, <1>4
  <2>1. q - IndexSize \in Nat /\ S * (q - IndexSize) \in Nat
    BY <1>2, <1>3, <1>4
  <2>2. S * q = S * (q - IndexSize) + IndexSize * S
    BY <1>2, <1>3, <1>4, <2>1
  <2> QED
    BY <1>2, <1>3, <1>4, <2>1, <2>2
<1>7. q = IndexSize * 0 + q /\ q \in 0 .. IndexSize - 1
  BY <1>3, <1>4, <1>6
<1>8. q % IndexSize = q
  BY <1>3, <1>7, DivUnique
<1> QED
  BY <1>3, <1>4, <1>5, <1>8 DEF q, S

\* A read of the entry for the block of an address in the mapping gives the page
\* the address is in, or the table one level down.
LEMMA DerefMapped ==
  ASSUME PageTypeOK, start % PageBytes = 0, NEW n \in present, Mapped(n),
         NEW level \in Pte .. Pgd, huge => level # Pte, table[1] = level,
         IndexSize * table[2] + Index(vaddr, level) = vaddr \div Span(level),
         NEW e \in Deref(level)
  PROVE  IF level = (IF huge THEN Pmd ELSE Pte)
         THEN e.to = <<Page, Frame[n]>> /\ e.huge = huge
         ELSE e.to = <<level - 1, vaddr \div Span(level)>> /\ e.huge = FALSE
<1> DEFINE b == vaddr \div Span(level)
           last == level = IF huge THEN Pmd ELSE Pte
           K == {k \in present : PageAt(k) \div Span(level) = b}
<1>1. user = "mapped" /\ table[1] # Page
  BY DEF Mapped, Page, Pte, Pgd
<1>2. n \in K
  BY PageBlock
<1>3. EntryFor(level, b) = {[to   |-> IF last THEN <<Page, Frame[k]>> ELSE <<level - 1, b>>,
                             huge |-> huge /\ last] : k \in K}
  BY DEF EntryFor
<1>4. EntryFor(level, b) # {}
  BY <1>2, <1>3
<1>5. e \in EntryFor(level, b)
  BY <1>1, <1>4 DEF Deref
<1> HIDE DEF b, K
<1>6. PICK k \in K : e = [to   |-> IF last THEN <<Page, Frame[k]>> ELSE <<level - 1, b>>,
                          huge |-> huge /\ last]
  BY <1>3, <1>5
<1>7. CASE last
  <2>1. Span(level) = PageBytes
    <3>1. Span(1) = PageSize /\ Span(2) = HugeSize
      BY DEF Span, Pte, Pmd, Pud, Pgd
    <3>2. CASE huge
      BY <1>7, <3>1, <3>2 DEF PageBytes, Pmd
    <3>3. CASE ~ huge
      BY <1>7, <3>1, <3>3 DEF PageBytes, Pte
    <3> QED
      BY <3>2, <3>3
  <2>2. k \in present /\ PageAt(k) \div PageBytes = PageAt(n) \div PageBytes
    BY <1>2, <2>1 DEF K
  <2>3. \A j \in present : PageAt(j) \div PageBytes = start \div PageBytes + j
    <3> SUFFICES ASSUME NEW j \in present
                 PROVE  PageAt(j) \div PageBytes = start \div PageBytes + j
      OBVIOUS
    <3>1. PageBytes \in Nat \ {0} /\ start \in Nat /\ j \in Nat
      BY Sizes
    <3>2. PICK a \in Nat : start = PageBytes * a
      BY <3>1, Multiple
    <3>3. /\ start = PageBytes * a + 0 /\ PageAt(j) = PageBytes * (a + j) + 0
          /\ a + j \in Nat /\ 0 \in 0 .. PageBytes - 1
      BY <3>1, <3>2 DEF PageAt
    <3>4. start \div PageBytes = a /\ PageAt(j) \div PageBytes = a + j
      BY <3>1, <3>3, DivUnique
    <3> QED
      BY <3>4
  <2>4. start \div PageBytes \in Nat /\ k \in Nat /\ n \in Nat
    BY <2>2, Sizes, DivMod
  <2>5. k = n
    BY <2>2, <2>3, <2>4
  <2>6. huge \in BOOLEAN
    BY Sizes
  <2>7. e.to = <<Page, Frame[n]>> /\ e.huge = (huge /\ last)
    BY <1>6, <1>7, <2>5
  <2>8. e.huge = huge
    BY <1>7, <2>6, <2>7, Zenon
  <2> QED
    BY <1>7, <2>7, <2>8
<1>8. CASE ~ last
  <2>1. e.to = <<level - 1, b>> /\ e.huge = (huge /\ last)
    BY <1>6, <1>8
  <2>2. e.huge = FALSE
    BY <1>8, <2>1, Zenon
  <2> QED
    BY <1>8, <2>1, <2>2 DEF b
<1> QED
  BY <1>7, <1>8

\* The offset that is scaled is the one of the address only at the page's start.
LEMMA ScaledOffset ==
  ASSUME PageTypeOK, start % PageBytes = 0, NEW n \in present, Mapped(n)
  PROVE  PageOffset = vaddr - PageAt(n) <=> vaddr = PageAt(n)
<1> DEFINE d == vaddr - PageAt(n)
           c == vaddr % PageSize
<1>1. /\ IndexSize \in Nat \ {0} /\ PageSize \in Nat \ {0} /\ WordSize \in Nat \ {0, 1}
      /\ \A k \in 1 .. PageSize - 1 : ((WordSize - 1) * k) % PageSize # 0
      /\ vaddr \in Nat /\ PageAt(n) \in Nat /\ d \in Nat
  <2>1. vaddr \in Nat /\ PageAt(n) \in Nat /\ PageBytes \in Nat
    BY Sizes
  <2>2. d \in Nat
    BY <2>1 DEF Mapped
  <2> QED
    BY <2>1, <2>2, SizeAssumption
<1>2. \E q \in Nat : PageAt(n) = PageSize * q
  <2>1. n \in Nat /\ huge \in BOOLEAN
    BY Sizes
  <2>2. PICK a \in Nat : PageAt(n) = PageBytes * (a + n)
    BY <2>1, PageAligned
  <2>3. CASE huge
    <3>1. PageBytes = IndexSize * PageSize
      BY <2>3 DEF PageBytes, HugeSize
    <3>2. /\ IndexSize * (a + n) \in Nat
          /\ (IndexSize * PageSize) * (a + n) = PageSize * (IndexSize * (a + n))
      BY <1>1, <2>1
    <3> QED
      BY <2>2, <3>1, <3>2
  <2>4. CASE ~ huge
    BY <2>1, <2>2, <2>4 DEF PageBytes
  <2> QED
    BY <2>1, <2>3, <2>4
<1>3. PICK q \in Nat : PageAt(n) = PageSize * q
  BY <1>2
<1>4. PICK p \in Nat : vaddr = PageSize * p + c /\ c \in 0 .. PageSize - 1
  BY <1>1, DivMod
<1>5. PageOffset = WordSize * c
  BY DEF PageOffset
<1>6. ASSUME vaddr = PageAt(n) PROVE WordSize * c = d
  <2>1. PageSize * q = PageSize * q + 0 /\ 0 \in 0 .. PageSize - 1
    BY <1>1
  <2>2. c = 0
    BY <1>1, <1>3, <1>6, <2>1, DivUnique
  <2> QED
    BY <1>1, <1>6, <2>2
<1> HIDE DEF c
<1>7. ASSUME WordSize * c = d PROVE vaddr = PageAt(n)
  <2>1. d = PageSize * (p - q) + c
    BY <1>1, <1>3, <1>4
  <2>2. (WordSize - 1) * c = PageSize * (p - q)
    BY <1>1, <1>4, <1>7, <2>1
  <2>3. (WordSize - 1) * c \in Nat
    BY <1>1, <1>4
  <2>4. p - q \in Nat
    BY <1>1, <2>2, <2>3
  <2>5. ((WordSize - 1) * c) % PageSize = 0
    <3> DEFINE w == p - q
    <3>1. w \in Nat /\ (WordSize - 1) * c = PageSize * w
      BY <2>2, <2>4
    <3> HIDE DEF w
    <3>2. PageSize * w = PageSize * w + 0 /\ 0 \in 0 .. PageSize - 1
      BY <1>1, <3>1
    <3>3. (PageSize * w + 0) % PageSize = 0
      BY <1>1, <3>1, <3>2, DivUnique
    <3> QED
      BY <3>1, <3>2, <3>3
  <2>6. c = 0
    <3>1. ASSUME c # 0 PROVE c \in 1 .. PageSize - 1
      BY <1>1, <1>4, <3>1
    <3>2. ASSUME c \in 1 .. PageSize - 1 PROVE FALSE
      <4>1. \A k \in 1 .. PageSize - 1 : ((WordSize - 1) * k) % PageSize # 0
        BY <1>1
      <4> QED
        BY ONLY <2>5, <3>2, <4>1, Zenon
    <3> QED
      BY <3>1, <3>2
  <2> QED
    BY <1>1, <1>7, <2>6
<1> QED
  BY <1>5, <1>6, <1>7

\* Where a walk of an address in the n-th page stands, and what it has read: the
\* table at hand translates the block the address is in.
OnTrack(n) ==
  Mapped(n) =>
    /\ walker # "oops"
    /\ walker = "pgd" => table = <<Pgd, 0>>
    /\ walker = "pud" => table = <<Pud, vaddr \div Span(Pgd)>>
    /\ walker \in {"pmd", "attribute", "huge"} => table = <<Pmd, vaddr \div Span(Pud)>>
    /\ walker = "attribute" /\ ~ huge => pte_table = <<Pte, vaddr \div Span(Pmd)>>
    /\ walker = "pte" => table = <<Pte, vaddr \div Span(Pmd)>> /\ ~ huge
    /\ walker = "huge" => huge
    /\ walker = "done" => read = Frame[n] * PageSize + PageOffset

PageInv ==
  /\ PageTypeOK /\ start % PageBytes = 0
  /\ \A n \in present : OnTrack(n)

LEMMA PageInvInit == PageInit => PageInv
<1> SUFFICES ASSUME PageInit PROVE PageInv
  OBVIOUS
<1>1. <<Page, 0>> \in Location
  BY DEF Location, Page, Pgd
<1> QED
  BY <1>1 DEF PageInit, PageInv, PageTypeOK, OnTrack

\* What an entry may lead to.
LEMMA EntryType ==
  ASSUME PageTypeOK, NEW level \in Pte .. Pgd, NEW e \in Deref(level)
  PROVE  e.to \in Location
<1> USE DEF Page, Pte, Pmd, Pud, Pgd
<1>1. <<Page, 0>> \in Location /\ <<Pgd, 0>> \in Location
  BY DEF Location
<1>2. ASSUME NEW k \in 0 .. HugePages - 1 PROVE <<Page, Frame[k]>> \in Location
  BY SizeAssumption DEF Location
<1>3. CASE user = "mapped" /\ table[1] # Page
  <2> DEFINE block == IndexSize * table[2] + Index(vaddr, level)
             from  == table[1]
  <2>1. from \in 1 .. 4 /\ block \in Nat
    <3>1. table[1] \in 0 .. 4 /\ table[2] \in Nat
      BY DEF PageTypeOK, Location
    <3>2. Span(level) \in Nat \ {0}
      BY Sizes DEF Span, HugeSize
    <3>3. vaddr \div Span(level) \in Nat
      BY <3>2, Sizes, DivMod
    <3>4. IndexSize \in Nat \ {0}
      BY Sizes
    <3>5. (vaddr \div Span(level)) % IndexSize \in Nat
      BY <3>3, <3>4, DivMod
    <3>6. Index(vaddr, level) \in Nat
      BY <3>5 DEF Index
    <3> QED
      BY <1>3, <3>1, <3>4, <3>6
  <2>2. Deref(level) = IF EntryFor(from, block) = {} THEN {Absent} ELSE EntryFor(from, block)
    BY <1>3 DEF Deref
  <2> HIDE DEF block, from
  <2>3. <<from - 1, block>> \in Location
    BY <2>1 DEF Location
  <2>4. ASSUME NEW x \in EntryFor(from, block) PROVE x.to \in Location
    <3>1. PICK k \in present :
            x.to = IF from = (IF huge THEN Pmd ELSE Pte)
                   THEN <<Page, Frame[k]>> ELSE <<from - 1, block>>
      BY <2>4 DEF EntryFor
    <3>2. k \in 0 .. HugePages - 1
      BY SizeAssumption DEF PageTypeOK, NumPages
    <3> QED
      BY <1>2, <2>3, <3>1, <3>2
  <2>5. Absent.to \in Location
    BY <1>1 DEF Absent
  <2> QED
    BY <2>2, <2>4, <2>5
<1>4. CASE ~ (user = "mapped" /\ table[1] # Page)
  BY <1>1, <1>2, <1>4 DEF Deref, Entry
<1> QED
  BY <1>3, <1>4

\* Steps of the walker leave the mapping and the address alone; the process's
\* own steps only unmap.
LEMMA MappingKept ==
  ASSUME [PageNext]_pageVars, NEW n, Mapped(n)'
  PROVE  /\ Mapped(n) /\ UNCHANGED <<user, huge, start, present, vaddr>>
         /\ UNCHANGED <<PageBytes, NumPages, PageOffset>>
<1>1. ~ Munmap /\ ~ Exit
  BY DEF Mapped, Munmap, Exit
<1>2. UNCHANGED <<user, huge, start, present, vaddr>>
  BY <1>1 DEF PageNext, WalkStep, FindTask, Walk, WalkPmd, TestHuge, ReadHuge,
              ReadPage, ReadWord, Fault, Rest, Oops, Goto, process, pageVars
<1> QED
  BY <1>2 DEF Mapped, PageAt, PageBytes, NumPages, PageOffset

LEMMA PageTypeNext ==
  ASSUME PageTypeOK, start % PageBytes = 0, [PageNext]_pageVars
  PROVE  PageTypeOK' /\ (start % PageBytes)' = 0
<1> DEFINE Typed ==
      /\ user \in {"mapped", "unmapped", "exited"}
      /\ walker \in {"find", "pgd", "pud", "pmd", "attribute", "pte", "huge", "done", "oops"}
      /\ table \in Location /\ pte_table \in Location /\ read \in Nat
<1>1. UNCHANGED <<huge, start, present, vaddr>>
  BY DEF PageNext, Munmap, Exit, WalkStep, FindTask, Walk, WalkPmd, TestHuge, ReadHuge,
         ReadPage, ReadWord, Fault, Rest, Oops, Goto, process, pageVars
<1>2. Typed
  BY DEF PageTypeOK
<1>3. Typed'
  <2> USE <1>2 DEF Goto, process
  <2>1. CASE Munmap \/ Exit
    BY <2>1 DEF Munmap, Exit
  <2>2. CASE FindTask
    <3>1. <<Pgd, 0>> \in Location
      BY DEF Location, Page, Pgd
    <3>2. CASE Oops("find")
      BY <3>2 DEF Oops
    <3> QED
      BY <2>2, <3>1, <3>2 DEF FindTask
  <2>3. CASE Walk
    <3>1. PICK level \in Pte .. Pgd : \E e \in Deref(level) : table' = e.to
      BY <2>3 DEF Walk, Pte, Pud, Pgd
    <3>2. table' \in Location
      BY <3>1, EntryType
    <3>3. UNCHANGED <<user, pte_table, read>> /\ walker' \in {"pud", "pmd"}
      BY <2>3 DEF Walk
    <3> QED
      BY <3>2, <3>3
  <2>4. CASE WalkPmd
    <3>1. PICK e \in Deref(Pmd) : pte_table' = e.to
      BY <2>4 DEF WalkPmd
    <3>2. pte_table' \in Location
      BY <3>1, EntryType DEF Pte, Pmd, Pgd
    <3>3. UNCHANGED <<user, table, read>> /\ walker' = "attribute"
      BY <2>4 DEF WalkPmd
    <3> QED
      BY <3>2, <3>3
  <2>5. CASE TestHuge
    BY <2>5 DEF TestHuge
  <2>6. CASE ReadHuge \/ ReadPage
    <3>1. PICK from \in {"huge", "pte"}, level \in Pte .. Pgd : ReadWord(from, level)
      BY <2>6 DEF ReadHuge, ReadPage, Pte, Pmd, Pgd
    <3>2. PICK e \in Deref(level) : read' = e.to[2] * PageSize + PageOffset
      BY <3>1 DEF ReadWord
    <3>3. e.to[2] \in Nat
      BY EntryType DEF Location
    <3>4. PageSize \in Nat \ {0} /\ WordSize \in Nat /\ vaddr \in Nat
      BY Sizes
    <3>5. vaddr % PageSize \in Nat
      BY <3>4, DivMod
    <3>6. read' \in Nat
      BY <3>2, <3>3, <3>4, <3>5 DEF PageOffset
    <3>7. UNCHANGED <<user, table, pte_table>> /\ walker' = "done"
      BY <3>1 DEF ReadWord
    <3> QED
      BY <3>6, <3>7
  <2>7. CASE Fault
    <3>1. PICK w \in {"pud", "pmd", "attribute", "pte", "huge"} : Oops(w)
      BY <2>7 DEF Fault
    <3> QED
      BY <3>1 DEF Oops
  <2>8. CASE Rest \/ UNCHANGED pageVars
    <3>1. UNCHANGED <<user, walker, table, pte_table, read>>
      BY <2>8 DEF Rest, pageVars
    <3> QED
      BY <3>1
  <2> QED
    BY <2>1, <2>2, <2>3, <2>4, <2>5, <2>6, <2>7, <2>8 DEF PageNext, WalkStep
<1> HIDE DEF Typed
<1>4. UNCHANGED <<PageBytes, NumPages>>
  BY <1>1 DEF PageBytes, NumPages
<1>5. PageTypeOK'
  BY <1>1, <1>3, <1>4 DEF PageTypeOK, Typed
<1> QED
  BY <1>1, <1>4, <1>5

LEMMA OnTrackNext ==
  ASSUME PageInv, [PageNext]_pageVars, NEW n \in present', Mapped(n)'
  PROVE  OnTrack(n)'
<1>1. /\ Mapped(n) /\ UNCHANGED <<user, huge, start, present, vaddr, PageOffset>>
      /\ n \in present
  BY MappingKept
<1>2. OnTrack(n) /\ PageTypeOK /\ start % PageBytes = 0
  BY <1>1 DEF PageInv
<1>3. user = "mapped" /\ huge \in BOOLEAN
  BY <1>1, <1>2 DEF Mapped, PageTypeOK
<1>4. /\ walker # "oops"
      /\ walker = "pgd" => table = <<Pgd, 0>>
      /\ walker = "pud" => table = <<Pud, vaddr \div Span(Pgd)>>
      /\ walker \in {"pmd", "attribute", "huge"} => table = <<Pmd, vaddr \div Span(Pud)>>
      /\ walker = "attribute" /\ ~ huge => pte_table = <<Pte, vaddr \div Span(Pmd)>>
      /\ walker = "pte" => table = <<Pte, vaddr \div Span(Pmd)>> /\ ~ huge
      /\ walker = "huge" => huge
      /\ walker = "done" => read = Frame[n] * PageSize + PageOffset
  BY <1>1, <1>2 DEF OnTrack
<1>5. \A level : Span(level)' = Span(level)
  BY DEF Span
<1>6. ~ Munmap /\ ~ Exit
  BY <1>1, <1>3 DEF Munmap, Exit
<1>7. /\ Pud + 1 = Pgd /\ Pmd + 1 = Pud /\ Pte + 1 = Pmd
      /\ Pgd - 1 = Pud /\ Pud - 1 = Pmd /\ Pmd - 1 = Pte
      /\ Pgd \in Pte .. Pgd /\ Pud \in Pte .. Pud /\ Pmd \in Pte .. Pud /\ Pte \in Pte .. Pud
      /\ Pud \in Pte .. Pgd /\ Pmd \in Pte .. Pgd /\ Pte \in Pte .. Pgd
      /\ Pgd \notin {Pmd, Pte} /\ Pud \notin {Pmd, Pte} /\ Pmd # Pte /\ Page \notin {Pgd, Pud, Pmd, Pte}
  BY DEF Page, Pte, Pmd, Pud, Pgd
<1>8. CASE FindTask
  BY <1>1, <1>3, <1>8 DEF FindTask, Oops, Goto, OnTrack
<1>9. CASE Walk
  <2>1. CASE Goto("pgd", "pud")
    <3>1. table = <<Pgd, 0>> /\ walker = "pgd" /\ walker' = "pud"
      BY <1>4, <2>1 DEF Goto
    <3>2. IndexSize * table[2] + Index(vaddr, Pgd) = vaddr \div Span(Pgd)
      BY <1>2, <3>1, RootNumber
    <3>3. ASSUME NEW e \in Deref(Pgd) PROVE e.to = <<Pud, vaddr \div Span(Pgd)>>
      <4>1. IF Pgd = (IF huge THEN Pmd ELSE Pte)
            THEN e.to = <<Page, Frame[n]>> /\ e.huge = huge
            ELSE e.to = <<Pgd - 1, vaddr \div Span(Pgd)>> /\ e.huge = FALSE
        BY <1>1, <1>2, <1>7, <3>1, <3>2, DerefMapped
      <4> QED
        BY <1>7, <4>1
    <3>4. table' = <<Pud, vaddr \div Span(Pgd)>>
      BY <1>9, <3>1, <3>3 DEF Walk
    <3> QED
      BY <1>1, <1>5, <3>1, <3>4 DEF OnTrack
  <2>2. CASE Goto("pud", "pmd")
    <3>1. table = <<Pud, vaddr \div Span(Pgd)>> /\ walker = "pud" /\ walker' = "pmd"
      BY <1>4, <2>2 DEF Goto
    <3>2. IndexSize * table[2] + Index(vaddr, Pud) = vaddr \div Span(Pud)
      BY <1>2, <1>7, <3>1, EntryNumber
    <3>3. ASSUME NEW e \in Deref(Pud) PROVE e.to = <<Pmd, vaddr \div Span(Pud)>>
      <4>1. IF Pud = (IF huge THEN Pmd ELSE Pte)
            THEN e.to = <<Page, Frame[n]>> /\ e.huge = huge
            ELSE e.to = <<Pud - 1, vaddr \div Span(Pud)>> /\ e.huge = FALSE
        BY <1>1, <1>2, <1>7, <3>1, <3>2, DerefMapped
      <4> QED
        BY <1>7, <4>1
    <3>4. table' = <<Pmd, vaddr \div Span(Pud)>>
      BY <1>9, <3>1, <3>3 DEF Walk
    <3> QED
      BY <1>1, <1>5, <3>1, <3>4 DEF OnTrack
  <2> QED
    BY <1>9, <2>1, <2>2 DEF Walk
<1>10. ASSUME walker \in {"pmd", "attribute", "huge"}, NEW e \in Deref(Pmd)
       PROVE  /\ e.huge = huge
              /\ e.to = IF huge THEN <<Page, Frame[n]>> ELSE <<Pte, vaddr \div Span(Pmd)>>
  <2>1. table = <<Pmd, vaddr \div Span(Pud)>>
    BY <1>4, <1>10
  <2>2. IndexSize * table[2] + Index(vaddr, Pmd) = vaddr \div Span(Pmd)
    BY <1>2, <1>7, <2>1, EntryNumber
  <2>3. IF Pmd = (IF huge THEN Pmd ELSE Pte)
        THEN e.to = <<Page, Frame[n]>> /\ e.huge = huge
        ELSE e.to = <<Pmd - 1, vaddr \div Span(Pmd)>> /\ e.huge = FALSE
    BY <1>1, <1>2, <1>7, <1>10, <2>1, <2>2, DerefMapped
  <2>4. CASE huge
    BY <1>7, <2>3, <2>4
  <2>5. CASE ~ huge
    BY <1>3, <1>7, <2>3, <2>5
  <2> QED
    BY <2>4, <2>5
<1>11. CASE WalkPmd
  <2>1. walker = "pmd" /\ walker' = "attribute" /\ UNCHANGED table
    BY <1>11 DEF WalkPmd, Goto
  <2>2. ~ huge => pte_table' = <<Pte, vaddr \div Span(Pmd)>>
    BY <1>10, <1>11, <2>1 DEF WalkPmd
  <2> QED
    BY <1>1, <1>4, <1>5, <2>1, <2>2 DEF OnTrack
<1>12. CASE TestHuge
  <2>1. walker = "attribute"
    BY <1>12 DEF TestHuge, Goto
  <2>2. IF huge THEN walker' = "huge" /\ UNCHANGED table
                ELSE walker' = "pte" /\ table' = pte_table
    BY <1>10, <1>12, <2>1 DEF TestHuge, Goto
  <2>3. CASE huge
    BY <1>1, <1>4, <1>5, <2>1, <2>2, <2>3 DEF OnTrack
  <2>4. CASE ~ huge
    BY <1>1, <1>4, <1>5, <2>1, <2>2, <2>4 DEF OnTrack
  <2> QED
    BY <2>3, <2>4
<1>13. CASE ReadHuge
  <2>1. walker = "huge" /\ walker' = "done" /\ huge
    BY <1>4, <1>13 DEF ReadHuge, ReadWord, Goto
  <2>2. PICK e \in Deref(Pmd) : read' = e.to[2] * PageSize + PageOffset
    BY <1>13 DEF ReadHuge, ReadWord
  <2>3. e.to = <<Page, Frame[n]>>
    BY <1>10, <2>1
  <2>4. read' = Frame[n] * PageSize + PageOffset
    BY <2>2, <2>3
  <2> QED
    BY <1>1, <2>1, <2>4 DEF OnTrack
<1>14. CASE ReadPage
  <2>1. walker = "pte" /\ walker' = "done" /\ ~ huge
    BY <1>4, <1>14 DEF ReadPage, ReadWord, Goto
  <2>2. table = <<Pte, vaddr \div Span(Pmd)>>
    BY <1>4, <2>1
  <2>3. PICK e \in Deref(Pte) : read' = e.to[2] * PageSize + PageOffset
    BY <1>14 DEF ReadPage, ReadWord
  <2>4. IndexSize * table[2] + Index(vaddr, Pte) = vaddr \div Span(Pte)
    BY <1>2, <1>7, <2>1, <2>2, EntryNumber
  <2>5. e.to = <<Page, Frame[n]>>
    BY <1>1, <1>2, <1>7, <2>1, <2>2, <2>4, DerefMapped
  <2>6. read' = Frame[n] * PageSize + PageOffset
    BY <2>3, <2>5
  <2> QED
    BY <1>1, <2>1, <2>6 DEF OnTrack
<1>15. ~ Fault
  <2>1. CASE table[1] = Page /\ \E w \in {"pud", "pmd", "attribute", "pte", "huge"} : Oops(w)
    BY <1>4, <1>7, <2>1 DEF Oops, Goto
  <2> QED
    BY <1>3, <2>1 DEF Fault
<1>16. CASE Rest \/ UNCHANGED pageVars
  <2>1. UNCHANGED <<walker, table, pte_table, read, huge>>
    BY <1>16 DEF Rest, pageVars, process
  <2> QED
    BY <1>1, <1>4, <1>5, <2>1 DEF OnTrack
<1> QED
  BY <1>6, <1>8, <1>9, <1>11, <1>12, <1>13, <1>14, <1>15, <1>16 DEF PageNext, WalkStep

LEMMA PageInvNext ==
  ASSUME PageInv, [PageNext]_pageVars
  PROVE  PageInv'
<1>1. PageTypeOK' /\ (start % PageBytes)' = 0
  BY PageTypeNext DEF PageInv
<1>2. ASSUME NEW n \in present' PROVE OnTrack(n)'
  <2>1. ASSUME Mapped(n)' PROVE OnTrack(n)'
    BY <2>1, OnTrackNext
  <2>2. ASSUME ~ Mapped(n)' PROVE OnTrack(n)'
    BY <2>2 DEF OnTrack
  <2> QED
    BY <2>1, <2>2
<1> QED
  BY <1>1, <1>2 DEF PageInv

LEMMA PageShows == PageInv => ShowsWord
<1> SUFFICES ASSUME PageInv, NEW n \in present, walker \in {"done", "oops"}, Mapped(n)
             PROVE  walker = "done" /\ (read = Translation(n) <=> vaddr = PageAt(n))
  BY DEF ShowsWord, PageInv
<1> DEFINE base == Frame[n] * PageSize
<1>1. /\ walker = "done" /\ read = base + PageOffset
      /\ Translation(n) = base + (vaddr - PageAt(n))
  BY DEF PageInv, OnTrack, Translation
<1>2. base \in Nat /\ vaddr \in Nat /\ PageAt(n) \in Nat /\ PageOffset \in Nat
  <2>1. PageSize \in Nat \ {0} /\ WordSize \in Nat /\ Frame[n] \in Nat
        /\ vaddr \in Nat /\ PageAt(n) \in Nat
    BY Sizes DEF PageInv
  <2>2. vaddr % PageSize \in Nat
    BY <2>1, DivMod
  <2> QED
    BY <2>1, <2>2 DEF PageOffset
<1>3. PageOffset = vaddr - PageAt(n) <=> vaddr = PageAt(n)
  BY ScaledOffset DEF PageInv
<1> HIDE DEF base
<1> QED
  BY <1>1, <1>2, <1>3

\* The walk of an address in a touched page ends at the word there for the first
\* address of the page and for no other, whatever the sizes of pages, tables and
\* words, the number of huge pages and the frames they are in.
THEOREM WalkShowsWord == PageSpec => []ShowsWord
<1>1. PageInit => PageInv
  BY PageInvInit
<1>2. PageInv /\ [PageNext]_pageVars => PageInv'
  BY PageInvNext
<1>3. PageInv => ShowsWord
  BY PageShows
<1> QED
  BY <1>1, <1>2, <1>3, PTL DEF PageSpec
-----------------------------------------------------------------------------
(* Calibrate *)

\* Where the sleep, the window and the counters of a round are in their ranges,
\* and what ran counts.
SleepSafe    == phase \in {"round", "run", "end"} => us_sleep >= 0
WindowSafe   == /\ phase # "error" => wind >= 1
                /\ phase = "run" => wind \in 1 .. speed
HitsBelow    == phase # "matched" => hit <= Hits
RunInRound   == /\ phase = "run" => run >= -Tolerance
                /\ phase \in {"run", "end"} => ran = Runs - run

\* A round's end that shortens the sleep leaves diff above dur, so that no later
\* round runs the command: the hits that still count have no longer sleep.
LongestHit ==
  /\ phase \in {"parse", "measure"} => longest = 0
  /\ phase \in {"round", "run", "end"} => longest <= us_sleep \/ diff > Dur
  /\ phase = "end" => run < -Tolerance \/ diff > Dur
  /\ phase \in {"run", "end"} /\ ran > 0 => diff = elapsed

CalInv == /\ CalTypeOK /\ SleepSafe /\ WindowSafe /\ HitsBelow /\ RunInRound
          /\ LongestHit /\ MatchedIsMeasured

\* A correction by a part of the sleep does not make it negative.
LEMMA Shortened ==
  ASSUME NEW n \in Nat
  PROVE  /\ n - n \div 4 \in Nat /\ n - n \div 5 \in Nat
         /\ n + n \div 3 \in Nat /\ n + n \div 10 \in Nat
  OBVIOUS

LEMMA CorrectedSleep ==
  ASSUME us_sleep \in Nat, NEW delta \in Int
  PROVE  /\ Corrected(delta) \in Int
         /\ delta # -1 => Corrected(delta) >= 0
<1> DEFINE c == Corrected(delta)
<1>1. Far \in Nat /\ Far > 1 /\ Medium \in Nat /\ Small \in Nat
  BY ScaleAssumption
<1>2. CASE delta < -Far
  <2>1. c = us_sleep - us_sleep \div 4
    BY <1>1, <1>2 DEF Corrected
  <2> QED BY <2>1, Shortened
<1>3. CASE delta > Far
  <2>1. c = us_sleep + us_sleep \div 3
    BY <1>1, <1>3 DEF Corrected
  <2> QED BY <2>1, Shortened
<1>4. CASE delta \in -Far .. -2
  <2>1. c = us_sleep - us_sleep \div 5
    BY <1>1, <1>4 DEF Corrected
  <2> QED BY <2>1, Shortened
<1>5. CASE delta \in 2 .. Far
  <2>1. c = us_sleep + us_sleep \div 10
    BY <1>1, <1>5 DEF Corrected
  <2> QED BY <2>1, Shortened
<1>6. CASE delta = -1
  <2>1. c = us_sleep - Small
    BY <1>1, <1>6 DEF Corrected
  <2> QED BY <1>1, <1>6, <2>1
<1>7. CASE delta \in {0, 1}
  <2>1. c = us_sleep + Medium
    BY <1>1, <1>7 DEF Corrected
  <2> QED BY <1>1, <2>1
<1> QED
  BY <1>1, <1>2, <1>3, <1>4, <1>5, <1>6, <1>7

LEMMA CalInvInit == CalInit => CalInv
<1> SUFFICES ASSUME CalInit PROVE CalInv
  OBVIOUS
<1> USE ScaleAssumption, InputAssumption DEF CalInit
<1>1. CalTypeOK
  BY DEF CalTypeOK
<1>2. SleepSafe /\ WindowSafe /\ HitsBelow /\ RunInRound /\ LongestHit /\ MatchedIsMeasured
  BY DEF SleepSafe, WindowSafe, HitsBelow, RunInRound, LongestHit, MatchedIsMeasured
<1> QED
  BY <1>1, <1>2 DEF CalInv

\* The constants and the variables are numbers.
LEMMA Numbers ==
  ASSUME CalTypeOK
  PROVE  /\ Runs \in Nat /\ Tolerance \in Nat /\ Runs > Tolerance /\ Hits \in Nat
         /\ FirstSleep \in Nat /\ Big \in Nat /\ MaxStep \in Nat
         /\ speed \in Nat /\ us_sleep \in Int /\ wind \in Nat /\ diff \in Nat
         /\ elapsed \in Nat /\ ran \in Nat /\ hit \in Nat /\ run \in Int
         /\ longest \in Nat /\ (speed > 0 => Dur \in Nat)
  BY ScaleAssumption, InputAssumption DEF CalTypeOK, Dur

\* Before the first round: parsing keeps the options a list and the speed one of
\* the speeds or 0.
LEMMA ParseCal == ASSUME CalInv, Parse PROVE CalInv'
<1>1. /\ phase = "parse" /\ phase' \in {"parse", "measure"}
      /\ UNCHANGED <<us_sleep, wind, diff, run, hit, elapsed, ran, longest>>
  BY DEF Parse
<1>2. args' \in Seq({"-h", "-t", "-c", "word"}) /\ speed' \in Speeds \cup {0}
  BY DEF Parse, config, CalInv, CalTypeOK
<1>3. CalTypeOK'
  BY <1>1, <1>2 DEF CalInv, CalTypeOK
<1> QED
  BY <1>1, <1>3 DEF CalInv, SleepSafe, WindowSafe, HitsBelow, RunInRound, LongestHit, MatchedIsMeasured

LEMMA MeasureCal == ASSUME CalInv, Measure PROVE CalInv'
<1>1. /\ phase = "measure" /\ phase' \in {"exit", "error", "round"}
      /\ us_sleep' = us_sleep \/ us_sleep' = FirstSleep
      /\ phase' = "round" => us_sleep' = FirstSleep
      /\ UNCHANGED <<args, speed, wind, diff, run, hit, elapsed, ran, longest>>
  <2>1. PICK time \in Times :
          LET load == Load(time) IN
          CASE load > Second -> phase' = "exit" /\ UNCHANGED us_sleep
            [] load = 0      -> phase' = "error" /\ UNCHANGED us_sleep
            [] OTHER         -> IF speed > Second \div load
                                THEN phase' = "exit" /\ UNCHANGED us_sleep
                                ELSE phase' = "round" /\ us_sleep' = FirstSleep
    BY DEF Measure
  <2> DEFINE load == Load(time)
  <2>2. /\ load > Second => phase' = "exit" /\ UNCHANGED us_sleep
        /\ ~ (load > Second) /\ load = 0 => phase' = "error" /\ UNCHANGED us_sleep
        /\ ~ (load > Second) /\ load # 0 =>
             \/ phase' = "exit" /\ UNCHANGED us_sleep
             \/ phase' = "round" /\ us_sleep' = FirstSleep
    <3>1. load \in Nat /\ Second \in Nat \ {0}
      BY ScaleAssumption, InputAssumption DEF Load
    <3> HIDE DEF load
    <3> QED
      BY <2>1, <3>1 DEF load
  <2> HIDE DEF load
  <2> QED
    BY <2>2 DEF Measure, config
<1>2. FirstSleep \in Nat
  BY Numbers DEF CalInv
<1>3. CalTypeOK'
  BY <1>1, <1>2 DEF CalInv, CalTypeOK
<1> QED
  BY <1>1, <1>2, <1>3 DEF CalInv, SleepSafe, WindowSafe, HitsBelow, RunInRound, LongestHit, MatchedIsMeasured

\* A round cuts the window to the speed.
LEMMA RoundCal == ASSUME CalInv, Round PROVE CalInv'
<1>1. /\ phase = "round" /\ us_sleep >= 0 /\ wind >= 1 /\ hit <= Hits
      /\ phase' = IF speed = 0 THEN "error" ELSE "run"
      /\ run' = Runs /\ elapsed' = 0 /\ ran' = 0
      /\ wind' = IF wind > speed THEN speed ELSE wind
      /\ UNCHANGED <<args, speed, us_sleep, diff, hit, longest, Dur>>
  BY DEF CalInv, SleepSafe, WindowSafe, HitsBelow, Round, config, Dur
<1>2. Runs \in Nat /\ Tolerance \in Nat /\ speed \in Nat /\ wind \in Nat
  BY Numbers DEF CalInv
<1>3. CalTypeOK'
  BY <1>1, <1>2 DEF CalInv, CalTypeOK
<1>4. WindowSafe'
  BY <1>1, <1>2 DEF WindowSafe
<1> QED
  BY <1>1, <1>2, <1>3, <1>4 DEF CalInv, SleepSafe, HitsBelow, RunInRound, LongestHit, MatchedIsMeasured

\* A run counts itself and its hits, and may correct the sleep and the window.
LEMMA RunCommandCal == ASSUME CalInv, RunCommand PROVE CalInv'
<1> DEFINE tps   == (Runs + 1 - run) \div (diff' + 1)
           delta == tps - speed
<1>1. /\ phase = "run" /\ us_sleep \in Nat /\ wind \in 1 .. speed /\ hit <= Hits
      /\ run >= -Tolerance /\ ran = Runs - run
      /\ run' = run - 1 /\ ran' = ran + 1 /\ diff' = elapsed'
      /\ UNCHANGED <<args, speed, Dur>> /\ longest \in Nat /\ longest <= us_sleep
  <2>1. phase = "run" /\ us_sleep \in Nat /\ wind \in 1 .. speed /\ diff <= Dur
    BY Numbers DEF CalInv, SleepSafe, WindowSafe, RunCommand
  <2>2. Dur \in Nat /\ diff \in Nat /\ longest \in Nat
    BY <2>1, Numbers DEF CalInv
  <2>3. longest <= us_sleep
    BY <2>1, <2>2 DEF CalInv, LongestHit
  <2> QED
    BY <2>1, <2>2, <2>3 DEF CalInv, HitsBelow, RunInRound, RunCommand, config, Dur
<1>2. /\ Runs \in Nat /\ Tolerance \in Nat /\ Hits \in Nat /\ MaxStep \in Nat
      /\ speed \in Nat /\ elapsed \in Nat /\ ran \in Nat /\ hit \in Nat
      /\ run \in -Tolerance .. Runs
  BY Numbers, <1>1 DEF CalInv, CalTypeOK
<1>3. elapsed' \in Nat /\ diff' \in Nat
  BY <1>1, <1>2 DEF RunCommand
<1>4. tps \in Int /\ delta \in Int
  <2>1. \A a \in Nat, b \in Nat : a \div (b + 1) \in Nat
    OBVIOUS
  <2>2. Runs + 1 - run \in Nat
    <3>1. run \in Int /\ run <= Runs
      BY <1>2
    <3> QED
      BY <1>2, <3>1
  <2>3. tps \in Nat
    BY <1>3, <2>1, <2>2
  <2> HIDE DEF tps
  <2> QED
    BY <1>2, <2>3
<1>5. /\ hit' = IF delta = 0 THEN hit + 1 ELSE 0
      /\ longest' = IF delta # 0 THEN 0
                    ELSE IF us_sleep > longest THEN us_sleep ELSE longest
      /\ CASE hit' > Hits ->
                phase' = "matched" /\ UNCHANGED <<us_sleep, wind>>
           [] hit' <= Hits /\ (diff' + 1) % wind = 0 ->
                /\ us_sleep' = Corrected(delta) /\ wind' = wind + 1
                /\ phase' = IF delta = -1 /\ us_sleep' < 0 THEN "exit" ELSE "round"
           [] OTHER ->
                /\ phase' = IF run' < -Tolerance THEN "end" ELSE phase
                /\ UNCHANGED <<us_sleep, wind>>
  BY DEF RunCommand
<1>11. delta = 0 => ran' \div (elapsed' + 1) = speed
  <2>1. Runs + 1 - run = ran'
    BY <1>1, <1>2
  <2> HIDE DEF tps
  <2>2. delta = 0 => tps = speed
    BY <1>2, <1>4
  <2>3. tps = ran' \div (elapsed' + 1)
    BY <1>1, <2>1 DEF tps
  <2> QED
    BY <2>2, <2>3
<1> HIDE DEF tps, delta
<1>12. longest' = IF delta = 0 THEN us_sleep ELSE 0
  BY <1>1, <1>5
<1>6. hit' \in 0 .. Hits + 1
  BY <1>1, <1>2, <1>5
<1>7. run' \in -Tolerance - 1 .. Runs /\ ran' = Runs - run' /\ ran' \in Nat
  BY <1>1, <1>2
<1>8. CASE hit' > Hits
  <2>1. phase' = "matched" /\ UNCHANGED <<us_sleep, wind>>
    BY <1>2, <1>5, <1>6, <1>8
  <2>2. CalTypeOK'
    BY <1>1, <1>3, <1>6, <1>7, <1>12, <2>1 DEF CalInv, CalTypeOK
  <2>3. delta = 0
    BY <1>2, <1>5, <1>8
  <2> QED
    BY <1>1, <1>8, <1>11, <1>12, <2>1, <2>2, <2>3
       DEF CalInv, SleepSafe, WindowSafe, HitsBelow, RunInRound, LongestHit, MatchedIsMeasured
<1>9. CASE hit' <= Hits /\ (diff' + 1) % wind = 0
  <2>1. /\ us_sleep' = Corrected(delta) /\ wind' = wind + 1
        /\ phase' = IF delta = -1 /\ us_sleep' < 0 THEN "exit" ELSE "round"
    BY <1>2, <1>5, <1>6, <1>9
  <2>2. us_sleep' \in Int /\ (phase' = "round" => us_sleep' >= 0)
    BY <1>1, <1>4, <2>1, CorrectedSleep
  <2>3. CalTypeOK'
    BY <1>1, <1>3, <1>6, <1>7, <1>12, <2>1, <2>2 DEF CalInv, CalTypeOK
  <2>4. phase' = "round" => longest' <= us_sleep'
    <3>1. delta = 0 => us_sleep' = us_sleep + Medium /\ Medium \in Nat
      BY <2>1, ScaleAssumption DEF Corrected
    <3> QED
      BY <1>1, <1>12, <2>2, <3>1
  <2> QED
    BY <1>1, <1>2, <1>9, <2>1, <2>2, <2>3, <2>4
       DEF CalInv, SleepSafe, WindowSafe, HitsBelow, RunInRound, LongestHit, MatchedIsMeasured
<1>10. CASE hit' <= Hits /\ (diff' + 1) % wind # 0
  <2>1. /\ phase' = IF run' < -Tolerance THEN "end" ELSE phase
        /\ UNCHANGED <<us_sleep, wind>>
    BY <1>2, <1>5, <1>6, <1>10
  <2>2. CalTypeOK'
    BY <1>1, <1>3, <1>6, <1>7, <1>12, <2>1 DEF CalInv, CalTypeOK
  <2>3. longest' <= us_sleep'
    BY <1>1, <1>12, <2>1
  <2> QED
    BY <1>1, <1>2, <1>7, <1>10, <2>1, <2>2, <2>3
       DEF CalInv, SleepSafe, WindowSafe, HitsBelow, RunInRound, LongestHit, MatchedIsMeasured
<1> QED
  BY <1>2, <1>6, <1>8, <1>9, <1>10

LEMMA TimeOverCal == ASSUME CalInv, TimeOver PROVE CalInv'
<1>1. phase = "run" /\ phase' = "end" /\ diff > Dur /\ UNCHANGED Dur
      /\ UNCHANGED <<args, speed, us_sleep, wind, diff, run, hit, elapsed, ran, longest>>
  BY DEF TimeOver, config, Dur
<1>2. CalTypeOK'
  BY <1>1 DEF CalInv, CalTypeOK
<1> QED
  BY <1>1, <1>2 DEF CalInv, SleepSafe, WindowSafe, HitsBelow, RunInRound, LongestHit, MatchedIsMeasured

\* At the end of a round the sleep is shortened by a constant, and checked.
LEMMA EndCal == ASSUME CalInv, EndRound PROVE CalInv'
<1>1. /\ Runs \in Nat /\ Tolerance \in Nat /\ Big \in Nat /\ us_sleep \in Nat /\ run \in Int
      /\ wind >= 1 /\ hit <= Hits /\ phase = "end" /\ ran = Runs - run
      /\ longest \in Nat /\ (longest <= us_sleep \/ diff > Dur)
      /\ (run < -Tolerance \/ diff > Dur) /\ (ran > 0 => diff = elapsed) /\ UNCHANGED Dur
      /\ UNCHANGED <<args, speed, wind, diff, run, hit, elapsed, ran, longest>>
  BY Numbers DEF CalInv, SleepSafe, WindowSafe, HitsBelow, RunInRound, LongestHit, EndRound,
                 config, Dur
<1>2. \/ run \in -Tolerance .. Tolerance /\ phase' = "matched" /\ us_sleep' = us_sleep
      \/ phase' = "round" /\ us_sleep' = us_sleep + Big
      \/ run > Tolerance /\ us_sleep' = us_sleep - Big /\ phase' = IF us_sleep' < 0 THEN "exit" ELSE "round"
  <2>1. CASE run \in -Tolerance .. Tolerance
    BY <1>1, <2>1 DEF EndRound
  <2>2. CASE run < -Tolerance
    BY <1>1, <2>2 DEF EndRound
  <2>3. CASE run > Tolerance
    BY <1>1, <2>3 DEF EndRound
  <2> QED
    BY <1>1, <2>1, <2>2, <2>3
<1>3. /\ us_sleep' \in Int /\ (phase' = "round" => us_sleep' >= 0)
      /\ phase' \in {"matched", "round", "exit"}
      /\ phase' = "round" => longest <= us_sleep' \/ diff > Dur
      /\ phase' = "matched" => ran \in Runs - Tolerance .. Runs + Tolerance /\ elapsed > Dur
  <2>1. CASE run \in -Tolerance .. Tolerance /\ phase' = "matched" /\ us_sleep' = us_sleep
    <3>1. Runs > Tolerance
      BY ScaleAssumption
    <3>2. diff > Dur /\ ran > 0
      BY <1>1, <2>1, <3>1
    <3> QED
      BY <1>1, <2>1, <3>2
  <2>2. CASE phase' = "round" /\ us_sleep' = us_sleep + Big
    BY <1>1, <2>2
  <2>3. CASE /\ run > Tolerance /\ us_sleep' = us_sleep - Big
             /\ phase' = IF us_sleep' < 0 THEN "exit" ELSE "round"
    BY <1>1, <2>3
  <2> QED
    BY <1>2, <2>1, <2>2, <2>3
<1>4. CalTypeOK'
  BY <1>1, <1>3 DEF CalInv, CalTypeOK
<1> QED
  BY <1>1, <1>3, <1>4 DEF CalInv, SleepSafe, WindowSafe, HitsBelow, RunInRound, LongestHit, MatchedIsMeasured

LEMMA CalInvNext == ASSUME CalInv, [CalNext]_calVars PROVE CalInv'
<1>1. CASE Finished \/ UNCHANGED calVars
  <2>1. UNCHANGED <<phase, args, speed, us_sleep, wind, diff, run, hit, elapsed, ran, longest>>
    BY <1>1 DEF Finished, calVars
  <2>2. CalTypeOK' /\ UNCHANGED Dur
    BY <2>1 DEF CalInv, CalTypeOK, Dur
  <2> QED
    BY <2>1, <2>2 DEF CalInv, SleepSafe, WindowSafe, HitsBelow, RunInRound, LongestHit, MatchedIsMeasured
<1> QED
  BY <1>1, ParseCal, MeasureCal, RoundCal, RunCommandCal, TimeOverCal, EndCal
     DEF CalNext, Calibrate

LEMMA CalInvAlways == CalSpec => []CalInv
<1>1. CalInit => CalInv
  BY CalInvInit
<1>2. CalInv /\ [CalNext]_calVars => CalInv'
  BY CalInvNext
<1> QED
  BY <1>1, <1>2, PTL DEF CalSpec

\* Whatever the scale of a round, the arguments and the times: usleep never gets
\* a negative number, and the window never divides by 0.
THEOREM CalibrateArithmetic == CalSpec => []ArithmeticSafe
<1>1. CalInv => ArithmeticSafe
  BY DEF CalInv, SleepSafe, WindowSafe, ArithmeticSafe
<1> QED
  BY <1>1, CalInvAlways, PTL

\* A match prints a sleep at which the last round gave the wanted speed, and that
\* no hit counted for it exceeds, or which let as many commands run as a round
\* should have, within the tolerance, in the whole time of one.
THEOREM CalibrateMatches == CalSpec => []MatchedIsMeasured
<1>1. CalInv => MatchedIsMeasured
  BY DEF CalInv
<1> QED
  BY <1>1, CalInvAlways, PTL
-----------------------------------------------------------------------------
(* JobXml *)

CallType == /\ program \in {"combine", "filter", "insert"}
            /\ files \in Seq(Seq(SUBSET Pattern) \ {<<>>}) \ {<<>>} /\ t_pos \in Nat
            /\ taskfile \in Seq(Seq(Piece)) \cup {Missing}

\* Where the current record is: at a line, or behind the last file.
AtType == /\ at = <<at[1], at[2]>>
          /\ \/ at[1] \in 1 .. Len(files) /\ at[2] \in 1 .. Len(files[at[1]])
             \/ at[1] = Len(files) + 1 /\ at[2] = 1

JobType == /\ CallType /\ AtType
           /\ pc \in {"taskfile", "main", "getline", "done"}
           /\ pc = "done" => Eof

LEMMA LinesAre ==
  ASSUME CallType, NEW c
  PROVE  c \in Lines <=> \E g \in 1 .. Len(files) : \E k \in 1 .. Len(files[g]) : c = <<g, k>>
<1>1. DOMAIN files = 1 .. Len(files)
  BY DEF CallType
<1>2. \A g \in DOMAIN files : DOMAIN files[g] = 1 .. Len(files[g])
  BY DEF CallType
<1> QED
  BY <1>1, <1>2 DEF Lines

\* A file has lines, and a line is a set of patterns.
LEMMA FileType ==
  ASSUME CallType, NEW g \in 1 .. Len(files)
  PROVE  /\ DOMAIN files = 1 .. Len(files) /\ Len(files) \in Nat \ {0}
         /\ files[g] \in Seq(SUBSET Pattern)
         /\ DOMAIN files[g] = 1 .. Len(files[g]) /\ Len(files[g]) \in Nat \ {0}
  BY DEF CallType

\* The lines in front of the next record are those in front of this one, and it.
LEMMA Advance ==
  ASSUME CallType, AtType, ~ Eof
  PROVE  /\ at \in Lines /\ at[1] \in 1 .. Len(files) /\ at[2] \in 1 .. Len(files[at[1]])
         /\ NextLine = <<NextLine[1], NextLine[2]>>
         /\ \/ NextLine[1] \in 1 .. Len(files) /\ NextLine[2] \in 1 .. Len(files[NextLine[1]])
            \/ NextLine[1] = Len(files) + 1 /\ NextLine[2] = 1
         /\ \A c \in Lines : Before(c, NextLine) <=> Before(c, at) \/ c = at
         /\ Before(at, NextLine)
<1>1. Len(files) \in Nat \ {0}
  BY DEF CallType
<1>2. at[1] \in 1 .. Len(files) /\ at[2] \in 1 .. Len(files[at[1]])
  BY <1>1 DEF AtType, Eof
<1>3. at \in Lines
  BY <1>2, LinesAre DEF AtType
<1>4. Len(files[at[1]]) \in Nat \ {0} /\ at[1] \in Nat /\ at[2] \in Nat
      /\ at = <<at[1], at[2]>>
  BY <1>1, <1>2, FileType DEF AtType
<1>5. CASE at[2] < Len(files[at[1]])
  <2>1. NextLine = <<at[1], at[2] + 1>>
    BY <1>5 DEF NextLine
  <2>2. \A c \in Lines : Before(c, NextLine) <=> Before(c, at) \/ c = at
    <3> SUFFICES ASSUME NEW c \in Lines PROVE Before(c, NextLine) <=> Before(c, at) \/ c = at
      OBVIOUS
    <3>1. PICK g \in 1 .. Len(files) : \E k \in 1 .. Len(files[g]) : c = <<g, k>>
      BY LinesAre
    <3>2. PICK k \in 1 .. Len(files[g]) : c = <<g, k>>
      BY <3>1
    <3>3. g \in Nat /\ k \in Nat /\ c[1] = g /\ c[2] = k
      BY <1>1, <3>2, FileType
    <3> QED
      BY <1>4, <2>1, <3>2, <3>3 DEF Before
  <2>3. Before(at, NextLine)
    BY <1>4, <2>1 DEF Before
  <2> QED
    BY <1>2, <1>3, <1>4, <1>5, <2>1, <2>2, <2>3
<1>6. CASE ~ (at[2] < Len(files[at[1]]))
  <2>1. NextLine = <<at[1] + 1, 1>> /\ at[2] = Len(files[at[1]])
    BY <1>2, <1>4, <1>6 DEF NextLine, NextFile
  <2>2. \A c \in Lines : Before(c, NextLine) <=> Before(c, at) \/ c = at
    <3> SUFFICES ASSUME NEW c \in Lines PROVE Before(c, NextLine) <=> Before(c, at) \/ c = at
      OBVIOUS
    <3>1. PICK g \in 1 .. Len(files) : \E k \in 1 .. Len(files[g]) : c = <<g, k>>
      BY LinesAre
    <3>2. PICK k \in 1 .. Len(files[g]) : c = <<g, k>>
      BY <3>1
    <3>3. g \in Nat /\ k \in Nat /\ k >= 1 /\ k <= Len(files[g]) /\ c[1] = g /\ c[2] = k
      BY <1>1, <3>2, FileType
    <3> QED
      BY <1>4, <2>1, <3>2, <3>3 DEF Before
  <2>3. Before(at, NextLine)
    BY <1>4, <2>1 DEF Before
  <2>4. at[1] + 1 <= Len(files) => 1 \in 1 .. Len(files[at[1] + 1])
    BY <1>1, <1>4, FileType
  <2> QED
    BY <1>1, <1>2, <1>3, <1>4, <2>1, <2>2, <2>3, <2>4
<1> QED
  BY <1>5, <1>6

\* Behind the last file every line is in front.
LEMMA AllBefore ==
  ASSUME CallType, AtType, Eof
  PROVE  \A c \in Lines : Before(c, at)
<1> SUFFICES ASSUME NEW c \in Lines PROVE Before(c, at)
  OBVIOUS
<1>1. Len(files) \in Nat \ {0}
  BY DEF CallType
<1>2. at[1] = Len(files) + 1
  BY <1>1 DEF AtType, Eof
<1>3. PICK g \in 1 .. Len(files) : \E k \in 1 .. Len(files[g]) : c = <<g, k>>
  BY LinesAre
<1> QED
  BY <1>1, <1>2, <1>3 DEF Before

-----------------------------------------------------------------------------
(* The types are inductive. *)

LEMMA CallsTyped ==
  ASSUME JobInit
  PROVE  JobType
<1>1. PICK c \in Calls : /\ program = c.program /\ files = c.files
                         /\ t_pos = c.t_pos /\ taskfile = c.taskfile
  BY DEF JobInit
<1>2. CallType
  BY <1>1, CallAssumption DEF CallType
<1>3. 1 \in 1 .. Len(files) /\ 1 \in 1 .. Len(files[1]) /\ at = <<1, 1>>
  BY <1>2, FileType DEF JobInit, CallType
<1>4. pc \in {"taskfile", "main"}
  BY DEF JobInit
<1> QED
  BY <1>2, <1>3, <1>4 DEF JobType, AtType

\* awk goes to the next line, or with nextfile to the next file.
LEMMA RecordNext ==
  ASSUME CallType, AtType, ~ Eof, UNCHANGED input, at' \in {NextLine, NextFile}
  PROVE  AtType'
<1>1. UNCHANGED <<files>>
  BY DEF input
<1>2. CASE at' = NextLine
  BY <1>1, <1>2, Advance DEF AtType
<1>3. CASE at' = NextFile
  <2>1. at[1] \in 1 .. Len(files) /\ Len(files) \in Nat
    BY Advance DEF CallType
  <2>2. at[1] + 1 <= Len(files) => 1 \in 1 .. Len(files[at[1] + 1])
    BY <2>1, FileType
  <2>3. at' = <<at[1] + 1, 1>> /\ at'[1] = at[1] + 1 /\ at'[2] = 1
    BY <1>3 DEF NextFile
  <2> QED
    BY <1>1, <2>1, <2>2, <2>3 DEF AtType
<1> QED
  BY <1>2, <1>3

LEMMA JobTypeNext ==
  ASSUME JobType, [JobNext]_jobVars
  PROVE  JobType'
<1> USE DEF JobType
<1>1. ASSUME UNCHANGED <<input, at>>, pc' \in {"taskfile", "main", "getline", "done"},
             pc' = "done" => Eof
      PROVE  JobType'
  BY <1>1 DEF CallType, AtType, Eof, input
<1>2. ASSUME ~ Eof, UNCHANGED input, at' \in {NextLine, NextFile},
             pc' \in {"taskfile", "main", "getline"}
      PROVE  JobType'
  BY <1>2, RecordNext DEF CallType, input
<1>3. CASE HeadRule
  BY <1>2, <1>3 DEF HeadRule, PrintOnce, Main
<1>4. CASE Getline
  BY <1>2, <1>4 DEF Getline
<1>5. CASE Body
  BY <1>2, <1>5 DEF Body, Main
<1>6. CASE Filter
  BY <1>2, <1>6 DEF Filter, Main
<1>7. CASE ReadPiece \/ EndOfTask
  BY <1>1, <1>7 DEF ReadPiece, EndOfTask, Reading
<1>8. CASE TaskFileRead
  BY <1>1, <1>8 DEF TaskFileRead, Reading
<1>9. CASE Insert
  BY <1>2, <1>9 DEF Insert, Main
<1>10. CASE End
  BY <1>1, <1>10 DEF End
<1>11. CASE Over \/ UNCHANGED jobVars
  BY <1>1, <1>11 DEF Over, jobVars
<1> QED
  BY <1>3, <1>4, <1>5, <1>6, <1>7, <1>8, <1>9, <1>10, <1>11 DEF JobNext, Awk

\* The call and the position of the record keep their types; a program is at its
\* end only when awk has read the last line of the last file.
THEOREM JobTypeCorrect == JobSpec => []JobType
<1>1. JobInit => JobType
  BY CallsTyped
<1>2. JobType /\ [JobNext]_jobVars => JobType'
  BY JobTypeNext
<1> QED
  BY <1>1, <1>2, PTL DEF JobSpec


\* A block that is open behind line k is one that covers it and does not end there.
LEMMA OpenedNext ==
  ASSUME NEW g, NEW k \in Nat \ {0}, NEW first, NEW last
  PROVE  /\ Opened(g, k + 1, first, last) <=> In(g, k, first, last) /\ last \notin files[g][k]
         /\ ~ Opened(g, 1, first, last)
<1>1. ~ Opened(g, 1, first, last)
  BY DEF Opened
<1>2. ASSUME Opened(g, k + 1, first, last)
      PROVE  In(g, k, first, last) /\ last \notin files[g][k]
  <2>1. PICK u \in 1 .. k : first \in files[g][u] /\ \A l \in u .. k : last \notin files[g][l]
    BY <1>2 DEF Opened
  <2>2. last \notin files[g][k]
    BY <2>1
  <2>3. u # k => Opened(g, k, first, last)
    BY <2>1 DEF Opened
  <2> QED
    BY <2>1, <2>2, <2>3 DEF In
<1>3. ASSUME In(g, k, first, last), last \notin files[g][k]
      PROVE  Opened(g, k + 1, first, last)
  <2>1. CASE first \in files[g][k]
    <3>1. k \in 1 .. k /\ \A l \in k .. k : last \notin files[g][l]
      BY <1>3
    <3> QED
      BY <2>1, <3>1 DEF Opened
  <2>2. CASE Opened(g, k, first, last)
    <3>1. PICK u \in 1 .. k - 1 :
            first \in files[g][u] /\ \A l \in u .. k - 1 : last \notin files[g][l]
      BY <2>2 DEF Opened
    <3>2. u \in 1 .. k /\ \A l \in u .. k : last \notin files[g][l]
      BY <1>3, <3>1
    <3> QED
      BY <3>1, <3>2 DEF Opened
  <2> QED
    BY <1>3, <2>1, <2>2 DEF In
<1> QED
  BY <1>1, <1>2, <1>3

\* The lines of q come in the order of the files.
Sorted(q) == \A j, k \in 1 .. Len(q) : j < k => Before(q[j], q[k])

LEMMA JoinSorted ==
  ASSUME NEW S, NEW p \in Seq(S), NEW q \in Seq(S), Sorted(p), Sorted(q),
         \A c \in ToSet(p), d \in ToSet(q) : Before(c, d)
  PROVE  p \o q \in Seq(S) /\ Sorted(p \o q) /\ ToSet(p \o q) = ToSet(p) \cup ToSet(q)
<1> DEFINE r == p \o q
<1>1. /\ r \in Seq(S) /\ Len(r) = Len(p) + Len(q) /\ Len(p) \in Nat /\ Len(q) \in Nat
      /\ DOMAIN r = 1 .. Len(r) /\ DOMAIN p = 1 .. Len(p) /\ DOMAIN q = 1 .. Len(q)
  OBVIOUS
<1>2. /\ \A k \in 1 .. Len(p) : r[k] = p[k] /\ k \in 1 .. Len(r)
      /\ \A k \in 1 .. Len(q) : r[Len(p) + k] = q[k] /\ Len(p) + k \in 1 .. Len(r)
      /\ \A k \in 1 .. Len(r) : ~ (k \in 1 .. Len(p)) =>
           k - Len(p) \in 1 .. Len(q) /\ r[k] = q[k - Len(p)]
  BY <1>1
<1> HIDE DEF r
<1>3. ToSet(r) = ToSet(p) \cup ToSet(q)
  <2>1. ASSUME NEW x \in ToSet(r) PROVE x \in ToSet(p) \cup ToSet(q)
    <3>1. PICK k \in 1 .. Len(r) : x = r[k]
      BY <1>1 DEF ToSet
    <3> QED
      BY <1>1, <1>2, <3>1 DEF ToSet
  <2>2. ASSUME NEW x \in ToSet(p) PROVE x \in ToSet(r)
    BY <1>1, <1>2 DEF ToSet
  <2>3. ASSUME NEW x \in ToSet(q) PROVE x \in ToSet(r)
    <3>1. PICK k \in 1 .. Len(q) : x = q[k]
      BY <1>1 DEF ToSet
    <3>2. Len(p) + k \in 1 .. Len(r) /\ r[Len(p) + k] = x
      BY <1>2, <3>1
    <3> QED
      BY <1>1, <3>2 DEF ToSet
  <2> QED
    BY <2>1, <2>2, <2>3
<1>4. Sorted(r)
  <2> SUFFICES ASSUME NEW j \in 1 .. Len(r), NEW k \in 1 .. Len(r), j < k
               PROVE  Before(r[j], r[k])
    BY DEF Sorted
  <2>1. CASE k \in 1 .. Len(p)
    <3>1. j \in 1 .. Len(p)
      BY <1>1, <2>1
    <3> QED
      BY <1>2, <2>1, <3>1 DEF Sorted
  <2>2. CASE k \notin 1 .. Len(p) /\ j \in 1 .. Len(p)
    <3>1. r[j] \in ToSet(p) /\ r[k] \in ToSet(q)
      BY <1>1, <1>2, <2>2 DEF ToSet
    <3> QED
      BY <3>1
  <2>3. CASE k \notin 1 .. Len(p) /\ j \notin 1 .. Len(p)
    <3>1. /\ j - Len(p) \in 1 .. Len(q) /\ k - Len(p) \in 1 .. Len(q)
          /\ r[j] = q[j - Len(p)] /\ r[k] = q[k - Len(p)]
      BY <1>2, <2>3
    <3>2. j - Len(p) < k - Len(p)
      BY <1>1
    <3> QED
      BY <3>1, <3>2 DEF Sorted
  <2> QED
    BY <2>1, <2>2, <2>3
<1> QED
  BY <1>1, <1>3, <1>4 DEF r

LEMMA AppendSorted ==
  ASSUME NEW S, NEW p \in Seq(S), Sorted(p), NEW c \in S, \A d \in ToSet(p) : Before(d, c)
  PROVE  /\ Append(p, c) \in Seq(S) /\ Sorted(Append(p, c))
         /\ ToSet(Append(p, c)) = ToSet(p) \cup {c}
<1>1. Append(p, c) = p \o <<c>> /\ <<c>> \in Seq(S) /\ Sorted(<<c>>) /\ ToSet(<<c>>) = {c}
  BY DEF Sorted, ToSet
<1> DEFINE q == <<c>>
<1>2. /\ q \in Seq(S) /\ Sorted(q) /\ ToSet(q) = {c}
      /\ \A d \in ToSet(p), e \in ToSet(q) : Before(d, e)
  BY <1>1
<1> HIDE DEF q
<1>3. p \o q \in Seq(S) /\ Sorted(p \o q) /\ ToSet(p \o q) = ToSet(p) \cup ToSet(q)
  BY <1>2, JoinSorted
<1> QED
  BY <1>1, <1>2, <1>3 DEF q
-----------------------------------------------------------------------------
(* filter.awk *)

\* What is held back, and what has been printed, is in order.
FilterOrder ==
  /\ Sorted(out) /\ Sorted(stage)
  /\ \A c \in ToSet(out), d \in ToSet(stage) : Before(c, d)
  /\ \A c \in ToSet(out) \cup ToSet(stage) : Before(c, at)

\* The lines of the recipe set that the current record may go on with.
Held == {c \in Lines : /\ c[1] = at[1] /\ c[2] < at[2] /\ InSet(c[1], c[2])
                       /\ \A l \in c[2] .. at[2] - 1 : "/recipeSet" \notin files[at[1]][l]}

\* Its lines are held back and decide about it; the others are decided.
FilterSets ==
  /\ "recipeSet" \in inside <=> Opened(at[1], at[2], "recipeSet", "/recipeSet")
  /\ ToSet(stage) = Held
  /\ debug <=> \E c \in Held : "debug" \in LineAt(c)
  /\ ToSet(out) = {c \in Lines : Before(c, at) /\ c \notin Held /\ Kept(c[1], c[2])}

FilterInv ==
  program = "filter" =>
    /\ pc \in {"main", "done"} /\ debug \in BOOLEAN
    /\ out \in Seq(Lines) /\ stage \in Seq(Lines)
    /\ SetsClosed => FilterOrder /\ FilterSets

\* The set that ends at the current record is the lines held back and this one.
LEMMA HeldIsSet ==
  ASSUME JobType, ~ Eof, InSet(at[1], at[2]), "/recipeSet" \in Line,
         NEW c \in Held \cup {at}
  PROVE  \A j \in 1 .. Len(files[at[1]]) :
           InSet(at[1], j) /\ SameSet(at[1], j, c[2]) <=> <<at[1], j>> \in Held \cup {at}
<1> DEFINE g == at[1]
           k == at[2]
<1>1. /\ g \in 1 .. Len(files) /\ k \in 1 .. Len(files[g]) /\ at = <<g, k>>
      /\ DOMAIN files[g] = 1 .. Len(files[g]) /\ Len(files[g]) \in Nat
      /\ "/recipeSet" \in files[g][k] /\ InSet(g, k)
  BY Advance, FileType DEF JobType, AtType, Line, LineAt
<1>2. c \in Lines /\ c[1] = g
  BY <1>1, Advance DEF Held, JobType
<1>3. c[2] \in 1 .. Len(files[g])
  <2>1. PICK h \in 1 .. Len(files) : \E u \in 1 .. Len(files[h]) : c = <<h, u>>
    BY <1>2, LinesAre DEF JobType
  <2> QED
    BY <1>2, <2>1
<1>4. c[2] <= k /\ \A l \in c[2] .. k - 1 : "/recipeSet" \notin files[g][l]
  <2>1. CASE c = at
    BY <1>1, <2>1
  <2>2. CASE c \in Held
    BY <1>1, <1>3, <2>2 DEF Held
  <2> QED
    BY <2>1, <2>2
<1> SUFFICES ASSUME NEW j \in 1 .. Len(files[g])
             PROVE  InSet(g, j) /\ SameSet(g, j, c[2]) <=> <<g, j>> \in Held \cup {at}
  OBVIOUS
<1>5. <<g, j>> \in Lines
  BY <1>1, LinesAre DEF JobType
<1>6. <<g, j>> \in Held <=>
        j < k /\ InSet(g, j) /\ \A l \in j .. k - 1 : "/recipeSet" \notin files[g][l]
  BY <1>5 DEF Held
<1>7. ASSUME InSet(g, j), SameSet(g, j, c[2]) PROVE <<g, j>> \in Held \cup {at}
  <2>1. j <= k
    BY <1>1, <1>3, <1>7, <1>4 DEF SameSet
  <2>2. \A l \in j .. k - 1 : "/recipeSet" \notin files[g][l]
    <3> SUFFICES ASSUME NEW l \in j .. k - 1, "/recipeSet" \in files[g][l] PROVE FALSE
      OBVIOUS
    <3>1. l \in 1 .. Len(files[g])
      BY <1>1
    <3>2. l < j <=> l < c[2]
      BY <1>1, <1>7, <3>1 DEF SameSet
    <3>3. l \in c[2] .. k - 1
      BY <1>1, <1>3, <3>1, <3>2
    <3> QED
      BY <1>4, <3>3
  <2> QED
    BY <1>1, <1>6, <1>7, <2>1, <2>2
<1>8. ASSUME <<g, j>> \in Held \cup {at} PROVE InSet(g, j) /\ SameSet(g, j, c[2])
  <2>1. /\ InSet(g, j) /\ j <= k
        /\ \A l \in j .. k - 1 : "/recipeSet" \notin files[g][l]
    BY <1>1, <1>6, <1>8
  <2>2. ASSUME NEW l \in 1 .. Len(files[g]), "/recipeSet" \in files[g][l]
        PROVE  l < j <=> l < c[2]
    <3>1. ~ (l \in j .. k - 1) /\ ~ (l \in c[2] .. k - 1)
      BY <1>4, <2>1, <2>2
    <3> QED
      BY <1>1, <1>4, <1>3, <2>1, <3>1
  <2> QED
    BY <1>1, <2>1, <2>2 DEF SameSet
<1> QED
  BY <1>7, <1>8


\* What is said of the files does not change.
LEMMA FilterFiles ==
  ASSUME UNCHANGED input
  PROVE  /\ Lines' = Lines /\ SetsClosed' = SetsClosed /\ UNCHANGED <<program, files>>
         /\ \A c : LineAt(c)' = LineAt(c)
         /\ \A g, k : InSet(g, k)' = InSet(g, k) /\ Kept(g, k)' = Kept(g, k)
         /\ \A g, k, first, last : Opened(g, k, first, last)' = Opened(g, k, first, last)
<1>1. UNCHANGED <<program, files>>
  BY DEF input
<1> QED
  BY <1>1 DEF Lines, SetsClosed, LineAt, InSet, In, Opened, Kept, SameSet

\* The range rule is open in front of the next record if it goes on behind this one.
LEMMA RangeNext ==
  ASSUME JobType, ~ Eof, NEW first, NEW last,
         first \in inside <=> Opened(at[1], at[2], first, last)
  PROVE  /\ Matches(first) <=> In(at[1], at[2], first, last)
         /\ first \in Open(first, last) <=> Opened(at[1], at[2] + 1, first, last)
<1>1. at[2] \in Nat \ {0} /\ Line = files[at[1]][at[2]]
  BY Advance, FileType DEF JobType, Line, LineAt
<1>2. Matches(first) <=> In(at[1], at[2], first, last)
  BY <1>1 DEF Matches, In
<1>3. Opened(at[1], at[2] + 1, first, last) <=>
        In(at[1], at[2], first, last) /\ last \notin Line
  BY <1>1, OpenedNext
<1> QED
  BY <1>2, <1>3 DEF Open

\* Lines are held back only for a set that the current record is in.
LEMMA HeldInSet ==
  ASSUME JobType, ~ Eof, NEW c \in Held
  PROVE  InSet(at[1], at[2])
<1> DEFINE g == at[1]
           k == at[2]
<1>1. /\ c \in Lines /\ c[1] = g /\ c[2] < k /\ InSet(g, c[2])
      /\ \A l \in c[2] .. k - 1 : "/recipeSet" \notin files[g][l]
  BY DEF Held
<1>2. c[2] \in Nat \ {0} /\ k \in Nat \ {0}
  BY <1>1, Advance, LinesAre, FileType DEF JobType
<1>3. PICK u \in 1 .. c[2] : /\ "recipeSet" \in files[g][u]
                            /\ \A l \in u .. c[2] - 1 : "/recipeSet" \notin files[g][l]
  BY <1>1, <1>2 DEF InSet, In, Opened
<1>4. u \in 1 .. k - 1 /\ \A l \in u .. k - 1 : "/recipeSet" \notin files[g][l]
  BY <1>1, <1>2, <1>3
<1> QED
  BY <1>3, <1>4 DEF InSet, In, Opened

LEMMA FilterNext ==
  ASSUME JobType, FilterInv, Filter
  PROVE  FilterInv'
<1> DEFINE g == at[1]
           k == at[2]
<1>1. /\ program = "filter" /\ pc = "main" /\ ~ Eof /\ UNCHANGED input
      /\ at' = NextLine /\ UNCHANGED <<pc, seen, curr_pos, tvars>>
      /\ inside' = Open("recipeSet", "/recipeSet")
  BY DEF Filter, Main
<1>2. /\ g \in 1 .. Len(files) /\ k \in 1 .. Len(files[g]) /\ at = <<g, k>> /\ at \in Lines
      /\ DOMAIN files[g] = 1 .. Len(files[g]) /\ Len(files[g]) \in Nat
      /\ Line = files[g][k] /\ LineAt(at) = Line
  BY <1>1, Advance, FileType DEF JobType, AtType, Line, LineAt
<1>3. /\ \A c \in Lines : Before(c, at') <=> Before(c, at) \/ c = at
      /\ NextLine = <<g, k + 1>> \/ (NextLine = <<g + 1, 1>> /\ k = Len(files[g]))
  BY <1>1, <1>2, Advance DEF JobType, NextLine, NextFile
<1>4. /\ Lines' = Lines /\ SetsClosed' = SetsClosed /\ UNCHANGED <<program, files>>
      /\ \A c : LineAt(c)' = LineAt(c)
      /\ \A h, l : InSet(h, l)' = InSet(h, l) /\ Kept(h, l)' = Kept(h, l)
      /\ \A h, l, first, last : Opened(h, l, first, last)' = Opened(h, l, first, last)
  BY <1>1, FilterFiles
<1>5. /\ debug \in BOOLEAN /\ out \in Seq(Lines) /\ stage \in Seq(Lines)
      /\ SetsClosed => FilterOrder /\ FilterSets
  BY <1>1 DEF FilterInv
<1>6. debug' \in BOOLEAN /\ out' \in Seq(Lines') /\ stage' \in Seq(Lines')
  <2>1. /\ Append(out, at) \in Seq(Lines) /\ Append(stage, at) \in Seq(Lines)
        /\ out \o Append(stage, at) \in Seq(Lines) /\ <<>> \in Seq(Lines)
    BY <1>2, <1>5
  <2>2. debug' \in BOOLEAN /\ out' \in Seq(Lines) /\ stage' \in Seq(Lines)
    BY <1>5, <2>1 DEF Filter, fvars
  <2> QED
    BY <1>4, <2>2
<1>7. ASSUME SetsClosed PROVE FilterOrder' /\ FilterSets'
  <2> DEFINE Rs == "recipeSet"
             Re == "/recipeSet"
  <2>1. /\ Rs \in inside <=> Opened(g, k, Rs, Re)
        /\ ToSet(stage) = Held
        /\ debug <=> \E c \in Held : "debug" \in LineAt(c)
        /\ ToSet(out) = {c \in Lines : Before(c, at) /\ c \notin Held /\ Kept(c[1], c[2])}
        /\ Sorted(out) /\ Sorted(stage)
        /\ \A c \in ToSet(out), d \in ToSet(stage) : Before(c, d)
        /\ \A c \in ToSet(out) \cup ToSet(stage) : Before(c, at)
    BY <1>5, <1>7 DEF FilterOrder, FilterSets
  <2>2. /\ Matches(Rs) <=> InSet(g, k)
        /\ Rs \in inside' <=> Opened(g, k + 1, Rs, Re)
        /\ Opened(g, k + 1, Rs, Re) <=> InSet(g, k) /\ Re \notin Line
        /\ ~ Opened(g + 1, 1, Rs, Re)
    <3>1. k \in Nat \ {0}
      BY <1>2
    <3>2. /\ ~ Opened(g + 1, 1, Rs, Re)
          /\ Opened(g, k + 1, Rs, Re) <=> In(g, k, Rs, Re) /\ Re \notin files[g][k]
      BY <3>1, OpenedNext
    <3>3. Matches(Rs) <=> In(g, k, Rs, Re)
      BY <1>1, <2>1, RangeNext
    <3>4. Rs \in Open(Rs, Re) <=> Opened(g, k + 1, Rs, Re)
      BY <1>1, <2>1, RangeNext
    <3> QED
      BY <1>1, <1>2, <3>2, <3>3, <3>4 DEF InSet
  <2>3. /\ InSet(g, k) /\ Re \notin Line => k # Len(files[g])
        /\ ~ {"debug", "/recipeSet"} \subseteq Line
    <3>1. /\ InSet(g, k) => \E l \in DOMAIN files[g] : l >= k /\ Re \in files[g][l]
          /\ ~ {"debug", "/recipeSet"} \subseteq Line
      BY <1>2, <1>7 DEF SetsClosed
    <3> QED
      BY <1>2, <3>1
  <2>4. Rs \in inside' <=> Opened(at'[1], at'[2], Rs, Re)
    BY <1>1, <1>2, <1>3, <2>2, <2>3
  <2>5. Held' = IF InSet(g, k) /\ Re \notin Line THEN Held \cup {at} ELSE {}
    <3>1. Held' = {c \in Lines : /\ c[1] = at'[1] /\ c[2] < at'[2] /\ InSet(c[1], c[2])
                                 /\ \A l \in c[2] .. at'[2] - 1 : Re \notin files[at'[1]][l]}
      BY <1>4 DEF Held
    <3>2. \A c \in Lines : c[1] \in Nat /\ c[2] \in Nat \ {0} /\ c = <<c[1], c[2]>>
      BY LinesAre, FileType DEF JobType
    <3>3. CASE NextLine = <<g + 1, 1>>
      <4>1. Held' = {}
        BY <1>1, <1>2, <3>1, <3>2, <3>3
      <4> QED
        BY <1>2, <1>3, <2>3, <3>3, <4>1
    <3>4. CASE NextLine = <<g, k + 1>>
      <4>1. Held' = {c \in Lines : /\ c[1] = g /\ c[2] < k + 1 /\ InSet(c[1], c[2])
                                   /\ \A l \in c[2] .. k : Re \notin files[g][l]}
        BY <1>1, <1>2, <3>1, <3>4
      <4>2. CASE Re \in Line
        <5>1. \A c \in Lines : c[2] < k + 1 => k \in c[2] .. k
          BY <1>2, <3>2
        <5> QED
          BY <1>2, <4>1, <4>2, <5>1
      <4>3. CASE Re \notin Line
        <5>1. ASSUME NEW c \in Lines
              PROVE  c \in Held' <=> c \in Held \/ (c = at /\ InSet(g, k))
          <6>1. CASE c[1] = g /\ c[2] = k
            <7>1. c = at /\ c \notin Held
              BY <1>2, <3>2, <6>1 DEF Held
            <7> QED
              BY <1>2, <4>1, <4>3, <6>1, <7>1
          <6>2. CASE c[2] # k \/ c[1] # g
            <7>1. c # at /\ (c[2] < k + 1 <=> c[2] < k \/ c[2] = k)
              BY <1>2, <3>2, <6>2
            <7>2. c[2] < k => ((\A l \in c[2] .. k : Re \notin files[g][l]) <=>
                               (\A l \in c[2] .. k - 1 : Re \notin files[g][l]))
              BY <1>2, <3>2, <4>3
            <7> QED
              BY <4>1, <6>2, <7>1, <7>2 DEF Held
          <6> QED
            BY <6>1, <6>2
        <5>2. InSet(g, k) \/ Held = {}
          BY <1>1, HeldInSet
        <5>3. Held' \subseteq Lines /\ Held \subseteq Lines
          BY <4>1 DEF Held
        <5> QED
          BY <1>2, <4>3, <5>1, <5>2, <5>3
      <4> QED
        BY <4>2, <4>3
    <3> QED
      BY <1>3, <3>3, <3>4
  <2>6. /\ Held \subseteq Lines /\ at \notin Held
        /\ \A c \in Lines : Before(c, at) => c # at
        /\ \A c \in Held : Before(c, at)
    <3>1. \A c \in Lines : c[1] \in Nat /\ c[2] \in Nat
      BY LinesAre, FileType DEF JobType
    <3> QED
      BY <1>2, <3>1 DEF Held, Before
  <2>7. CASE ~ InSet(g, k)
    <3>1. out' = Append(out, at) /\ UNCHANGED <<stage, debug>>
      BY <2>2, <2>7 DEF Filter, SetEnds, fvars
    <3>2. Held' = {} /\ Held = {}
      BY <1>1, <2>5, <2>7, HeldInSet
    <3>3. /\ Sorted(out') /\ ToSet(out') = ToSet(out) \cup {at}
      BY <1>2, <1>5, <2>1, <3>1, AppendSorted
    <3>4. Kept(g, k)
      BY <2>7 DEF Kept
    <3>5. ToSet(out') = {c \in Lines : Before(c, at') /\ c \notin {} /\ Kept(c[1], c[2])}
      BY <1>2, <1>3, <2>1, <3>2, <3>3, <3>4
    <3>6. FilterSets'
      BY <1>4, <2>1, <2>4, <3>1, <3>2, <3>5 DEF FilterSets
    <3>7. FilterOrder'
      BY <1>3, <2>1, <2>6, <3>1, <3>2, <3>3, <3>5 DEF FilterOrder
    <3> QED
      BY <3>6, <3>7
  <2>8. CASE InSet(g, k) /\ Re \notin Line
    <3>1. /\ out' = out /\ stage' = Append(stage, at)
          /\ debug' = (debug \/ "debug" \in Line)
      BY <1>5, <2>2, <2>8 DEF Filter, SetEnds
    <3>2. Held' = Held \cup {at}
      BY <2>5, <2>8
    <3>3. Sorted(stage') /\ ToSet(stage') = ToSet(stage) \cup {at}
      BY <1>2, <1>5, <2>1, <3>1, AppendSorted
    <3>4. ToSet(out') = {c \in Lines : Before(c, at') /\ c \notin Held' /\ Kept(c[1], c[2])}
      BY <1>3, <2>1, <2>6, <3>1, <3>2
    <3>5. debug' <=> \E c \in Held' : "debug" \in LineAt(c)
      BY <1>2, <2>1, <3>1, <3>2
    <3>6. FilterSets'
      BY <1>4, <2>1, <2>4, <3>2, <3>3, <3>4, <3>5 DEF FilterSets
    <3>7. FilterOrder'
      BY <1>2, <1>3, <2>1, <2>6, <3>1, <3>2, <3>3 DEF FilterOrder
    <3> QED
      BY <3>6, <3>7
  <2>9. CASE InSet(g, k) /\ Re \in Line
    <3>1. /\ out' = IF debug THEN out ELSE out \o Append(stage, at)
          /\ stage' = <<>> /\ debug' = FALSE
      BY <1>5, <2>2, <2>3, <2>9 DEF Filter, SetEnds
    <3>2. Held' = {}
      BY <2>5, <2>9
    <3>3. Append(stage, at) \in Seq(Lines) /\ Sorted(Append(stage, at))
          /\ ToSet(Append(stage, at)) = Held \cup {at}
      BY <1>2, <1>5, <2>1, AppendSorted
    <3>4. /\ Sorted(out \o Append(stage, at))
          /\ ToSet(out \o Append(stage, at)) = ToSet(out) \cup (Held \cup {at})
      <4> DEFINE q == Append(stage, at)
      <4>1. q \in Seq(Lines) /\ Sorted(q) /\ \A c \in ToSet(out), d \in ToSet(q) : Before(c, d)
        BY <2>1, <3>3
      <4> HIDE DEF q
      <4>2. Sorted(out \o q) /\ ToSet(out \o q) = ToSet(out) \cup ToSet(q)
        BY <1>5, <2>1, <4>1, JoinSorted
      <4> QED
        BY <3>3, <4>2 DEF q
    <3>5. \A c \in Held \cup {at} : Kept(c[1], c[2]) <=> ~ debug
      <4> SUFFICES ASSUME NEW c \in Held \cup {at} PROVE Kept(c[1], c[2]) <=> ~ debug
        OBVIOUS
      <4>1. c[1] = g /\ InSet(c[1], c[2])
        BY <1>2, <2>9 DEF Held
      <4>2. \A j \in DOMAIN files[g] :
              InSet(g, j) /\ SameSet(g, j, c[2]) <=> <<g, j>> \in Held \cup {at}
        BY <1>1, <1>2, <2>9, HeldIsSet
      <4>3. Kept(c[1], c[2]) <=>
              \A j \in DOMAIN files[g] :
                <<g, j>> \in Held \cup {at} => "debug" \notin files[g][j]
        BY <4>1, <4>2 DEF Kept
      <4>4. /\ \A d \in Held \cup {at} : \E j \in DOMAIN files[g] : d = <<g, j>>
            /\ \A j \in DOMAIN files[g] : LineAt(<<g, j>>) = files[g][j]
        <5>1. \A d \in Held : d \in Lines /\ d[1] = g
          BY DEF Held
        <5>2. \A d \in Lines : d[1] = g => \E j \in DOMAIN files[g] : d = <<g, j>>
          BY <1>2, LinesAre DEF JobType
        <5> QED
          BY <1>2, <5>1, <5>2 DEF LineAt
      <4>5. Kept(c[1], c[2]) <=> \A d \in Held \cup {at} : "debug" \notin LineAt(d)
        BY <4>3, <4>4
      <4>6. "debug" \notin LineAt(at)
        BY <1>2, <2>3, <2>9
      <4> QED
        BY <2>1, <4>5, <4>6
    <3>6. /\ Sorted(out')
          /\ ToSet(out') = {c \in Lines : Before(c, at') /\ c \notin Held' /\ Kept(c[1], c[2])}
      <4>1. \A c \in Lines : Before(c, at') <=> (Before(c, at) /\ c \notin Held) \/ c \in Held \cup {at}
        BY <1>3, <2>6
      <4>2. CASE debug
        BY <2>1, <2>6, <3>1, <3>2, <3>5, <4>1, <4>2
      <4>3. CASE ~ debug
        BY <1>2, <2>1, <2>6, <3>1, <3>2, <3>4, <3>5, <4>1, <4>3
      <4> QED
        BY <4>2, <4>3
    <3>7. Sorted(stage') /\ ToSet(stage') = {}
      BY <3>1 DEF Sorted, ToSet
    <3>8. FilterSets'
      BY <1>4, <2>4, <3>1, <3>2, <3>6, <3>7 DEF FilterSets
    <3>9. FilterOrder'
      BY <3>6, <3>7 DEF FilterOrder
    <3> QED
      BY <3>8, <3>9
  <2> QED
    BY <2>7, <2>8, <2>9
<1> QED
  BY <1>1, <1>4, <1>5, <1>6, <1>7 DEF FilterInv

LEMMA FilterInitially ==
  ASSUME JobInit
  PROVE  FilterInv
<1>1. JobType /\ at = <<1, 1>> /\ inside = {} /\ stage = <<>> /\ debug = FALSE /\ out = <<>>
  BY CallsTyped DEF JobInit
<1>2. \A c \in Lines : c[1] \in Nat /\ c[1] >= 1 /\ c[2] \in Nat /\ c[2] >= 1
  BY <1>1, LinesAre, FileType DEF JobType
<1>3. \A c \in Lines : ~ Before(c, at)
  BY <1>1, <1>2 DEF Before
<1>4. Held = {}
  BY <1>1, <1>2 DEF Held
<1>5. ToSet(<<>>) = {} /\ <<>> \in Seq(Lines) /\ Sorted(<<>>)
  BY DEF ToSet, Sorted
<1>6. FilterSets
  <2>1. ~ Opened(at[1], at[2], "recipeSet", "/recipeSet")
    BY <1>1 DEF Opened
  <2> QED
    BY <1>1, <1>3, <1>4, <1>5, <2>1 DEF FilterSets
<1>7. FilterOrder
  BY <1>1, <1>5 DEF FilterOrder
<1> QED
  BY <1>1, <1>5, <1>6, <1>7 DEF FilterInv, JobInit

LEMMA FilterInductive ==
  ASSUME JobType, FilterInv, [JobNext]_jobVars
  PROVE  FilterInv'
<1>1. ASSUME UNCHANGED <<input, at, inside, fvars, out>>,
             program = "filter" => pc' \in {"main", "done"}
      PROVE  FilterInv'
  <2>1. /\ Lines' = Lines /\ SetsClosed' = SetsClosed /\ UNCHANGED <<program, files>>
        /\ \A c : LineAt(c)' = LineAt(c)
        /\ \A h, l : InSet(h, l)' = InSet(h, l) /\ Kept(h, l)' = Kept(h, l)
        /\ \A h, l, first, last : Opened(h, l, first, last)' = Opened(h, l, first, last)
    BY <1>1, FilterFiles
  <2>2. Held' = Held
    BY <1>1, <2>1 DEF Held
  <2>3. FilterOrder' = FilterOrder
    BY <1>1 DEF FilterOrder, Sorted, Before, fvars
  <2>4. FilterSets => FilterSets'
    BY <1>1, <2>1, <2>2 DEF FilterSets, Before, fvars
  <2> QED
    BY <1>1, <2>1, <2>3, <2>4 DEF FilterInv, fvars
<1>2. ASSUME program # "filter", UNCHANGED input
      PROVE  FilterInv'
  BY <1>2 DEF FilterInv, input
<1>3. CASE HeadRule \/ Body \/ Insert
  BY <1>2, <1>3 DEF HeadRule, Body, Insert, Main
<1>4. CASE Getline \/ ReadPiece \/ EndOfTask \/ TaskFileRead
  BY <1>2, <1>4 DEF Getline, ReadPiece, EndOfTask, TaskFileRead, Reading, FilterInv
<1>5. CASE Filter
  BY <1>5, FilterNext
<1>6. CASE End
  BY <1>1, <1>6 DEF End, cvars
<1>7. CASE Over \/ UNCHANGED jobVars
  BY <1>1, <1>7 DEF Over, jobVars, cvars, FilterInv
<1> QED
  BY <1>3, <1>4, <1>5, <1>6, <1>7 DEF JobNext, Awk

\* At the end nothing is held back: a set that were open would not be closed.
LEMMA FilterDone ==
  ASSUME JobType, FilterInv
  PROVE  FilterSelects
<1> SUFFICES ASSUME program = "filter", pc = "done", SetsClosed
             PROVE  InOrder /\ ToSet(out) = {c \in Lines : Kept(c[1], c[2])}
  BY DEF FilterSelects
<1>1. FilterOrder /\ FilterSets /\ Eof /\ out \in Seq(Lines)
  BY DEF FilterInv, JobType
<1>2. \A c \in Lines : Before(c, at)
  BY <1>1, AllBefore DEF JobType
<1>3. Held = {}
  BY <1>1, LinesAre DEF Held, JobType, Eof
<1> QED
  BY <1>1, <1>2, <1>3 DEF FilterSets, FilterOrder, InOrder, Sorted

-----------------------------------------------------------------------------
(* awk.awk *)

\* The equations of a line, piece by piece.
LEMMA EquationsNext ==
  ASSUME NEW line, NEW k \in Nat
  PROVE  /\ Equations(line, 0) = 0 /\ Equations(line, k) \in Nat
         /\ Equations(line, k + 1) = IF line[k + 1][1] = "equation" THEN Equations(line, k) + 1
                                                                   ELSE Equations(line, k)
<1> DEFINE Eqs(n) == {l \in 1 .. n : line[l][1] = "equation"}
<1>1. \A n \in Nat : IsFiniteSet(Eqs(n)) /\ Cardinality(Eqs(n)) \in Nat
  <2> SUFFICES ASSUME NEW n \in Nat PROVE IsFiniteSet(Eqs(n)) /\ Cardinality(Eqs(n)) \in Nat
    OBVIOUS
  <2>1. IsFiniteSet(1 .. n) /\ Eqs(n) \subseteq 1 .. n
    BY FS_Interval
  <2>2. IsFiniteSet(Eqs(n))
    BY <2>1, FS_Subset
  <2> HIDE DEF Eqs
  <2> QED
    BY <2>2, FS_CardinalityType
<1>2. Eqs(0) = {} /\ Equations(line, 0) = Cardinality(Eqs(0))
      /\ Equations(line, k) = Cardinality(Eqs(k))
      /\ Equations(line, k + 1) = Cardinality(Eqs(k + 1))
  BY DEF Equations
<1>3. /\ k + 1 \notin Eqs(k)
      /\ Eqs(k + 1) = IF line[k + 1][1] = "equation" THEN Eqs(k) \cup {k + 1} ELSE Eqs(k)
  OBVIOUS
<1> HIDE DEF Eqs
<1>4. Cardinality(Eqs(0)) = 0
  BY <1>2, FS_EmptySet
<1>5. Cardinality(Eqs(k) \cup {k + 1}) = Cardinality(Eqs(k)) + 1
  BY <1>1, <1>3, FS_AddElement
<1> QED
  BY <1>1, <1>2, <1>3, <1>4, <1>5

\* An equation's number is not greater than that of the equations so far.
LEMMA EquationsUpto ==
  ASSUME NEW line, NEW k \in Nat, NEW l \in 1 .. k, line[l][1] = "equation"
  PROVE  Equations(line, l) \in 1 .. Equations(line, k)
<1> DEFINE Eqs(n) == {u \in 1 .. n : line[u][1] = "equation"}
<1>1. /\ IsFiniteSet(1 .. k) /\ Eqs(k) \subseteq 1 .. k
      /\ Eqs(l) \subseteq Eqs(k)
  <2>1. IsFiniteSet(1 .. k)
    BY FS_Interval
  <2>2. Eqs(k) \subseteq 1 .. k /\ Eqs(l) \subseteq Eqs(k)
    OBVIOUS
  <2> QED
    BY <2>1, <2>2
<1>2. IsFiniteSet(Eqs(k))
  BY <1>1, FS_Subset
<1>3. Equations(line, l) = Cardinality(Eqs(l)) /\ Equations(line, k) = Cardinality(Eqs(k))
  BY DEF Equations
<1> HIDE DEF Eqs
<1>4. Cardinality(Eqs(l)) <= Cardinality(Eqs(k))
  BY <1>1, <1>2, FS_Subset
<1>5. l - 1 \in Nat /\ (l - 1) + 1 = l /\ l \in Nat
  OBVIOUS
<1> DEFINE h == l - 1
<1>6. Equations(line, h) \in Nat /\ Equations(line, h + 1) = Equations(line, h) + 1
  BY <1>5, EquationsNext
<1>7. Equations(line, l) \in Nat /\ Equations(line, k) \in Nat
  BY <1>5, EquationsNext
<1> QED
  BY <1>3, <1>4, <1>5, <1>6, <1>7

Task == [name : Seq(Piece), params : Seq(Piece), git : Seq(Piece)]

\* params and git are what the first k pieces of a line say.
Said(params, git, line, k) ==
  /\ Len(params) = Equations(line, k)
  /\ \A l \in 1 .. k : line[l][1] = "equation" => params[Equations(line, l)] = line[l]
  /\ \/ git = <<>> /\ \A l \in 1 .. k : line[l][1] # "fetch_url"
     \/ \E l \in 1 .. k : /\ git = <<line[l]>> /\ line[l][1] = "fetch_url"
                          /\ \A u \in l + 1 .. k : line[u][1] # "fetch_url"

\* The lines read so far have become tasks, and the current one is being read.
TasksRead ==
  /\ taskfile \in Seq(Seq(Piece)) /\ tasks \in Seq(Task) /\ Len(tasks) <= Len(taskfile)
  /\ param_content \in Seq(Piece) /\ giturl \in Seq(Piece)
  /\ \A u \in 1 .. Len(tasks) : IsTask(tasks[u], taskfile[u])
  /\ ~ TaskEof => s \in 1 .. Len(TaskLine) + 1 /\ Said(param_content, giturl, TaskLine, s - 1)

LEMMA PieceSaid ==
  ASSUME NEW line \in Seq(Piece), NEW k \in 1 .. Len(line),
         NEW params \in Seq(Piece), NEW git \in Seq(Piece), Said(params, git, line, k - 1),
         NEW params1, NEW git1,
         \/ line[k][1] = "fetch_url" /\ git1 = <<line[k]>> /\ params1 = params
         \/ line[k][1] = "equation" /\ params1 = Append(params, line[k]) /\ git1 = git
         \/ line[k][1] = "word" /\ params1 = params /\ git1 = git
  PROVE  params1 \in Seq(Piece) /\ git1 \in Seq(Piece) /\ Said(params1, git1, line, k)
<1> DEFINE h == k - 1
<1>1. h \in Nat /\ k = h + 1 /\ k \in Nat /\ line[k] \in Piece
  OBVIOUS
<1>2. /\ Equations(line, h) \in Nat
      /\ Equations(line, k) = IF line[k][1] = "equation" THEN Equations(line, h) + 1
                                                         ELSE Equations(line, h)
  BY <1>1, EquationsNext
<1>3. /\ Len(params) = Equations(line, h)
      /\ \A l \in 1 .. h : line[l][1] = "equation" =>
           /\ params[Equations(line, l)] = line[l]
           /\ Equations(line, l) \in 1 .. Equations(line, h)
  BY <1>1, EquationsUpto DEF Said
<1>4. /\ \/ line[k][1] = "equation" /\ params1 = Append(params, line[k])
         \/ line[k][1] # "equation" /\ params1 = params
      /\ \/ line[k][1] = "fetch_url" /\ git1 = <<line[k]>>
         \/ line[k][1] # "fetch_url" /\ git1 = git
  OBVIOUS
<1>5. params1 \in Seq(Piece) /\ git1 \in Seq(Piece) /\ Len(params1) = Equations(line, k)
  <2> DEFINE piece == line[k]
  <2>1. piece \in Piece
    BY <1>1
  <2> HIDE DEF piece
  <2>2. <<piece>> \in Seq(Piece)
    BY <2>1
  <2>3. Append(params, piece) \in Seq(Piece) /\ Len(Append(params, piece)) = Len(params) + 1
    BY <2>1
  <2> QED
    BY <1>2, <1>3, <1>4, <2>2, <2>3 DEF piece
<1>6. ASSUME NEW l \in 1 .. k, line[l][1] = "equation"
      PROVE  params1[Equations(line, l)] = line[l]
  <2>1. CASE l = k
    BY <1>2, <1>3, <1>4, <1>6, <2>1
  <2>2. CASE l # k
    <3>1. l \in 1 .. h
      BY <1>1, <2>2
    <3> QED
      BY <1>2, <1>3, <1>4, <1>6, <3>1
  <2> QED
    BY <2>1, <2>2
<1>7. \/ git1 = <<>> /\ \A l \in 1 .. k : line[l][1] # "fetch_url"
      \/ \E l \in 1 .. k : /\ git1 = <<line[l]>> /\ line[l][1] = "fetch_url"
                           /\ \A u \in l + 1 .. k : line[u][1] # "fetch_url"
  <2>1. CASE line[k][1] = "fetch_url"
    <3>1. k \in 1 .. k /\ \A u \in k + 1 .. k : line[u][1] # "fetch_url"
      BY <1>1
    <3> QED
      BY <1>4, <2>1, <3>1
  <2>2. CASE line[k][1] # "fetch_url"
    <3>1. git1 = git /\ \A l \in 1 .. k : l \in 1 .. h \/ l = k
      BY <1>1, <1>4, <2>2
    <3>2. CASE git = <<>> /\ \A l \in 1 .. h : line[l][1] # "fetch_url"
      BY <2>2, <3>1, <3>2
    <3>3. ASSUME NEW l \in 1 .. h, git = <<line[l]>>, line[l][1] = "fetch_url",
                 \A u \in l + 1 .. h : line[u][1] # "fetch_url"
          PROVE  \E j \in 1 .. k : /\ git1 = <<line[j]>> /\ line[j][1] = "fetch_url"
                                   /\ \A u \in j + 1 .. k : line[u][1] # "fetch_url"
      <4>1. l \in 1 .. k /\ \A u \in l + 1 .. k : line[u][1] # "fetch_url"
        BY <1>1, <2>2, <3>3
      <4> QED
        BY <3>1, <3>3, <4>1
    <3> QED
      BY <3>2, <3>3 DEF Said
  <2> QED
    BY <2>1, <2>2
<1> QED
  BY <1>5, <1>6, <1>7 DEF Said

\* A line that nothing has been read of.
LEMMA NothingSaid ==
  ASSUME NEW line
  PROVE  Said(<<>>, <<>>, line, 0)
<1>1. Equations(line, 0) = 0
  BY EquationsNext
<1> QED
  BY <1>1 DEF Said

LEMMA TasksReadNext ==
  ASSUME TasksRead, ReadPiece \/ EndOfTask
  PROVE  TasksRead'
<1>1. /\ UNCHANGED taskfile /\ ~ TaskEof
      /\ taskfile \in Seq(Seq(Piece)) /\ tasks \in Seq(Task) /\ Len(tasks) <= Len(taskfile)
      /\ param_content \in Seq(Piece) /\ giturl \in Seq(Piece)
      /\ \A u \in 1 .. Len(tasks) : IsTask(tasks[u], taskfile[u])
      /\ s \in 1 .. Len(TaskLine) + 1 /\ Said(param_content, giturl, TaskLine, s - 1)
  BY DEF TasksRead, ReadPiece, EndOfTask, Reading, input
<1>2. Len(tasks) \in Nat /\ Len(tasks) < Len(taskfile) /\ Len(taskfile) \in Nat
      /\ TaskLine \in Seq(Piece)
  BY <1>1 DEF TaskEof, TaskLine
<1>3. CASE ReadPiece
  <2>1. /\ UNCHANGED tasks /\ s \in 1 .. Len(TaskLine) /\ s' = s + 1
        /\ TaskLine[s] \in Piece /\ TaskLine' = TaskLine /\ ~ TaskEof'
    BY <1>1, <1>2, <1>3 DEF ReadPiece, TaskLine, TaskEof
  <2>2. /\ param_content' \in Seq(Piece) /\ giturl' \in Seq(Piece)
        /\ Said(param_content', giturl', TaskLine, s)
    BY <1>1, <1>2, <1>3, <2>1, PieceSaid DEF ReadPiece
  <2>3. s' - 1 = s /\ s' \in 1 .. Len(TaskLine) + 1
    BY <1>2, <2>1
  <2>4. Said(param_content, giturl, TaskLine, s - 1)'
    BY <2>1, <2>2, <2>3
  <2> QED
    BY <1>1, <2>1, <2>2, <2>3, <2>4 DEF TasksRead
<1>4. CASE EndOfTask
  <2>1. /\ tasks' = Append(tasks, GetTask) /\ s > Len(TaskLine)
        /\ s' = 1 /\ param_content' = <<>> /\ giturl' = <<>>
    BY <1>4 DEF EndOfTask
  <2>2. s - 1 = Len(TaskLine)
    BY <1>1, <1>2, <2>1
  <2>3. GetTask \in Task
    BY <1>1, <1>2 DEF GetTask, Task, Last
  <2>4. IsTask(GetTask, TaskLine)
    <3>1. Said(GetTask.params, GetTask.git, TaskLine, Len(TaskLine))
      BY <1>1, <2>2 DEF GetTask
    <3>2. DOMAIN TaskLine = 1 .. Len(TaskLine)
      BY <1>2
    <3> QED
      BY <3>1, <3>2 DEF IsTask, Said
  <2>5. /\ tasks' \in Seq(Task) /\ Len(tasks') = Len(tasks) + 1 /\ Len(tasks') <= Len(taskfile)
        /\ \A u \in 1 .. Len(tasks) : tasks'[u] = tasks[u]
        /\ tasks'[Len(tasks) + 1] = GetTask
    BY <1>1, <1>2, <2>1, <2>3
  <2>6. \A u \in 1 .. Len(tasks') : IsTask(tasks'[u], taskfile[u])
    <3> SUFFICES ASSUME NEW u \in 1 .. Len(tasks') PROVE IsTask(tasks'[u], taskfile[u])
      OBVIOUS
    <3>1. CASE u = Len(tasks) + 1
      BY <2>4, <2>5, <3>1 DEF TaskLine
    <3>2. CASE u # Len(tasks) + 1
      <4>1. u \in 1 .. Len(tasks)
        BY <1>2, <2>5, <3>2
      <4> QED
        BY <1>1, <2>5, <4>1
    <3> QED
      BY <3>1, <3>2
  <2>7. ~ TaskEof' => TaskLine' \in Seq(Piece)
    BY <1>1, <1>2, <2>5 DEF TaskEof, TaskLine
  <2> DEFINE line == TaskLine'
  <2>8. Said(param_content', giturl', line, s' - 1)
    BY <2>1, NothingSaid
  <2>9. ~ TaskEof' => s' \in 1 .. Len(line) + 1
    BY <2>1, <2>7
  <2>10. <<>> \in Seq(Piece)
    OBVIOUS
  <2> QED
    BY <1>1, <2>1, <2>5, <2>6, <2>8, <2>9, <2>10 DEF TasksRead
<1> QED
  BY <1>3, <1>4


\* Where an entry of out comes from: a line of a file, or a task of "file" 0.
Place == Nat \X Nat

\* Behind q the entries of t, and then c.
LEMMA JoinThree ==
  ASSUME NEW S, NEW q \in Seq(S), NEW t \in Seq(S), NEW c \in S, NEW r, r = q \o t \o <<c>>
  PROVE  /\ r \in Seq(S) /\ Len(r) = Len(q) + Len(t) + 1 /\ DOMAIN r = 1 .. Len(r)
         /\ \A k \in 1 .. Len(q) : r[k] = q[k] /\ k \in 1 .. Len(r)
         /\ \A u \in 1 .. Len(t) : r[Len(q) + u] = t[u]
         /\ r[Len(q) + Len(t) + 1] = c /\ Len(q) + Len(t) + 1 \in 1 .. Len(r)
         /\ \A k \in 1 .. Len(r) : \/ k \in 1 .. Len(q) \/ k = Len(q) + Len(t) + 1
                                   \/ k - Len(q) \in 1 .. Len(t)
<1> DEFINE p == q \o t
<1>1. /\ p \in Seq(S) /\ Len(p) = Len(q) + Len(t) /\ Len(q) \in Nat /\ Len(t) \in Nat
      /\ \A k \in 1 .. Len(q) : p[k] = q[k]
      /\ \A u \in 1 .. Len(t) : p[Len(q) + u] = t[u]
  OBVIOUS
<1> HIDE DEF p
<1>2. r = Append(p, c)
  BY <1>1 DEF p
<1> DEFINE a == Append(p, c)
<1>3. /\ a \in Seq(S) /\ Len(a) = Len(p) + 1 /\ a[Len(p) + 1] = c
      /\ \A k \in 1 .. Len(p) : a[k] = p[k]
  BY <1>1
<1> HIDE DEF a
<1>4. r = a
  BY <1>2 DEF a
<1>5. ASSUME NEW u \in 1 .. Len(t) PROVE r[Len(q) + u] = t[u]
  <2>1. Len(q) + u \in 1 .. Len(p)
    BY <1>1
  <2> QED
    BY <1>1, <1>3, <1>4, <2>1
<1>6. \A k \in 1 .. Len(q) : r[k] = q[k] /\ k \in 1 .. Len(r)
  BY <1>1, <1>3, <1>4
<1>7. /\ DOMAIN r = 1 .. Len(r) /\ Len(q) + Len(t) + 1 \in 1 .. Len(r)
      /\ \A k \in 1 .. Len(r) : \/ k \in 1 .. Len(q) \/ k = Len(q) + Len(t) + 1
                                \/ k - Len(q) \in 1 .. Len(t)
  BY <1>1, <1>3, <1>4
<1> QED
  BY <1>1, <1>3, <1>4, <1>5, <1>6, <1>7

\* Entry k is a line that ends an element of the kind asked for.
EndsAt(q, k) == k \in 1 .. Len(q) /\ q[k] \in Lines /\ "/tag" \in LineAt(q[k])

\* Entry j is a task in front of such a line; and the n tasks are in front of entry k.
TaskAt(q, n, j)     == \E u \in 1 .. n : q[j] = <<0, u>> /\ EndsAt(q, j + n + 1 - u)
TasksAbove(q, n, k) ==
  \A u \in 1 .. n : k - n - 1 + u \in 1 .. Len(q) /\ q[k - n - 1 + u] = <<0, u>>

\* The lines so far are printed in order, each element's end with the tasks above it.
Placed ==
  /\ out \in Seq(Place) /\ InOrder
  /\ \A c \in Lines : Before(c, at) => c \in ToSet(out)
  /\ \A j \in 1 .. Len(out) :
       (out[j] \in Lines /\ Before(out[j], at)) \/ TaskAt(out, Len(tasks), j)
  /\ \A k : EndsAt(out, k) => TasksAbove(out, Len(tasks), k)

InsertInv ==
  program = "insert" =>
    /\ pc \in {"taskfile", "main", "done"}
    /\ pc = "taskfile" => at = <<1, 1>> /\ out = <<>> /\ (taskfile # Missing => TasksRead)
    /\ pc # "taskfile" => taskfile \in Seq(Seq(Piece)) /\ tasks \in Seq(Task)
                          /\ OwnTasks /\ Placed

\* A line's file is none of the tasks' 0.
LEMMA NoTask ==
  ASSUME CallType
  PROVE  \A c \in Lines : /\ c[1] \in Nat /\ c[2] \in Nat /\ c \in Place
                          /\ \A u : c # <<0, u>>
<1> SUFFICES ASSUME NEW c \in Lines
             PROVE  /\ c[1] \in Nat /\ c[2] \in Nat /\ c \in Place
                    /\ \A u : c # <<0, u>>
  OBVIOUS
<1>1. Len(files) \in Nat
  BY DEF CallType
<1>2. PICK g \in 1 .. Len(files) : \E k \in 1 .. Len(files[g]) : c = <<g, k>>
  BY LinesAre
<1>3. PICK k \in 1 .. Len(files[g]) : c = <<g, k>>
  BY <1>2
<1>4. g \in Nat \ {0} /\ k \in Nat
  BY <1>1, FileType
<1> QED
  BY <1>3, <1>4 DEF Place

\* Before the first line nothing has been printed.
LEMMA NonePlaced ==
  ASSUME JobType, at = <<1, 1>>, out = <<>>
  PROVE  Placed
<1>1. \A c \in Lines : c[1] \in Nat /\ c[1] >= 1 /\ c[2] \in Nat /\ c[2] >= 1
  BY LinesAre, FileType DEF JobType
<1>2. \A c \in Lines : ~ Before(c, at)
  BY <1>1 DEF Before
<1>3. 1 .. Len(out) = {} /\ out \in Seq(Place) /\ DOMAIN out = {}
  OBVIOUS
<1> QED
  BY <1>2, <1>3 DEF Placed, InOrder, EndsAt

LEMMA InsertNext ==
  ASSUME JobType, tasks \in Seq(Task), Placed, Insert
  PROVE  Placed'
<1>1. /\ ~ Eof /\ UNCHANGED input /\ at' = NextLine /\ UNCHANGED tasks /\ UNCHANGED files
  BY DEF Insert, Main, input, tvars
<1>2. /\ at \in Lines /\ Line = LineAt(at) /\ Lines' = Lines
      /\ \A c : LineAt(c)' = LineAt(c)
      /\ \A c \in Lines : Before(c, at') <=> Before(c, at) \/ c = at
  BY <1>1, Advance, FilterFiles DEF JobType, Line
<1>3. PICK m \in Nat, n \in Nat : m = Len(out) /\ n = Len(tasks)
  BY DEF Placed
<1>4. /\ out \in Seq(Place) /\ InOrder /\ DOMAIN out = 1 .. m
      /\ \A c \in Lines : Before(c, at) => c \in ToSet(out)
      /\ \A j \in 1 .. m : (out[j] \in Lines /\ Before(out[j], at)) \/ TaskAt(out, n, j)
      /\ \A k : EndsAt(out, k) => TasksAbove(out, n, k)
  BY <1>3 DEF Placed
<1>5. /\ at \in Place /\ \A c \in Lines : \A u : c # <<0, u>>
  BY <1>2, NoTask DEF JobType
<1>6. PICK r, t \in Seq(Place) :
        /\ r = out' /\ r = out \o t \o <<at>> /\ \A u \in 1 .. Len(t) : t[u] = <<0, u>>
        /\ Len(t) = IF "/tag" \in Line THEN n ELSE 0
  <2>1. CASE "/tag" \in Line
    <3> DEFINE T == [u \in DOMAIN tasks |-> <<0, u>>]
    <3>1. \A u \in 1 .. n : <<0, u>> \in Place
      BY <1>3 DEF Place
    <3>2. DOMAIN tasks = 1 .. n
      BY <1>3
    <3>3. T \in Seq(Place) /\ Len(T) = n /\ \A u \in 1 .. n : T[u] = <<0, u>>
      BY <1>3, <3>1, <3>2
    <3> HIDE DEF T
    <3>4. <<at>> \in Seq(Place) /\ out \o T \o <<at>> \in Seq(Place)
      BY <1>4, <1>5, <3>3
    <3>5. out' = out \o T \o <<at>>
      BY <2>1 DEF Insert, T
    <3> QED
      BY <2>1, <3>3, <3>4, <3>5
  <2>2. CASE "/tag" \notin Line
    <3> DEFINE none == <<>>
    <3>1. /\ none \in Seq(Place) /\ Len(none) = 0 /\ out \o none = out
          /\ \A u \in 1 .. Len(none) : none[u] = <<0, u>>
      BY <1>4
    <3> HIDE DEF none
    <3>2. <<at>> \in Seq(Place) /\ out \o <<at>> \in Seq(Place)
      BY <1>4, <1>5
    <3>3. out' = out \o <<at>>
      BY <2>2 DEF Insert
    <3> QED
      BY <2>2, <3>1, <3>2, <3>3
  <2> QED
    BY <2>1, <2>2
<1>7. PICK p \in Nat : p = Len(t)
  BY <1>6
<1>8. /\ r \in Seq(Place) /\ Len(r) = m + p + 1 /\ DOMAIN r = 1 .. Len(r)
      /\ \A k \in 1 .. m : r[k] = out[k] /\ k \in 1 .. Len(r)
      /\ \A u \in 1 .. p : r[m + u] = <<0, u>>
      /\ r[m + p + 1] = at /\ m + p + 1 \in 1 .. Len(r)
      /\ \A k \in 1 .. Len(r) : k \in 1 .. m \/ k = m + p + 1 \/ k - m \in 1 .. p
  <2>1. /\ Len(r) = Len(out) + Len(t) + 1 /\ DOMAIN r = 1 .. Len(r)
        /\ \A k \in 1 .. Len(out) : r[k] = out[k] /\ k \in 1 .. Len(r)
        /\ \A u \in 1 .. Len(t) : r[Len(out) + u] = t[u]
        /\ r[Len(out) + Len(t) + 1] = at /\ Len(out) + Len(t) + 1 \in 1 .. Len(r)
        /\ \A k \in 1 .. Len(r) : \/ k \in 1 .. Len(out) \/ k = Len(out) + Len(t) + 1
                                  \/ k - Len(out) \in 1 .. Len(t)
    <3>1. out \in Seq(Place) /\ t \in Seq(Place) /\ at \in Place /\ r = out \o t \o <<at>>
      BY <1>4, <1>5, <1>6
    <3>2. /\ Len(r) = Len(out) + Len(t) + 1 /\ DOMAIN r = 1 .. Len(r)
          /\ \A k \in 1 .. Len(out) : r[k] = out[k] /\ k \in 1 .. Len(r)
          /\ \A u \in 1 .. Len(t) : r[Len(out) + u] = t[u]
          /\ r[Len(out) + Len(t) + 1] = at /\ Len(out) + Len(t) + 1 \in 1 .. Len(r)
          /\ \A k \in 1 .. Len(r) : \/ k \in 1 .. Len(out) \/ k = Len(out) + Len(t) + 1
                                    \/ k - Len(out) \in 1 .. Len(t)
      BY <3>1, JoinThree
    <3> QED
      BY <3>2
  <2> QED
    BY <1>3, <1>6, <1>7, <2>1
<1>9. \A k : EndsAt(r, k) <=> EndsAt(out, k) \/ (k = m + p + 1 /\ "/tag" \in Line)
  <2> SUFFICES ASSUME NEW k
               PROVE  EndsAt(r, k) <=> EndsAt(out, k) \/ (k = m + p + 1 /\ "/tag" \in Line)
    OBVIOUS
  <2>1. CASE k \in 1 .. m
    BY <1>3, <1>8, <2>1 DEF EndsAt
  <2>2. CASE k = m + p + 1
    <3>1. k \notin 1 .. m
      BY <1>7, <2>2
    <3> QED
      BY <1>2, <1>3, <1>8, <2>2, <3>1 DEF EndsAt
  <2>3. ASSUME k \in 1 .. Len(r), k - m \in 1 .. p, k \notin 1 .. m PROVE r[k] \notin Lines
    <3>1. r[m + (k - m)] = <<0, k - m>> /\ m + (k - m) = k
      BY <1>3, <1>8, <2>3
    <3> QED
      BY <1>5, <3>1
  <2>4. CASE k \notin 1 .. m /\ k # m + p + 1
    <3>1. EndsAt(r, k) => k \in 1 .. Len(r) /\ r[k] \in Lines
      BY DEF EndsAt
    <3>2. ~ EndsAt(out, k)
      BY <1>3, <2>4 DEF EndsAt
    <3> QED
      BY <1>8, <2>3, <2>4, <3>1, <3>2
  <2> QED
    BY <2>1, <2>2, <2>4
<1>10. InOrder'
  <2>1. Lines' = Lines /\ out' = r /\ DOMAIN out' = 1 .. Len(r)
    BY <1>2, <1>6, <1>8
  <2> SUFFICES ASSUME NEW j \in 1 .. Len(r), NEW k \in 1 .. Len(r), j < k,
                      r[j] \in Lines, r[k] \in Lines
               PROVE  Before(r[j], r[k])
    BY <2>1 DEF InOrder, Before
  <2>2. ASSUME NEW l \in 1 .. Len(r), r[l] \in Lines PROVE l \in 1 .. m \/ l = m + p + 1
    <3>1. ASSUME l - m \in 1 .. p PROVE FALSE
      <4>1. PICK u \in 1 .. p : u = l - m
        BY <3>1
      <4>2. m + u = l
        BY <1>3, <4>1
      <4>3. r[l] = <<0, u>>
        BY <1>8, <4>2
      <4> QED
        BY <1>5, <2>2, <4>3
    <3> QED
      BY <1>8, <3>1
  <2>3. (j \in 1 .. m \/ j = m + p + 1) /\ (k \in 1 .. m \/ k = m + p + 1)
    BY <2>2
  <2>4. j \in 1 .. m
    BY <1>3, <1>7, <1>8, <2>3
  <2>5. CASE k \in 1 .. m
    BY <1>3, <1>4, <1>8, <2>4, <2>5 DEF InOrder
  <2>6. CASE k = m + p + 1
    <3>1. ~ TaskAt(out, n, j)
      BY <1>5, <1>8, <2>4 DEF TaskAt
    <3> QED
      BY <1>4, <1>8, <2>4, <2>6, <3>1
  <2> QED
    BY <2>3, <2>5, <2>6
<1>11. \A c \in Lines : Before(c, at') => c \in ToSet(r)
  BY <1>2, <1>4, <1>8 DEF ToSet
<1>12. ASSUME NEW j \in 1 .. Len(r)
       PROVE  (r[j] \in Lines /\ Before(r[j], at')) \/ TaskAt(r, n, j)
  <2>1. CASE j \in 1 .. m
    <3>1. r[j] = out[j] /\ (TaskAt(out, n, j) => TaskAt(r, n, j))
      BY <1>8, <1>9, <2>1 DEF TaskAt
    <3> QED
      BY <1>2, <1>4, <2>1, <3>1
  <2>2. CASE j = m + p + 1
    BY <1>2, <1>8, <2>2
  <2>3. CASE j - m \in 1 .. p
    <3>1. PICK u \in 1 .. p : u = j - m
      BY <2>3
    <3>2. /\ "/tag" \in Line /\ p = n /\ m + u = j
          /\ j + n + 1 - u = m + p + 1
      <4>1. m + u = j
        BY <1>3, <3>1
      <4>2. "/tag" \in Line /\ p = n
        BY <1>6, <1>7, <3>1
      <4>3. j + n + 1 - u = m + p + 1
        BY <1>3, <4>1, <4>2
      <4> QED
        BY <4>1, <4>2, <4>3
    <3>3. r[j] = <<0, u>> /\ EndsAt(r, m + p + 1)
      BY <1>8, <1>9, <3>2
    <3> QED
      BY <3>2, <3>3 DEF TaskAt
  <2> QED
    BY <1>8, <2>1, <2>2, <2>3
<1>13. ASSUME NEW k, EndsAt(r, k) PROVE TasksAbove(r, n, k)
  <2>1. CASE EndsAt(out, k)
    <3>1. k \in 1 .. m /\ TasksAbove(out, n, k)
      BY <1>3, <1>4, <2>1 DEF EndsAt
    <3> QED
      BY <1>3, <1>8, <3>1 DEF TasksAbove
  <2>2. CASE k = m + p + 1 /\ "/tag" \in Line
    <3> SUFFICES ASSUME NEW u \in 1 .. n
                 PROVE  k - n - 1 + u \in 1 .. Len(r) /\ r[k - n - 1 + u] = <<0, u>>
      BY DEF TasksAbove
    <3>1. k - n - 1 + u = m + u /\ u \in 1 .. p /\ m + u \in 1 .. Len(r)
      BY <1>3, <1>6, <1>7, <1>8, <2>2
    <3> QED
      BY <1>8, <3>1
  <2> QED
    BY <1>9, <1>13, <2>1, <2>2
<1>14. /\ \A k : EndsAt(out, k)' <=> EndsAt(r, k)
       /\ \A j : TaskAt(out, Len(tasks), j)' <=> TaskAt(r, n, j)
       /\ \A k : TasksAbove(out, Len(tasks), k)' <=> TasksAbove(r, n, k)
  BY <1>1, <1>2, <1>3, <1>6 DEF TaskAt, TasksAbove, EndsAt
<1>15. /\ out' \in Seq(Place) /\ \A c \in Lines' : Before(c, at)' => c \in ToSet(out')
       /\ \A j \in 1 .. Len(out') : (out'[j] \in Lines' /\ Before(out'[j], at'))
                                    \/ TaskAt(out, Len(tasks), j)'
  BY <1>2, <1>6, <1>8, <1>11, <1>12, <1>14 DEF Before
<1>16. \A k : EndsAt(out, k)' => TasksAbove(out, Len(tasks), k)'
  BY <1>13, <1>14
<1> QED
  BY <1>10, <1>15, <1>16 DEF Placed

\* What has been placed stays there while nothing is printed.
LEMMA PlacedStays ==
  ASSUME Placed, UNCHANGED <<input, at, tasks, out>>
  PROVE  Placed'
<1>1. /\ Lines' = Lines /\ UNCHANGED files /\ \A c : LineAt(c)' = LineAt(c)
  BY FilterFiles DEF input
<1>2. /\ \A k : EndsAt(out, k)' <=> EndsAt(out, k)
      /\ \A j : TaskAt(out, Len(tasks), j)' <=> TaskAt(out, Len(tasks), j)
      /\ \A k : TasksAbove(out, Len(tasks), k)' <=> TasksAbove(out, Len(tasks), k)
  BY <1>1 DEF EndsAt, TaskAt, TasksAbove
<1>3. InOrder'
  BY <1>1 DEF InOrder, Before, Placed
<1> QED
  BY <1>1, <1>2, <1>3 DEF Placed, Before

LEMMA InsertInductive ==
  ASSUME JobType, InsertInv, [JobNext]_jobVars
  PROVE  InsertInv'
<1>1. ASSUME UNCHANGED <<input, at, tvars, out>>,
             program = "insert" => pc' \in {"main", "done"} /\ pc # "taskfile"
      PROVE  InsertInv'
  <2>1. /\ UNCHANGED <<program, files, taskfile, tasks, out, at>>
        /\ Lines' = Lines /\ \A c : LineAt(c)' = LineAt(c)
    BY <1>1, FilterFiles DEF input, tvars
  <2>2. Placed => Placed'
    BY <1>1, <2>1, PlacedStays
  <2>3. OwnTasks' = OwnTasks
    BY <2>1 DEF OwnTasks, IsTask, Equations
  <2> QED
    BY <1>1, <2>1, <2>2, <2>3 DEF InsertInv
<1>2. ASSUME program # "insert", UNCHANGED input
      PROVE  InsertInv'
  BY <1>2 DEF InsertInv, input
<1>3. CASE HeadRule \/ Body \/ Filter
  BY <1>2, <1>3 DEF HeadRule, Body, Filter, Main
<1>4. CASE Getline
  BY <1>2, <1>4 DEF Getline, InsertInv
<1>5. CASE ReadPiece \/ EndOfTask
  <2>1. /\ pc = "taskfile" /\ taskfile # Missing /\ UNCHANGED <<input, at, pc, out>>
    BY <1>5 DEF ReadPiece, EndOfTask, Reading
  <2>2. program = "insert" => TasksRead'
    BY <1>5, <2>1, TasksReadNext DEF InsertInv
  <2> QED
    BY <2>1, <2>2 DEF InsertInv, input
<1>6. CASE TaskFileRead
  <2>1. /\ pc = "taskfile" /\ taskfile # Missing /\ UNCHANGED <<input, at, tvars, out>>
        /\ TaskEof /\ pc' = "main"
    BY <1>6 DEF TaskFileRead, Reading
  <2>2. ASSUME program = "insert"
        PROVE  taskfile \in Seq(Seq(Piece)) /\ tasks \in Seq(Task) /\ OwnTasks /\ Placed
    <3>1. at = <<1, 1>> /\ out = <<>> /\ TasksRead
      BY <2>1, <2>2 DEF InsertInv
    <3>2. Placed
      BY <3>1, NonePlaced
    <3>3. OwnTasks
      BY <2>1, <3>1 DEF TasksRead, OwnTasks, TaskEof
    <3> QED
      BY <3>1, <3>2, <3>3 DEF TasksRead
  <2>3. /\ UNCHANGED <<program, files, taskfile, tasks, out, at>>
        /\ Lines' = Lines /\ \A c : LineAt(c)' = LineAt(c)
    BY <2>1, FilterFiles DEF input, tvars
  <2>4. Placed => Placed'
    BY <2>1, <2>3, PlacedStays
  <2>5. OwnTasks' = OwnTasks
    BY <2>3 DEF OwnTasks, IsTask, Equations
  <2> QED
    BY <2>1, <2>2, <2>3, <2>4, <2>5 DEF InsertInv
<1>7. CASE Insert
  <2>1. program = "insert" /\ pc = "main" /\ UNCHANGED <<input, pc, tvars>>
    BY <1>7 DEF Insert, Main
  <2>2. taskfile \in Seq(Seq(Piece)) /\ tasks \in Seq(Task) /\ OwnTasks /\ Placed
    BY <2>1 DEF InsertInv
  <2>3. Placed'
    BY <1>7, <2>2, InsertNext
  <2>4. OwnTasks' = OwnTasks
    BY <2>1 DEF OwnTasks, IsTask, Equations, input, tvars
  <2> QED
    BY <2>1, <2>2, <2>3, <2>4 DEF InsertInv, input, tvars
<1>8. CASE End
  BY <1>1, <1>8 DEF End
<1>9. CASE Over \/ UNCHANGED jobVars
  <2>1. UNCHANGED <<input, pc, at, tvars, out>>
    BY <1>9 DEF Over, jobVars
  <2>2. CASE pc = "taskfile"
    <3>1. TasksRead' = TasksRead
      BY <2>1 DEF TasksRead, input, tvars, TaskEof, TaskLine, IsTask, Said, Equations
    <3> QED
      BY <2>1, <2>2, <3>1 DEF InsertInv, input
  <2>3. CASE pc # "taskfile"
    BY <1>1, <2>1, <2>3 DEF InsertInv
  <2> QED
    BY <2>2, <2>3
<1> QED
  BY <1>3, <1>4, <1>5, <1>6, <1>7, <1>8, <1>9 DEF JobNext, Awk

LEMMA InsertInitially ==
  ASSUME JobInit
  PROVE  InsertInv
<1>1. /\ JobType /\ s = 1 /\ param_content = <<>> /\ giturl = <<>> /\ tasks = <<>>
      /\ at = <<1, 1>> /\ out = <<>> /\ (program = "insert" => pc = "taskfile")
  BY CallsTyped DEF JobInit
<1>2. ASSUME taskfile # Missing PROVE TasksRead
  <2>1. taskfile \in Seq(Seq(Piece)) /\ Len(taskfile) \in Nat
    BY <1>1, <1>2 DEF JobType, CallType
  <2>2. Len(tasks) = 0 /\ tasks \in Seq(Task) /\ param_content \in Seq(Piece) /\ giturl \in Seq(Piece)
    BY <1>1
  <2>3. ~ TaskEof => TaskLine \in Seq(Piece) /\ s \in 1 .. Len(TaskLine) + 1
    BY <1>1, <2>1, <2>2 DEF TaskEof, TaskLine
  <2>4. Said(param_content, giturl, TaskLine, s - 1)
    BY <1>1, NothingSaid
  <2> QED
    BY <2>1, <2>2, <2>3, <2>4 DEF TasksRead
<1> QED
  BY <1>1, <1>2 DEF InsertInv

LEMMA InsertDone ==
  ASSUME JobType, InsertInv
  PROVE  TasksPlaced
<1> SUFFICES ASSUME program = "insert", pc = "done", ElementsOpen
             PROVE  /\ OwnTasks /\ InOrder /\ Lines \subseteq ToSet(out)
                    /\ \A j \in DOMAIN out : \A u \in DOMAIN tasks :
                         out[j] = <<0, u>> <=>
                           LET k == j + Len(tasks) + 1 - u
                           IN /\ k \in DOMAIN out /\ out[k] \in Lines
                              /\ EndsElement(out[k][1], out[k][2])
  BY DEF TasksPlaced
<1>1. OwnTasks /\ Placed /\ tasks \in Seq(Task) /\ Eof
  BY DEF InsertInv, JobType
<1> DEFINE n == Len(tasks)
<1>2. /\ DOMAIN out = 1 .. Len(out) /\ DOMAIN tasks = 1 .. n /\ n \in Nat /\ Len(out) \in Nat
  BY <1>1 DEF Placed
<1>3. InOrder /\ Lines \subseteq ToSet(out)
  BY <1>1, <1>2, AllBefore DEF Placed, JobType
<1>4. \A k : EndsAt(out, k) <=> /\ k \in DOMAIN out /\ out[k] \in Lines
                                /\ EndsElement(out[k][1], out[k][2])
  BY <1>2 DEF EndsAt, ElementsOpen, EndsElement, LineAt
<1>5. ASSUME NEW j \in 1 .. Len(out), NEW u \in 1 .. n
      PROVE  out[j] = <<0, u>> <=> EndsAt(out, j + n + 1 - u)
  <2>1. ASSUME out[j] = <<0, u>> PROVE EndsAt(out, j + n + 1 - u)
    <3>1. out[j] \notin Lines
      BY <2>1, NoTask DEF JobType
    <3>2. PICK l \in 1 .. n : out[j] = <<0, l>> /\ EndsAt(out, j + n + 1 - l)
      BY <1>1, <3>1 DEF Placed, TaskAt
    <3>3. l = u
      BY <2>1, <3>2
    <3> QED
      BY <3>2, <3>3
  <2>2. ASSUME EndsAt(out, j + n + 1 - u) PROVE out[j] = <<0, u>>
    <3> DEFINE k == j + n + 1 - u
    <3>1. k \in 1 .. Len(out) /\ k - n - 1 + u = j
      BY <1>2, <2>2 DEF EndsAt
    <3>2. TasksAbove(out, n, k)
      BY <1>1, <2>2 DEF Placed
    <3> QED
      BY <3>1, <3>2 DEF TasksAbove
  <2> QED
    BY <2>1, <2>2
<1> QED
  BY <1>1, <1>2, <1>3, <1>4, <1>5

\* filter.awk and awk.awk leave in the job what belongs there.
THEOREM JobIsEdited == JobSpec => []EditsJob
<1>1. JobInit => JobType /\ FilterInv /\ InsertInv
  BY CallsTyped, FilterInitially, InsertInitially
<1>2. JobType /\ FilterInv /\ InsertInv /\ [JobNext]_jobVars
        => JobType' /\ FilterInv' /\ InsertInv'
  BY JobTypeNext, FilterInductive, InsertInductive
<1>3. JobType /\ FilterInv /\ InsertInv => EditsJob
  BY FilterDone, InsertDone DEF EditsJob
<1> QED
  BY <1>1, <1>2, <1>3, PTL DEF JobSpec

-----------------------------------------------------------------------------
(* combine_extract.awk *)

\* A line in front of line k of file g matches p.
Passed(g, k, p) == \E u \in 1 .. k - 1 : p \in files[g][u]

\* Within the head, and within a notify block, in front of the current record.
InHead  == Opened(at[1], at[2], "job", "whiteboard")
InBlock == Opened(at[1], at[2], "notify", "/notify")

\* The position decides what the program remembers: the rules that are open, that
\* it copies a notify block of the head, what it has printed once, and the sets
\* that have ended.
Remembers ==
  /\ "job" \in inside <=> InHead
  /\ "notify" \in inside <=> InBlock /\ ~ InHead
  /\ "recipeSet" \in inside <=> Opened(at[1], at[2], "recipeSet", "/recipeSet")
  /\ pc = "getline" <=> InHead /\ InBlock /\ "notify" \notin seen
  /\ "job" \in seen <=> at[1] > 1 \/ Passed(at[1], at[2], "job")
  /\ "whiteboard" \in seen <=> at[1] > 1 \/ Passed(at[1], at[2], "whiteboard")
  /\ "notify" \in seen <=> \/ \E h \in 1 .. at[1] - 1 : Notifies(h)
                           \/ Passed(at[1], at[2], "/notify")
  /\ curr_pos = SetOf(at[1], at[2]) /\ curr_pos <= t_pos

\* The lines so far that belong to the combined job have been printed.
CombinedSoFar ==
  Sorted(out) /\ ToSet(out) = {c \in Lines : Before(c, at) /\ Combined(c[1], c[2])}

CombineInv ==
  program = "combine" =>
    /\ pc \in {"main", "getline", "done"} /\ out \in Seq(Lines)
    /\ JobFiles => Remembers /\ CombinedSoFar

\* Where a job file has its job and whiteboard lines and its notify block, which
\* begins and ends on "line" 0 if there is none.
Shape(g, j, w, n, m) ==
  /\ j \in DOMAIN files[g] /\ w \in DOMAIN files[g] /\ j < w
  /\ (n = 0 /\ m = 0) \/ (n \in DOMAIN files[g] /\ m \in DOMAIN files[g] /\ n < m)
  /\ \A k \in DOMAIN files[g] :
       /\ "job" \in files[g][k] <=> k = j
       /\ "whiteboard" \in files[g][k] <=> k = w
       /\ "notify" \in files[g][k] <=> k = n
       /\ "/notify" \in files[g][k] <=> k = m
       /\ n <= k /\ k <= m => k # j /\ k # w
       /\ "recipeSet" \in files[g][k] \/ "/recipeSet" \in files[g][k] => k > w /\ k > m

LEMMA JobFileShape ==
  ASSUME CallType, JobFiles, NEW g \in 1 .. Len(files)
  PROVE  \E j, w, n, m \in Nat : Shape(g, j, w, n, m)
<1> DEFINE f == files[g]
<1>1. JobFile(f) /\ DOMAIN f = 1 .. Len(f) /\ Len(f) \in Nat
  BY FileType DEF JobFiles
<1> HIDE DEF f
<1>2. PICK j \in DOMAIN f, w \in DOMAIN f : j < w /\ \A k \in DOMAIN f :
        /\ "job" \in f[k] <=> k = j
        /\ "whiteboard" \in f[k] <=> k = w
        /\ "recipeSet" \in f[k] \/ "/recipeSet" \in f[k] => k > w
  BY <1>1 DEF JobFile
<1>3. CASE \A k \in DOMAIN f : f[k] \cap {"notify", "/notify"} = {}
  <2>1. Shape(g, j, w, 0, 0)
    BY <1>1, <1>2, <1>3 DEF Shape, f
  <2> QED
    BY <1>1, <1>2, <2>1
<1>4. CASE \E n, m \in DOMAIN f : n < m /\ \A k \in DOMAIN f :
          /\ "notify" \in f[k] <=> k = n
          /\ "/notify" \in f[k] <=> k = m
          /\ k \in n .. m => f[k] \cap {"job", "whiteboard"} = {}
          /\ f[k] \cap {"recipeSet", "/recipeSet"} # {} => k > m
  <2>1. PICK n \in DOMAIN f, m \in DOMAIN f : n < m /\ \A k \in DOMAIN f :
          /\ "notify" \in f[k] <=> k = n
          /\ "/notify" \in f[k] <=> k = m
          /\ k \in n .. m => f[k] \cap {"job", "whiteboard"} = {}
          /\ f[k] \cap {"recipeSet", "/recipeSet"} # {} => k > m
    BY <1>4
  <2>2. \A k \in DOMAIN f : n <= k /\ k <= m => k # j /\ k # w
    BY <1>1, <1>2, <2>1
  <2>3. \A k \in DOMAIN f : "recipeSet" \in f[k] \/ "/recipeSet" \in f[k] => k > w /\ k > m
    BY <1>2, <2>1
  <2>4. Shape(g, j, w, n, m)
    BY <1>2, <2>1, <2>2, <2>3 DEF Shape, f
  <2> QED
    BY <1>1, <1>2, <2>1, <2>4
<1> QED
  BY <1>1, <1>3, <1>4 DEF JobFile

\* A block from line a to line b is open in front of the lines behind a up to b.
LEMMA BlockOpen ==
  ASSUME NEW g, NEW len \in Nat, NEW k \in 1 .. len + 1, NEW a \in Nat, NEW b \in Nat,
         NEW first, NEW last, (a = 0 /\ b = 0) \/ (1 <= a /\ a < b), a <= len,
         \A u \in 1 .. len : first \in files[g][u] <=> u = a,
         \A u \in 1 .. len : last \in files[g][u] <=> u = b
  PROVE  Opened(g, k, first, last) <=> a < k /\ k <= b
<1>1. ASSUME Opened(g, k, first, last) PROVE a < k /\ k <= b
  <2>1. PICK u \in 1 .. k - 1 : first \in files[g][u] /\ \A l \in u .. k - 1 : last \notin files[g][l]
    BY <1>1 DEF Opened
  <2>2. u = a /\ a < b
    BY <2>1
  <2>3. ~ (b \in u .. k - 1)
    BY <2>1, <2>2
  <2> QED
    BY <2>2, <2>3
<1>2. ASSUME a < k, k <= b PROVE Opened(g, k, first, last)
  <2>1. a \in 1 .. k - 1 /\ first \in files[g][a] /\ \A l \in a .. k - 1 : last \notin files[g][l]
    BY <1>2
  <2> QED
    BY <2>1 DEF Opened
<1> QED
  BY <1>1, <1>2

\* How many recipe sets end in front of a line.
LEMMA SetOfNext ==
  ASSUME NEW g, NEW k \in Nat \ {0}
  PROVE  /\ SetOf(g, 1) = 0 /\ SetOf(g, k) \in Nat
         /\ SetOf(g, k + 1) = IF SetEndsAt(g, k) THEN SetOf(g, k) + 1 ELSE SetOf(g, k)
<1> DEFINE Ends(n) == {l \in 1 .. n : SetEndsAt(g, l)}
<1>1. \A n \in Nat : IsFiniteSet(Ends(n)) /\ Cardinality(Ends(n)) \in Nat
  <2> SUFFICES ASSUME NEW n \in Nat PROVE IsFiniteSet(Ends(n)) /\ Cardinality(Ends(n)) \in Nat
    OBVIOUS
  <2>1. IsFiniteSet(1 .. n) /\ Ends(n) \subseteq 1 .. n
    BY FS_Interval
  <2>2. IsFiniteSet(Ends(n))
    BY <2>1, FS_Subset
  <2> HIDE DEF Ends
  <2> QED
    BY <2>2, FS_CardinalityType
<1>2. k - 1 \in Nat /\ (k + 1) - 1 = k
  OBVIOUS
<1>3. /\ SetOf(g, 1) = Cardinality({}) /\ SetOf(g, k) = Cardinality(Ends(k - 1))
      /\ SetOf(g, k + 1) = Cardinality(Ends(k))
  BY <1>2 DEF SetOf
<1>4. /\ k \notin Ends(k - 1)
      /\ Ends(k) = IF SetEndsAt(g, k) THEN Ends(k - 1) \cup {k} ELSE Ends(k - 1)
  OBVIOUS
<1> HIDE DEF Ends
<1>5. Cardinality(Ends(k - 1) \cup {k}) = Cardinality(Ends(k - 1)) + 1
  BY <1>1, <1>2, <1>4, FS_AddElement
<1>6. Cardinality({}) = 0
  BY FS_EmptySet
<1> QED
  BY <1>1, <1>2, <1>3, <1>4, <1>5, <1>6

LEMMA SetOfGrows ==
  ASSUME NEW g, NEW k \in Nat \ {0}, NEW l \in Nat, k <= l
  PROVE  SetOf(g, k) <= SetOf(g, l)
<1> DEFINE Ends(n) == {u \in 1 .. n - 1 : SetEndsAt(g, u)}
<1>1. IsFiniteSet(1 .. l - 1) /\ Ends(l) \subseteq 1 .. l - 1 /\ Ends(k) \subseteq Ends(l)
  BY FS_Interval
<1>2. IsFiniteSet(Ends(l))
  BY <1>1, FS_Subset
<1>3. SetOf(g, k) = Cardinality(Ends(k)) /\ SetOf(g, l) = Cardinality(Ends(l))
  BY DEF SetOf
<1> HIDE DEF Ends
<1> QED
  BY <1>1, <1>2, <1>3, FS_Subset

\* What the shape of a file says of line k and the lines in front of it.
Marks(g, k, j, w, n, m) ==
  /\ Opened(g, k, "job", "whiteboard") <=> j < k /\ k <= w
  /\ Opened(g, k, "notify", "/notify") <=> n < k /\ k <= m
  /\ Opened(g, k, "recipeSet", "/recipeSet") => k > w /\ k > m
  /\ Passed(g, k, "job") <=> j < k
  /\ Passed(g, k, "whiteboard") <=> w < k
  /\ Passed(g, k, "/notify") <=> 1 <= m /\ m < k
  /\ Notifies(g) <=> 1 <= n
  /\ 1 <= j /\ j < w /\ w <= Len(files[g]) /\ m <= Len(files[g])
  /\ (n = 0 /\ m = 0) \/ (1 <= n /\ n < m)

LEMMA Positions ==
  ASSUME CallType, NEW g \in 1 .. Len(files), NEW j \in Nat, NEW w \in Nat, NEW n \in Nat,
         NEW m \in Nat, Shape(g, j, w, n, m), NEW k \in 1 .. Len(files[g]) + 1
  PROVE  Marks(g, k, j, w, n, m)
<1>1. DOMAIN files[g] = 1 .. Len(files[g]) /\ Len(files[g]) \in Nat
  BY FileType
<1>2. /\ j \in 1 .. Len(files[g]) /\ w \in 1 .. Len(files[g]) /\ j < w
      /\ (n = 0 /\ m = 0) \/ (n \in 1 .. Len(files[g]) /\ m \in 1 .. Len(files[g]) /\ n < m)
      /\ \A u \in 1 .. Len(files[g]) :
           /\ "job" \in files[g][u] <=> u = j
           /\ "whiteboard" \in files[g][u] <=> u = w
           /\ "notify" \in files[g][u] <=> u = n
           /\ "/notify" \in files[g][u] <=> u = m
           /\ "recipeSet" \in files[g][u] \/ "/recipeSet" \in files[g][u] => u > w /\ u > m
  BY <1>1 DEF Shape
<1>3. Opened(g, k, "job", "whiteboard") <=> j < k /\ k <= w
  <2>1. /\ 1 <= j /\ j < w /\ j <= Len(files[g])
        /\ \A u \in 1 .. Len(files[g]) : "job" \in files[g][u] <=> u = j
        /\ \A u \in 1 .. Len(files[g]) : "whiteboard" \in files[g][u] <=> u = w
    BY <1>1, <1>2
  <2> QED
    BY <1>1, <2>1, BlockOpen
<1>4. Opened(g, k, "notify", "/notify") <=> n < k /\ k <= m
  <2>1. /\ (n = 0 /\ m = 0) \/ (1 <= n /\ n < m)
        /\ n <= Len(files[g])
        /\ \A u \in 1 .. Len(files[g]) : "notify" \in files[g][u] <=> u = n
        /\ \A u \in 1 .. Len(files[g]) : "/notify" \in files[g][u] <=> u = m
    BY <1>1, <1>2
  <2> QED
    BY <1>1, <2>1, BlockOpen
<1>5. Opened(g, k, "recipeSet", "/recipeSet") => k > w /\ k > m
  <2> SUFFICES ASSUME Opened(g, k, "recipeSet", "/recipeSet") PROVE k > w /\ k > m
    OBVIOUS
  <2>1. PICK u \in 1 .. k - 1 : "recipeSet" \in files[g][u]
    BY DEF Opened
  <2> QED
    BY <1>1, <1>2, <2>1
<1>6. /\ Passed(g, k, "job") <=> j < k
      /\ Passed(g, k, "whiteboard") <=> w < k
      /\ Passed(g, k, "/notify") <=> 1 <= m /\ m < k
  BY <1>1, <1>2 DEF Passed
<1>7. Notifies(g) <=> 1 <= n
  BY <1>1, <1>2 DEF Notifies
<1> QED
  BY <1>1, <1>2, <1>3, <1>4, <1>5, <1>6, <1>7 DEF Marks


\* A file before file g has a notify block.
NotifiedBefore(g) == \E h \in 1 .. g - 1 : Notifies(h)

\* All that the actions test, in terms of the position.
LEMMA Here ==
  ASSUME JobType, ~ Eof, JobFiles, Remembers,
         NEW g \in 1 .. Len(files), NEW k \in 1 .. Len(files[g]), at = <<g, k>>,
         NEW j \in Nat, NEW w \in Nat, NEW n \in Nat, NEW m \in Nat, Shape(g, j, w, n, m)
  PROVE  /\ Line = files[g][k] /\ at \in Lines
         /\ g \in Nat /\ k \in Nat /\ Len(files[g]) \in Nat
         /\ 1 <= j /\ j < w /\ w <= Len(files[g]) /\ m <= Len(files[g])
         /\ (n = 0 /\ m = 0) \/ (1 <= n /\ n < m)
         /\ "job" \in Line <=> k = j
         /\ "whiteboard" \in Line <=> k = w
         /\ "notify" \in Line <=> k = n
         /\ "/notify" \in Line <=> k = m
         /\ n <= j /\ j <= m => FALSE
         /\ n <= w /\ w <= m => FALSE
         /\ "job" \in inside <=> j < k /\ k <= w
         /\ "notify" \in inside <=> n < k /\ k <= m /\ ~ (j < k /\ k <= w)
         /\ pc = "getline" <=> j < k /\ k <= w /\ n < k /\ k <= m /\ "notify" \notin seen
         /\ "job" \in seen <=> g > 1 \/ j < k
         /\ "whiteboard" \in seen <=> g > 1 \/ w < k
         /\ "notify" \in seen <=> NotifiedBefore(g) \/ (1 <= m /\ m < k)
         /\ Matches("recipeSet") <=> InSet(g, k)
         /\ InSet(g, k) => k > w /\ k > m
         /\ "/recipeSet" \in Line => k > w /\ k > m
         /\ curr_pos = SetOf(g, k) /\ curr_pos \in Nat /\ curr_pos <= t_pos /\ t_pos \in Nat
<1>1. /\ Line = files[g][k] /\ at \in Lines
      /\ g \in Nat /\ k \in Nat \ {0} /\ Len(files[g]) \in Nat
      /\ DOMAIN files[g] = 1 .. Len(files[g]) /\ t_pos \in Nat
  BY Advance, FileType DEF JobType, AtType, CallType, Line, LineAt
<1>2. CallType /\ g \in 1 .. Len(files) /\ k \in 1 .. Len(files[g]) + 1
  BY <1>1 DEF JobType
<1>3. /\ Opened(g, k, "job", "whiteboard") <=> j < k /\ k <= w
      /\ Opened(g, k, "notify", "/notify") <=> n < k /\ k <= m
      /\ Opened(g, k, "recipeSet", "/recipeSet") => k > w /\ k > m
      /\ Passed(g, k, "job") <=> j < k
      /\ Passed(g, k, "whiteboard") <=> w < k
      /\ Passed(g, k, "/notify") <=> 1 <= m /\ m < k
      /\ 1 <= j /\ j < w /\ w <= Len(files[g]) /\ m <= Len(files[g])
      /\ (n = 0 /\ m = 0) \/ (1 <= n /\ n < m)
  BY <1>2, Positions DEF Marks
<1>4. /\ "job" \in Line <=> k = j
      /\ "whiteboard" \in Line <=> k = w
      /\ "notify" \in Line <=> k = n
      /\ "/notify" \in Line <=> k = m
      /\ "recipeSet" \in Line \/ "/recipeSet" \in Line => k > w /\ k > m
      /\ j \in DOMAIN files[g] /\ w \in DOMAIN files[g]
      /\ \A u \in DOMAIN files[g] : n <= u /\ u <= m => u # j /\ u # w
  BY <1>1 DEF Shape
<1>5. /\ n <= j /\ j <= m => FALSE
      /\ n <= w /\ w <= m => FALSE
  BY <1>4
<1>6. /\ "job" \in inside <=> Opened(g, k, "job", "whiteboard")
      /\ "notify" \in inside <=> Opened(g, k, "notify", "/notify")
                                 /\ ~ Opened(g, k, "job", "whiteboard")
      /\ "recipeSet" \in inside <=> Opened(g, k, "recipeSet", "/recipeSet")
      /\ pc = "getline" <=> Opened(g, k, "job", "whiteboard")
                            /\ Opened(g, k, "notify", "/notify") /\ "notify" \notin seen
      /\ "job" \in seen <=> g > 1 \/ Passed(g, k, "job")
      /\ "whiteboard" \in seen <=> g > 1 \/ Passed(g, k, "whiteboard")
      /\ "notify" \in seen <=> NotifiedBefore(g) \/ Passed(g, k, "/notify")
      /\ curr_pos = SetOf(g, k) /\ curr_pos <= t_pos
  BY DEF Remembers, InHead, InBlock, NotifiedBefore
<1>7. SetOf(g, k) \in Nat
  BY <1>1, SetOfNext
<1>8. Matches("recipeSet") <=> InSet(g, k)
  BY <1>1, <1>6 DEF Matches, InSet, In
<1>9. InSet(g, k) => k > w /\ k > m
  BY <1>1, <1>3, <1>4 DEF InSet, In
<1>10. "job" \in inside <=> j < k /\ k <= w
  BY <1>3, <1>6
<1>11. "notify" \in inside <=> n < k /\ k <= m /\ ~ (j < k /\ k <= w)
  BY <1>3, <1>6
<1>12. pc = "getline" <=> j < k /\ k <= w /\ n < k /\ k <= m /\ "notify" \notin seen
  BY <1>3, <1>6
<1>13. /\ "job" \in seen <=> g > 1 \/ j < k
       /\ "whiteboard" \in seen <=> g > 1 \/ w < k
       /\ "notify" \in seen <=> NotifiedBefore(g) \/ (1 <= m /\ m < k)
  BY <1>3, <1>6
<1>14. "/recipeSet" \in Line => k > w /\ k > m
  BY <1>4
<1>15. curr_pos = SetOf(g, k) /\ curr_pos \in Nat /\ curr_pos <= t_pos
  BY <1>6, <1>7
<1> QED
  BY <1>1, <1>3, <1>4, <1>5, <1>8, <1>9, <1>10, <1>11, <1>12, <1>13, <1>14, <1>15

\* Whether the current record belongs to the combined job.
LEMMA CombinedHere ==
  ASSUME JobType, ~ Eof, JobFiles, Remembers,
         NEW g \in 1 .. Len(files), NEW k \in 1 .. Len(files[g]), at = <<g, k>>,
         NEW j \in Nat, NEW w \in Nat, NEW n \in Nat, NEW m \in Nat, Shape(g, j, w, n, m)
  PROVE  Combined(g, k) <=> \/ g = 1 /\ (k = j \/ k = w)
                            \/ n <= k /\ k <= m /\ "notify" \notin seen
                            \/ InSet(g, k) /\ curr_pos = t_pos
<1>1. /\ Line = files[g][k] /\ k \in Nat /\ Len(files[g]) \in Nat /\ curr_pos = SetOf(g, k)
      /\ "job" \in Line <=> k = j
      /\ "whiteboard" \in Line <=> k = w
      /\ "notify" \in Line <=> k = n
      /\ "notify" \in seen <=> NotifiedBefore(g) \/ (1 <= m /\ m < k)
      /\ (n = 0 /\ m = 0) \/ (1 <= n /\ n < m)
  BY Here
<1>2. CallType /\ g \in 1 .. Len(files) /\ k \in 1 .. Len(files[g]) + 1
  BY <1>1 DEF JobType
<1>3. /\ Opened(g, k, "notify", "/notify") <=> n < k /\ k <= m
      /\ Notifies(g) <=> 1 <= n
  BY <1>2, Positions DEF Marks
<1>4. InNotify(g, k) <=> n <= k /\ k <= m
  <2>1. InNotify(g, k) <=> k = n \/ (n < k /\ k <= m)
    BY <1>1, <1>3 DEF InNotify, In
  <2> QED
    BY <1>1, <2>1
<1>5. Notifier(g) <=> 1 <= n /\ ~ NotifiedBefore(g)
  BY <1>3 DEF Notifier, NotifiedBefore
<1>6. Notifier(g) /\ InNotify(g, k) <=> n <= k /\ k <= m /\ "notify" \notin seen
  BY <1>1, <1>4, <1>5
<1>7. g = 1 /\ files[g][k] \cap {"job", "whiteboard"} # {} <=> g = 1 /\ (k = j \/ k = w)
  BY <1>1
<1> QED
  BY <1>1, <1>6, <1>7 DEF Combined

\* A file has more lines while the set asked for has not ended.
LEMMA FileGoesOn ==
  ASSUME JobType, ~ Eof, JobFiles, Remembers,
         SetEndsAt(at[1], at[2]) => curr_pos < t_pos
  PROVE  at[2] < Len(files[at[1]]) /\ NextLine = <<at[1], at[2] + 1>>
<1> DEFINE g == at[1]
           k == at[2]
<1>1. /\ g \in 1 .. Len(files) /\ k \in 1 .. Len(files[g]) /\ k \in Nat \ {0}
      /\ Len(files[g]) \in Nat /\ DOMAIN files = 1 .. Len(files) /\ t_pos \in Nat
  BY Advance, FileType DEF JobType, CallType
<1>2. curr_pos = SetOf(g, k) /\ curr_pos <= t_pos
  BY DEF Remembers
<1>3. SetOf(g, k + 1) <= t_pos
  <2>1. SetOf(g, k) \in Nat
        /\ SetOf(g, k + 1) = IF SetEndsAt(g, k) THEN SetOf(g, k) + 1 ELSE SetOf(g, k)
    BY <1>1, SetOfNext
  <2> QED
    BY <1>1, <1>2, <2>1
<1>4. SetOf(g, Len(files[g]) + 1) > t_pos
  BY <1>1 DEF JobFiles
<1>5. k # Len(files[g])
  <2>1. SetOf(g, k + 1) \in Nat
    BY <1>1, SetOfNext
  <2> QED
    BY <1>1, <1>3, <1>4, <2>1
<1> QED
  BY <1>1, <1>5 DEF NextLine

\* What is said of job files does not change.
LEMMA CombineFiles ==
  ASSUME UNCHANGED input
  PROVE  /\ Lines' = Lines /\ JobFiles' = JobFiles /\ UNCHANGED <<program, files, t_pos>>
         /\ \A g, k : Combined(g, k)' = Combined(g, k) /\ SetOf(g, k)' = SetOf(g, k)
         /\ \A g, k, first, last : Opened(g, k, first, last)' = Opened(g, k, first, last)
         /\ \A g, k, p : Passed(g, k, p)' = Passed(g, k, p)
         /\ \A g : Notifies(g)' = Notifies(g)
<1>1. UNCHANGED <<program, files, t_pos>>
  BY DEF input
<1>2. /\ \A g, k, first, last : Opened(g, k, first, last)' = Opened(g, k, first, last)
      /\ \A g, k, first, last : In(g, k, first, last)' = In(g, k, first, last)
  BY <1>1 DEF Opened, In
<1>3. \A g, k : /\ InSet(g, k)' = InSet(g, k) /\ InNotify(g, k)' = InNotify(g, k)
                /\ SetEndsAt(g, k)' = SetEndsAt(g, k)
  BY <1>1, <1>2 DEF InSet, InNotify, SetEndsAt
<1>4. \A g, k : SetOf(g, k)' = SetOf(g, k)
  BY <1>3 DEF SetOf
<1>5. \A g : Notifies(g)' = Notifies(g) /\ Notifier(g)' = Notifier(g)
  BY <1>1 DEF Notifies, Notifier
<1>6. \A g, k : Combined(g, k)' = Combined(g, k)
  BY <1>1, <1>3, <1>4, <1>5 DEF Combined
<1>7. JobFiles' = JobFiles
  BY <1>1, <1>4 DEF JobFiles, JobFile
<1> QED
  BY <1>1, <1>2, <1>4, <1>5, <1>6, <1>7 DEF Lines, Passed


\* Where the record is, and what shape its file has.
LEMMA HereIs ==
  ASSUME JobType, ~ Eof, JobFiles
  PROVE  \E g \in 1 .. Len(files), j, w, n, m \in Nat : \E k \in 1 .. Len(files[g]) :
           at = <<g, k>> /\ Shape(g, j, w, n, m)
<1>1. CallType /\ at[1] \in 1 .. Len(files) /\ at[2] \in 1 .. Len(files[at[1]])
      /\ at = <<at[1], at[2]>>
  BY Advance DEF JobType, AtType
<1>2. \E j, w, n, m \in Nat : Shape(at[1], j, w, n, m)
  BY <1>1, JobFileShape
<1> QED
  BY <1>1, <1>2

\* The next line is the next of the file: what is to be remembered there.
LEMMA RemembersLine ==
  ASSUME JobType, ~ Eof, JobFiles, Remembers, UNCHANGED input,
         NEW g \in 1 .. Len(files), NEW k \in 1 .. Len(files[g]), at = <<g, k>>,
         NEW j \in Nat, NEW w \in Nat, NEW n \in Nat, NEW m \in Nat, Shape(g, j, w, n, m),
         at' = <<g, k + 1>>, k < Len(files[g]),
         "job" \in inside' <=> j <= k /\ k < w,
         "notify" \in inside' <=> n <= k /\ k < m /\ ~ (j <= k /\ k < w),
         "recipeSet" \in inside' <=> InSet(g, k) /\ "/recipeSet" \notin Line,
         pc' = "getline" <=> j <= k /\ k < w /\ n <= k /\ k < m /\ "notify" \notin seen',
         "job" \in seen' <=> g > 1 \/ j <= k,
         "whiteboard" \in seen' <=> g > 1 \/ w <= k,
         "notify" \in seen' <=> NotifiedBefore(g) \/ (1 <= m /\ m <= k),
         curr_pos' = IF SetEndsAt(g, k) THEN curr_pos + 1 ELSE curr_pos,
         curr_pos' <= t_pos
  PROVE  Remembers'
<1>1. /\ Line = files[g][k] /\ g \in Nat /\ k \in Nat \ {0} /\ Len(files[g]) \in Nat
      /\ curr_pos = SetOf(g, k)
  BY FileType DEF JobType, CallType, Line, LineAt, Remembers
<1>2. /\ UNCHANGED <<files, t_pos>>
      /\ \A u, l : SetOf(u, l)' = SetOf(u, l)
      /\ \A u, l, first, last : Opened(u, l, first, last)' = Opened(u, l, first, last)
      /\ \A u, l, p : Passed(u, l, p)' = Passed(u, l, p)
      /\ \A u : Notifies(u)' = Notifies(u)
  BY CombineFiles
<1> DEFINE l == k + 1
<1>3. CallType /\ l \in Nat /\ g \in 1 .. Len(files) /\ l \in 1 .. Len(files[g]) + 1
  BY <1>1 DEF JobType
<1>4. /\ Opened(g, l, "job", "whiteboard") <=> j < l /\ l <= w
      /\ Opened(g, l, "notify", "/notify") <=> n < l /\ l <= m
      /\ Passed(g, l, "job") <=> j < l
      /\ Passed(g, l, "whiteboard") <=> w < l
      /\ Passed(g, l, "/notify") <=> 1 <= m /\ m < l
  <2> HIDE DEF l
  <2>1. Marks(g, l, j, w, n, m)
    BY <1>3, Positions
  <2> QED
    BY <2>1 DEF Marks
<1>5. /\ (j < l <=> j <= k) /\ (l <= w <=> k < w)
      /\ (n < l <=> n <= k) /\ (l <= m <=> k < m)
      /\ (w < l <=> w <= k) /\ (m < l <=> m <= k)
  BY <1>1
<1>6. Opened(g, l, "recipeSet", "/recipeSet") <=> InSet(g, k) /\ "/recipeSet" \notin Line
  BY <1>1, OpenedNext DEF InSet
<1>7. curr_pos' = SetOf(g, l)
  BY <1>1, SetOfNext
<1>8. at'[1] = g /\ at'[2] = l
  OBVIOUS
<1> HIDE DEF l
<1>9. NotifiedBefore(g)' = NotifiedBefore(g)
  BY <1>2 DEF NotifiedBefore
<1>10. (InHead' <=> j <= k /\ k < w) /\ (InBlock' <=> n <= k /\ k < m)
  BY <1>2, <1>4, <1>5, <1>8 DEF InHead, InBlock
<1>11. /\ Passed(at[1], at[2], "job")' <=> j <= k
       /\ Passed(at[1], at[2], "whiteboard")' <=> w <= k
       /\ Passed(at[1], at[2], "/notify")' <=> 1 <= m /\ m <= k
  BY <1>2, <1>4, <1>5, <1>8
<1>12. "recipeSet" \in inside' <=> Opened(at[1], at[2], "recipeSet", "/recipeSet")'
  BY <1>2, <1>6, <1>8
<1>13. curr_pos' = SetOf(at[1], at[2])' /\ curr_pos' <= t_pos'
  BY <1>2, <1>7, <1>8
<1>14. "notify" \in seen' <=> (\E h \in 1 .. at'[1] - 1 : Notifies(h)') \/ (1 <= m /\ m <= k)
  BY <1>2, <1>8 DEF NotifiedBefore
<1> QED
  BY <1>8, <1>10, <1>11, <1>12, <1>13, <1>14 DEF Remembers

\* nextfile: what is to be remembered in front of a file.
LEMMA RemembersFile ==
  ASSUME JobType, ~ Eof, JobFiles, Remembers, UNCHANGED input,
         NEW g \in 1 .. Len(files), NEW k \in 1 .. Len(files[g]), at = <<g, k>>,
         NEW j \in Nat, NEW w \in Nat, NEW n \in Nat, NEW m \in Nat, Shape(g, j, w, n, m),
         at' = <<g + 1, 1>>, inside' \cap {"job", "notify", "recipeSet"} = {},
         pc' # "getline", {"job", "whiteboard"} \subseteq seen',
         "notify" \in seen' <=> NotifiedBefore(g) \/ 1 <= n, curr_pos' = 0
  PROVE  Remembers'
<1>1. g \in Nat \ {0} /\ k \in Nat /\ Len(files[g]) \in Nat /\ t_pos \in Nat
  BY FileType DEF JobType, CallType
<1>2. /\ UNCHANGED <<files, t_pos>>
      /\ \A u, l : SetOf(u, l)' = SetOf(u, l)
      /\ \A u, l, first, last : Opened(u, l, first, last)' = Opened(u, l, first, last)
      /\ \A u, l, p : Passed(u, l, p)' = Passed(u, l, p)
      /\ \A u : Notifies(u)' = Notifies(u)
  BY CombineFiles
<1>3. at'[1] = g + 1 /\ at'[2] = 1 /\ g + 1 > 1 /\ 1 \in Nat \ {0}
  BY <1>1
<1>4. \A first, last : ~ Opened(at[1], at[2], first, last)'
  BY <1>2, <1>3 DEF Opened
<1>5. \A p : ~ Passed(at[1], at[2], p)'
  BY <1>2, <1>3 DEF Passed
<1>6. Notifies(g) <=> 1 <= n
  <2>1. CallType /\ k \in Nat /\ g \in 1 .. Len(files) /\ k \in 1 .. Len(files[g]) + 1
    BY <1>1 DEF JobType
  <2> QED
    BY <2>1, Positions DEF Marks
<1>7. (\E h \in 1 .. at'[1] - 1 : Notifies(h)') <=> NotifiedBefore(g) \/ 1 <= n
  <2>1. \A h \in 1 .. at'[1] - 1 : h = g \/ h \in 1 .. g - 1
    BY <1>1, <1>3
  <2>2. g \in 1 .. at'[1] - 1 /\ \A h \in 1 .. g - 1 : h \in 1 .. at'[1] - 1
    BY <1>1, <1>3
  <2> QED
    BY <1>2, <1>6, <2>1, <2>2 DEF NotifiedBefore
<1>8. SetOf(g + 1, 1) = 0
  BY <1>3, SetOfNext
<1>9. curr_pos' = SetOf(at[1], at[2])' /\ curr_pos' <= t_pos'
  BY <1>1, <1>2, <1>3, <1>8
<1>10. "job" \in seen' /\ "whiteboard" \in seen' /\ "job" \notin inside'
       /\ "notify" \notin inside' /\ "recipeSet" \notin inside'
  OBVIOUS
<1> QED
  BY <1>3, <1>4, <1>5, <1>7, <1>9, <1>10 DEF Remembers, InHead, InBlock

\* The current record is printed if it belongs to the combined job, and the lines
\* that nextfile skips do not.
LEMMA CombinedNext ==
  ASSUME JobType, ~ Eof, UNCHANGED input, out \in Seq(Lines), CombinedSoFar,
         NEW g \in 1 .. Len(files), NEW k \in 1 .. Len(files[g]), at = <<g, k>>,
         IF Combined(g, k) THEN out' = Append(out, at) ELSE out' = out,
         \/ at' = <<g, k + 1>>
         \/ at' = <<g + 1, 1>> /\ \A l \in k + 1 .. Len(files[g]) : ~ Combined(g, l)
  PROVE  out' \in Seq(Lines') /\ CombinedSoFar'
<1>1. /\ g \in Nat /\ k \in Nat /\ Len(files[g]) \in Nat /\ at \in Lines
  BY Advance, FileType DEF JobType
<1>2. /\ Lines' = Lines /\ \A u, l : Combined(u, l)' = Combined(u, l)
  BY CombineFiles
<1>3. /\ Sorted(out) /\ ToSet(out) = {c \in Lines : Before(c, at) /\ Combined(c[1], c[2])}
  BY DEF CombinedSoFar
<1>4. /\ out' \in Seq(Lines) /\ Sorted(out')
      /\ ToSet(out') = ToSet(out) \cup {c \in {at} : Combined(g, k)}
  <2>1. CASE Combined(g, k)
    <3>1. \A d \in ToSet(out) : Before(d, at)
      BY <1>3
    <3>2. /\ Append(out, at) \in Seq(Lines) /\ Sorted(Append(out, at))
          /\ ToSet(Append(out, at)) = ToSet(out) \cup {at}
      BY ONLY <1>1, <1>3, <3>1, out \in Seq(Lines), AppendSorted
    <3> QED
      BY <2>1, <3>2
  <2>2. CASE ~ Combined(g, k)
    BY <1>3, <2>2
  <2> QED
    BY <2>1, <2>2
<1>5. ASSUME NEW c \in Lines
      PROVE  Before(c, at') /\ Combined(c[1], c[2])
               <=> (Before(c, at) \/ c = at) /\ Combined(c[1], c[2])
  <2>1. PICK h \in 1 .. Len(files) : \E u \in 1 .. Len(files[h]) : c = <<h, u>>
    BY LinesAre DEF JobType
  <2>2. PICK u \in 1 .. Len(files[h]) : c = <<h, u>>
    BY <2>1
  <2>3. h \in Nat /\ u \in Nat /\ c[1] = h /\ c[2] = u /\ 1 <= u /\ u <= Len(files[h])
        /\ Len(files[h]) \in Nat
    BY <2>2, FileType DEF JobType, CallType
  <2>4. Before(c, at) <=> h < g \/ (h = g /\ u < k)
    BY <2>3 DEF Before
  <2>5. c = at <=> h = g /\ u = k
    BY <2>2
  <2>6. CASE at' = <<g, k + 1>>
    <3>1. Before(c, at') <=> h < g \/ (h = g /\ u < k + 1)
      BY <2>3, <2>6 DEF Before
    <3> QED
      BY <1>1, <2>3, <2>4, <2>5, <3>1
  <2>7. CASE at' = <<g + 1, 1>> /\ \A l \in k + 1 .. Len(files[g]) : ~ Combined(g, l)
    <3>1. Before(c, at') <=> h < g + 1
      BY <1>1, <2>3, <2>7 DEF Before
    <3>2. h = g /\ u > k => ~ Combined(h, u)
      BY <1>1, <2>3, <2>7
    <3> QED
      BY <1>1, <2>3, <2>4, <2>5, <3>1, <3>2
  <2> QED
    BY <2>6, <2>7
<1>6. ToSet(out') = {c \in Lines : Before(c, at') /\ Combined(c[1], c[2])}
  BY <1>1, <1>3, <1>4, <1>5
<1> QED
  BY <1>2, <1>4, <1>6 DEF CombinedSoFar


\* Behind the set asked for nothing of a file belongs to the combined job.
LEMMA SkippedLines ==
  ASSUME JobType, ~ Eof, JobFiles, Remembers,
         NEW g \in 1 .. Len(files), NEW k \in 1 .. Len(files[g]), at = <<g, k>>,
         NEW j \in Nat, NEW w \in Nat, NEW n \in Nat, NEW m \in Nat, Shape(g, j, w, n, m),
         SetEndsAt(g, k), curr_pos >= t_pos, NEW l \in k + 1 .. Len(files[g])
  PROVE  ~ Combined(g, l)
<1>1. /\ k \in Nat \ {0} /\ Len(files[g]) \in Nat /\ DOMAIN files[g] = 1 .. Len(files[g])
      /\ curr_pos = SetOf(g, k) /\ t_pos \in Nat
  BY FileType DEF JobType, CallType, Remembers
<1>2. CallType /\ l \in 1 .. Len(files[g]) + 1 /\ l \in DOMAIN files[g] /\ l \in Nat /\ k < l
      /\ k \in DOMAIN files[g]
  BY <1>1 DEF JobType
<1>3. k > w /\ k > m
  BY <1>2 DEF Shape, SetEndsAt
<1>4. Marks(g, l, j, w, n, m)
  BY <1>2, Positions
<1>5. files[g][l] \cap {"job", "whiteboard"} = {}
  BY <1>1, <1>2, <1>3 DEF Shape
<1>6. ~ InNotify(g, l)
  <2>1. "notify" \notin files[g][l] /\ ~ Opened(g, l, "notify", "/notify")
    BY <1>1, <1>2, <1>3, <1>4 DEF Shape, Marks
  <2> QED
    BY <2>1 DEF InNotify, In
<1>7. SetOf(g, l) # t_pos
  <2>1. SetOf(g, k) \in Nat /\ SetOf(g, k + 1) = SetOf(g, k) + 1
    BY <1>1, SetOfNext
  <2>2. SetOf(g, l) \in Nat
    <3>1. l \in Nat \ {0}
      BY <1>1, <1>2
    <3> QED
      BY <3>1, SetOfNext
  <2>3. k + 1 \in Nat \ {0} /\ k + 1 <= l
    BY <1>1, <1>2
  <2>4. SetOf(g, k + 1) <= SetOf(g, l)
    BY <1>2, <2>3, SetOfGrows
  <2> QED
    BY <1>1, <2>1, <2>2, <2>4
<1> QED
  BY <1>5, <1>6, <1>7 DEF Combined

LEMMA CombineHead ==
  ASSUME JobType, CombineInv, HeadRule
  PROVE  CombineInv'
<1>1. /\ program = "combine" /\ pc = "main" /\ ~ Eof /\ UNCHANGED input /\ at' = NextLine
      /\ inside' = HeadOpen /\ UNCHANGED curr_pos /\ Matches("job")
  BY DEF HeadRule, Main
<1>2. Lines' = Lines /\ JobFiles' = JobFiles /\ UNCHANGED program
  BY <1>1, CombineFiles
<1>3. pc' \in {"main", "getline", "done"} /\ out' \in Seq(Lines')
  <2>1. out \in Seq(Lines) /\ at \in Lines
    BY <1>1, Advance DEF CombineInv, JobType
  <2>2. (out' = out \/ out' = Append(out, at)) /\ pc' \in {"main", "getline"}
    BY <1>1 DEF HeadRule, PrintOnce
  <2> QED
    BY <1>2, <2>1, <2>2
<1>4. ASSUME JobFiles PROVE Remembers' /\ CombinedSoFar'
  <2>1. /\ ~ Eof /\ JobFiles /\ UNCHANGED input
        /\ Remembers /\ CombinedSoFar /\ out \in Seq(Lines)
    BY <1>1, <1>4 DEF CombineInv
  <2>2. PICK g \in 1 .. Len(files), j, w, n, m \in Nat : \E k \in 1 .. Len(files[g]) :
          at = <<g, k>> /\ Shape(g, j, w, n, m)
    BY <1>1, <1>4, HereIs
  <2>3. PICK k \in 1 .. Len(files[g]) : at = <<g, k>> /\ Shape(g, j, w, n, m)
    BY <2>2
  <2>4. /\ Line = files[g][k] /\ g \in Nat /\ k \in Nat /\ Len(files[g]) \in Nat
        /\ 1 <= j /\ j < w /\ w <= Len(files[g]) /\ m <= Len(files[g])
        /\ (n = 0 /\ m = 0) \/ (1 <= n /\ n < m)
        /\ "job" \in Line <=> k = j
        /\ "whiteboard" \in Line <=> k = w
        /\ "notify" \in Line <=> k = n
        /\ n <= j /\ j <= m => FALSE
        /\ n <= w /\ w <= m => FALSE
        /\ "job" \in inside <=> j < k /\ k <= w
        /\ "notify" \in inside <=> n < k /\ k <= m /\ ~ (j < k /\ k <= w)
        /\ pc = "getline" <=> j < k /\ k <= w /\ n < k /\ k <= m /\ "notify" \notin seen
        /\ "job" \in seen <=> g > 1 \/ j < k
        /\ "whiteboard" \in seen <=> g > 1 \/ w < k
        /\ "notify" \in seen <=> NotifiedBefore(g) \/ (1 <= m /\ m < k)
        /\ Matches("recipeSet") <=> InSet(g, k)
        /\ InSet(g, k) => k > w /\ k > m
        /\ curr_pos <= t_pos
    BY <2>1, <2>3, Here, SMTT(60)
  <2>5. j <= k /\ k <= w /\ g >= 1
    BY <1>1, <2>4 DEF Matches
  <2>6. ~ InSet(g, k) /\ ~ SetEndsAt(g, k) /\ "recipeSet" \notin inside
    BY <2>4, <2>5 DEF SetEndsAt, Matches
  <2>7. Combined(g, k) <=> \/ g = 1 /\ (k = j \/ k = w)
                           \/ n <= k /\ k <= m /\ "notify" \notin seen
    BY <2>1, <2>3, <2>6, CombinedHere, SMTT(60)
  <2>8. k < Len(files[g]) /\ at' = <<g, k + 1>>
    BY <1>1, <1>4, <2>1, <2>3, <2>6, FileGoesOn
  <2>9. /\ "job" \in inside' <=> j <= k /\ k < w
        /\ "notify" \in inside' <=> n <= k /\ k < m /\ ~ (j <= k /\ k < w)
        /\ "recipeSet" \notin inside'
    <3>1. /\ "job" \in inside' <=> "whiteboard" \notin Line
          /\ "notify" \in inside' <=> "notify" \in inside
          /\ "recipeSet" \in inside' <=> "recipeSet" \in inside
      BY <1>1 DEF HeadOpen, Open
    <3> QED
      BY <2>4, <2>5, <2>6, <3>1
  <2> DEFINE Done == /\ IF Combined(g, k) THEN out' = Append(out, at) ELSE out' = out
                     /\ pc' = "getline" <=> /\ j <= k /\ k < w /\ n <= k /\ k < m
                                            /\ "notify" \notin seen'
                     /\ "job" \in seen' <=> g > 1 \/ j <= k
                     /\ "whiteboard" \in seen' <=> g > 1 \/ w <= k
                     /\ "notify" \in seen' <=> NotifiedBefore(g) \/ (1 <= m /\ m <= k)
  <2>10. Done
    <3>1. CASE PrintOnce("job")
      BY <1>1, <2>4, <2>5, <2>7, <3>1 DEF PrintOnce
    <3>2. CASE "job" \notin Line \ seen /\ PrintOnce("whiteboard")
      BY <1>1, <2>4, <2>5, <2>7, <3>2 DEF PrintOnce
    <3>3. CASE /\ Line \cap {"job", "whiteboard"} \subseteq seen
               /\ "notify" \in Line \ seen
               /\ pc' = "getline" /\ out' = Append(out, at) /\ UNCHANGED seen
      BY <1>1, <2>4, <2>5, <2>7, <3>3
    <3>4. CASE /\ (Line \cap {"job", "whiteboard", "notify"}) \subseteq seen
               /\ UNCHANGED <<pc, out, seen>>
      BY <1>1, <2>4, <2>5, <2>7, <3>4
    <3> QED
      BY <3>1, <3>2, <3>3, <3>4 DEF HeadRule
  <2>11. Remembers'
    BY <1>1, <1>4, <2>1, <2>3, <2>4, <2>6, <2>8, <2>9, <2>10, RemembersLine,
       SMTT(60)
  <2>12. CombinedSoFar'
    BY <1>1, <2>1, <2>3, <2>8, <2>10, CombinedNext
  <2> QED
    BY <2>11, <2>12
<1> QED
  BY <1>2, <1>3, <1>4 DEF CombineInv


LEMMA CombineGetline ==
  ASSUME JobType, CombineInv, Getline
  PROVE  CombineInv'
<1>1. /\ pc = "getline" /\ ~ Eof /\ UNCHANGED input /\ at' = NextLine
      /\ UNCHANGED <<inside, curr_pos>> /\ out' = Append(out, at)
      /\ IF "/notify" \in Line THEN pc' = "main" /\ seen' = seen \cup {"notify"}
                               ELSE UNCHANGED <<pc, seen>>
  BY DEF Getline
<1>2. Lines' = Lines /\ JobFiles' = JobFiles /\ UNCHANGED program
  BY <1>1, CombineFiles
<1>3. SUFFICES ASSUME program = "combine"
               PROVE  /\ pc' \in {"main", "getline", "done"} /\ out' \in Seq(Lines')
                      /\ JobFiles => Remembers' /\ CombinedSoFar'
  BY <1>2 DEF CombineInv
<1>4. pc' \in {"main", "getline", "done"} /\ out' \in Seq(Lines')
  <2>1. out \in Seq(Lines) /\ at \in Lines
    BY <1>1, <1>3, Advance DEF CombineInv, JobType
  <2> QED
    BY <1>1, <1>2, <2>1
<1>5. ASSUME JobFiles PROVE Remembers' /\ CombinedSoFar'
  <2>1. /\ ~ Eof /\ JobFiles /\ UNCHANGED input
        /\ Remembers /\ CombinedSoFar /\ out \in Seq(Lines)
    BY <1>1, <1>3, <1>5 DEF CombineInv
  <2>2. PICK g \in 1 .. Len(files), j, w, n, m \in Nat : \E k \in 1 .. Len(files[g]) :
          at = <<g, k>> /\ Shape(g, j, w, n, m)
    BY <1>1, <1>5, HereIs
  <2>3. PICK k \in 1 .. Len(files[g]) : at = <<g, k>> /\ Shape(g, j, w, n, m)
    BY <2>2
  <2>4. /\ Line = files[g][k] /\ g \in Nat /\ k \in Nat /\ Len(files[g]) \in Nat
        /\ 1 <= j /\ j < w /\ w <= Len(files[g]) /\ m <= Len(files[g])
        /\ (n = 0 /\ m = 0) \/ (1 <= n /\ n < m)
        /\ "/notify" \in Line <=> k = m
        /\ n <= j /\ j <= m => FALSE
        /\ n <= w /\ w <= m => FALSE
        /\ "job" \in inside <=> j < k /\ k <= w
        /\ "notify" \in inside <=> n < k /\ k <= m /\ ~ (j < k /\ k <= w)
        /\ pc = "getline" <=> j < k /\ k <= w /\ n < k /\ k <= m /\ "notify" \notin seen
        /\ "job" \in seen <=> g > 1 \/ j < k
        /\ "whiteboard" \in seen <=> g > 1 \/ w < k
        /\ "notify" \in seen <=> NotifiedBefore(g) \/ (1 <= m /\ m < k)
        /\ Matches("recipeSet") <=> InSet(g, k)
        /\ InSet(g, k) => k > w /\ k > m
        /\ curr_pos <= t_pos
    BY <2>1, <2>3, Here, SMTT(60)
  <2>5. j < k /\ k < w /\ n < k /\ k <= m /\ "notify" \notin seen
    BY <1>1, <2>4
  <2>6. ~ InSet(g, k) /\ ~ SetEndsAt(g, k) /\ "recipeSet" \notin inside
    BY <2>4, <2>5 DEF SetEndsAt, Matches
  <2>7. Combined(g, k)
    BY <2>1, <2>3, <2>4, <2>5, CombinedHere, SMTT(60)
  <2>8. k < Len(files[g]) /\ at' = <<g, k + 1>>
    BY <1>1, <1>5, <2>1, <2>3, <2>6, FileGoesOn
  <2>9. /\ "job" \in inside' <=> j <= k /\ k < w
        /\ "notify" \in inside' <=> n <= k /\ k < m /\ ~ (j <= k /\ k < w)
        /\ "recipeSet" \notin inside'
    BY <1>1, <2>4, <2>5, <2>6
  <2>10. /\ pc' = "getline" <=> /\ j <= k /\ k < w /\ n <= k /\ k < m
                                /\ "notify" \notin seen'
         /\ "job" \in seen' <=> g > 1 \/ j <= k
         /\ "whiteboard" \in seen' <=> g > 1 \/ w <= k
         /\ "notify" \in seen' <=> NotifiedBefore(g) \/ (1 <= m /\ m <= k)
    <3>1. CASE k = m
      BY <1>1, <2>4, <2>5, <3>1
    <3>2. CASE k # m
      BY <1>1, <2>4, <2>5, <3>2
    <3> QED
      BY <3>1, <3>2
  <2>11. Remembers'
    BY <1>1, <1>5, <2>1, <2>3, <2>4, <2>6, <2>8, <2>9, <2>10, RemembersLine,
       SMTT(60)
  <2>12. CombinedSoFar'
    BY <1>1, <2>1, <2>3, <2>7, <2>8, CombinedNext
  <2> QED
    BY <2>11, <2>12
<1> QED
  BY <1>4, <1>5

LEMMA CombineBody ==
  ASSUME JobType, CombineInv, Body
  PROVE  CombineInv'
<1>1. /\ program = "combine" /\ pc = "main" /\ ~ Eof /\ UNCHANGED input /\ UNCHANGED pc
      /\ ~ Matches("job") /\ out' = out \o Notified \o Selected
      /\ seen' = seen \cup BlockRead
      /\ inside' = Open("notify", "/notify") \cup Open("recipeSet", "/recipeSet")
      /\ curr_pos' = IF ~ SetEnds THEN curr_pos
                     ELSE IF curr_pos >= t_pos THEN 0 ELSE curr_pos + 1
      /\ at' = IF SetEnds /\ curr_pos >= t_pos THEN NextFile ELSE NextLine
  BY DEF Body, Main
<1>2. Lines' = Lines /\ JobFiles' = JobFiles /\ UNCHANGED program
  BY <1>1, CombineFiles
<1>3. out \in Seq(Lines) /\ at \in Lines
  BY <1>1, Advance DEF CombineInv, JobType
<1>4. out' \in Seq(Lines')
  <2>1. Notified \in Seq(Lines) /\ Selected \in Seq(Lines)
    BY <1>3 DEF Notified, Selected
  <2> QED
    BY <1>1, <1>2, <1>3, <2>1
<1>5. ASSUME JobFiles PROVE Remembers' /\ CombinedSoFar'
  <2>1. /\ ~ Eof /\ JobFiles /\ UNCHANGED input
        /\ Remembers /\ CombinedSoFar /\ out \in Seq(Lines)
    BY <1>1, <1>5 DEF CombineInv
  <2>2. PICK g \in 1 .. Len(files), j, w, n, m \in Nat : \E k \in 1 .. Len(files[g]) :
          at = <<g, k>> /\ Shape(g, j, w, n, m)
    BY <1>1, <1>5, HereIs
  <2>3. PICK k \in 1 .. Len(files[g]) : at = <<g, k>> /\ Shape(g, j, w, n, m)
    BY <2>2
  <2>4. /\ Line = files[g][k] /\ g \in Nat /\ k \in Nat /\ Len(files[g]) \in Nat
        /\ 1 <= j /\ j < w /\ w <= Len(files[g]) /\ m <= Len(files[g])
        /\ (n = 0 /\ m = 0) \/ (1 <= n /\ n < m)
        /\ "job" \in Line <=> k = j
        /\ "notify" \in Line <=> k = n
        /\ "/notify" \in Line <=> k = m
        /\ n <= j /\ j <= m => FALSE
        /\ n <= w /\ w <= m => FALSE
        /\ "job" \in inside <=> j < k /\ k <= w
        /\ "notify" \in inside <=> n < k /\ k <= m /\ ~ (j < k /\ k <= w)
        /\ "job" \in seen <=> g > 1 \/ j < k
        /\ "whiteboard" \in seen <=> g > 1 \/ w < k
        /\ "notify" \in seen <=> NotifiedBefore(g) \/ (1 <= m /\ m < k)
        /\ Matches("recipeSet") <=> InSet(g, k)
        /\ InSet(g, k) => k > w /\ k > m
        /\ curr_pos \in Nat /\ curr_pos <= t_pos /\ t_pos \in Nat
    BY <2>1, <2>3, Here, SMTT(60)
  <2>5. ~ (j <= k /\ k <= w) /\ (Matches("notify") <=> n <= k /\ k <= m)
    BY <1>1, <2>4 DEF Matches
  <2>6. SetEnds <=> SetEndsAt(g, k)
    BY <2>4 DEF SetEnds, SetEndsAt
  <2>7. IF Combined(g, k) THEN out' = Append(out, at) ELSE out' = out
    <3>1. Combined(g, k) <=> \/ n <= k /\ k <= m /\ "notify" \notin seen
                             \/ InSet(g, k) /\ curr_pos = t_pos
      <4>1. Combined(g, k) <=> \/ g = 1 /\ (k = j \/ k = w)
                               \/ n <= k /\ k <= m /\ "notify" \notin seen
                               \/ InSet(g, k) /\ curr_pos = t_pos
        BY <2>1, <2>3, CombinedHere, SMTT(60)
      <4> QED
        BY <2>4, <2>5, <4>1
    <3>2. /\ Notified = IF n <= k /\ k <= m /\ "notify" \notin seen THEN <<at>> ELSE <<>>
          /\ Selected = IF InSet(g, k) /\ curr_pos = t_pos THEN <<at>> ELSE <<>>
          /\ ~ (n <= k /\ k <= m) \/ ~ InSet(g, k)
      BY <2>4, <2>5 DEF Notified, Selected
    <3>3. out \o <<at>> \o <<>> = Append(out, at) /\ out \o <<>> \o <<at>> = Append(out, at)
          /\ out \o <<>> \o <<>> = out
      BY <1>3
    <3> QED
      BY <1>1, <3>1, <3>2, <3>3
  <2>8. /\ "job" \in seen' <=> g > 1 \/ j <= k
        /\ "whiteboard" \in seen' <=> g > 1 \/ w <= k
        /\ "notify" \in seen' <=> NotifiedBefore(g) \/ (1 <= m /\ m <= k)
    <3>1. \A p : p \in seen' <=> p \in seen \/ (p = "notify" /\ n <= k /\ k = m)
      BY <1>1, <2>4, <2>5 DEF BlockRead
    <3> QED
      BY <2>4, <2>5, <3>1
  <2>9. \A p : p \in inside' <=> \/ p = "notify" /\ n <= k /\ k < m
                                 \/ p = "recipeSet" /\ InSet(g, k) /\ "/recipeSet" \notin Line
    BY <1>1, <2>4, <2>5 DEF Open
  <2>10. CASE SetEndsAt(g, k) /\ curr_pos >= t_pos
    <3>1. at' = <<g + 1, 1>> /\ curr_pos' = 0
      BY <1>1, <2>3, <2>6, <2>10 DEF NextFile
    <3>2. InSet(g, k) /\ "/recipeSet" \in Line
      BY <2>4, <2>10 DEF SetEndsAt
    <3>3. k > w /\ k > m /\ inside' \cap {"job", "notify", "recipeSet"} = {}
      BY <2>4, <2>9, <3>2
    <3>4. {"job", "whiteboard"} \subseteq seen' /\ ("notify" \in seen' <=> NotifiedBefore(g) \/ 1 <= n)
      BY <2>4, <2>8, <3>3
    <3>5. Remembers'
      BY <1>1, <1>5, <2>1, <2>3, <3>1, <3>3, <3>4, RemembersFile
    <3>6. \A l \in k + 1 .. Len(files[g]) : ~ Combined(g, l)
      BY <1>1, <1>5, <2>1, <2>3, <2>10, SkippedLines
    <3>7. CombinedSoFar'
      BY <1>1, <2>1, <2>3, <2>7, <3>1, <3>6, CombinedNext
    <3> QED
      BY <3>5, <3>7
  <2>11. CASE ~ (SetEndsAt(g, k) /\ curr_pos >= t_pos)
    <3>1. SetEndsAt(g, k) => curr_pos < t_pos
      BY <2>4, <2>11
    <3>2. k < Len(files[g]) /\ NextLine = <<g, k + 1>>
      BY <1>1, <1>5, <2>1, <2>3, <3>1, FileGoesOn
    <3>3. /\ at' = <<g, k + 1>>
          /\ curr_pos' = IF SetEndsAt(g, k) THEN curr_pos + 1 ELSE curr_pos
          /\ curr_pos' <= t_pos
      BY <1>1, <2>4, <2>6, <2>11, <3>1, <3>2
    <3>4. /\ "job" \in inside' <=> j <= k /\ k < w
          /\ "notify" \in inside' <=> n <= k /\ k < m /\ ~ (j <= k /\ k < w)
          /\ "recipeSet" \in inside' <=> InSet(g, k) /\ "/recipeSet" \notin Line
          /\ pc' = "getline" <=> /\ j <= k /\ k < w /\ n <= k /\ k < m
                                 /\ "notify" \notin seen'
      BY <1>1, <2>4, <2>5, <2>9
    <3>5. Remembers'
      BY <2>1, <2>3, <2>8, <3>2, <3>3, <3>4, RemembersLine,
         SMTT(60)
    <3>6. CombinedSoFar'
      BY <1>1, <2>1, <2>3, <2>7, <3>3, CombinedNext
    <3> QED
      BY <3>5, <3>6
  <2> QED
    BY <2>10, <2>11
<1> QED
  BY <1>1, <1>2, <1>4, <1>5 DEF CombineInv

LEMMA CombineInitially ==
  ASSUME JobInit
  PROVE  CombineInv
<1>1. /\ JobType /\ at = <<1, 1>> /\ inside = {} /\ seen = {} /\ curr_pos = 0 /\ out = <<>>
      /\ program = "combine" => pc = "main"
  BY CallsTyped DEF JobInit
<1>2. \A c \in Lines : c[1] \in Nat /\ c[1] >= 1 /\ c[2] \in Nat /\ c[2] >= 1
  BY <1>1, LinesAre, FileType DEF JobType
<1>3. \A c \in Lines : ~ Before(c, at)
  BY <1>1, <1>2 DEF Before
<1>4. ToSet(<<>>) = {} /\ <<>> \in Seq(Lines) /\ Sorted(<<>>)
  BY DEF ToSet, Sorted
<1>5. CombinedSoFar
  BY <1>1, <1>3, <1>4 DEF CombinedSoFar
<1>6. /\ \A first, last : ~ Opened(at[1], at[2], first, last)
      /\ \A p : ~ Passed(at[1], at[2], p)
      /\ ~ (at[1] > 1) /\ ~ (\E h \in 1 .. at[1] - 1 : Notifies(h))
  BY <1>1 DEF Opened, Passed
<1>7. curr_pos = SetOf(at[1], at[2]) /\ curr_pos <= t_pos
  <2>1. 1 \in Nat \ {0} /\ t_pos \in Nat
    BY <1>1 DEF JobType, CallType
  <2>2. SetOf(1, 1) = 0
    BY <2>1, SetOfNext
  <2> QED
    BY <1>1, <2>1, <2>2
<1>8. program = "combine" => Remembers
  BY <1>1, <1>6, <1>7 DEF Remembers, InHead, InBlock
<1> QED
  BY <1>1, <1>4, <1>5, <1>8 DEF CombineInv

LEMMA CombineInductive ==
  ASSUME JobType, CombineInv, [JobNext]_jobVars
  PROVE  CombineInv'
<1>1. ASSUME UNCHANGED <<input, at, cvars, out>>,
             program = "combine" => pc' \in {"main", "getline", "done"}
                                    /\ (pc' = "getline" <=> pc = "getline")
      PROVE  CombineInv'
  <2>1. /\ Lines' = Lines /\ JobFiles' = JobFiles /\ UNCHANGED <<program, files, t_pos>>
        /\ \A g, k : Combined(g, k)' = Combined(g, k) /\ SetOf(g, k)' = SetOf(g, k)
        /\ \A g, k, first, last : Opened(g, k, first, last)' = Opened(g, k, first, last)
        /\ \A g, k, p : Passed(g, k, p)' = Passed(g, k, p)
        /\ \A g : Notifies(g)' = Notifies(g)
    BY <1>1, CombineFiles
  <2>2. UNCHANGED <<at, inside, seen, curr_pos, out>>
    BY <1>1 DEF cvars
  <2>3. CombinedSoFar' = CombinedSoFar
    BY <2>1, <2>2 DEF CombinedSoFar, Sorted, Before
  <2>4. program = "combine" /\ Remembers => Remembers'
    BY <1>1, <2>1, <2>2 DEF Remembers, InHead, InBlock
  <2> QED
    BY <1>1, <2>1, <2>2, <2>3, <2>4 DEF CombineInv
<1>2. ASSUME program # "combine", UNCHANGED input
      PROVE  CombineInv'
  BY <1>2 DEF CombineInv, input
<1>3. CASE HeadRule
  BY <1>3, CombineHead
<1>4. CASE Getline
  BY <1>4, CombineGetline
<1>5. CASE Body
  BY <1>5, CombineBody
<1>6. CASE Filter \/ Insert
  BY <1>2, <1>6 DEF Filter, Insert, Main
<1>7. CASE ReadPiece \/ EndOfTask \/ TaskFileRead
  BY <1>2, <1>7 DEF ReadPiece, EndOfTask, TaskFileRead, Reading, CombineInv
<1>8. CASE End
  BY <1>1, <1>8 DEF End
<1>9. CASE Over \/ UNCHANGED jobVars
  BY <1>1, <1>9 DEF Over, jobVars, CombineInv
<1> QED
  BY <1>3, <1>4, <1>5, <1>6, <1>7, <1>8, <1>9 DEF JobNext, Awk

LEMMA CombineDone ==
  ASSUME JobType, CombineInv
  PROVE  CombinesPosition
<1> SUFFICES ASSUME program = "combine", pc = "done", JobFiles
             PROVE  InOrder /\ ToSet(out) = {c \in Lines : Combined(c[1], c[2])}
  BY DEF CombinesPosition, JobFiles
<1>1. CombinedSoFar /\ Eof /\ out \in Seq(Lines)
  BY DEF CombineInv, JobType
<1>2. \A c \in Lines : Before(c, at)
  BY <1>1, AllBefore DEF JobType
<1> QED
  BY <1>1, <1>2 DEF CombinedSoFar, InOrder, Sorted

\* combine_extract.awk makes the combined job of job files that are long enough.
THEOREM JobsAreCombined == JobSpec => []CombinesPosition
<1>1. JobInit => JobType /\ CombineInv
  BY CallsTyped, CombineInitially
<1>2. JobType /\ CombineInv /\ [JobNext]_jobVars => JobType' /\ CombineInv'
  BY JobTypeNext, CombineInductive
<1>3. JobType /\ CombineInv => CombinesPosition
  BY CombineDone
<1> QED
  BY <1>1, <1>2, <1>3, PTL DEF JobSpec
-----------------------------------------------------------------------------
(* SlabTest *)

USE ObjectsAssumption

Names == 0 .. Objects - 1

\* list names each element of S, and each once.
Lists(list, S) ==
  /\ list \in Seq(Names)
  /\ \A k \in 1 .. Len(list) : list[k] \in S
  /\ \A x \in S : \E k \in 1 .. Len(list) : list[k] = x
  /\ \A j, k \in 1 .. Len(list) : list[j] = list[k] => j = k

\* Adding a new element at the head of a list.
LEMMA ListsCons ==
  ASSUME NEW list, NEW S, Lists(list, S), NEW x \in Names, x \notin S
  PROVE  Lists(<<x>> \o list, S \cup {x})
<1> DEFINE t == <<x>> \o list
<1>1. list \in Seq(Names) /\ t \in Seq(Names) /\ Len(t) = Len(list) + 1
  BY DEF Lists
<1>2. t[1] = x /\ \A k \in 2 .. Len(t) : t[k] = list[k - 1] /\ k - 1 \in 1 .. Len(list)
  BY <1>1
<1>3. \A k \in 1 .. Len(list) : t[k + 1] = list[k] /\ k + 1 \in 1 .. Len(t)
  BY <1>1
<1>4. \A k \in 1 .. Len(t) : t[k] \in S \cup {x}
  BY <1>1, <1>2 DEF Lists
<1>5. \A y \in S \cup {x} : \E k \in 1 .. Len(t) : t[k] = y
  <2>1. 1 \in 1 .. Len(t)
    BY <1>1
  <2> HIDE DEF t
  <2>2. ASSUME NEW y \in S PROVE \E k \in 1 .. Len(t) : t[k] = y
    <3>1. PICK k \in 1 .. Len(list) : list[k] = y
      BY DEF Lists
    <3> QED BY <1>3, <3>1
  <2> QED BY <1>2, <2>1, <2>2
<1>6. ASSUME NEW j \in 1 .. Len(t), NEW k \in 1 .. Len(t), t[j] = t[k]
      PROVE  j = k
  <2>1. CASE j = 1 \/ k = 1
    BY <1>1, <1>2, <1>6, <2>1 DEF Lists
  <2>2. CASE j # 1 /\ k # 1
    <3>1. list[j - 1] = list[k - 1] /\ j - 1 \in 1 .. Len(list) /\ k - 1 \in 1 .. Len(list)
      BY <1>1, <1>2, <1>6, <2>2
    <3>2. j - 1 = k - 1
      BY <3>1 DEF Lists
    <3> QED BY <3>2
  <2> QED BY <2>1, <2>2
<1> HIDE DEF t
<1>7. Lists(t, S \cup {x})
  BY <1>1, <1>4, <1>5, <1>6 DEF Lists
<1> QED BY <1>7 DEF t

\* What the list names from position p on.
Left(p) == {to_free[k] : k \in p .. Len(to_free)}

\* Freeing what position p names leaves what the positions behind it name.
LEMMA LeftShrinks ==
  ASSUME SlabTypeOK, Lists(to_free, Names), NEW p \in 1 .. Len(to_free)
  PROVE  Left(p) \ {to_free[p]} = Left(p + 1)
<1>1. Len(to_free) \in Nat
  BY DEF SlabTypeOK
<1>2. \A k \in p + 1 .. Len(to_free) :
        k \in p .. Len(to_free) /\ k \in 1 .. Len(to_free) /\ k # p
  BY <1>1
<1>3. \A k \in p + 1 .. Len(to_free) : to_free[k] # to_free[p]
  BY <1>2 DEF Lists
<1>4. \A k \in p .. Len(to_free) : k = p \/ k \in p + 1 .. Len(to_free)
  BY <1>1
<1> QED BY <1>2, <1>3, <1>4 DEF Left

-----------------------------------------------------------------------------
\* While the loop runs, the list names what the earlier turns have allocated;
\* while free_objs runs, the list from pos on names what is left, and the saved
\* position is the next one.
Filling ==
  /\ loader \in {"load", "alloc", "node", "live", "failed", "oops"} =>
       nodes = 0 .. i - 1 /\ Lists(to_free, nodes)
  /\ loader \in {"load", "alloc", "live", "failed"} => live = nodes
  /\ loader \in {"node", "oops"} => live = nodes \cup {i} /\ i < Objects
  /\ loader = "live" => i = Objects
Emptying ==
  /\ loader = "free" =>
       /\ Lists(to_free, Names) /\ live = nodes /\ nodes = Left(pos)
       /\ pos # ListHead => next_pos = pos + 1
  /\ loader = "gone" => live = {} /\ nodes = {}
  /\ cache = "destroyed" => loader = "gone"

SlabInv == SlabTypeOK /\ Filling /\ Emptying

\* At the start there is neither a cache nor a list.
LEMMA SlabInvInit == SlabInit => SlabInv
BY DEF SlabInit, SlabInv, SlabTypeOK, Filling, Emptying, Lists, ListHead

\* Every step keeps the invariant.
LEMMA SlabInvNext == ASSUME SlabInv, [SlabNext]_slabVars PROVE SlabInv'
<1> USE DEF SlabInv, Loader, walkVars
<1>1. CASE CreateCache
  BY <1>1 DEF CreateCache, SlabTypeOK, Filling, Emptying, ListHead
<1>2. CASE AllocObject
  BY <1>2 DEF AllocObject, SlabTypeOK, Filling, Emptying, ListHead
<1>3. CASE LinkNode
  <2>1. CASE loader' = "oops"
    BY <1>3, <2>1 DEF LinkNode, SlabTypeOK, Filling, Emptying, ListHead
  <2>2. CASE loader' = "alloc"
    <3>1. loader = "node" /\ i \in Names /\ i \notin nodes /\ Lists(to_free, nodes)
          /\ nodes = 0 .. i - 1 /\ live = nodes \cup {i}
      BY <1>3, <2>2 DEF LinkNode, SlabTypeOK, Filling, Names
    <3>2. to_free' = <<i>> \o to_free /\ nodes' = nodes \cup {i} /\ i' = i + 1
          /\ UNCHANGED <<cache, live, pos, next_pos>>
      BY <1>3, <2>2 DEF LinkNode
    <3>3. Lists(to_free', nodes')
      BY <3>1, <3>2, ListsCons
    <3>4. nodes' = 0 .. i' - 1
      BY <3>1, <3>2 DEF Names
    <3>5. pos' \in 1 .. ListHead' /\ next_pos' \in 1 .. ListHead'
      <4>1. Len(to_free') = Len(to_free) + 1 /\ Len(to_free) \in Nat
        BY <3>1, <3>2 DEF Lists
      <4> QED BY <3>2, <4>1 DEF SlabTypeOK, ListHead
    <3>6. SlabTypeOK'
      BY <2>2, <3>1, <3>2, <3>3, <3>4, <3>5 DEF SlabTypeOK, Lists, Names
    <3>7. cache # "destroyed"
      BY <3>1 DEF Emptying
    <3> QED
      BY <2>2, <3>1, <3>2, <3>3, <3>4, <3>6, <3>7 DEF Filling, Emptying
  <2> QED BY <1>3, <2>1, <2>2 DEF LinkNode
<1>4. CASE InitReturns
  BY <1>4 DEF InitReturns, SlabTypeOK, Filling, Emptying, ListHead
<1>5. CASE Rmmod
  <2>1. loader' = "free" /\ pos' = 1 /\ UNCHANGED <<i, cache, live, nodes, to_free>>
        /\ Lists(to_free, nodes) /\ nodes = Names /\ live = nodes /\ Len(to_free) \in Nat
    BY <1>5 DEF Rmmod, Filling, Names, SlabTypeOK
  <2>2. nodes = Left(1)
    BY <2>1 DEF Lists, Left
  <2>3. next_pos' \in 1 .. ListHead /\ (ListHead # 1 => next_pos' = 2)
    <3>1. CASE ListHead = 1
      BY <1>5, <3>1 DEF Rmmod, Following
    <3>2. CASE ListHead # 1
      <4>1. to_free[1] \in nodes
        BY <2>1, <3>2 DEF Lists, ListHead
      <4> QED BY <1>5, <2>1, <3>2, <4>1 DEF Rmmod, Following, ListHead
    <3> QED BY <3>1, <3>2
  <2>4. Left(pos)' = Left(1) /\ ListHead' = ListHead
    BY <2>1 DEF Left, ListHead
  <2> QED
    BY <1>5, <2>1, <2>2, <2>3, <2>4 DEF Rmmod, SlabTypeOK, Filling, Emptying, ListHead
<1>6. CASE FreeObject
  <2>1. /\ loader = "free" /\ loader' = "free" /\ UNCHANGED <<i, cache, to_free>>
        /\ Lists(to_free, Names) /\ live = nodes /\ nodes = Left(pos)
        /\ pos \in 1 .. Len(to_free) /\ Len(to_free) \in Nat /\ next_pos = pos + 1
        /\ pos' = next_pos /\ next_pos' \in Following(next_pos, nodes')
        /\ live' = nodes' /\ nodes' = nodes \ {to_free[pos]}
    BY <1>6 DEF FreeObject, FreeEntry, Emptying, SlabTypeOK, ListHead
  <2>2. nodes' = Left(pos + 1)
    BY <2>1, LeftShrinks
  <2>3. Left(pos)' = Left(pos + 1) /\ ListHead' = ListHead
    BY <2>1 DEF Left, ListHead
  <2>4. next_pos' \in 1 .. ListHead /\ (pos' # ListHead => next_pos' = pos' + 1)
    <3>1. CASE pos + 1 = ListHead
      BY <2>1, <3>1 DEF Following, ListHead
    <3>2. CASE pos + 1 # ListHead
      <4>1. pos + 1 \in pos + 1 .. Len(to_free)
        BY <2>1, <3>2 DEF ListHead
      <4>2. to_free[pos + 1] \in nodes'
        BY <2>2, <4>1 DEF Left
      <4>3. next_pos' = (pos + 1) + 1
        BY <2>1, <3>2, <4>2 DEF Following
      <4> QED BY <2>1, <4>1, <4>3 DEF ListHead
    <3> QED BY <3>1, <3>2
  <2>5. nodes' \in SUBSET (0 .. Objects - 1)
    BY <2>1 DEF SlabTypeOK
  <2>6. pos' \in 1 .. ListHead
    BY <2>1 DEF ListHead
  <2>7. SlabTypeOK'
    BY <2>1, <2>3, <2>4, <2>5, <2>6 DEF SlabTypeOK
  <2> QED BY <2>1, <2>2, <2>3, <2>4, <2>7 DEF Filling, Emptying
<1>7. CASE DestroyCache
  <2>1. nodes = {} /\ live = {}
    <3>1. nodes = Left(ListHead) /\ live = nodes /\ Len(to_free) \in Nat
      BY <1>7 DEF DestroyCache, Emptying, SlabTypeOK
    <3>2. ListHead .. Len(to_free) = {}
      BY <3>1 DEF ListHead
    <3> QED BY <3>1, <3>2 DEF Left
  <2> QED BY <1>7, <2>1 DEF DestroyCache, SlabTypeOK, Filling, Emptying, ListHead
<1>8. CASE UNCHANGED slabVars
  BY <1>8 DEF slabVars, SlabTypeOK, Filling, Emptying, ListHead, Left
<1> QED
  BY <1>1, <1>2, <1>3, <1>4, <1>5, <1>6, <1>7, <1>8 DEF SlabNext, Stopped

\* The invariant holds in every reachable state.
THEOREM SlabInvAlways == SlabSpec => []SlabInv
BY SlabInvInit, SlabInvNext, PTL DEF SlabSpec

\* The module's variables are well typed for every number of objects.
THEOREM SlabTypeCorrect == SlabSpec => []SlabTypeOK
<1>1. SlabInv => SlabTypeOK
  BY DEF SlabInv
<1> QED BY <1>1, SlabInvAlways, PTL

\* slabtest_cleanup (slabtest.c:60-61) frees everything before the destroy.
THEOREM NothingOutlivesCache == SlabSpec => []DestroyedEmpty
<1>1. SlabInv => DestroyedEmpty
  BY DEF SlabInv, Emptying, DestroyedEmpty
<1> QED BY <1>1, SlabInvAlways, PTL

\* free_objs (slabtest.c:23-27) frees each object once and follows no pointer of
\* a node it has freed.
THEOREM FreedOnce == SlabSpec => []NoDoubleFree
<1>1. ASSUME SlabInv PROVE NoDoubleFree
  <2> SUFFICES ASSUME loader = "free", pos # ListHead
               PROVE  /\ to_free[pos] \in live \cap nodes
                      /\ next_pos # ListHead =>
                           to_free[next_pos] \in (live \cap nodes) \ {to_free[pos]}
    BY DEF NoDoubleFree
  <2>1. /\ pos \in 1 .. Len(to_free) /\ Len(to_free) \in Nat /\ next_pos = pos + 1
        /\ Lists(to_free, Names) /\ live = nodes /\ nodes = Left(pos)
    BY <1>1 DEF SlabInv, SlabTypeOK, Emptying, ListHead
  <2>2. pos \in pos .. Len(to_free)
    BY <2>1
  <2>3. to_free[pos] \in nodes
    BY <2>1, <2>2 DEF Left
  <2>4. ASSUME next_pos # ListHead PROVE to_free[pos + 1] \in nodes \ {to_free[pos]}
    <3>1. pos + 1 \in pos .. Len(to_free) /\ pos + 1 \in 1 .. Len(to_free) /\ pos + 1 # pos
      BY <2>1, <2>4 DEF ListHead
    <3> QED BY <2>1, <3>1 DEF Left, Lists
  <2> QED BY <2>1, <2>3, <2>4
<1> QED BY <1>1, SlabInvAlways, PTL
==============================================================================
