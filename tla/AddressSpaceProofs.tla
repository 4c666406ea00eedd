------------------------- MODULE AddressSpaceProofs -------------------------
(***************************************************************************)
(* Proofs about the kernel's page tables, for tables and pages of any      *)
(* size, any amount of memory and any devices smaller than 8 MB (two       *)
(* tables).                                                                *)
(***************************************************************************)
EXTENDS AddressSpace, TLAPS, WellFoundedInduction

Descriptor == [present : BOOLEAN, page : Nat, writable : BOOLEAN]

Locations == {"alloc", "link", "clear", "fill", "load", "space", "zero", "run", "mmio", "panic"}

AddressTypeOK ==
  /\ {boot_pagedir, boot_pagetab1} \subseteq Pages
  /\ mem \in [Pages -> [Index -> Descriptor]]
  /\ free \subseteq Pages
  /\ kernel_end \in KernelEnds
  /\ pc \in Locations
  /\ cr3 \in Pages /\ pagedir_page \in Nat /\ pagetbx_page \in Nat
  /\ start \in KernelSlot..Entries
  /\ kernel_heap_end \in Nat /\ kernel_mmio_ptr \in Nat
  /\ job \in [addr : Nat, size : Nat, virt : Nat, i : Nat, num_pages : Nat]
  /\ given \subseteq Nat \X Nat

(* The number of the page kernel_end lies in.                              *)
EndPage == kernel_end \div PageSize

ImageGiven == {<<Kernel(p), p>> : p \in Image(kernel_end)}

(* Until the heap and the devices are used.                                *)
EarlyInv ==
  pc \notin {"run", "mmio"} =>
    /\ given = ImageGiven
    /\ kernel_heap_end = kernel_heap_start(kernel_end)
    /\ kernel_mmio_ptr = Page(MmioSlot, 0)

(* Pages are handed out in ascending order: all that were taken lie below  *)
(* all that are left.                                                      *)
BelowFree(p) == \A q \in free : p < q

(* The first two pages taken are those of the new tables.                  *)
PoolInv ==
  /\ pc = "alloc" => /\ \A p \in free : EndPage <= p
                     /\ free # {} => EndPage \in free
  /\ pc \notin {"alloc", "panic"} =>
       /\ pagedir_page = EndPage /\ pagetbx_page \in Pages /\ pagedir_page \in Pages
       /\ pagedir_page < pagetbx_page
       /\ BelowFree(pagetbx_page)
  /\ pc \notin {"alloc", "panic"} => \A p \in free : kernel_heap_end <= Kernel(p)

(* The tables of boot.S: the directory has the one table in slot           *)
(* KernelSlot and, once the two are linked, in the last slot too.  The TLB *)
(* holds nothing that differs from them.                                   *)
LinkedOld == pc \in {"clear", "fill", "load"}

OldInv ==
  cr3 = boot_pagedir =>
    /\ pc \in {"alloc", "link", "clear", "fill", "load", "panic"}
    /\ start = KernelSlot
    /\ \A s \in Index :
         mem[boot_pagedir][s] = IF s = KernelSlot \/ (LinkedOld /\ s = Self)
                                THEN Entry(boot_pagetab1, TRUE) ELSE Absent
    /\ \A i \in Index :
         mem[boot_pagetab1][i] = IF i \in Image(kernel_end) \cup {VgaPage} THEN Entry(i, TRUE)
                                 ELSE IF LinkedOld /\ i = Entries - 1 THEN Entry(pagedir_page, TRUE)
                                 ELSE IF LinkedOld /\ i = Entries - 2 THEN Entry(pagetbx_page, TRUE)
                                 ELSE Absent
    /\ \A v \in VPages : tlb[v] = Walk(mem, cr3, v)
    /\ pc \in {"fill", "load"} =>
         mem[pagedir_page] = [Empty EXCEPT ![Self] = Entry(pagedir_page, TRUE),
                                           ![KernelSlot] = Entry(pagetbx_page, TRUE)]
    /\ pc = "load" =>
         \A p \in Image(kernel_end) : mem[pagetbx_page][p] = Entry(p, p # boot_pagedir)

(* The tables of paging_earlyinit: the table of slot s, if there is one.   *)
Table(s) == mem[pagedir_page][s]

Has(s) == Table(s).present

TablesInv ==
  /\ Table(Self) = Entry(pagedir_page, TRUE)
  /\ Table(KernelSlot) = Entry(pagetbx_page, TRUE)
  /\ \A s \in KernelSlots : Has(s) =>
       Table(s).page \in Pages /\ Table(s).writable /\ BelowFree(Table(s).page)
  /\ \A s, t \in KernelSlots : Has(s) /\ Has(t) /\ Table(s).page = Table(t).page => s = t
  /\ \A s \in KernelSlots : s < start => Has(s)
  /\ pc = "zero" => start \in KernelSlots \ {KernelSlot, Self} /\ Has(start)
  /\ pc \in {"run", "mmio"} => start = Entries

(* The last slot shows the tables themselves, and the TLB is right about   *)
(* them.                                                                   *)
WindowInv == \A s \in KernelSlots : Has(s) => tlb[Window(s)] = Table(s)

(* Virtual page v is mapped to page p by the tables and known to the TLB   *)
(* only so.                                                                *)
Mapped(v, p) ==
  /\ v \in VPages /\ Slot(v) \in KernelSlots \ {Self} /\ Has(Slot(v))
  /\ LET entry == mem[Table(Slot(v)).page][v % Entries]
     IN  entry.present /\ entry.page = p /\ tlb[v] = entry

NewInv ==
  cr3 # boot_pagedir =>
    /\ cr3 = pagedir_page
    /\ pc \in {"space", "zero", "run", "mmio", "panic"}
    /\ TablesInv
    /\ WindowInv
    /\ \A g \in given : Mapped(g[1], g[2])

(* What is mapped where: the image and the heap below kernel_heap_end, the *)
(* devices in the window; heap pages are taken one by one after the        *)
(* tables.                                                                 *)
HeapInv ==
  pc \in {"run", "mmio"} =>
    /\ cr3 = pagedir_page
    /\ kernel_heap_start(kernel_end) <= kernel_heap_end
    /\ kernel_heap_end <= Page(MmioSlot, 0)
    /\ Page(MmioSlot, 0) <= kernel_mmio_ptr /\ kernel_mmio_ptr <= kernel_mmio_limit
    /\ \A g \in given :
         \/ g[1] < kernel_heap_end
         \/ Page(MmioSlot, 0) <= g[1]
              /\ g[1] < (IF pc = "mmio" THEN job.virt ELSE kernel_mmio_ptr)
    /\ \A g \in HeapPages : /\ pagetbx_page < g[2] /\ BelowFree(g[2])
                            /\ \A s \in KernelSlots : Table(s).page # g[2]
    /\ \A g, h \in HeapPages : g[2] = h[2] => g = h

(* mmio_map in progress: the pages of the turns so far are mapped.         *)
JobInv ==
  pc = "mmio" =>
    /\ job.size > 0 /\ job.num_pages = NumPages(job) /\ job.i < job.num_pages
    /\ Page(MmioSlot, 0) <= job.virt /\ kernel_mmio_ptr = job.virt + job.num_pages
    /\ \A j \in Nat : j < job.i => Mapped(job.virt + j, job.addr \div PageSize + j)

AddressInv ==
  AddressTypeOK /\ EarlyInv /\ PoolInv /\ OldInv /\ NewInv /\ HeapInv /\ JobInv

-----------------------------------------------------------------------------
(* Arithmetic.                                                             *)

LEMMA Numbers ==
  /\ Entries \in Nat /\ Entries > 3 /\ PageSize \in Nat /\ PageSize > 0
  /\ KernelSlot \in Nat /\ MmioSlot \in Nat /\ 0 < KernelSlot
  /\ KernelSlot < MmioSlot /\ MmioSlot < Entries - 2
  /\ {KernelSlot, MmioSlot, Entries - 2, Self} \subseteq Index
  /\ KernelSlots \subseteq Index /\ KernelSlot \in KernelSlots /\ Self \in KernelSlots
  /\ KernelSlot # Self
  /\ boot_pagedir \in Nat /\ boot_pagetab1 \in Nat /\ boot_pagedir # boot_pagetab1
  BY AddressAssumption DEF Index, Self, KernelSlots

(* The quotient is the largest number whose product is not larger.         *)
LEMMA DivAtLeast ==
  ASSUME NEW a \in Nat, NEW b \in Nat \ {0}, NEW c \in Nat, c * b <= a
  PROVE  c <= a \div b
  OBVIOUS

LEMMA DivBack ==
  ASSUME NEW a \in Nat, NEW b \in Nat \ {0}, NEW c \in Nat, c <= a \div b
  PROVE  c * b <= a
  OBVIOUS

LEMMA DivLess ==
  ASSUME NEW a \in Nat, NEW b \in Nat \ {0}, NEW c \in Nat, a < c * b
  PROVE  a \div b < c
  OBVIOUS

LEMMA DivLessBack ==
  ASSUME NEW a \in Nat, NEW b \in Nat \ {0}, NEW c \in Nat, a \div b < c
  PROVE  a < c * b
  OBVIOUS

LEMMA DivType ==
  ASSUME NEW a \in Nat, NEW b \in Nat \ {0}
  PROVE  a \div b \in Nat /\ a % b \in 0..b - 1 /\ a % b \in Nat
  OBVIOUS

LEMMA DivOfSum ==
  ASSUME NEW b \in Nat \ {0}, NEW q \in Nat, NEW r \in 0..b - 1
  PROVE  (q * b + r) \div b = q /\ (q * b + r) % b = r
  OBVIOUS

LEMMA DivMod ==
  ASSUME NEW a \in Nat, NEW b \in Nat \ {0}
  PROVE  a % b = a - b * (a \div b)
  OBVIOUS

LEMMA Times ==
  ASSUME NEW a \in Nat, NEW b \in Nat
  PROVE  a * b \in Nat /\ (a + 1) * b = a * b + b /\ a * b = b * a
  OBVIOUS

LEMMA TimesMore ==
  ASSUME NEW a \in Nat, NEW b \in Nat, NEW c \in Nat, a <= c
  PROVE  a * b <= c * b
  OBVIOUS

(* A virtual page made of a slot and an index has that slot and index.     *)
LEMMA PageParts ==
  ASSUME NEW s \in Index, NEW i \in Index
  PROVE  Page(s, i) \in VPages /\ Slot(Page(s, i)) = s /\ Page(s, i) % Entries = i
  <1>1. s \in Nat /\ i \in 0..Entries - 1 /\ Entries \in Nat \ {0} /\ s + 1 <= Entries
    BY Numbers DEF Index
  <1>2. (s * Entries + i) \div Entries = s /\ (s * Entries + i) % Entries = i
    BY <1>1, DivOfSum
  <1>3. (s + 1) * Entries <= Entries * Entries
    BY <1>1, TimesMore
  <1>4. s * Entries + i \in 0..Entries * Entries - 1
    BY <1>1, <1>3, Times
  <1> QED
    BY <1>2, <1>4 DEF Page, Slot, VPages

(* Slot and index together tell virtual pages apart.                       *)
LEMMA SlotOf ==
  ASSUME NEW v \in VPages
  PROVE  Slot(v) \in Index /\ v % Entries \in Index
  <1>1. v \in Nat /\ Entries \in Nat \ {0} /\ v < Entries * Entries
    BY Numbers DEF VPages
  <1>2. v \div Entries \in Nat /\ v % Entries \in 0..Entries - 1 /\ v \div Entries < Entries
    BY <1>1, DivType, DivLess
  <1> QED
    BY <1>1, <1>2 DEF Slot, Index

LEMMA PagesDiffer ==
  ASSUME NEW v \in VPages, NEW w \in VPages, Slot(v) = Slot(w), v % Entries = w % Entries
  PROVE  v = w
  <1>1. v \in Nat /\ w \in Nat /\ Entries \in Nat \ {0}
    BY Numbers DEF VPages
  <1>2. v % Entries = v - Entries * Slot(v) /\ w % Entries = w - Entries * Slot(w)
    BY <1>1, DivMod DEF Slot
  <1>3. Slot(v) \in Nat
    BY <1>1, DivType DEF Slot
  <1> DEFINE b == Entries * Slot(v)
  <1>4. b \in Nat /\ v - b = w - b
    BY <1>1, <1>2, <1>3
  <1> HIDE DEF b
  <1> QED
    BY <1>1, <1>4

(* The slots of a range of virtual pages.                                  *)
LEMMA SlotRange ==
  ASSUME NEW v \in Nat, NEW a \in Nat, NEW b \in Index, Page(a, 0) <= v, v < Page(b, 0)
  PROVE  v \in VPages /\ a <= Slot(v) /\ Slot(v) < b
  <1>1. Entries \in Nat \ {0} /\ b \in Nat /\ b <= Entries
    BY Numbers DEF Index
  <1>2. a * Entries <= v /\ v < b * Entries
    BY <1>1, Times DEF Page
  <1>3. a <= v \div Entries /\ v \div Entries < b
    BY <1>1, <1>2, DivAtLeast, DivLess
  <1>4. b * Entries <= Entries * Entries
    BY <1>1, TimesMore
  <1>5. v \in VPages
    BY <1>1, <1>2, <1>4, Times DEF VPages
  <1> QED
    BY <1>3, <1>5 DEF Slot

(* The other way round.                                                    *)
LEMMA SlotBounds ==
  ASSUME NEW v \in VPages, NEW a \in Index, a <= Slot(v)
  PROVE  Page(a, 0) <= v
  <1>1. Entries \in Nat \ {0} /\ a \in Nat /\ v \in Nat
    BY Numbers DEF Index, VPages
  <1>2. a * Entries <= v
    BY <1>1, DivBack DEF Slot
  <1> QED
    BY <1>1, <1>2, Times DEF Page

(* The page kernel_end lies in is the last one of the image, or the one    *)
(* behind it.                                                              *)
LEMMA ImageFacts ==
  ASSUME kernel_end \in KernelEnds
  PROVE  /\ EndPage \in Nat /\ EndPage < Entries - 2
         /\ \A p \in Image(kernel_end) : p \in Index /\ p <= EndPage /\ p < Entries - 2
         /\ {boot_pagedir, boot_pagetab1} \subseteq Image(kernel_end)
         /\ boot_pagedir < EndPage /\ boot_pagetab1 < EndPage
         /\ VgaPage \in Index /\ VgaPage < Entries - 2
         /\ \A e \in MemoryEnds : EndPage <= e
  <1>1. /\ kernel_end \in Nat /\ PageSize \in Nat \ {0}
        /\ KernelStart \in Nat /\ VgaPage \in 0..KernelStart - 1
        /\ kernel_end \div PageSize < Entries - 2 /\ Entries \in Nat
        /\ boot_pagedir \in Nat /\ boot_pagetab1 \in Nat
    BY AddressAssumption
  <1>2. EndPage \in Nat /\ EndPage < Entries - 2
    BY <1>1, DivType DEF EndPage
  <1>3. ASSUME NEW p \in Nat, p * PageSize < kernel_end PROVE p <= EndPage
    BY <1>1, <1>3, DivAtLeast, Times DEF EndPage
  <1>4. ASSUME NEW p \in Nat, p < EndPage PROVE p * PageSize < kernel_end
    <2>1. (p + 1) * PageSize <= kernel_end
      BY <1>1, <1>2, <1>4, DivBack DEF EndPage
    <2> QED
      BY <1>1, <2>1, Times
  <1>5. \A p \in {boot_pagedir, boot_pagetab1} : p \in Nat /\ p >= KernelStart /\ p < EndPage
    BY AddressAssumption DEF EndPage
  <1>6. ASSUME NEW p \in Image(kernel_end) PROVE p \in Index /\ p <= EndPage /\ p < Entries - 2
    BY <1>1, <1>2, <1>3 DEF Image, Index
  <1>7. {boot_pagedir, boot_pagetab1} \subseteq Image(kernel_end)
    BY <1>1, <1>2, <1>4, <1>5 DEF Image, Index
  <1>8. ASSUME NEW e \in MemoryEnds PROVE EndPage <= e
    <2>1. e \in Nat /\ kernel_end <= e * PageSize
      BY AddressAssumption
    <2>2. kernel_end < (e + 1) * PageSize
      BY <1>1, <2>1, Times
    <2>3. EndPage < e + 1
      BY <1>1, <2>1, <2>2, DivLess DEF EndPage
    <2> QED
      BY <1>2, <2>1, <2>3
  <1>9. VgaPage \in Index /\ VgaPage < Entries - 2
    BY <1>1, <1>2, <1>5 DEF Index
  <1> QED
    BY <1>1, <1>2, <1>5, <1>6, <1>7, <1>8, <1>9

(* The heap starts behind the image, in the page kernel_end lies in at the *)
(* earliest and behind it at the latest.                                   *)
LEMMA HeapStart ==
  ASSUME kernel_end \in KernelEnds
  PROVE  /\ kernel_heap_start(kernel_end) \in Nat
         /\ Kernel(EndPage) <= kernel_heap_start(kernel_end)
         /\ kernel_heap_start(kernel_end) <= Kernel(EndPage + 1)
         /\ \A p \in Image(kernel_end) : Kernel(p) < kernel_heap_start(kernel_end)
  <1>1. /\ kernel_end \in Nat /\ PageSize \in Nat \ {0}
        /\ KernelSlot \in Nat /\ Entries \in Nat
    BY AddressAssumption
  <1>2. EndPage \in Nat
    BY <1>1, DivType DEF EndPage
  <1> DEFINE up == (kernel_end + PageSize - 1) \div PageSize
  <1>3. up \in Nat
    <2>1. kernel_end + PageSize - 1 \in Nat
      BY <1>1
    <2> QED
      BY <1>1, <2>1, DivType
  <1>4. EndPage <= up
    <2>1. EndPage * PageSize <= kernel_end
      BY <1>1, <1>2, DivBack DEF EndPage
    <2>2. EndPage * PageSize <= kernel_end + PageSize - 1
      BY <1>1, <1>2, <2>1, Times
    <2> QED
      BY <1>1, <1>2, <2>2, DivAtLeast
  <1>5. up < EndPage + 1 + 1
    <2>1. kernel_end < (EndPage + 1) * PageSize
      BY <1>1, <1>2, DivLessBack DEF EndPage
    <2>2. (EndPage + 1 + 1) * PageSize = (EndPage + 1) * PageSize + PageSize
          /\ (EndPage + 1) * PageSize \in Nat
      BY <1>1, <1>2, Times
    <2>3. kernel_end + PageSize - 1 < (EndPage + 1 + 1) * PageSize
      BY <1>1, <2>1, <2>2
    <2> QED
      BY <1>1, <1>2, <2>3, DivLess
  <1>6. ASSUME NEW p \in Image(kernel_end) PROVE p \in Nat /\ p + 1 <= up
    <2>1. p \in Nat /\ p * PageSize < kernel_end
      BY <1>1 DEF Image, Index
    <2>2. (p + 1) * PageSize <= kernel_end + PageSize - 1
      BY <1>1, <2>1, Times
    <2> QED
      BY <1>1, <2>1, <2>2, DivAtLeast
  <1>7. kernel_heap_start(kernel_end) = KernelSlot * Entries + up
    BY DEF kernel_heap_start, Kernel, Page
  <1>8. KernelSlot * Entries \in Nat
    BY <1>1
  <1> HIDE DEF up
  <1> QED
    BY <1>2, <1>3, <1>4, <1>5, <1>6, <1>7, <1>8 DEF Kernel, Page

(* A set of pages has a lowest one.                                        *)
LEMMA LowestOf ==
  ASSUME NEW S \in SUBSET Nat, S # {}
  PROVE  Lowest(S) \in S /\ \A q \in S : Lowest(S) <= q
  <1> DEFINE R == OpToRel(<, Nat)
  <1>1. IsWellFoundedOn(R, Nat)
    BY NatLessThanWellFounded
  <1>2. \E x \in S : \A y \in S : <<y, x>> \notin R
    <2> HIDE DEF R
    <2> QED
      BY <1>1, WFMin
  <1>3. PICK x \in S : \A y \in S : <<y, x>> \notin R
    BY <1>2
  <1>4. ASSUME NEW y \in S PROVE x <= y
    <2>1. <<y, x>> \notin R
      BY <1>3
    <2>2. ~(y < x)
      BY <2>1 DEF OpToRel
    <2> QED
      BY <2>2
  <1> QED
    BY <1>4 DEF Lowest

LEMMA PageNumbers == Pages \subseteq Nat
  BY AddressAssumption DEF Pages

(* The lowest free page has a virtual page below the MMIO window.          *)
LEMMA BelowMmio ==
  ASSUME NEW p \in Pages
  PROVE  Kernel(p) \in Nat /\ Kernel(p) + 1 <= Page(MmioSlot, 0)
  <1>1. PICK e \in MemoryEnds : p \in 0..e - 1
    BY DEF Pages
  <1>2. e \in Nat /\ e < (MmioSlot - KernelSlot) * Entries
    BY AddressAssumption
  <1>3. /\ Entries \in Nat /\ KernelSlot \in Nat /\ MmioSlot \in Nat /\ KernelSlot < MmioSlot
    BY Numbers
  <1>4. (MmioSlot - KernelSlot) * Entries = MmioSlot * Entries - KernelSlot * Entries
        /\ MmioSlot * Entries \in Nat /\ KernelSlot * Entries \in Nat
    BY <1>3
  <1> QED
    BY <1>1, <1>2, <1>4 DEF Kernel, Page

-----------------------------------------------------------------------------
(* Page table walks.                                                       *)

(* With the tables of boot.S.                                              *)
LEMMA BootWalk ==
  ASSUME NEW m, NEW v \in VPages, NEW linked \in BOOLEAN,
         \A s \in Index : m[boot_pagedir][s] = IF s = KernelSlot \/ (linked /\ s = Self)
                                               THEN Entry(boot_pagetab1, TRUE) ELSE Absent
  PROVE  Walk(m, boot_pagedir, v) = IF Slot(v) = KernelSlot \/ (linked /\ Slot(v) = Self)
                                    THEN m[boot_pagetab1][v % Entries] ELSE Absent
  <1>1. Slot(v) \in Index
    BY SlotOf
  <1>2. CASE Slot(v) = KernelSlot \/ (linked /\ Slot(v) = Self)
    <2>1. m[boot_pagedir][Slot(v)] = Entry(boot_pagetab1, TRUE)
      BY <1>1, <1>2
    <2> QED
      BY <1>2, <2>1 DEF Walk, Entry
  <1>3. CASE ~(Slot(v) = KernelSlot \/ (linked /\ Slot(v) = Self))
    <2>1. m[boot_pagedir][Slot(v)] = Absent
      BY <1>1, <1>3
    <2> QED
      BY <1>3, <2>1 DEF Walk, Absent
  <1> QED
    BY <1>2, <1>3

(* What the TLB holds after it is filled.                                  *)
LEMMA FilledAt ==
  ASSUME NEW t, NEW m, NEW dir, NEW v \in VPages
  PROVE  /\ t[v].present => Filled(t, m, dir)[v] = t[v]
         /\ ~t[v].present => Filled(t, m, dir)[v] = Walk(m, dir, v)
  BY DEF Filled

LEMMA FlushedAt ==
  ASSUME NEW vs, NEW v \in VPages
  PROVE  /\ v \in vs => ~Flushed(vs)[v].present
         /\ v \notin vs => Flushed(vs)[v] = tlb[v]
  BY DEF Flushed, Absent

-----------------------------------------------------------------------------
(* The state boot.S leaves behind.                                         *)
LEMMA InitAddress == Init => AddressInv
  <1> SUFFICES ASSUME Init PROVE AddressInv
    OBVIOUS
  <1>1. kernel_end \in KernelEnds /\ pc = "alloc" /\ cr3 = boot_pagedir /\ given = ImageGiven
        /\ start = KernelSlot /\ ~LinkedOld
    BY DEF Init, ImageGiven, LinkedOld
  <1>2. PICK e \in MemoryEnds : free = {p \in Pages : p >= kernel_end \div PageSize /\ p < e}
    BY DEF Init
  <1>3. e \in Nat /\ EndPage \in Nat /\ EndPage <= e /\ boot_pagedir < EndPage
        /\ boot_pagetab1 < EndPage
    BY <1>1, <1>2, ImageFacts, AddressAssumption
  <1>4. 0..e - 1 \subseteq Pages
    BY <1>2 DEF Pages
  <1>5. {boot_pagedir, boot_pagetab1} \subseteq Pages
    BY <1>3, <1>4, Numbers
  <1>6. mem[boot_pagedir] = [Empty EXCEPT ![KernelSlot] = Entry(boot_pagetab1, TRUE)]
    BY <1>5, Numbers DEF Init
  <1>7. mem[boot_pagetab1] = [i \in Index |-> IF i \in Image(kernel_end) \cup {VgaPage}
                                             THEN Entry(i, TRUE) ELSE Absent]
    BY <1>5, Numbers DEF Init
  <1>8. \A s \in Index :
          mem[boot_pagedir][s] = IF s = KernelSlot THEN Entry(boot_pagetab1, TRUE) ELSE Absent
    BY <1>6, Numbers DEF Empty
  <1>9. \A v \in VPages : tlb[v] = Walk(mem, cr3, v)
    BY DEF Init, Filled, Absent
  <1>10. AddressTypeOK
    <2>1. Empty \in [Index -> Descriptor] /\ Garbage \in [Index -> Descriptor]
      BY DEF Empty, Garbage, Absent, Entry, Descriptor
    <2>2. mem[boot_pagedir] \in [Index -> Descriptor]
      BY <1>6, <2>1, Numbers DEF Entry, Descriptor
    <2>3. mem[boot_pagetab1] \in [Index -> Descriptor]
      BY <1>7, Numbers DEF Index, Entry, Absent, Descriptor
    <2>4. \A p \in Pages \ {boot_pagedir, boot_pagetab1} : mem[p] = Garbage
      BY DEF Init
    <2>5. mem = [p \in Pages |-> mem[p]]
      BY DEF Init
    <2>6. mem \in [Pages -> [Index -> Descriptor]]
      BY <2>1, <2>2, <2>3, <2>4, <2>5
    <2>7. kernel_heap_end \in Nat /\ kernel_mmio_ptr \in Nat
      BY <1>1, HeapStart, Numbers DEF Init, Page
    <2>8. given \subseteq Nat \X Nat
      BY <1>1, Numbers, ImageFacts DEF ImageGiven, Kernel, Page, Index
    <2>9. start \in KernelSlot..Entries
      BY <1>1, Numbers
    <2>10. job \in [addr : Nat, size : Nat, virt : Nat, i : Nat, num_pages : Nat]
      BY DEF Init
    <2> QED
      BY <1>1, <1>2, <1>5, <2>6, <2>7, <2>8, <2>9, <2>10 DEF Init, AddressTypeOK, Locations
  <1>11. EarlyInv
    BY <1>1 DEF Init, EarlyInv
  <1>12. PoolInv
    <2>1. \A p \in free : p \in Nat /\ EndPage <= p /\ p < e
      BY <1>2, PageNumbers DEF EndPage
    <2>2. ASSUME free # {} PROVE EndPage \in free
      <3>1. EndPage < e
        BY <1>3, <2>1, <2>2
      <3>2. EndPage \in Pages
        BY <1>3, <1>4, <3>1
      <3> QED
        BY <1>2, <1>3, <3>1, <3>2 DEF EndPage
    <2> QED
      BY <1>1, <2>1, <2>2 DEF PoolInv
  <1>13. OldInv
    BY <1>1, <1>7, <1>8, <1>9 DEF OldInv
  <1> QED
    BY <1>1, <1>10, <1>11, <1>12, <1>13 DEF AddressInv, NewInv, HeapInv, JobInv

-----------------------------------------------------------------------------
(* paging_earlyinit with the tables of boot.S.                             *)

(* Where the pages of the image are found, and those that are borrowed.    *)
LEMMA OldReach ==
  ASSUME AddressTypeOK, OldInv, cr3 = boot_pagedir
  PROVE  /\ \A p \in Image(kernel_end) : tlb[Kernel(p)] = Entry(p, TRUE)
         /\ LinkedOld => /\ tlb[Directory] = Entry(pagedir_page, TRUE)
                         /\ tlb[Window(Entries - 2)] = Entry(pagetbx_page, TRUE)
  <1>1. kernel_end \in KernelEnds
    BY DEF AddressTypeOK
  <1>2. ASSUME NEW v \in VPages
        PROVE  tlb[v] = IF Slot(v) = KernelSlot \/ (LinkedOld /\ Slot(v) = Self)
                        THEN mem[boot_pagetab1][v % Entries] ELSE Absent
    <2>1. tlb[v] = Walk(mem, boot_pagedir, v)
      BY DEF OldInv
    <2>2. CASE LinkedOld
      <3>1. \A s \in Index : mem[boot_pagedir][s] = IF s = KernelSlot \/ (TRUE /\ s = Self)
                                                    THEN Entry(boot_pagetab1, TRUE) ELSE Absent
        BY <2>2 DEF OldInv
      <3> QED
        BY <2>1, <2>2, <3>1, BootWalk
    <2>3. CASE ~LinkedOld
      <3>1. \A s \in Index : mem[boot_pagedir][s] = IF s = KernelSlot \/ (FALSE /\ s = Self)
                                                    THEN Entry(boot_pagetab1, TRUE) ELSE Absent
        BY <2>3 DEF OldInv
      <3> QED
        BY <2>1, <2>3, <3>1, BootWalk
    <2> QED
      BY <2>2, <2>3
  <1>3. ASSUME NEW p \in Image(kernel_end) PROVE tlb[Kernel(p)] = Entry(p, TRUE)
    <2>1. p \in Index /\ KernelSlot \in Index
      BY <1>1, ImageFacts, Numbers
    <2>2. Kernel(p) \in VPages /\ Slot(Kernel(p)) = KernelSlot /\ Kernel(p) % Entries = p
      BY <2>1, PageParts DEF Kernel
    <2>3. mem[boot_pagetab1][p] = Entry(p, TRUE)
      BY <2>1 DEF OldInv
    <2> QED
      BY <1>2, <2>2, <2>3
  <1>4. ASSUME LinkedOld
        PROVE  /\ tlb[Directory] = Entry(pagedir_page, TRUE)
               /\ tlb[Window(Entries - 2)] = Entry(pagetbx_page, TRUE)
    <2>1. Self \in Index /\ Entries - 2 \in Index /\ Self = Entries - 1 /\ Entries \in Nat
      BY Numbers DEF Self
    <2>2. Entries - 1 \notin Image(kernel_end) \cup {VgaPage}
          /\ Entries - 2 \notin Image(kernel_end) \cup {VgaPage}
      BY <1>1, <2>1, ImageFacts
    <2>3. mem[boot_pagetab1][Self] = Entry(pagedir_page, TRUE)
          /\ mem[boot_pagetab1][Entries - 2] = Entry(pagetbx_page, TRUE)
      <3>1. \A i \in Index : i \notin Image(kernel_end) \cup {VgaPage} =>
              mem[boot_pagetab1][i] = IF i = Entries - 1 THEN Entry(pagedir_page, TRUE)
                                      ELSE IF i = Entries - 2 THEN Entry(pagetbx_page, TRUE)
                                      ELSE Absent
        BY <1>4 DEF OldInv
      <3>2. Entries - 2 # Entries - 1
        BY <2>1
      <3> QED
        BY <2>1, <2>2, <3>1, <3>2
    <2>4. \A i \in Index : Window(i) \in VPages /\ Slot(Window(i)) = Self /\ Window(i) % Entries = i
      BY <2>1, PageParts DEF Window
    <2>5. Directory = Window(Self)
      BY DEF Directory
    <2> QED
      BY <1>2, <1>4, <2>1, <2>3, <2>4, <2>5
  <1> QED
    BY <1>3, <1>4

(* What the two pages of the new tables are.                               *)
LEMMA NewPages ==
  ASSUME AddressTypeOK, PoolInv, pc \notin {"alloc", "panic"}
  PROVE  /\ pagedir_page \in Pages /\ pagetbx_page \in Pages /\ pagedir_page # pagetbx_page
         /\ {pagedir_page, pagetbx_page} \cap {boot_pagedir, boot_pagetab1} = {}
         /\ EndPage < pagetbx_page
  <1>1. kernel_end \in KernelEnds
    BY DEF AddressTypeOK
  <1>2. EndPage \in Nat /\ boot_pagedir \in Nat /\ boot_pagetab1 \in Nat
        /\ boot_pagedir < EndPage /\ boot_pagetab1 < EndPage
    BY <1>1, ImageFacts, Numbers
  <1>3. pagedir_page = EndPage /\ pagetbx_page \in Pages /\ pagedir_page \in Pages
        /\ pagedir_page < pagetbx_page
    BY DEF PoolInv
  <1> QED
    BY <1>2, <1>3, PageNumbers

(* A step that takes at most pages from the pool and leaves its users      *)
(* alone.                                                                  *)
LEMMA EarlyFrame ==
  ASSUME EarlyInv, PoolInv, pc \notin {"alloc", "panic", "run", "mmio"},
         pc' \notin {"alloc", "run", "mmio"}, UNCHANGED <<locals, users>>, free' \subseteq free
  PROVE  EarlyInv' /\ PoolInv' /\ HeapInv' /\ JobInv'
  <1>1. kernel_end' = kernel_end /\ pagedir_page' = pagedir_page /\ pagetbx_page' = pagetbx_page
        /\ kernel_heap_end' = kernel_heap_end /\ kernel_mmio_ptr' = kernel_mmio_ptr
        /\ given' = given
    BY DEF locals, users
  <1>2. EarlyInv'
    BY <1>1 DEF EarlyInv, ImageGiven
  <1>3. PoolInv'
    BY <1>1 DEF PoolInv, BelowFree, EndPage
  <1> QED
    BY <1>2, <1>3 DEF HeapInv, JobInv

(* The TLB agrees with the tables of boot.S as long as they do not change. *)
LEMMA OldKept ==
  ASSUME AddressTypeOK, OldInv, cr3 = boot_pagedir, LinkedOld, LinkedOld', cr3' = cr3,
         mem'[boot_pagedir] = mem[boot_pagedir], mem'[boot_pagetab1] = mem[boot_pagetab1],
         tlb' = Filled(tlb, mem', cr3)
  PROVE  \A v \in VPages : tlb'[v] = Walk(mem', cr3', v)
  <1> SUFFICES ASSUME NEW v \in VPages PROVE tlb'[v] = Walk(mem', cr3, v)
    OBVIOUS
  <1>1. \A s \in Index :
          mem[boot_pagedir][s] = IF s = KernelSlot \/ s = Self
                                 THEN Entry(boot_pagetab1, TRUE) ELSE Absent
    BY DEF OldInv
  <1>2. Walk(mem, cr3, v) = IF Slot(v) = KernelSlot \/ Slot(v) = Self
                            THEN mem[boot_pagetab1][v % Entries] ELSE Absent
    BY <1>1, BootWalk
  <1>3. Walk(mem', cr3, v) = IF Slot(v) = KernelSlot \/ Slot(v) = Self
                             THEN mem'[boot_pagetab1][v % Entries] ELSE Absent
    BY <1>1, BootWalk
  <1>4. tlb[v] = Walk(mem, cr3, v)
    BY DEF OldInv
  <1> QED
    BY <1>2, <1>3, <1>4, FilledAt

LEMMA AllocTablesStep ==
  ASSUME AddressInv, AllocTables
  PROVE  AddressInv'
  <1>1. AddressTypeOK /\ EarlyInv /\ PoolInv /\ OldInv /\ NewInv
    BY DEF AddressInv
  <1>2. /\ pc = "alloc" /\ cr3 = boot_pagedir /\ free \in SUBSET Nat
        /\ UNCHANGED <<mem, cr3, tlb, kernel_end, start, kernel_heap_end, kernel_mmio_ptr, job, given>>
    BY <1>1, PageNumbers DEF AllocTables, users, NewInv, AddressTypeOK
  <1> DEFINE rest == free \ {Lowest(free)}
  <1>3. CASE free = {} \/ rest = {}
    <2>1. pc' = "panic" /\ UNCHANGED <<free, pagedir_page, pagetbx_page>>
      BY <1>3 DEF AllocTables
    <2>2. ~LinkedOld /\ ~LinkedOld'
      BY <1>2, <2>1 DEF LinkedOld
    <2>3. AddressTypeOK'
      BY <1>1, <1>2, <2>1 DEF AddressTypeOK, Locations
    <2>4. EarlyInv'
      BY <1>1, <1>2, <2>1 DEF EarlyInv, ImageGiven
    <2>5. OldInv'
      BY <1>1, <1>2, <2>1, <2>2 DEF OldInv
    <2> QED
      BY <1>2, <2>1, <2>3, <2>4, <2>5 DEF AddressInv, PoolInv, NewInv, HeapInv, JobInv
  <1>4. CASE ~(free = {} \/ rest = {})
    <2>1. /\ pagedir_page' = Lowest(free) /\ pagetbx_page' = Lowest(rest)
          /\ free' = rest \ {Lowest(rest)} /\ pc' = "link"
      BY <1>4 DEF AllocTables
    <2>2. Lowest(free) \in free /\ \A q \in free : Lowest(free) <= q
      BY <1>2, <1>4, LowestOf
    <2>3. Lowest(rest) \in rest /\ \A q \in rest : Lowest(rest) <= q
      BY <1>2, <1>4, LowestOf
    <2>4. EndPage \in free /\ \A q \in free : EndPage <= q
      BY <1>1, <1>2, <1>4 DEF PoolInv
    <2>5. EndPage \in Nat /\ EndPage' = EndPage
      BY <1>2, <2>4 DEF EndPage
    <2>6. Lowest(free) = EndPage
      <3>1. Lowest(free) \in Nat /\ EndPage \in Nat
        BY <1>2, <2>2, <2>5
      <3>2. Lowest(free) <= EndPage /\ EndPage <= Lowest(free)
        BY <2>2, <2>4
      <3> QED
        BY <3>1, <3>2
    <2>7. pagedir_page' = EndPage /\ pagetbx_page' \in free /\ EndPage < pagetbx_page'
          /\ \A q \in free' : q \in free /\ pagetbx_page' < q
      <3> DEFINE low == Lowest(rest)
      <3>1. low \in free /\ low # EndPage /\ low \in Nat /\ EndPage <= low
        BY <1>2, <2>3, <2>4, <2>6
      <3>2. pagedir_page' = EndPage /\ pagetbx_page' = low /\ free' = rest \ {low}
        BY <2>1, <2>6
      <3>3. \A q \in rest : low <= q /\ q \in Nat
        BY <1>2, <2>3
      <3> HIDE DEF low, rest
      <3>4. EndPage < low
        BY <2>5, <3>1
      <3>5. \A q \in free' : q \in rest /\ low < q
        BY <3>1, <3>2, <3>3
      <3> QED
        BY <3>1, <3>2, <3>4, <3>5 DEF rest
    <2>8. ~LinkedOld /\ ~LinkedOld'
      BY <1>2, <2>1 DEF LinkedOld
    <2>9. AddressTypeOK'
      BY <1>1, <1>2, <2>1, <2>4, <2>7 DEF AddressTypeOK, Locations
    <2>10. EarlyInv'
      BY <1>1, <1>2, <2>1 DEF EarlyInv, ImageGiven
    <2>11. PoolInv'
      <3>1. kernel_heap_end' <= Kernel(EndPage + 1)
        BY <1>1, <1>2, HeapStart DEF EarlyInv, AddressTypeOK
      <3>2. ASSUME NEW p \in free' PROVE kernel_heap_end' <= Kernel(p)
        <4>1. p \in Nat /\ pagetbx_page' \in Nat /\ pagetbx_page' < p
          BY <1>2, <2>7
        <4>2. EndPage + 1 <= p
          BY <2>5, <2>7, <4>1
        <4>3. KernelSlot * Entries \in Nat /\ kernel_heap_end' \in Nat
          BY <2>9, Numbers DEF AddressTypeOK
        <4> QED
          BY <2>5, <3>1, <4>1, <4>2, <4>3 DEF Kernel, Page
      <3>3. pagetbx_page' \in Pages /\ pagedir_page' \in Pages
        BY <1>1, <2>4, <2>7 DEF AddressTypeOK
      <3> QED
        BY <2>1, <2>5, <2>7, <3>2, <3>3 DEF PoolInv, BelowFree
    <2>12. OldInv'
      BY <1>1, <1>2, <2>1, <2>8 DEF OldInv
    <2> QED
      BY <1>2, <2>1, <2>9, <2>10, <2>11, <2>12 DEF AddressInv, NewInv, HeapInv, JobInv
  <1> QED
    BY <1>3, <1>4

(* The entries added to the old tables were absent, so nothing about them  *)
(* was in the TLB.                                                         *)
LEMMA LinkOldStep ==
  ASSUME AddressInv, LinkOld
  PROVE  AddressInv'
  <1>1. AddressTypeOK /\ EarlyInv /\ PoolInv /\ OldInv /\ NewInv
    BY DEF AddressInv
  <1>2. /\ pc = "link" /\ cr3 = boot_pagedir /\ pc' = "clear" /\ kernel_end \in KernelEnds
        /\ UNCHANGED <<cr3, free, kernel_end, pagedir_page, pagetbx_page, start>>
        /\ UNCHANGED <<locals, users>>
    BY <1>1 DEF LinkOld, users, locals, NewInv, AddressTypeOK
  <1>3. EarlyInv' /\ PoolInv' /\ HeapInv' /\ JobInv'
    BY <1>1, <1>2, EarlyFrame
  <1>4. Target(Kernel(boot_pagetab1)) = boot_pagetab1 /\ Target(Kernel(boot_pagedir)) = boot_pagedir
    <2>1. boot_pagedir \in Image(kernel_end) /\ boot_pagetab1 \in Image(kernel_end)
      BY <1>2, ImageFacts
    <2>2. tlb[Kernel(boot_pagetab1)] = Entry(boot_pagetab1, TRUE)
          /\ tlb[Kernel(boot_pagedir)] = Entry(boot_pagedir, TRUE)
      BY <1>1, <1>2, <2>1, OldReach
    <2> QED
      BY <2>2 DEF Target, Entry
  <1>5. ~LinkedOld /\ LinkedOld'
    BY <1>2 DEF LinkedOld
  <1>6. mem' = [mem EXCEPT ![boot_pagetab1][Entries - 1] = Entry(pagedir_page, TRUE),
                           ![boot_pagetab1][Entries - 2] = Entry(pagetbx_page, TRUE),
                           ![boot_pagedir][Self] = Entry(boot_pagetab1, TRUE)]
    BY <1>4 DEF LinkOld
  <1>7. /\ {boot_pagedir, boot_pagetab1} \subseteq Pages
        /\ mem \in [Pages -> [Index -> Descriptor]]
        /\ mem[boot_pagedir] \in [Index -> Descriptor]
        /\ mem[boot_pagetab1] \in [Index -> Descriptor]
        /\ pagedir_page \in Nat /\ pagetbx_page \in Nat
    BY <1>1 DEF AddressTypeOK
  <1>8. /\ Self \in Index /\ Entries - 1 \in Index /\ Entries - 2 \in Index /\ Entries \in Nat
        /\ boot_pagedir # boot_pagetab1 /\ Self = Entries - 1 /\ KernelSlot # Self
        /\ boot_pagedir \in Nat /\ boot_pagetab1 \in Nat
    BY Numbers DEF Self
  <1>9. /\ mem'[boot_pagedir] = [mem[boot_pagedir] EXCEPT ![Self] = Entry(boot_pagetab1, TRUE)]
        /\ mem'[boot_pagetab1] = [mem[boot_pagetab1] EXCEPT
                                    ![Entries - 1] = Entry(pagedir_page, TRUE),
                                    ![Entries - 2] = Entry(pagetbx_page, TRUE)]
        /\ \A p \in Pages \ {boot_pagedir, boot_pagetab1} : mem'[p] = mem[p]
        /\ mem' = [p \in Pages |-> mem'[p]]
    BY <1>6, <1>7, <1>8
  <1>10. /\ Entry(pagedir_page, TRUE) \in Descriptor /\ Entry(pagetbx_page, TRUE) \in Descriptor
         /\ Entry(boot_pagetab1, TRUE) \in Descriptor /\ Entries - 1 # Entries - 2
    BY <1>7, <1>8 DEF Entry, Descriptor
  <1>11. /\ mem'[boot_pagetab1] \in [Index -> Descriptor]
         /\ mem'[boot_pagetab1][Entries - 1] = Entry(pagedir_page, TRUE)
         /\ mem'[boot_pagetab1][Entries - 2] = Entry(pagetbx_page, TRUE)
         /\ \A i \in Index \ {Entries - 1, Entries - 2} :
              mem'[boot_pagetab1][i] = mem[boot_pagetab1][i]
    <2> DEFINE a == Entries - 1
               b == Entries - 2
               x == Entry(pagedir_page, TRUE)
               y == Entry(pagetbx_page, TRUE)
    <2>1. /\ mem'[boot_pagetab1] = [mem[boot_pagetab1] EXCEPT ![a] = x, ![b] = y]
          /\ a \in Index /\ b \in Index /\ a # b /\ x \in Descriptor /\ y \in Descriptor
          /\ mem[boot_pagetab1] \in [Index -> Descriptor]
      BY <1>7, <1>8, <1>9, <1>10
    <2> HIDE DEF a, b, x, y
    <2>2. /\ mem'[boot_pagetab1] \in [Index -> Descriptor]
          /\ mem'[boot_pagetab1][a] = x /\ mem'[boot_pagetab1][b] = y
          /\ \A i \in Index \ {a, b} : mem'[boot_pagetab1][i] = mem[boot_pagetab1][i]
      BY <2>1
    <2> QED
      BY <2>2 DEF a, b, x, y
  <1>12. AddressTypeOK'
    <2>2. mem'[boot_pagedir] \in [Index -> Descriptor]
      BY <1>7, <1>8, <1>9, <1>10
    <2>3. mem' \in [Pages -> [Index -> Descriptor]]
      BY <1>7, <1>9, <1>11, <2>2
    <2> QED
      BY <1>1, <1>2, <2>3 DEF AddressTypeOK, users, Locations
  <1>13. OldInv'
    <2>1. \A s \in Index :
            mem'[boot_pagedir][s] = IF s = KernelSlot \/ s = Self
                                    THEN Entry(boot_pagetab1, TRUE) ELSE Absent
      <3>1. \A s \in Index : mem[boot_pagedir][s] = IF s = KernelSlot
                                                    THEN Entry(boot_pagetab1, TRUE) ELSE Absent
        BY <1>1, <1>2, <1>5 DEF OldInv
      <3> QED
        BY <1>7, <1>8, <1>9, <3>1
    <2>2. \A i \in Index : mem[boot_pagetab1][i] = IF i \in Image(kernel_end) \cup {VgaPage}
                                                   THEN Entry(i, TRUE) ELSE Absent
      BY <1>1, <1>2, <1>5 DEF OldInv
    <2>3. \A i \in Image(kernel_end) \cup {VgaPage} : i \in Index /\ i < Entries - 2
      BY <1>2, ImageFacts
    <2>5. /\ Entries - 1 \notin Image(kernel_end) \cup {VgaPage}
          /\ Entries - 2 \notin Image(kernel_end) \cup {VgaPage}
      BY <1>8, <2>3
    <2>6. \A i \in Index :
            mem'[boot_pagetab1][i] = IF i \in Image(kernel_end) \cup {VgaPage} THEN Entry(i, TRUE)
                                     ELSE IF i = Entries - 1 THEN Entry(pagedir_page, TRUE)
                                     ELSE IF i = Entries - 2 THEN Entry(pagetbx_page, TRUE)
                                     ELSE Absent
      BY <1>11, <2>2, <2>5
    <2>7. ASSUME NEW v \in VPages PROVE tlb'[v] = Walk(mem', cr3, v)
      <3> DEFINE vs == {Kernel(boot_pagedir), Kernel(boot_pagetab1), Directory, Window(Entries - 2)}
      <3>1. tlb' = Filled(Flushed(vs), mem', cr3)
        BY DEF LinkOld
      <3>2. v \notin vs => Flushed(vs)[v] = tlb[v]
        BY FlushedAt
      <3>3. v \in vs => ~Flushed(vs)[v].present
        BY FlushedAt
      <3> HIDE DEF vs
      <3>4. ~Flushed(vs)[v].present => tlb'[v] = Walk(mem', cr3, v)
        BY <3>1, FilledAt
      <3>5. Flushed(vs)[v].present => tlb'[v] = Flushed(vs)[v]
        BY <3>1, FilledAt
      <3>6. SUFFICES ASSUME tlb[v].present PROVE tlb[v] = Walk(mem', cr3, v)
        BY <3>2, <3>3, <3>4, <3>5
      <3>7. tlb[v] = IF Slot(v) = KernelSlot THEN mem[boot_pagetab1][v % Entries] ELSE Absent
        <4>1. \A s \in Index : mem[boot_pagedir][s] = IF s = KernelSlot \/ (FALSE /\ s = Self)
                                                      THEN Entry(boot_pagetab1, TRUE) ELSE Absent
          BY <1>1, <1>2, <1>5 DEF OldInv
        <4>2. tlb[v] = Walk(mem, boot_pagedir, v)
          BY <1>1, <1>2 DEF OldInv
        <4> QED
          BY <4>1, <4>2, BootWalk
      <3>8. Slot(v) = KernelSlot /\ tlb[v] = mem[boot_pagetab1][v % Entries]
        BY <3>6, <3>7 DEF Absent
      <3>9. v % Entries \in Image(kernel_end) \cup {VgaPage}
        <4>1. SUFFICES ASSUME v % Entries \notin Image(kernel_end) \cup {VgaPage} PROVE FALSE
          OBVIOUS
        <4>2. v % Entries \in Index
          BY SlotOf
        <4>3. tlb[v] = Absent
          BY <2>2, <3>8, <4>1, <4>2
        <4> QED
          BY <3>6, <4>3 DEF Absent
      <3>10. mem'[boot_pagetab1][v % Entries] = mem[boot_pagetab1][v % Entries]
        BY <2>2, <2>3, <2>6, <3>9
      <3>11. Walk(mem', boot_pagedir, v) = mem'[boot_pagetab1][v % Entries]
        BY <2>1, <3>8, BootWalk
      <3> QED
        BY <1>2, <3>8, <3>10, <3>11
    <2>8. /\ (Image(kernel_end))' = Image(kernel_end)
          /\ start' = KernelSlot
      BY <1>1, <1>2 DEF OldInv
    <2> QED
      BY <1>2, <1>5, <2>1, <2>6, <2>7, <2>8 DEF OldInv
  <1> QED
    BY <1>2, <1>3, <1>12, <1>13 DEF AddressInv, NewInv

LEMMA ClearNewStep ==
  ASSUME AddressInv, ClearNew
  PROVE  AddressInv'
  <1>1. AddressTypeOK /\ EarlyInv /\ PoolInv /\ OldInv /\ NewInv
    BY DEF AddressInv
  <1>2. /\ pc = "clear" /\ cr3 = boot_pagedir /\ pc' = "fill"
        /\ UNCHANGED <<cr3, free, kernel_end, pagedir_page, pagetbx_page, start>>
        /\ UNCHANGED <<locals, users>>
    BY <1>1 DEF ClearNew, users, locals, NewInv
  <1>3. EarlyInv' /\ PoolInv' /\ HeapInv' /\ JobInv'
    BY <1>1, <1>2, EarlyFrame
  <1>4. LinkedOld /\ LinkedOld'
    BY <1>2 DEF LinkedOld
  <1>5. Target(Window(Entries - 2)) = pagetbx_page /\ Target(Directory) = pagedir_page
    BY <1>1, <1>2, <1>4, OldReach DEF Target, Entry
  <1> DEFINE dir == [Empty EXCEPT ![Self] = Entry(pagedir_page, TRUE),
                                  ![KernelSlot] = Entry(pagetbx_page, TRUE)]
  <1>6. mem' = [mem EXCEPT ![pagetbx_page] = Empty, ![pagedir_page] = dir]
    BY <1>5 DEF ClearNew
  <1>7. /\ pagedir_page \in Pages /\ pagetbx_page \in Pages /\ pagedir_page # pagetbx_page
        /\ {pagedir_page, pagetbx_page} \cap {boot_pagedir, boot_pagetab1} = {}
    BY <1>1, <1>2, NewPages
  <1>8. dir \in [Index -> Descriptor] /\ Empty \in [Index -> Descriptor]
    <2>1. Empty \in [Index -> Descriptor]
      BY DEF Empty, Absent, Descriptor
    <2>2. Entry(pagedir_page, TRUE) \in Descriptor /\ Entry(pagetbx_page, TRUE) \in Descriptor
      BY <1>1 DEF AddressTypeOK, Entry, Descriptor
    <2> QED
      BY <2>1, <2>2
  <1> HIDE DEF dir
  <1>9. mem \in [Pages -> [Index -> Descriptor]] /\ {boot_pagedir, boot_pagetab1} \subseteq Pages
    BY <1>1 DEF AddressTypeOK
  <1>10. /\ mem' \in [Pages -> [Index -> Descriptor]] /\ mem'[pagedir_page] = dir
         /\ mem'[boot_pagedir] = mem[boot_pagedir] /\ mem'[boot_pagetab1] = mem[boot_pagetab1]
    BY <1>6, <1>7, <1>8, <1>9
  <1>11. AddressTypeOK'
    BY <1>1, <1>2, <1>10 DEF AddressTypeOK, users, Locations
  <1>12. \A v \in VPages : tlb'[v] = Walk(mem', cr3', v)
    <2>1. tlb' = Filled(tlb, mem', cr3)
      BY DEF ClearNew
    <2> QED
      BY <1>1, <1>2, <1>4, <1>10, <2>1, OldKept
  <1>13. OldInv'
    BY <1>1, <1>2, <1>4, <1>10, <1>12 DEF OldInv, dir
  <1> QED
    BY <1>2, <1>3, <1>11, <1>13 DEF AddressInv, NewInv

LEMMA FillTableStep ==
  ASSUME AddressInv, FillTable
  PROVE  AddressInv'
  <1>1. AddressTypeOK /\ EarlyInv /\ PoolInv /\ OldInv /\ NewInv
    BY DEF AddressInv
  <1>2. /\ pc = "fill" /\ cr3 = boot_pagedir /\ pc' = "load" /\ kernel_end \in KernelEnds
        /\ UNCHANGED <<cr3, free, kernel_end, pagedir_page, pagetbx_page, start>>
        /\ UNCHANGED <<locals, users>>
    BY <1>1 DEF FillTable, users, locals, NewInv, AddressTypeOK
  <1>3. EarlyInv' /\ PoolInv' /\ HeapInv' /\ JobInv'
    BY <1>1, <1>2, EarlyFrame
  <1>4. LinkedOld /\ LinkedOld'
    BY <1>2 DEF LinkedOld
  <1>5. Target(Window(Entries - 2)) = pagetbx_page
    BY <1>1, <1>2, <1>4, OldReach DEF Target, Entry
  <1> DEFINE table == [i \in Index |-> IF i < EndPage + 1 THEN Entry(i, i # boot_pagedir)
                                                          ELSE Absent]
  <1>6. mem' = [mem EXCEPT ![pagetbx_page] = table]
    BY <1>5 DEF FillTable, EndPage
  <1>7. /\ pagedir_page \in Pages /\ pagetbx_page \in Pages /\ pagedir_page # pagetbx_page
        /\ {pagedir_page, pagetbx_page} \cap {boot_pagedir, boot_pagetab1} = {}
    BY <1>1, <1>2, NewPages
  <1>8. table \in [Index -> Descriptor]
    BY DEF Index, Entry, Absent, Descriptor
  <1>9. \A p \in Image(kernel_end) : table[p] = Entry(p, p # boot_pagedir)
    <2>1. \A p \in Image(kernel_end) : p \in Index /\ p <= EndPage
      BY <1>2, ImageFacts
    <2>2. EndPage \in Nat
      BY <1>2, ImageFacts
    <2> QED
      BY <2>1, <2>2 DEF Index
  <1> HIDE DEF table
  <1>10. mem \in [Pages -> [Index -> Descriptor]] /\ {boot_pagedir, boot_pagetab1} \subseteq Pages
    BY <1>1 DEF AddressTypeOK
  <1>11. /\ mem' \in [Pages -> [Index -> Descriptor]] /\ mem'[pagetbx_page] = table
         /\ mem'[pagedir_page] = mem[pagedir_page]
         /\ mem'[boot_pagedir] = mem[boot_pagedir] /\ mem'[boot_pagetab1] = mem[boot_pagetab1]
    BY <1>6, <1>7, <1>8, <1>10
  <1>12. AddressTypeOK'
    BY <1>1, <1>2, <1>11 DEF AddressTypeOK, users, Locations
  <1>13. \A v \in VPages : tlb'[v] = Walk(mem', cr3', v)
    <2>1. tlb' = Filled(tlb, mem', cr3)
      BY DEF FillTable
    <2> QED
      BY <1>1, <1>2, <1>4, <1>11, <2>1, OldKept
  <1>14. OldInv'
    BY <1>1, <1>2, <1>4, <1>9, <1>11, <1>13 DEF OldInv
  <1> QED
    BY <1>2, <1>3, <1>12, <1>14 DEF AddressInv, NewInv

-----------------------------------------------------------------------------
(* With the tables of paging_earlyinit.                                    *)

(* Through the last slot the tables themselves are seen.                   *)
LEMMA WindowWalk ==
  ASSUME NEW m, NEW dir, m[dir][Self] = Entry(dir, TRUE), NEW s \in Index
  PROVE  Walk(m, dir, Window(s)) = m[dir][s]
  <1>1. Slot(Window(s)) = Self /\ Window(s) % Entries = s
    BY Numbers, PageParts DEF Window
  <1> QED
    BY <1>1 DEF Walk, Entry

LEMMA LoadStep ==
  ASSUME AddressInv, mm_load_cr3
  PROVE  AddressInv'
  <1>1. AddressTypeOK /\ EarlyInv /\ PoolInv /\ OldInv /\ NewInv
    BY DEF AddressInv
  <1>2. /\ pc = "load" /\ cr3 = boot_pagedir /\ pc' = "space" /\ kernel_end \in KernelEnds
        /\ cr3' = pagedir_page
        /\ UNCHANGED <<mem, free, kernel_end, pagedir_page, pagetbx_page, start, given>>
        /\ UNCHANGED <<locals, users>>
    BY <1>1 DEF mm_load_cr3, users, locals, NewInv, AddressTypeOK
  <1>3. EarlyInv' /\ PoolInv' /\ HeapInv' /\ JobInv'
    BY <1>1, <1>2, EarlyFrame
  <1>4. /\ pagedir_page \in Pages /\ pagetbx_page \in Pages /\ pagedir_page # pagetbx_page
        /\ pagedir_page # boot_pagedir
    BY <1>1, <1>2, NewPages
  <1>5. AddressTypeOK'
    BY <1>1, <1>2, <1>4 DEF AddressTypeOK, users, Locations
  <1>6. /\ Self \in Index /\ KernelSlot \in Index /\ KernelSlot # Self /\ KernelSlots \subseteq Index
        /\ KernelSlot \in Nat /\ KernelSlot \in KernelSlots /\ Self \in KernelSlots
    BY Numbers
  <1>7. /\ mem[pagedir_page] = [Empty EXCEPT ![Self] = Entry(pagedir_page, TRUE),
                                             ![KernelSlot] = Entry(pagetbx_page, TRUE)]
        /\ \A p \in Image(kernel_end) : mem[pagetbx_page][p] = Entry(p, p # boot_pagedir)
        /\ start = KernelSlot
    BY <1>1, <1>2 DEF OldInv
  <1>8. /\ Table(Self) = Entry(pagedir_page, TRUE) /\ Table(KernelSlot) = Entry(pagetbx_page, TRUE)
        /\ \A s \in Index \ {Self, KernelSlot} : Table(s) = Absent
    BY <1>6, <1>7 DEF Table, Empty
  <1>9. \A s \in Index : Table(s)' = Table(s) /\ Has(s)' = Has(s)
    BY <1>2 DEF Table, Has
  <1>10. \A s \in Index : Has(s) => s \in {Self, KernelSlot}
    BY <1>8 DEF Has, Absent
  <1>11. \A v \in VPages : tlb'[v] = Walk(mem, pagedir_page, v)
    BY <1>2 DEF mm_load_cr3, Filled, Absent
  <1>12. TablesInv'
    <2>1. pagedir_page \in Nat /\ pagetbx_page \in Nat /\ free \subseteq Nat
          /\ BelowFree(pagetbx_page) /\ pagedir_page < pagetbx_page
      BY <1>1, <1>2, <1>4, PageNumbers DEF PoolInv, AddressTypeOK
    <2>2. BelowFree(pagetbx_page)' /\ BelowFree(pagedir_page)'
      BY <1>2, <2>1 DEF BelowFree
    <2>3. ASSUME NEW s \in KernelSlots, Has(s)'
          PROVE  (Table(s).page \in Pages /\ Table(s).writable /\ BelowFree(Table(s).page))'
      <3>1. s = Self \/ s = KernelSlot
        BY <1>6, <1>9, <1>10, <2>3
      <3>2. CASE s = Self
        BY <1>2, <1>4, <1>6, <1>8, <1>9, <2>2, <3>2 DEF Entry, BelowFree
      <3>3. CASE s = KernelSlot
        BY <1>2, <1>4, <1>6, <1>8, <1>9, <2>2, <3>3 DEF Entry, BelowFree
      <3> QED
        BY <3>1, <3>2, <3>3
    <2>4. ASSUME NEW s \in KernelSlots, NEW t \in KernelSlots, Has(s)', Has(t)',
                 Table(s)'.page = Table(t)'.page
          PROVE  s = t
      <3>1. s \in {Self, KernelSlot} /\ t \in {Self, KernelSlot}
        BY <1>6, <1>9, <1>10, <2>4
      <3>2. Table(Self)'.page = pagedir_page /\ Table(KernelSlot)'.page = pagetbx_page
        BY <1>6, <1>8, <1>9 DEF Entry
      <3> QED
        BY <1>4, <2>4, <3>1, <3>2
    <2>5. \A s \in KernelSlots : ~(s < start')
      BY <1>2, <1>6, <1>7 DEF KernelSlots
    <2>6. (Table(Self) = Entry(pagedir_page, TRUE))' /\ (Table(KernelSlot) = Entry(pagetbx_page, TRUE))'
      BY <1>2, <1>6, <1>8, <1>9 DEF Entry
    <2> QED
      BY <1>2, <2>3, <2>4, <2>5, <2>6 DEF TablesInv
  <1>13. WindowInv'
    <2>1. ASSUME NEW s \in KernelSlots PROVE tlb'[Window(s)] = Table(s)'
      <3>1. s \in Index /\ Window(s) \in VPages
        BY <1>6, PageParts DEF Window
      <3>2. Walk(mem, pagedir_page, Window(s)) = mem[pagedir_page][s]
        BY <1>8, <3>1, WindowWalk DEF Table
      <3> QED
        BY <1>9, <1>11, <3>1, <3>2 DEF Table
    <2> QED
      BY <2>1 DEF WindowInv
  <1>14. ASSUME NEW g \in given' PROVE Mapped(g[1], g[2])'
    <2>1. PICK p \in Image(kernel_end) : g = <<Kernel(p), p>>
      BY <1>1, <1>2 DEF EarlyInv, ImageGiven
    <2>2. p \in Index
      BY <1>2, ImageFacts
    <2>3. Kernel(p) \in VPages /\ Slot(Kernel(p)) = KernelSlot /\ Kernel(p) % Entries = p
      BY <1>6, <2>2, PageParts DEF Kernel
    <2>4. Table(KernelSlot)' = Entry(pagetbx_page, TRUE) /\ Has(KernelSlot)'
      BY <1>6, <1>8, <1>9 DEF Has, Entry
    <2>5. tlb'[Kernel(p)] = mem[pagetbx_page][p]
      BY <1>8, <1>11, <2>3 DEF Walk, Table, Entry
    <2>6. mem[pagetbx_page][p] = Entry(p, p # boot_pagedir)
      BY <1>7
    <2>7. mem'[Table(KernelSlot)'.page][p] = mem[pagetbx_page][p]
      BY <1>2, <2>4 DEF Entry
    <2> QED
      BY <1>6, <2>1, <2>3, <2>4, <2>5, <2>6, <2>7 DEF Mapped, Entry
  <1> QED
    BY <1>2, <1>3, <1>4, <1>5, <1>12, <1>13, <1>14 DEF AddressInv, OldInv, NewInv

(* What is mapped stays mapped if the tables on the way do not change and  *)
(* the TLB keeps what it holds.                                            *)
LEMMA MappedKept ==
  ASSUME NEW v, NEW p, Mapped(v, p), Table(Slot(v))' = Table(Slot(v)),
         mem'[Table(Slot(v)).page][v % Entries] = mem[Table(Slot(v)).page][v % Entries],
         tlb[v].present => tlb'[v] = tlb[v]
  PROVE  Mapped(v, p)'
  <1> DEFINE entry == mem[Table(Slot(v)).page][v % Entries]
  <1>1. /\ v \in VPages /\ Slot(v) \in KernelSlots \ {Self} /\ Has(Slot(v))
        /\ entry.present /\ entry.page = p /\ tlb[v] = entry
    BY DEF Mapped
  <1>2. mem'[Table(Slot(v))'.page][v % Entries] = entry /\ tlb'[v] = entry
    BY <1>1
  <1>3. Has(Slot(v))'
    BY <1>1 DEF Has
  <1> HIDE DEF entry
  <1> QED
    BY <1>1, <1>2, <1>3 DEF Mapped

(* The state once cr3 is loaded.                                           *)
LEMMA NewState ==
  ASSUME AddressInv, pc \in {"space", "zero", "run", "mmio"}
  PROVE  /\ cr3 = pagedir_page /\ TablesInv /\ WindowInv
         /\ \A g \in given : Mapped(g[1], g[2])
         /\ pagedir_page \in Pages /\ pagedir_page # boot_pagedir
         /\ mem \in [Pages -> [Index -> Descriptor]] /\ mem[pagedir_page] \in [Index -> Descriptor]
         /\ Target(Directory) = pagedir_page
  <1>1. cr3 # boot_pagedir
    BY DEF AddressInv, OldInv
  <1>2. cr3 = pagedir_page /\ TablesInv /\ WindowInv /\ \A g \in given : Mapped(g[1], g[2])
    BY <1>1 DEF AddressInv, NewInv
  <1>3. pagedir_page \in Pages /\ pagedir_page # boot_pagedir
    BY NewPages DEF AddressInv
  <1>4. mem \in [Pages -> [Index -> Descriptor]] /\ mem[pagedir_page] \in [Index -> Descriptor]
    BY <1>3 DEF AddressInv, AddressTypeOK
  <1>5. Has(Self) /\ Table(Self).page = pagedir_page
    BY <1>2 DEF TablesInv, Has, Entry
  <1>6. tlb[Window(Self)] = Table(Self)
    BY <1>2, <1>5, Numbers DEF WindowInv
  <1> QED
    BY <1>2, <1>3, <1>4, <1>5, <1>6 DEF Target, Directory

(* The page of a table is not the directory's.                             *)
LEMMA TableNotDirectory ==
  ASSUME TablesInv, NEW s \in KernelSlots \ {Self}, Has(s)
  PROVE  Table(s).page # pagedir_page /\ Table(s).page \in Pages
  <1>1. Has(Self) /\ Table(Self).page = pagedir_page /\ Self \in KernelSlots
    BY Numbers DEF TablesInv, Has, Entry
  <1> QED
    BY <1>1 DEF TablesInv

(* Windows on different slots differ.                                      *)
LEMMA WindowsDiffer ==
  ASSUME NEW s \in Index
  PROVE  /\ Window(s) \in VPages /\ Slot(Window(s)) = Self /\ Window(s) % Entries = s
         /\ \A t \in Index : Window(s) = Window(t) => s = t
  BY Numbers, PageParts DEF Window

(* A step that leaves the directory alone.                                 *)
LEMMA TablesFrame ==
  ASSUME TablesInv, \A s \in Index : Table(s)' = Table(s),
         UNCHANGED <<pagedir_page, pagetbx_page>>, free' \subseteq free,
         \A s \in KernelSlots : s < start' => Has(s),
         pc' # "zero", pc' \in {"run", "mmio"} => start' = Entries
  PROVE  TablesInv'
  <1>1. \A s \in KernelSlots : s \in Index /\ Table(s)' = Table(s) /\ Has(s)' = Has(s)
    BY Numbers DEF Has
  <1>2. Self \in KernelSlots /\ KernelSlot \in KernelSlots
    BY Numbers
  <1>3. /\ (Table(Self) = Entry(pagedir_page, TRUE))'
        /\ (Table(KernelSlot) = Entry(pagetbx_page, TRUE))'
    BY <1>1, <1>2 DEF TablesInv, Entry
  <1>4. ASSUME NEW s \in KernelSlots, Has(s)'
        PROVE  (Table(s).page \in Pages /\ Table(s).writable /\ BelowFree(Table(s).page))'
    <2>1. Table(s).page \in Pages /\ Table(s).writable /\ BelowFree(Table(s).page)
      BY <1>1, <1>4 DEF TablesInv
    <2> QED
      BY <1>1, <2>1 DEF BelowFree
  <1>5. ASSUME NEW s \in KernelSlots, NEW t \in KernelSlots, Has(s)', Has(t)',
               Table(s)'.page = Table(t)'.page
        PROVE  s = t
    BY <1>1, <1>5 DEF TablesInv
  <1>6. \A s \in KernelSlots : s < start' => Has(s)'
    BY <1>1
  <1> QED
    BY <1>3, <1>4, <1>5, <1>6 DEF TablesInv

LEMMA SpaceTurnStep ==
  ASSUME AddressInv, SpaceTurn
  PROVE  AddressInv'
  <1>1. AddressTypeOK /\ EarlyInv /\ PoolInv /\ OldInv /\ NewInv
    BY DEF AddressInv
  <1>2. /\ pc = "space" /\ start < Entries
        /\ UNCHANGED <<cr3, kernel_end, pagedir_page, pagetbx_page, given>>
        /\ UNCHANGED <<locals, users>>
    BY DEF SpaceTurn, users, locals
  <1>3. /\ cr3 = pagedir_page /\ TablesInv /\ WindowInv
        /\ \A g \in given : Mapped(g[1], g[2])
        /\ pagedir_page \in Pages /\ pagedir_page # boot_pagedir
        /\ mem \in [Pages -> [Index -> Descriptor]] /\ mem[pagedir_page] \in [Index -> Descriptor]
        /\ Target(Directory) = pagedir_page
    BY <1>2, NewState
  <1>4. /\ start \in Nat /\ start \in KernelSlots /\ start \in Index /\ KernelSlots \subseteq Index
        /\ Entries \in Nat /\ KernelSlot \in Nat /\ start \in KernelSlot..Entries
        /\ Self \in KernelSlots /\ KernelSlot \in KernelSlots
    BY <1>1, <1>2, Numbers DEF AddressTypeOK, KernelSlots, Index
  <1>5. \A s \in KernelSlots : s \in Nat
    BY <1>4 DEF KernelSlots
  <1>6. CASE Has(start)
    <2>1. start' = start + 1 /\ UNCHANGED <<mem, tlb, free, pc>>
      BY <1>3, <1>6 DEF SpaceTurn, Has, Table
    <2>2. EarlyInv' /\ PoolInv' /\ HeapInv' /\ JobInv'
      BY <1>1, <1>2, <2>1, EarlyFrame
    <2>3. AddressTypeOK'
      BY <1>1, <1>2, <1>4, <2>1 DEF AddressTypeOK, users
    <2>4. \A s \in Index : Table(s)' = Table(s) /\ Has(s)' = Has(s)
      BY <1>2, <2>1 DEF Table, Has
    <2>5. \A s \in KernelSlots : s < start' => Has(s)
      <3>1. ASSUME NEW s \in KernelSlots, s < start' PROVE Has(s)
        <4>1. s < start \/ s = start
          BY <1>4, <1>5, <2>1, <3>1
        <4> QED
          BY <1>3, <1>6, <4>1 DEF TablesInv
      <3> QED
        BY <3>1
    <2>6. TablesInv'
      BY <1>2, <1>3, <2>1, <2>4, <2>5, TablesFrame
    <2>7. WindowInv'
      BY <1>3, <1>4, <2>1, <2>4 DEF WindowInv
    <2>8. \A g \in given' : Mapped(g[1], g[2])'
      BY <1>2, <1>3, <2>1 DEF Mapped, Table, Has
    <2> QED
      BY <1>2, <1>3, <2>1, <2>2, <2>3, <2>6, <2>7, <2>8 DEF AddressInv, OldInv, NewInv
  <1>7. CASE ~Has(start) /\ free = {}
    <2>1. pc' = "panic" /\ UNCHANGED <<mem, tlb, free, start>>
      BY <1>3, <1>7 DEF SpaceTurn, Has, Table
    <2>2. EarlyInv' /\ PoolInv' /\ HeapInv' /\ JobInv'
      BY <1>1, <1>2, <2>1, EarlyFrame
    <2>3. AddressTypeOK'
      BY <1>1, <1>2, <1>4, <2>1 DEF AddressTypeOK, users, Locations
    <2>4. \A s \in Index : Table(s)' = Table(s) /\ Has(s)' = Has(s)
      BY <1>2, <2>1 DEF Table, Has
    <2>5. TablesInv'
      <3>1. \A s \in KernelSlots : s < start' => Has(s)
        BY <1>3, <2>1 DEF TablesInv
      <3> QED
        BY <1>2, <1>3, <2>1, <2>4, <3>1, TablesFrame
    <2>6. WindowInv'
      BY <1>3, <1>4, <2>1, <2>4 DEF WindowInv
    <2>7. \A g \in given' : Mapped(g[1], g[2])'
      BY <1>2, <1>3, <2>1 DEF Mapped, Table, Has
    <2> QED
      BY <1>2, <1>3, <2>1, <2>2, <2>3, <2>5, <2>6, <2>7 DEF AddressInv, OldInv, NewInv
  <1>8. CASE ~Has(start) /\ free # {}
    <2> DEFINE page == Lowest(free)
    <2>1. /\ mem' = [mem EXCEPT ![pagedir_page][start] = Entry(page, TRUE)]
          /\ tlb' = Filled(Flushed({Window(start)}), mem', cr3)
          /\ free' = free \ {page} /\ pc' = "zero" /\ start' = start
      BY <1>3, <1>8 DEF SpaceTurn, Has, Table
    <2>2. page \in free /\ (\A q \in free : page <= q) /\ free \subseteq Nat /\ page \in Pages
      BY <1>1, <1>8, LowestOf, PageNumbers DEF AddressTypeOK
    <2>3. page \in Nat /\ \A q \in free' : q \in free /\ page < q
      BY <2>1, <2>2
    <2>4. Entry(page, TRUE) \in Descriptor
      BY <2>3 DEF Entry, Descriptor
    <2> HIDE DEF page
    <2>5. /\ mem' \in [Pages -> [Index -> Descriptor]]
          /\ mem'[pagedir_page] = [mem[pagedir_page] EXCEPT ![start] = Entry(page, TRUE)]
          /\ \A p \in Pages \ {pagedir_page} : mem'[p] = mem[p]
      BY <1>3, <1>4, <2>1, <2>4
    <2>6. \A s \in Index : Table(s)' = IF s = start THEN Entry(page, TRUE) ELSE Table(s)
      BY <1>2, <1>3, <1>4, <2>5 DEF Table
    <2>7. \A s \in Index \ {start} : Has(s)' = Has(s)
      BY <2>6 DEF Has
    <2>8. start \notin {KernelSlot, Self} /\ KernelSlot \in Index /\ Self \in Index
          /\ Has(KernelSlot) /\ Has(Self)
      BY <1>3, <1>8, Numbers DEF TablesInv, Has, Entry
    <2>9. EarlyInv' /\ PoolInv' /\ HeapInv' /\ JobInv'
      BY <1>1, <1>2, <2>1, EarlyFrame
    <2>10. AddressTypeOK'
      BY <1>1, <1>2, <2>1, <2>5 DEF AddressTypeOK, users, Locations
    <2>11. TablesInv'
      <3>1. ASSUME NEW s \in KernelSlots, Has(s)'
            PROVE  (Table(s).page \in Pages /\ Table(s).writable /\ BelowFree(Table(s).page))'
        <4>1. CASE s = start
          <5>1. Table(s)'.page = page /\ Table(s)'.writable
            BY <1>4, <2>6, <4>1 DEF Entry
          <5> QED
            BY <2>2, <2>3, <5>1 DEF BelowFree
        <4>2. CASE s # start
          <5>1. Has(s) /\ Table(s)' = Table(s)
            BY <1>4, <2>6, <2>7, <3>1, <4>2
          <5>2. Table(s).page \in Pages /\ Table(s).writable /\ BelowFree(Table(s).page)
            BY <1>3, <5>1 DEF TablesInv
          <5> QED
            BY <2>3, <5>1, <5>2 DEF BelowFree
        <4> QED
          BY <4>1, <4>2
      <3>2. ASSUME NEW s \in KernelSlots, s # start, Has(s)' PROVE Table(s)'.page # page
        <4>1. Has(s) /\ Table(s)' = Table(s)
          BY <1>4, <2>6, <2>7, <3>2
        <4>2. Table(s).page \in Nat /\ Table(s).page < page
          BY <1>3, <2>2, <4>1, PageNumbers DEF TablesInv, BelowFree
        <4> QED
          BY <2>3, <4>1, <4>2
      <3>3. ASSUME NEW s \in KernelSlots, NEW t \in KernelSlots, Has(s)', Has(t)',
                   Table(s)'.page = Table(t)'.page
            PROVE  s = t
        <4>1. CASE s = start \/ t = start
          <5>1. \A r \in Index : r = start => Table(r)'.page = page
            BY <2>6 DEF Entry
          <5> QED
            BY <1>4, <3>2, <3>3, <4>1, <5>1
        <4>2. CASE s # start /\ t # start
          BY <1>3, <1>4, <2>6, <2>7, <3>3, <4>2 DEF TablesInv
        <4> QED
          BY <4>1, <4>2
      <3>4. ASSUME NEW s \in KernelSlots, s < start' PROVE Has(s)'
        BY <1>3, <1>4, <1>5, <2>1, <2>7, <3>4 DEF TablesInv
      <3>5. /\ (Table(Self) = Entry(pagedir_page, TRUE))'
            /\ (Table(KernelSlot) = Entry(pagetbx_page, TRUE))'
        BY <1>2, <1>3, <2>6, <2>8 DEF TablesInv, Entry
      <3>6. start' \in KernelSlots \ {KernelSlot, Self} /\ Has(start)'
        <4>1. mem'[pagedir_page'][start].present
          BY <1>4, <2>6 DEF Entry, Table
        <4> QED
          BY <1>4, <2>1, <2>8, <4>1 DEF Has, Table
      <3> QED
        BY <2>1, <3>1, <3>3, <3>4, <3>5, <3>6 DEF TablesInv
    <2>12. ASSUME NEW v \in VPages, v # Window(start), tlb[v].present PROVE tlb'[v] = tlb[v]
      <3>1. Flushed({Window(start)})[v] = tlb[v]
        BY <2>12, FlushedAt
      <3> QED
        BY <2>1, <2>12, <3>1, FilledAt
    <2>13. WindowInv'
      <3>1. ASSUME NEW s \in KernelSlots, Has(s)' PROVE tlb'[Window(s)] = Table(s)'
        <4>1. CASE s = start
          <5>1. ~Flushed({Window(start)})[Window(start)].present /\ Window(start) \in VPages
            BY <1>4, WindowsDiffer, FlushedAt
          <5>2. tlb'[Window(start)] = Walk(mem', pagedir_page, Window(start))
            BY <1>3, <2>1, <5>1, FilledAt
          <5>3. mem'[pagedir_page][Self] = Entry(pagedir_page, TRUE)
            BY <1>2, <1>3, <2>6, <2>8 DEF Table, TablesInv
          <5>4. Walk(mem', pagedir_page, Window(start)) = mem'[pagedir_page][start]
            BY <1>4, <5>3, WindowWalk
          <5> QED
            BY <1>2, <4>1, <5>2, <5>4 DEF Table
        <4>2. CASE s # start
          <5>1. Has(s) /\ Table(s)' = Table(s) /\ s \in Index
            BY <1>4, <2>6, <2>7, <3>1, <4>2
          <5>2. Window(s) \in VPages /\ Window(s) # Window(start)
            BY <1>4, <4>2, <5>1, WindowsDiffer
          <5>3. tlb[Window(s)] = Table(s) /\ tlb[Window(s)].present
            BY <1>3, <5>1 DEF WindowInv, Has
          <5> QED
            BY <2>12, <5>1, <5>2, <5>3
        <4> QED
          BY <4>1, <4>2
      <3> QED
        BY <3>1 DEF WindowInv
    <2>14. ASSUME NEW g \in given' PROVE Mapped(g[1], g[2])'
      <3> DEFINE v == g[1]
      <3>1. Mapped(v, g[2])
        BY <1>2, <1>3
      <3>2. v \in VPages /\ Slot(v) \in KernelSlots \ {Self} /\ Has(Slot(v))
        BY <3>1 DEF Mapped
      <3> HIDE DEF v
      <3>3. Slot(v) # start /\ Slot(v) \in Index
        BY <1>4, <1>8, <3>2
      <3>4. Table(Slot(v))' = Table(Slot(v))
        BY <2>6, <3>3
      <3>5. mem'[Table(Slot(v)).page] = mem[Table(Slot(v)).page]
        BY <1>3, <2>5, <3>2, TableNotDirectory
      <3>6. v # Window(start)
        BY <1>4, <3>2, WindowsDiffer
      <3>7. tlb[v].present => tlb'[v] = tlb[v]
        BY <2>12, <3>2, <3>6
      <3>8. Mapped(v, g[2])'
        BY <3>1, <3>4, <3>5, <3>7, MappedKept
      <3> QED
        BY <3>8 DEF v
    <2> QED
      BY <1>2, <1>3, <2>1, <2>9, <2>10, <2>11, <2>13, <2>14 DEF AddressInv, OldInv, NewInv
  <1> QED
    BY <1>6, <1>7, <1>8

LEMMA SpaceZeroStep ==
  ASSUME AddressInv, SpaceZero
  PROVE  AddressInv'
  <1>1. AddressTypeOK /\ EarlyInv /\ PoolInv /\ OldInv /\ NewInv
    BY DEF AddressInv
  <1>2. /\ pc = "zero" /\ pc' = "space" /\ start' = start + 1 /\ kernel_end \in KernelEnds
        /\ UNCHANGED <<cr3, free, kernel_end, pagedir_page, pagetbx_page, given>>
        /\ UNCHANGED <<locals, users>>
    BY <1>1 DEF SpaceZero, users, locals, AddressTypeOK
  <1>3. /\ cr3 = pagedir_page /\ TablesInv /\ WindowInv
        /\ \A g \in given : Mapped(g[1], g[2])
        /\ pagedir_page \in Pages /\ pagedir_page # boot_pagedir
        /\ mem \in [Pages -> [Index -> Descriptor]]
    BY <1>2, NewState
  <1>4. /\ start \in KernelSlots \ {KernelSlot, Self} /\ Has(start) /\ start \in KernelSlot..Entries
        /\ KernelSlots \subseteq Index /\ KernelSlot \in KernelSlots \ {Self} /\ KernelSlot \in Nat
        /\ Entries \in Nat
    BY <1>1, <1>2, <1>3, Numbers DEF TablesInv, AddressTypeOK
  <1>5. start \in Nat /\ start < Entries /\ \A s \in KernelSlots : s \in Nat
    BY <1>4 DEF KernelSlots
  <1> DEFINE page == Table(start).page
  <1>6. page \in Pages /\ page # pagedir_page
    BY <1>3, <1>4, TableNotDirectory
  <1>7. page # Table(KernelSlot).page /\ Has(KernelSlot)
    BY <1>3, <1>4 DEF TablesInv, Has, Entry
  <1>8. Target(Window(start)) = page
    BY <1>3, <1>4 DEF WindowInv, Target
  <1> HIDE DEF page
  <1>9. mem' = [mem EXCEPT ![page] = Empty] /\ tlb' = Filled(tlb, mem', cr3)
    BY <1>8 DEF SpaceZero
  <1>10. /\ mem' \in [Pages -> [Index -> Descriptor]]
         /\ \A p \in Pages \ {page} : mem'[p] = mem[p]
    <2>1. Empty \in [Index -> Descriptor]
      BY DEF Empty, Absent, Descriptor
    <2> QED
      BY <1>3, <1>9, <2>1
  <1>11. \A s \in Index : Table(s)' = Table(s)
    BY <1>2, <1>3, <1>6, <1>10 DEF Table
  <1>12. \A v \in VPages : tlb[v].present => tlb'[v] = tlb[v]
    BY <1>9, FilledAt
  <1>13. AddressTypeOK'
    BY <1>1, <1>2, <1>4, <1>5, <1>10 DEF AddressTypeOK, users, Locations
  <1>14. EarlyInv' /\ PoolInv' /\ HeapInv' /\ JobInv'
    BY <1>1, <1>2, EarlyFrame
  <1>15. TablesInv'
    <2>1. ASSUME NEW s \in KernelSlots, s < start' PROVE Has(s)
      <3>1. s < start \/ s = start
        BY <1>2, <1>5, <2>1
      <3> QED
        BY <1>3, <1>4, <3>1 DEF TablesInv
    <2> QED
      BY <1>2, <1>3, <1>11, <2>1, TablesFrame
  <1>16. WindowInv'
    <2>1. ASSUME NEW s \in KernelSlots, Has(s)' PROVE tlb'[Window(s)] = Table(s)'
      <3>1. Has(s) /\ Table(s)' = Table(s) /\ Window(s) \in VPages
        BY <1>4, <1>11, <2>1, WindowsDiffer DEF Has
      <3>2. tlb[Window(s)] = Table(s) /\ tlb[Window(s)].present
        BY <1>3, <3>1 DEF WindowInv, Has
      <3> QED
        BY <1>12, <3>1, <3>2
    <2> QED
      BY <2>1 DEF WindowInv
  <1>17. ASSUME NEW g \in given' PROVE Mapped(g[1], g[2])'
    <2>1. PICK p \in Image(kernel_end) : g = <<Kernel(p), p>>
      BY <1>1, <1>2 DEF EarlyInv, ImageGiven
    <2>2. Slot(g[1]) = KernelSlot
      BY <1>2, <1>4, <2>1, ImageFacts, PageParts DEF Kernel
    <2>3. Mapped(g[1], g[2]) /\ g[1] \in VPages
      BY <1>2, <1>3 DEF Mapped
    <2>4. Table(Slot(g[1]))' = Table(Slot(g[1]))
      BY <1>4, <1>11, <2>2
    <2>5. mem'[Table(Slot(g[1])).page] = mem[Table(Slot(g[1])).page]
      BY <1>3, <1>4, <1>7, <1>10, <2>2, TableNotDirectory
    <2> QED
      BY <1>12, <2>3, <2>4, <2>5, MappedKept
  <1> QED
    BY <1>2, <1>3, <1>13, <1>14, <1>15, <1>16, <1>17 DEF AddressInv, OldInv, NewInv

(* The borders of the areas.                                               *)
LEMMA Borders ==
  ASSUME kernel_end \in KernelEnds
  PROVE  /\ Page(KernelSlot, 0) \in Nat /\ Page(MmioSlot, 0) \in Nat /\ kernel_mmio_limit \in Nat
         /\ Page(KernelSlot, 0) <= kernel_heap_start(kernel_end)
         /\ kernel_heap_start(kernel_end) <= Page(MmioSlot, 0)
         /\ Page(KernelSlot, 0) <= Page(MmioSlot, 0)
         /\ Page(MmioSlot, 0) < kernel_mmio_limit
  <1>1. /\ Entries \in Nat /\ Entries > 3 /\ KernelSlot \in Nat /\ MmioSlot \in Nat
        /\ KernelSlot + 1 <= MmioSlot /\ MmioSlot + 1 <= Entries - 2 /\ Entries - 2 \in Nat
    BY Numbers
  <1>2. (KernelSlot + 1) * Entries <= MmioSlot * Entries
    BY <1>1, TimesMore
  <1>3. (MmioSlot + 1) * Entries <= (Entries - 2) * Entries
    BY <1>1, TimesMore
  <1>4. (KernelSlot + 1) * Entries = KernelSlot * Entries + Entries
        /\ (MmioSlot + 1) * Entries = MmioSlot * Entries + Entries
        /\ KernelSlot * Entries \in Nat /\ MmioSlot * Entries \in Nat /\ (Entries - 2) * Entries \in Nat
    BY <1>1, Times
  <1>5. /\ kernel_heap_start(kernel_end) \in Nat
        /\ Kernel(EndPage) <= kernel_heap_start(kernel_end)
        /\ kernel_heap_start(kernel_end) <= Kernel(EndPage + 1)
        /\ EndPage \in Nat /\ EndPage < Entries - 2
    BY HeapStart, ImageFacts
  <1> QED
    BY <1>1, <1>2, <1>3, <1>4, <1>5 DEF Kernel, Page, kernel_mmio_limit

LEMMA SpaceDoneStep ==
  ASSUME AddressInv, SpaceDone
  PROVE  AddressInv'
  <1>1. AddressTypeOK /\ EarlyInv /\ PoolInv /\ OldInv /\ NewInv
    BY DEF AddressInv
  <1>2. /\ pc = "space" /\ pc' = "run" /\ start = Entries /\ kernel_end \in KernelEnds
        /\ UNCHANGED <<mem, cr3, tlb, free, kernel_end, pagedir_page, pagetbx_page, start,
                       kernel_heap_end, kernel_mmio_ptr, job, given>>
    BY <1>1 DEF SpaceDone, users, locals, AddressTypeOK
  <1>3. /\ cr3 = pagedir_page /\ TablesInv /\ WindowInv
        /\ \A g \in given : Mapped(g[1], g[2])
        /\ pagedir_page # boot_pagedir
    BY <1>2, NewState
  <1>4. AddressTypeOK'
    BY <1>1, <1>2 DEF AddressTypeOK, Locations
  <1>5. PoolInv'
    BY <1>1, <1>2 DEF PoolInv, BelowFree, EndPage
  <1>6. TablesInv'
    <2>1. \A s \in Index : Table(s)' = Table(s)
      BY <1>2 DEF Table
    <2>2. \A s \in KernelSlots : s < start' => Has(s)
      BY <1>2, <1>3 DEF TablesInv
    <2> QED
      BY <1>2, <1>3, <2>1, <2>2, TablesFrame
  <1>7. WindowInv' /\ \A g \in given' : Mapped(g[1], g[2])'
    BY <1>2, <1>3 DEF WindowInv, Mapped, Has, Table
  <1>8. HeapInv'
    <2>1. /\ given = ImageGiven /\ kernel_heap_end = kernel_heap_start(kernel_end)
          /\ kernel_mmio_ptr = Page(MmioSlot, 0)
      BY <1>1, <1>2 DEF EarlyInv
    <2>2. \A g \in given : g[1] < kernel_heap_start(kernel_end)
      BY <1>2, <2>1, HeapStart DEF ImageGiven
    <2>3. kernel_heap_start(kernel_end) \in Nat /\ \A g \in given : g[1] \in Nat
      BY <1>1, <1>2, HeapStart DEF AddressTypeOK
    <2>4. HeapPages' = {}
      <3>1. HeapPages' = HeapPages
        BY <1>2 DEF HeapPages
      <3>2. \A g \in given : ~(g[1] >= kernel_heap_start(kernel_end))
        BY <2>2, <2>3
      <3> QED
        BY <3>1, <3>2 DEF HeapPages
    <2>5. /\ kernel_heap_start(kernel_end) <= Page(MmioSlot, 0)
          /\ Page(MmioSlot, 0) \in Nat /\ kernel_mmio_limit \in Nat
          /\ Page(MmioSlot, 0) < kernel_mmio_limit
      BY <1>2, Borders
    <2> QED
      BY <1>2, <1>3, <2>1, <2>2, <2>3, <2>4, <2>5 DEF HeapInv
  <1> QED
    BY <1>2, <1>3, <1>4, <1>5, <1>6, <1>7, <1>8
       DEF AddressInv, EarlyInv, OldInv, NewInv, JobInv

-----------------------------------------------------------------------------
(* The heap and the devices.                                               *)

(* mm_map_page for a virtual page of the heap or the window: the table is  *)
(* there, only the entry of the page changes, and all that is mapped       *)
(* elsewhere stays.                                                        *)
LEMMA MapPage ==
  ASSUME AddressInv, pc \in {"run", "mmio"}, NEW page \in Nat, NEW vaddr \in Nat,
         NEW pages \in SUBSET free, Page(KernelSlot, 0) <= vaddr, vaddr < kernel_mmio_limit,
         mm_map_page(page, vaddr, pages), UNCHANGED <<cr3, pagedir_page>>
  PROVE  /\ mem' \in [Pages -> [Index -> Descriptor]] /\ free' = pages
         /\ \A s \in Index : Table(s)' = Table(s)
         /\ WindowInv'
         /\ Mapped(vaddr, page)'
         /\ \A v, p : Mapped(v, p) /\ v # vaddr => Mapped(v, p)'
  <1> DEFINE slot == Slot(vaddr)
             index == vaddr % Entries
             table == Table(slot).page
  <1>1. /\ cr3 = pagedir_page /\ TablesInv /\ WindowInv /\ pagedir_page \in Pages
        /\ mem \in [Pages -> [Index -> Descriptor]]
        /\ Target(Directory) = pagedir_page
    BY NewState
  <1>2. /\ Entries \in Nat /\ KernelSlot \in Nat /\ Entries - 2 \in Index
        /\ KernelSlots \subseteq Index /\ Self \in KernelSlots /\ Self = Entries - 1
    BY Numbers DEF Self
  <1>3. vaddr \in VPages /\ KernelSlot <= slot /\ slot < Entries - 2
    BY <1>2, SlotRange DEF kernel_mmio_limit
  <1>4. slot \in Index /\ index \in Index
    BY <1>3, SlotOf
  <1>5. slot \in KernelSlots \ {Self} /\ slot < Entries
    BY <1>2, <1>3, <1>4 DEF KernelSlots, Index
  <1>6. Has(slot)
    BY <1>1, <1>5 DEF TablesInv
  <1>7. table \in Pages /\ table # pagedir_page
    BY <1>1, <1>5, <1>6, TableNotDirectory
  <1>8. Target(Window(slot)) = table
    BY <1>1, <1>5, <1>6 DEF WindowInv, Target
  <1>9. mem[Target(Directory)][slot] # Absent
    BY <1>1, <1>6 DEF Has, Table, Absent
  <1>10. /\ mem' = [mem EXCEPT ![table][index] = Entry(page, TRUE)]
         /\ tlb' = Filled(Flushed({vaddr}), mem', cr3)
         /\ free' = pages
    BY <1>8, <1>9 DEF mm_map_page
  <1>11. Entry(page, TRUE) \in Descriptor
    BY DEF Entry, Descriptor
  <1>12. /\ slot = Slot(vaddr) /\ index = vaddr % Entries /\ table = Table(slot).page
    OBVIOUS
  <1> HIDE DEF slot, index, table
  <1>13. /\ mem' \in [Pages -> [Index -> Descriptor]]
         /\ mem'[table] = [mem[table] EXCEPT ![index] = Entry(page, TRUE)]
         /\ mem[table] \in [Index -> Descriptor]
         /\ \A p \in Pages \ {table} : mem'[p] = mem[p]
    BY <1>1, <1>4, <1>7, <1>10, <1>11
  <1>14. mem'[table][index] = Entry(page, TRUE)
         /\ \A i \in Index \ {index} : mem'[table][i] = mem[table][i]
    BY <1>4, <1>13
  <1>15. \A s \in Index : Table(s)' = Table(s)
    BY <1>1, <1>7, <1>13 DEF Table
  <1>16. ASSUME NEW v \in VPages, v # vaddr, tlb[v].present PROVE tlb'[v] = tlb[v]
    <2>1. Flushed({vaddr})[v] = tlb[v]
      BY <1>16, FlushedAt
    <2> QED
      BY <1>10, <1>16, <2>1, FilledAt
  <1>17. WindowInv'
    <2>1. ASSUME NEW s \in KernelSlots, Has(s)' PROVE tlb'[Window(s)] = Table(s)'
      <3>1. Has(s) /\ Table(s)' = Table(s) /\ Window(s) \in VPages /\ Slot(Window(s)) = Self
        BY <1>2, <1>15, <2>1, WindowsDiffer DEF Has
      <3>2. tlb[Window(s)] = Table(s) /\ tlb[Window(s)].present
        BY <1>1, <3>1 DEF WindowInv, Has
      <3>3. Window(s) # vaddr
        BY <1>5, <1>12, <3>1
      <3> QED
        BY <1>16, <3>1, <3>2, <3>3
    <2> QED
      BY <2>1 DEF WindowInv
  <1>18. Mapped(vaddr, page)'
    <2>1. Table(slot)' = Table(slot) /\ mem'[pagedir_page][slot] = Table(slot)
      <3>1. \A s \in Index : mem'[pagedir_page][s] = Table(s)
        BY <1>15 DEF Table
      <3> QED
        BY <1>4, <1>12, <1>15, <3>1
    <2>2. Walk(mem', cr3, vaddr) = mem'[table][index]
      BY <1>1, <1>6, <1>12, <2>1 DEF Walk, Has
    <2>3. tlb'[vaddr] = mem'[table][index]
      <3>1. ~Flushed({vaddr})[vaddr].present
        BY <1>3, FlushedAt
      <3>2. Filled(Flushed({vaddr}), mem', cr3)[vaddr] = Walk(mem', cr3, vaddr)
        BY <1>3, <3>1, FilledAt
      <3> QED
        BY <1>10, <2>2, <3>2
    <2>4. Has(slot)' /\ table = Table(slot)'.page
      BY <1>6, <1>12, <2>1 DEF Has
    <2> QED
      BY <1>3, <1>5, <1>12, <1>14, <2>3, <2>4 DEF Mapped, Entry
  <1>19. ASSUME NEW v, NEW p, Mapped(v, p), v # vaddr PROVE Mapped(v, p)'
    <2>1. v \in VPages /\ Slot(v) \in KernelSlots \ {Self} /\ Has(Slot(v))
      BY <1>19 DEF Mapped
    <2>2. Slot(v) \in Index /\ v % Entries \in Index
      BY <2>1, SlotOf
    <2>3. Table(Slot(v)).page \in Pages
      BY <1>1, <2>1, TableNotDirectory
    <2>4. mem'[Table(Slot(v)).page][v % Entries] = mem[Table(Slot(v)).page][v % Entries]
      <3>1. CASE Slot(v) = slot
        <4>1. v % Entries # index
          BY <1>3, <1>12, <1>19, <2>1, <3>1, PagesDiffer
        <4> QED
          BY <1>12, <1>14, <2>2, <3>1, <4>1
      <3>2. CASE Slot(v) # slot
        <4>1. Table(Slot(v)).page # table
          BY <1>1, <1>5, <1>6, <1>12, <2>1, <3>2 DEF TablesInv
        <4> QED
          BY <1>13, <2>3, <4>1
      <3> QED
        BY <3>1, <3>2
    <2>5. Table(Slot(v))' = Table(Slot(v))
      BY <1>15, <2>2
    <2> QED
      BY <1>16, <1>19, <2>1, <2>4, <2>5, MappedKept
  <1> QED
    BY <1>10, <1>13, <1>15, <1>17, <1>18, <1>19

LEMMA HeapGrowStep ==
  ASSUME AddressInv, heap_grow
  PROVE  AddressInv' /\ \A s \in Index : Table(s)' = Table(s)
  <1>1. AddressTypeOK /\ PoolInv /\ HeapInv
    BY DEF AddressInv
  <1>pick. PICK page, vaddr, rest :
          page = Lowest(free) /\ vaddr = kernel_heap_end /\ rest = free \ {page}
    OBVIOUS
  <1>2. /\ pc = "run" /\ free # {} /\ kernel_end \in KernelEnds
        /\ mm_map_page(page, vaddr, rest)
        /\ given' = given \cup {<<vaddr, page>>}
        /\ kernel_heap_end' = kernel_heap_end + 1
        /\ UNCHANGED <<cr3, kernel_end, pagedir_page, pagetbx_page, pc, start, kernel_mmio_ptr, job>>
    BY <1>pick, <1>1 DEF heap_grow, locals, AddressTypeOK
  <1>3. page \in free /\ (\A q \in free : page <= q) /\ free \subseteq Nat /\ page \in Pages
    BY <1>pick, <1>1, <1>2, LowestOf, PageNumbers DEF AddressTypeOK
  <1>4. page \in Nat /\ \A q \in free \ {page} : q \in Nat /\ page < q
    BY <1>3
  <1>5. /\ kernel_heap_start(kernel_end) \in Nat /\ kernel_heap_end \in Nat
        /\ kernel_heap_start(kernel_end) <= kernel_heap_end /\ kernel_heap_end <= Kernel(page)
        /\ Kernel(page) \in Nat /\ Kernel(page) + 1 <= Page(MmioSlot, 0)
        /\ kernel_mmio_ptr \in Nat
        /\ Page(MmioSlot, 0) <= kernel_mmio_ptr /\ kernel_mmio_ptr <= kernel_mmio_limit
    BY <1>1, <1>2, <1>3, BelowMmio, HeapStart DEF HeapInv, PoolInv, AddressTypeOK
  <1>6. /\ Page(KernelSlot, 0) \in Nat /\ Page(MmioSlot, 0) \in Nat /\ kernel_mmio_limit \in Nat
        /\ Page(KernelSlot, 0) <= kernel_heap_start(kernel_end)
        /\ Page(MmioSlot, 0) < kernel_mmio_limit
    BY <1>2, Borders
  <1>7. /\ Page(KernelSlot, 0) <= vaddr /\ vaddr < Page(MmioSlot, 0)
        /\ vaddr < kernel_mmio_limit /\ kernel_heap_end' <= Page(MmioSlot, 0)
    BY <1>pick, <1>2, <1>5, <1>6
  <1>8. rest \in SUBSET free /\ vaddr \in Nat
    BY <1>pick, <1>5
  <1>9. /\ mem' \in [Pages -> [Index -> Descriptor]] /\ free' = free \ {page}
        /\ \A s \in Index : Table(s)' = Table(s)
        /\ WindowInv'
        /\ Mapped(vaddr, page)'
        /\ \A v, p : Mapped(v, p) /\ v # vaddr => Mapped(v, p)'
    BY <1>pick, <1>2, <1>4, <1>7, <1>8, MapPage
  <1>10. /\ cr3 = pagedir_page /\ TablesInv /\ \A g \in given : Mapped(g[1], g[2])
         /\ pagedir_page # boot_pagedir
    BY <1>2, NewState
  <1>11. \A g \in given : g \in Nat \X Nat /\ g[1] \in Nat /\ g[2] \in Nat
    BY <1>1 DEF AddressTypeOK
  <1>12. ASSUME NEW g \in given
         PROVE  \/ g[1] < kernel_heap_end
                \/ Page(MmioSlot, 0) <= g[1] /\ g[1] < kernel_mmio_ptr
    BY <1>1, <1>2 DEF HeapInv
  <1>13. AddressTypeOK'
    <2>1. given' \subseteq Nat \X Nat
      BY <1>1, <1>2, <1>4, <1>8 DEF AddressTypeOK
    <2> QED
      BY <1>pick, <1>1, <1>2, <1>5, <1>9, <2>1 DEF AddressTypeOK
  <1>14. PoolInv'
    <2>1. ASSUME NEW p \in free' PROVE kernel_heap_end' <= Kernel(p)
      <3>1. p \in Nat /\ page + 1 <= p /\ KernelSlot * Entries \in Nat
        BY <1>4, <1>9, Numbers
      <3> QED
        BY <1>2, <1>4, <1>5, <3>1 DEF Kernel, Page
    <2>2. /\ pagedir_page = EndPage /\ pagetbx_page \in Pages /\ pagedir_page \in Pages
          /\ pagedir_page < pagetbx_page /\ BelowFree(pagetbx_page)
      BY <1>1, <1>2 DEF PoolInv
    <2>3. BelowFree(pagetbx_page)' /\ EndPage' = EndPage
      BY <1>2, <1>9, <2>2 DEF BelowFree, EndPage
    <2> QED
      BY <1>2, <2>1, <2>2, <2>3 DEF PoolInv
  <1>15. TablesInv'
    <2>1. start = Entries /\ \A s \in KernelSlots : s < start => Has(s)
      BY <1>2, <1>10 DEF TablesInv
    <2> QED
      BY <1>2, <1>9, <1>10, <2>1, TablesFrame
  <1>16. ASSUME NEW g \in given' PROVE Mapped(g[1], g[2])'
    <2>1. CASE g \in given
      <3>1. g[1] # vaddr
        BY <1>pick, <1>7, <1>8, <1>11, <1>12, <2>1, Borders, <1>2
      <3> QED
        BY <1>9, <1>10, <2>1, <3>1
    <2>2. CASE g = <<vaddr, page>>
      BY <1>9, <2>2
    <2> QED
      BY <1>2, <2>1, <2>2
  <1>17. HeapInv'
    <2>1. ASSUME NEW g \in given'
          PROVE  \/ g[1] < kernel_heap_end'
                 \/ Page(MmioSlot, 0) <= g[1] /\ g[1] < kernel_mmio_ptr'
      <3>1. CASE g \in given
        BY <1>2, <1>5, <1>11, <1>12, <3>1
      <3>2. CASE g = <<vaddr, page>>
        BY <1>pick, <1>2, <1>5, <3>2
      <3> QED
        BY <1>2, <3>1, <3>2
    <2>2. ASSUME NEW g \in HeapPages' PROVE g \in HeapPages \/ g = <<vaddr, page>>
      BY <1>2, <2>2 DEF HeapPages
    <2>3. \A g \in HeapPages : /\ g \in given /\ pagetbx_page < g[2] /\ BelowFree(g[2])
                               /\ \A s \in KernelSlots : Table(s).page # g[2]
      BY <1>1, <1>2 DEF HeapInv, HeapPages
    <2>4. \A s \in KernelSlots : s \in Index /\ Has(s) /\ Table(s).page \in Nat /\ Table(s).page < page
      <3>1. \A s \in KernelSlots : s \in Index /\ s < start
        BY <1>2, <1>10, Numbers DEF TablesInv, KernelSlots, Index
      <3> QED
        BY <1>3, <1>10, <3>1, PageNumbers DEF TablesInv, BelowFree
    <2>5. pagetbx_page < page
      BY <1>1, <1>2, <1>3 DEF PoolInv, BelowFree
    <2>6. ASSUME NEW g \in HeapPages'
          PROVE  /\ pagetbx_page' < g[2] /\ BelowFree(g[2])'
                 /\ \A s \in KernelSlots : Table(s)'.page # g[2]
      <3>1. CASE g \in HeapPages
        BY <1>2, <1>9, <2>3, <2>4, <3>1 DEF BelowFree
      <3>2. CASE g = <<vaddr, page>>
        <4>1. g[2] = page
          BY <3>2
        <4>2. BelowFree(g[2])'
          BY <1>4, <1>9, <4>1 DEF BelowFree
        <4>3. \A s \in KernelSlots : Table(s)'.page # page
          BY <1>4, <1>9, <2>4
        <4> QED
          BY <1>2, <2>5, <4>1, <4>2, <4>3
      <3> QED
        BY <2>2, <2>6, <3>1, <3>2
    <2>7. ASSUME NEW g \in HeapPages', NEW h \in HeapPages', g[2] = h[2] PROVE g = h
      <3>1. \A f \in HeapPages : f[2] \in Nat /\ f[2] < page
        BY <1>3, <1>11, <2>3 DEF BelowFree
      <3>2. CASE g \in HeapPages /\ h \in HeapPages
        BY <1>1, <1>2, <2>7, <3>2 DEF HeapInv
      <3>3. CASE g = <<vaddr, page>> \/ h = <<vaddr, page>>
        <4>1. g[2] = page /\ h[2] = page
          BY <2>7, <3>3
        <4>2. g \notin HeapPages /\ h \notin HeapPages
          BY <1>4, <3>1, <4>1
        <4> QED
          BY <2>2, <4>2
      <3> QED
        BY <2>2, <3>2, <3>3
    <2>8. kernel_heap_start(kernel_end)' <= kernel_heap_end'
      BY <1>2, <1>5
    <2> QED
      BY <1>2, <1>5, <1>7, <1>10, <2>1, <2>6, <2>7, <2>8 DEF HeapInv
  <1> QED
    BY <1>2, <1>9, <1>10, <1>13, <1>14, <1>15, <1>16, <1>17
       DEF AddressInv, EarlyInv, OldInv, NewInv, JobInv

(* A device has a page at least, and fewer than n when its bytes are.      *)
LEMMA DevicePages ==
  ASSUME NEW d \in Framebuffers \cup Devices, NEW n \in Nat, Below(d, n * PageSize)
  PROVE  /\ d.addr \in Nat /\ d.size \in Nat /\ d.size > 0
         /\ NumPages(d) \in Nat /\ 1 <= NumPages(d) /\ NumPages(d) < n
  <1>1. /\ d.addr \in Nat /\ d.size \in Nat /\ d.size > 0 /\ PageSize \in Nat \ {0}
        /\ d.size + (d.addr % PageSize) + PageSize - 1 < n * PageSize
    BY AddressAssumption DEF Below
  <1> DEFINE offset == d.addr % PageSize
             bytes == d.size + offset + PageSize - 1
  <1>2. offset \in Nat
    BY <1>1, DivType
  <1>3. bytes \in Nat /\ 1 * PageSize <= bytes
    BY <1>1, <1>2
  <1>4. bytes < n * PageSize
    BY <1>1
  <1>5. NumPages(d) = bytes \div PageSize
    BY DEF NumPages
  <1> HIDE DEF bytes
  <1>6. bytes \div PageSize \in Nat /\ 1 <= bytes \div PageSize /\ bytes \div PageSize < n
    BY <1>1, <1>3, <1>4, DivType, DivAtLeast, DivLess
  <1> QED
    BY <1>1, <1>5, <1>6

(* Behind the MMIO window there are two tables.                            *)
LEMMA BehindWindow ==
  /\ kernel_mmio_limit + 2 * Entries = Entries * Entries
  /\ Page(MmioSlot, 0) + (Entries - MmioSlot) * Entries = Entries * Entries
  /\ Entries * Entries \in Nat /\ 2 * Entries \in Nat /\ (Entries - MmioSlot) * Entries \in Nat
  BY Numbers DEF kernel_mmio_limit, Page

(* The sum mmio_map compares with the limit does not wrap around.          *)
LEMMA NoWrap ==
  ASSUME AddressInv, pc = "run", NEW d \in Framebuffers \cup Devices,
         d \in Devices \/ kernel_mmio_ptr = Page(MmioSlot, 0)
  PROVE  /\ d.addr \in Nat /\ d.size \in Nat /\ d.size > 0
         /\ NumPages(d) \in Nat /\ 1 <= NumPages(d)
         /\ kernel_mmio_ptr + NumPages(d) < Entries * Entries
  <1>1. /\ kernel_mmio_ptr \in Nat /\ kernel_mmio_limit \in Nat /\ Page(MmioSlot, 0) \in Nat
        /\ kernel_mmio_ptr <= kernel_mmio_limit
    BY Borders DEF AddressInv, HeapInv, AddressTypeOK
  <1>2. CASE d \in Devices
    <2>1. Below(d, (2 * Entries) * PageSize)
      BY <1>2, AddressAssumption
    <2>2. /\ d.addr \in Nat /\ d.size \in Nat /\ d.size > 0
          /\ NumPages(d) \in Nat /\ 1 <= NumPages(d) /\ NumPages(d) < 2 * Entries
      BY <2>1, BehindWindow, DevicePages
    <2> QED
      BY <1>1, <2>2, BehindWindow
  <1>3. CASE d \in Framebuffers /\ kernel_mmio_ptr = Page(MmioSlot, 0)
    <2>1. Below(d, ((Entries - MmioSlot) * Entries) * PageSize)
      BY <1>3, AddressAssumption
    <2>2. /\ d.addr \in Nat /\ d.size \in Nat /\ d.size > 0
          /\ NumPages(d) \in Nat /\ 1 <= NumPages(d) /\ NumPages(d) < (Entries - MmioSlot) * Entries
      BY <2>1, BehindWindow, DevicePages
    <2> QED
      BY <1>1, <1>3, <2>2, BehindWindow
  <1> QED
    BY <1>2, <1>3

LEMMA ModSmall ==
  ASSUME NEW n \in Nat, NEW m \in Nat, n < m
  PROVE  n % m = n
  OBVIOUS

LEMMA MmioMapStep ==
  ASSUME AddressInv, NEW d \in Framebuffers \cup Devices, mmio_map(d),
         d \in Devices \/ kernel_mmio_ptr = Page(MmioSlot, 0)
  PROVE  AddressInv'
  <1>1. AddressTypeOK /\ PoolInv /\ HeapInv
    BY DEF AddressInv
  <1>2. /\ pc = "run" /\ pc' = "mmio" /\ kernel_end \in KernelEnds
        /\ (kernel_mmio_ptr + NumPages(d)) % (Entries * Entries) <= kernel_mmio_limit
        /\ job' = [addr |-> d.addr, size |-> d.size, virt |-> kernel_mmio_ptr, i |-> 0,
                   num_pages |-> NumPages(d)]
        /\ kernel_mmio_ptr' = kernel_mmio_ptr + NumPages(d)
        /\ UNCHANGED <<mem, cr3, tlb, free, kernel_end, pagedir_page, pagetbx_page, start,
                       kernel_heap_end, given>>
    BY <1>1 DEF mmio_map, locals, AddressTypeOK
  <1>3. /\ d.addr \in Nat /\ d.size \in Nat /\ d.size > 0
        /\ NumPages(d) \in Nat /\ 1 <= NumPages(d)
        /\ kernel_mmio_ptr + NumPages(d) < Entries * Entries
    BY <1>2, NoWrap
  <1>4. /\ kernel_mmio_ptr \in Nat /\ kernel_mmio_limit \in Nat /\ Page(MmioSlot, 0) \in Nat
        /\ Page(MmioSlot, 0) <= kernel_mmio_ptr /\ kernel_mmio_ptr <= kernel_mmio_limit
    BY <1>1, <1>2, Borders DEF HeapInv, AddressTypeOK
  <1>5. kernel_mmio_ptr' \in Nat /\ kernel_mmio_ptr' <= kernel_mmio_limit
    <2>1. kernel_mmio_ptr + NumPages(d) \in Nat /\ Entries * Entries \in Nat
      BY <1>3, <1>4, BehindWindow
    <2>2. (kernel_mmio_ptr + NumPages(d)) % (Entries * Entries) = kernel_mmio_ptr + NumPages(d)
      BY <1>3, <2>1, ModSmall
    <2> QED
      BY <1>2, <2>1, <2>2
  <1>6. /\ cr3 = pagedir_page /\ TablesInv /\ WindowInv /\ \A g \in given : Mapped(g[1], g[2])
        /\ pagedir_page # boot_pagedir
    BY <1>2, NewState
  <1>7. AddressTypeOK'
    BY <1>1, <1>2, <1>3, <1>4, <1>5 DEF AddressTypeOK, Locations
  <1>8. PoolInv'
    BY <1>1, <1>2 DEF PoolInv, BelowFree, EndPage
  <1>9. \A s \in Index : Table(s)' = Table(s)
    BY <1>2 DEF Table
  <1>10. TablesInv'
    <2>1. start = Entries /\ \A s \in KernelSlots : s < start => Has(s)
      BY <1>2, <1>6 DEF TablesInv
    <2> QED
      BY <1>2, <1>6, <1>9, <2>1, TablesFrame
  <1>11. WindowInv' /\ \A g \in given' : Mapped(g[1], g[2])'
    BY <1>2, <1>6 DEF WindowInv, Mapped, Has, Table
  <1>12. HeapInv'
    <2>1. HeapPages' = HeapPages
      BY <1>2 DEF HeapPages
    <2>2. \A g \in HeapPages : /\ pagetbx_page < g[2] /\ BelowFree(g[2])
                               /\ \A s \in KernelSlots : Table(s).page # g[2]
      BY <1>1, <1>2 DEF HeapInv
    <2>3. \A g \in HeapPages' : /\ pagetbx_page' < g[2] /\ BelowFree(g[2])'
                                /\ \A s \in KernelSlots : Table(s)'.page # g[2]
      BY <1>2, <2>1, <2>2 DEF BelowFree, Table
    <2>4. \A g \in given' : \/ g[1] < kernel_heap_end'
                            \/ Page(MmioSlot, 0) <= g[1] /\ g[1] < job'.virt
      BY <1>1, <1>2 DEF HeapInv
    <2>5. \A g, h \in HeapPages' : g[2] = h[2] => g = h
      BY <1>1, <1>2, <2>1 DEF HeapInv
    <2>6. Page(MmioSlot, 0) <= kernel_mmio_ptr'
      BY <1>2, <1>3, <1>4
    <2>7. kernel_heap_start(kernel_end)' <= kernel_heap_end' /\ kernel_heap_end' <= Page(MmioSlot, 0)
      BY <1>1, <1>2 DEF HeapInv
    <2> QED
      BY <1>2, <1>5, <1>6, <2>3, <2>4, <2>5, <2>6, <2>7 DEF HeapInv
  <1>13. JobInv'
    <2>1. job'.num_pages = NumPages(job')
      BY <1>2 DEF NumPages
    <2>2. job'.size > 0 /\ job'.i = 0 /\ job'.i < job'.num_pages /\ job'.virt = kernel_mmio_ptr
          /\ kernel_mmio_ptr' = job'.virt + job'.num_pages
      BY <1>2, <1>3
    <2>3. \A j \in Nat : ~(j < job'.i)
      BY <2>2
    <2> QED
      BY <1>4, <2>1, <2>2, <2>3 DEF JobInv
  <1> QED
    BY <1>2, <1>6, <1>7, <1>8, <1>10, <1>11, <1>12, <1>13
       DEF AddressInv, EarlyInv, OldInv, NewInv

(* What mmio_map promises of the bytes of a device is what its turns map.  *)
LEMMA DivShift ==
  ASSUME NEW q \in Nat, NEW r \in Nat, NEW b \in Nat \ {0}
  PROVE  (q * b + r) \div b = q + r \div b
  OBVIOUS

LEMMA PromisedPages ==
  ASSUME AddressTypeOK, job.size > 0, job.num_pages = NumPages(job), NEW g \in Promised
  PROVE  \E j \in Nat : /\ j < job.num_pages
                        /\ g = <<job.virt + j, job.addr \div PageSize + j>>
  <1>1. /\ job.addr \in Nat /\ job.size \in Nat /\ job.virt \in Nat /\ job.num_pages \in Nat
        /\ PageSize \in Nat \ {0}
    BY AddressAssumption DEF AddressTypeOK
  <1> DEFINE offset == job.addr % PageSize
             first == job.addr \div PageSize
  <1>2. offset \in Nat /\ first \in Nat /\ job.addr = first * PageSize + offset
    <2>1. offset \in Nat /\ first \in Nat
      BY <1>1, DivType
    <2>2. offset = job.addr - PageSize * first
      BY <1>1, DivMod
    <2>3. PageSize * first \in Nat /\ PageSize * first = first * PageSize
      BY <1>1, <2>1, Times
    <2> HIDE DEF offset, first
    <2> QED
      BY <1>1, <2>1, <2>2, <2>3
  <1>3. PICK k \in 0..job.size - 1 :
          g = <<(job.virt * PageSize + offset + k) \div PageSize, (job.addr + k) \div PageSize>>
    BY DEF Promised
  <1>4. k \in Nat /\ k <= job.size - 1
    BY <1>1, <1>3
  <1>5. job.num_pages = (job.size + offset + PageSize - 1) \div PageSize
    BY DEF NumPages
  <1> HIDE DEF offset, first
  <1> DEFINE y == offset + k
             j == y \div PageSize
  <1>6. y \in Nat /\ y = offset + k
    BY <1>2, <1>4
  <1> HIDE DEF y
  <1>7. j \in Nat
    BY <1>1, <1>6, DivType
  <1>8. (job.virt * PageSize + offset + k) \div PageSize = job.virt + j
    <2>1. job.virt * PageSize + offset + k = job.virt * PageSize + y
      BY <1>1, <1>2, <1>4, <1>6, Times
    <2>2. (job.virt * PageSize + y) \div PageSize = job.virt + j
      BY <1>1, <1>6, DivShift
    <2> QED
      BY <2>1, <2>2
  <1>9. (job.addr + k) \div PageSize = first + j
    <2>1. job.addr + k = first * PageSize + y
      BY <1>1, <1>2, <1>4, <1>6, Times
    <2>2. (first * PageSize + y) \div PageSize = first + j
      BY <1>1, <1>2, <1>6, DivShift
    <2> QED
      BY <2>1, <2>2
  <1>10. j < job.num_pages
    <2> DEFINE x == job.size + offset - 1
    <2>1. x \in Nat /\ y <= x
      BY <1>1, <1>2, <1>4, <1>6
    <2>2. job.size + offset + PageSize - 1 = 1 * PageSize + x
      BY <1>1, <1>2
    <2> HIDE DEF x
    <2>3. job.num_pages = 1 + x \div PageSize
      <3>1. (1 * PageSize + x) \div PageSize = 1 + x \div PageSize
        BY <1>1, <2>1, DivShift
      <3> QED
        BY <1>5, <2>2, <3>1
    <2>4. x \div PageSize < job.num_pages
      BY <1>1, <2>1, <2>3, DivType
    <2>5. x < job.num_pages * PageSize
      BY <1>1, <2>1, <2>4, DivLessBack
    <2>6. y < job.num_pages * PageSize
      BY <1>1, <1>6, <2>1, <2>5, Times
    <2> QED
      BY <1>1, <1>6, <2>6, DivLess
  <1> HIDE DEF j
  <1> QED
    BY <1>3, <1>7, <1>8, <1>9, <1>10 DEF first

LEMMA MmioTurnStep ==
  ASSUME AddressInv, MmioTurn
  PROVE  AddressInv' /\ \A s \in Index : Table(s)' = Table(s)
  <1>1. AddressTypeOK /\ PoolInv /\ HeapInv /\ JobInv
    BY DEF AddressInv
  <1>2. PICK page, vaddr, rest, virt, first, i, num :
          /\ page = job.addr \div PageSize + job.i /\ vaddr = job.virt + job.i /\ rest = free
          /\ virt = job.virt /\ first = job.addr \div PageSize /\ i = job.i /\ num = job.num_pages
    OBVIOUS
  <1>3. /\ pc = "mmio" /\ kernel_end \in KernelEnds
        /\ mm_map_page(page, vaddr, rest)
        /\ job' = [job EXCEPT !.i = @ + 1]
        /\ UNCHANGED <<cr3, kernel_end, pagedir_page, pagetbx_page, start, kernel_heap_end,
                       kernel_mmio_ptr>>
    BY <1>1, <1>2 DEF MmioTurn, locals, AddressTypeOK
  <1>4. IF i + 1 = num THEN pc' = "run" /\ given' = given \cup Promised
                       ELSE pc' = pc /\ given' = given
    BY <1>1, <1>2, <1>3 DEF MmioTurn, AddressTypeOK
  <1>5. /\ virt \in Nat /\ first \in Nat /\ i \in Nat /\ num \in Nat /\ i < num
        /\ page = first + i /\ vaddr = virt + i /\ page \in Nat /\ vaddr \in Nat
        /\ job.size > 0 /\ job.num_pages = NumPages(job)
        /\ Page(MmioSlot, 0) <= virt /\ kernel_mmio_ptr = virt + num
        /\ \A j \in Nat : j < i => Mapped(virt + j, first + j)
    <2>1. job.addr \in Nat /\ job.virt \in Nat /\ job.i \in Nat /\ job.num_pages \in Nat
          /\ PageSize \in Nat \ {0}
      BY <1>1, AddressAssumption DEF AddressTypeOK
    <2>2. job.addr \div PageSize \in Nat
      BY <2>1, DivType
    <2> QED
      BY <1>1, <1>2, <1>3, <2>1, <2>2 DEF JobInv
  <1>6. /\ Page(KernelSlot, 0) \in Nat /\ Page(MmioSlot, 0) \in Nat /\ kernel_mmio_limit \in Nat
        /\ Page(KernelSlot, 0) <= Page(MmioSlot, 0)
        /\ kernel_mmio_ptr <= kernel_mmio_limit
        /\ kernel_heap_end \in Nat /\ kernel_heap_end <= Page(MmioSlot, 0)
    BY <1>1, <1>3, Borders DEF HeapInv, AddressTypeOK
  <1>7. Page(KernelSlot, 0) <= vaddr /\ vaddr < kernel_mmio_limit /\ rest \in SUBSET free
    BY <1>2, <1>5, <1>6
  <1>8. /\ mem' \in [Pages -> [Index -> Descriptor]] /\ free' = free
        /\ \A s \in Index : Table(s)' = Table(s)
        /\ WindowInv'
        /\ Mapped(vaddr, page)'
        /\ \A v, p : Mapped(v, p) /\ v # vaddr => Mapped(v, p)'
    BY <1>2, <1>3, <1>5, <1>7, MapPage
  <1>9. /\ cr3 = pagedir_page /\ TablesInv /\ \A g \in given : Mapped(g[1], g[2])
        /\ pagedir_page # boot_pagedir
    BY <1>3, NewState
  <1>10. \A g \in given : g \in Nat \X Nat /\ g[1] \in Nat /\ g[2] \in Nat
    BY <1>1 DEF AddressTypeOK
  <1>11. \A g \in given : \/ g[1] < kernel_heap_end
                          \/ Page(MmioSlot, 0) <= g[1] /\ g[1] < virt
    BY <1>1, <1>2, <1>3 DEF HeapInv
  <1>12. \A j \in Nat : j < i + 1 => Mapped(virt + j, first + j)'
    <2>1. ASSUME NEW j \in Nat, j < i + 1 PROVE Mapped(virt + j, first + j)'
      <3>1. CASE j = i
        BY <1>5, <1>8, <3>1
      <3>2. CASE j < i
        <4>1. virt + j # vaddr
          BY <1>5, <3>2
        <4>2. Mapped(virt + j, first + j)
          BY <1>5, <3>2
        <4> QED
          BY <1>8, <4>1, <4>2
      <3> QED
        BY <1>5, <2>1, <3>1, <3>2
    <2> QED
      BY <2>1
  <1>13. ASSUME NEW g \in given PROVE Mapped(g[1], g[2])'
    <2>1. g[1] # vaddr
      BY <1>5, <1>6, <1>10, <1>11
    <2> QED
      BY <1>8, <1>9, <2>1
  <1>14. ASSUME NEW g \in given' \ given
         PROVE  /\ i + 1 = num /\ pc' = "run"
                /\ \E j \in Nat : j < num /\ g = <<virt + j, first + j>>
    <2>1. i + 1 = num /\ pc' = "run" /\ g \in Promised
      BY <1>4, <1>14
    <2>2. \E j \in Nat : j < job.num_pages /\ g = <<job.virt + j, job.addr \div PageSize + j>>
      BY <1>1, <1>5, <2>1, PromisedPages
    <2> QED
      BY <1>2, <2>1, <2>2
  <1>15. ASSUME NEW g \in given' \ given
         PROVE  /\ g \in Nat \X Nat /\ Mapped(g[1], g[2])' /\ g[1] \in Nat
                /\ Page(MmioSlot, 0) <= g[1] /\ g[1] < kernel_mmio_ptr
    <2>1. PICK j \in Nat : j < num /\ g = <<virt + j, first + j>>
      BY <1>14
    <2>2. g[1] = virt + j /\ g[2] = first + j /\ j < i + 1
      BY <1>5, <1>14, <2>1
    <2>3. Mapped(virt + j, first + j)'
      BY <1>12, <2>2
    <2> QED
      BY <1>5, <1>6, <2>1, <2>2, <2>3
  <1>16. pc' \in {"run", "mmio"} /\ given \subseteq given'
    BY <1>3, <1>4
  <1>17. AddressTypeOK'
    <2>1. given' \subseteq Nat \X Nat
      BY <1>10, <1>15
    <2>2. job' \in [addr : Nat, size : Nat, virt : Nat, i : Nat, num_pages : Nat]
      BY <1>1, <1>3 DEF AddressTypeOK
    <2> QED
      BY <1>1, <1>3, <1>8, <1>16, <2>1, <2>2 DEF AddressTypeOK, Locations
  <1>18. PoolInv'
    BY <1>1, <1>3, <1>8, <1>16 DEF PoolInv, BelowFree, EndPage
  <1>19. TablesInv'
    <2>1. start = Entries /\ \A s \in KernelSlots : s < start => Has(s)
      BY <1>3, <1>9 DEF TablesInv
    <2> QED
      BY <1>3, <1>8, <1>9, <1>16, <2>1, TablesFrame
  <1>20. \A g \in given' : Mapped(g[1], g[2])'
    BY <1>13, <1>15
  <1>21. HeapInv'
    <2>1. ASSUME NEW g \in HeapPages' PROVE g \in HeapPages
      <3>1. g \in given' /\ g[1] >= kernel_heap_start(kernel_end) /\ Slot(g[1]) < MmioSlot
        BY <1>3, <2>1 DEF HeapPages
      <3>2. CASE g \in given' \ given
        <4>1. g[1] \in Nat /\ Page(MmioSlot, 0) <= g[1] /\ g[1] < kernel_mmio_limit
          BY <1>5, <1>6, <1>15, <3>2
        <4>2. MmioSlot <= Slot(g[1]) /\ Slot(g[1]) \in Nat /\ MmioSlot \in Nat
          BY <4>1, Numbers, SlotRange, SlotOf DEF kernel_mmio_limit, Index
        <4> QED
          BY <3>1, <4>2
      <3>3. CASE g \in given
        BY <3>1, <3>3 DEF HeapPages
      <3> QED
        BY <3>1, <3>2, <3>3
    <2>2. \A g \in HeapPages : /\ pagetbx_page < g[2] /\ BelowFree(g[2])
                               /\ \A s \in KernelSlots : Table(s).page # g[2]
      BY <1>1, <1>3 DEF HeapInv
    <2>3. \A s \in KernelSlots : Table(s)' = Table(s)
      BY <1>8, Numbers
    <2>4. \A g \in HeapPages' : /\ pagetbx_page' < g[2] /\ BelowFree(g[2])'
                                /\ \A s \in KernelSlots : Table(s)'.page # g[2]
      BY <1>3, <1>8, <2>1, <2>2, <2>3 DEF BelowFree
    <2>5. ASSUME NEW g \in given'
          PROVE  \/ g[1] < kernel_heap_end'
                 \/ Page(MmioSlot, 0) <= g[1]
                      /\ g[1] < (IF pc' = "mmio" THEN job'.virt ELSE kernel_mmio_ptr')
      <3>1. CASE g \in given' \ given
        BY <1>3, <1>14, <1>15, <3>1
      <3>2. CASE g \in given
        <4>1. job'.virt = virt
          BY <1>1, <1>2, <1>3 DEF AddressTypeOK
        <4> QED
          BY <1>3, <1>5, <1>10, <1>11, <3>2, <4>1
      <3> QED
        BY <3>1, <3>2
    <2>6. \A g, h \in HeapPages' : g[2] = h[2] => g = h
      BY <1>1, <1>3, <2>1 DEF HeapInv
    <2>7. /\ (kernel_heap_start(kernel_end) <= kernel_heap_end)'
          /\ kernel_heap_end' <= Page(MmioSlot, 0)
          /\ Page(MmioSlot, 0) <= kernel_mmio_ptr' /\ kernel_mmio_ptr' <= kernel_mmio_limit
      BY <1>1, <1>3 DEF HeapInv
    <2> QED
      BY <1>3, <1>9, <2>4, <2>5, <2>6, <2>7 DEF HeapInv
  <1>22. JobInv'
    <2>1. SUFFICES ASSUME pc' = "mmio" PROVE JobInv'
      BY DEF JobInv
    <2>2. i + 1 # num
      BY <1>4, <2>1
    <2>3. /\ job'.addr = job.addr /\ job'.size = job.size /\ job'.virt = virt
          /\ job'.i = i + 1 /\ job'.num_pages = num
      BY <1>1, <1>2, <1>3 DEF AddressTypeOK
    <2>4. NumPages(job') = NumPages(job)
      BY <2>3 DEF NumPages
    <2>5. \A j \in Nat : j < job'.i => Mapped(virt + j, first + j)'
      BY <1>12, <2>3
    <2>6. i + 1 < num /\ first = job'.addr \div PageSize
      BY <1>2, <1>5, <2>2, <2>3
    <2>7. \A j \in Nat : j < job'.i => Mapped(job.virt + j, job.addr \div PageSize + j)'
      BY <2>3, <2>5, <2>6 DEF Mapped
    <2> QED
      BY <1>2, <1>3, <1>5, <2>3, <2>4, <2>6, <2>7 DEF JobInv
  <1> QED
    BY <1>3, <1>8, <1>9, <1>16, <1>17, <1>18, <1>19, <1>20, <1>21, <1>22
       DEF AddressInv, EarlyInv, OldInv, NewInv

-----------------------------------------------------------------------------
(* The theorems.                                                           *)

(* From boot.S on, in every step of paging_earlyinit, heap_grow and        *)
(* mmio_map: the pages handed out, the tables, what is mapped through them *)
(* and what the TLB holds of it.                                           *)
THEOREM AddressInvariant == Spec => []AddressInv
  <1>1. AddressInv /\ [Next]_vars => AddressInv'
    <2> SUFFICES ASSUME AddressInv, [Next]_vars PROVE AddressInv'
      OBVIOUS
    <2>1. CASE paging_earlyinit
      BY <2>1, AllocTablesStep, LinkOldStep, ClearNewStep, FillTableStep, LoadStep,
         SpaceTurnStep, SpaceZeroStep, SpaceDoneStep DEF paging_earlyinit
    <2>2. CASE heap_grow
      BY <2>2, HeapGrowStep
    <2>3. ASSUME NEW d \in Framebuffers \cup Devices, mmio_map(d),
                 d \in Devices \/ kernel_mmio_ptr = Page(MmioSlot, 0)
          PROVE  AddressInv'
      BY <2>3, MmioMapStep
    <2>4. CASE MmioTurn
      BY <2>4, MmioTurnStep
    <2>5. CASE UNCHANGED vars
      BY <2>5 DEF vars, AddressInv, AddressTypeOK, EarlyInv, ImageGiven, PoolInv, BelowFree,
                  EndPage, OldInv, LinkedOld, NewInv, TablesInv, WindowInv, Mapped, Has, Table,
                  HeapInv, HeapPages, JobInv
    <2> QED
      BY <2>1, <2>2, <2>3, <2>4, <2>5 DEF Next, MapFramebuffer
  <1> QED
    BY InitAddress, <1>1, PTL DEF Spec

(* Every store paging_earlyinit and mm_map_page make to a page table       *)
(* reaches the table it is meant for, through the old tables and the new.  *)
THEOREM StoresReach == Spec => []AccessesReach
  <1>1. AddressInv => AccessesReach
    <2> SUFFICES ASSUME AddressInv, NEW u \in Uses
                 PROVE  FoundAt(u[1], u[2]) /\ tlb[u[1]].writable
      BY DEF AccessesReach
    <2>1. AddressTypeOK /\ PoolInv /\ OldInv /\ NewInv /\ kernel_end \in KernelEnds
      BY DEF AddressInv, AddressTypeOK
    <2>2. CASE pc \in {"link", "clear", "fill"}
      <3>1. cr3 = boot_pagedir /\ \A v \in VPages : tlb[v] = Walk(mem, cr3, v)
        BY <2>1, <2>2 DEF OldInv, NewInv
      <3>2. u[1] \in VPages /\ tlb[u[1]] = Entry(u[2], TRUE)
        <4>1. CASE pc = "link"
          <5>1. PICK p \in {boot_pagedir, boot_pagetab1} : u = <<Kernel(p), p>>
            BY <4>1 DEF Uses
          <5>2. p \in Image(kernel_end) /\ p \in Index /\ KernelSlot \in Index
            BY <2>1, ImageFacts, Numbers
          <5> QED
            BY <2>1, <3>1, <5>1, <5>2, OldReach, PageParts DEF Kernel
        <4>2. CASE pc \in {"clear", "fill"}
          <5>1. u \in {<<Directory, pagedir_page>>, <<Window(Entries - 2), pagetbx_page>>}
            BY <4>2 DEF Uses
          <5>2. LinkedOld
            BY <4>2 DEF LinkedOld
          <5>3. Directory \in VPages /\ Window(Entries - 2) \in VPages
            BY Numbers, WindowsDiffer DEF Directory
          <5>4. /\ tlb[Directory] = Entry(pagedir_page, TRUE)
                /\ tlb[Window(Entries - 2)] = Entry(pagetbx_page, TRUE)
            BY <2>1, <3>1, <5>2, OldReach
          <5>5. CASE u = <<Directory, pagedir_page>>
            BY <5>3, <5>4, <5>5
          <5>6. CASE u = <<Window(Entries - 2), pagetbx_page>>
            BY <5>3, <5>4, <5>6
          <5> QED
            BY <5>1, <5>5, <5>6
        <4> QED
          BY <2>2, <4>1, <4>2
      <3> QED
        BY <3>1, <3>2 DEF FoundAt, Entry
    <2>3. CASE pc \in {"space", "zero", "run", "mmio"}
      <3>1. cr3 = pagedir_page /\ TablesInv /\ WindowInv
        BY <2>3, NewState
      <3>2. Has(Self) /\ Table(Self).page = pagedir_page /\ Table(Self).writable
            /\ Self \in KernelSlots /\ KernelSlots \subseteq Index
        BY <3>1, Numbers DEF TablesInv, Has, Entry
      <3>3. \E s \in KernelSlots : Has(s) /\ u = <<Window(s), Table(s).page>>
        <4>1. CASE pc = "space"
          <5>1. u = <<Window(Self), pagedir_page>>
            BY <4>1 DEF Uses, Directory
          <5> QED
            BY <3>2, <5>1
        <4>2. CASE pc = "zero"
          <5>1. u = <<Window(start), Table(start).page>>
            BY <4>2 DEF Uses, Table
          <5> QED
            BY <3>1, <4>2, <5>1 DEF TablesInv
        <4>3. CASE pc \in {"run", "mmio"}
          <5>1. \A s \in KernelSlots : Has(s)
            BY <3>1, <4>3, Numbers DEF TablesInv, KernelSlots
          <5>2. \/ u = <<Window(Self), pagedir_page>>
                \/ \E s \in KernelSlots : u = <<Window(s), Table(s).page>>
            BY <4>3 DEF Uses, Directory, Table
          <5> QED
            BY <3>2, <5>1, <5>2
        <4> QED
          BY <2>3, <4>1, <4>2, <4>3
      <3>4. PICK s \in KernelSlots : Has(s) /\ u = <<Window(s), Table(s).page>>
        BY <3>3
      <3>5. Walk(mem, pagedir_page, Window(s)) = Table(s)
        <4>1. mem[pagedir_page][Self] = Entry(pagedir_page, TRUE) /\ s \in Index
          BY <3>1, <3>2 DEF TablesInv, Table
        <4> QED
          BY <4>1, WindowWalk DEF Table
      <3>6. tlb[Window(s)] = Table(s) /\ Table(s).writable /\ Table(s).present
        BY <3>1, <3>4 DEF WindowInv, TablesInv, Has
      <3> QED
        BY <3>1, <3>4, <3>5, <3>6 DEF FoundAt
    <2>4. pc \in {"link", "clear", "fill", "space", "zero", "run", "mmio"}
      BY <2>1 DEF Uses, AddressTypeOK, Locations
    <2> QED
      BY <2>2, <2>3, <2>4
  <1> QED
    BY <1>1, AddressInvariant, PTL

(* What the kernel has been given stays mapped: the image while its tables *)
(* are replaced, every page of the heap, every byte of every device.       *)
THEOREM MappingsCorrect == Spec => []MappingsKept
  <1>1. AddressInv => MappingsKept
    <2> SUFFICES ASSUME AddressInv, NEW g \in given PROVE FoundAt(g[1], g[2])
      BY DEF MappingsKept
    <2>1. AddressTypeOK /\ EarlyInv /\ OldInv /\ NewInv /\ kernel_end \in KernelEnds
      BY DEF AddressInv, AddressTypeOK
    <2>2. CASE cr3 = boot_pagedir
      <3>1. PICK p \in Image(kernel_end) : g = <<Kernel(p), p>>
        BY <2>1, <2>2 DEF EarlyInv, OldInv, ImageGiven
      <3>2. Kernel(p) \in VPages
        BY <2>1, ImageFacts, Numbers, PageParts DEF Kernel
      <3>3. tlb[Kernel(p)] = Entry(p, TRUE) /\ tlb[Kernel(p)] = Walk(mem, cr3, Kernel(p))
        BY <2>1, <2>2, <3>2, OldReach DEF OldInv
      <3> QED
        BY <3>1, <3>3 DEF FoundAt, Entry
    <2>3. CASE cr3 # boot_pagedir
      <3>1. Mapped(g[1], g[2]) /\ cr3 = pagedir_page
        BY <2>1, <2>3 DEF NewInv
      <3> QED
        BY <3>1 DEF Mapped, FoundAt, Walk, Has, Table
    <2> QED
      BY <2>2, <2>3
  <1> QED
    BY <1>1, AddressInvariant, PTL

(* The pages of the heap are its own, and the areas do not run into each   *)
(* other.                                                                  *)
THEOREM HeapCorrect == Spec => []HeapPrivate
  <1>1. AddressInv => HeapPrivate
    <2> SUFFICES ASSUME AddressInv, pc \in {"run", "mmio"} PROVE HeapPrivate
      BY DEF HeapPrivate
    <2>1. HeapInv /\ PoolInv /\ AddressTypeOK /\ kernel_end \in KernelEnds
      BY DEF AddressInv, AddressTypeOK
    <2>2. ASSUME NEW g \in HeapPages
          PROVE  g[2] \notin TablePages \cup Image(kernel_end) \cup free
      <3>1. /\ cr3 = pagedir_page /\ pagetbx_page < g[2] /\ BelowFree(g[2])
            /\ \A s \in KernelSlots : Table(s).page # g[2]
        BY <2>1, <2>2 DEF HeapInv
      <3>2. g[2] \in Nat /\ free \subseteq Nat
        BY <2>1, PageNumbers DEF HeapPages, AddressTypeOK
      <3>3. /\ EndPage \in Nat /\ \A p \in Image(kernel_end) : p \in Nat /\ p <= EndPage
            /\ boot_pagedir \in Image(kernel_end) /\ boot_pagetab1 \in Image(kernel_end)
        BY <2>1, ImageFacts DEF Index
      <3>4. pagedir_page = EndPage /\ pagetbx_page \in Nat /\ EndPage < pagetbx_page
        BY <2>1, PageNumbers DEF PoolInv
      <3>5. g[2] \notin Image(kernel_end) /\ g[2] \notin {cr3, boot_pagedir, boot_pagetab1}
        BY <3>1, <3>2, <3>3, <3>4
      <3>6. g[2] \notin free
        BY <3>1, <3>2 DEF BelowFree
      <3>7. g[2] \notin {mem[cr3][s].page : s \in KernelSlots}
        BY <3>1 DEF Table
      <3> QED
        BY <3>5, <3>6, <3>7 DEF TablePages
    <2>3. \A g, h \in HeapPages : g[2] = h[2] => g = h
      BY <2>1 DEF HeapInv
    <2>4. kernel_heap_end <= Page(MmioSlot, 0) /\ kernel_mmio_ptr <= kernel_mmio_limit
      BY <2>1 DEF HeapInv
    <2> QED
      BY <2>2, <2>3, <2>4 DEF HeapPrivate
  <1> QED
    BY <1>1, AddressInvariant, PTL

(* After paging_earlyinit the kernel's part of the directory is complete   *)
(* and no step changes it: mm_map_page never has to find a table.          *)
THEOREM TablesCorrect == Spec => KernelTablesFixed
  <1>1. ASSUME AddressInv, [Next]_vars, pc \in {"run", "mmio"}, NEW s \in KernelSlots
        PROVE  mem[cr3][s].present /\ mem'[cr3'][s] = mem[cr3][s]
    <2>1. cr3 = pagedir_page /\ TablesInv
      BY <1>1, NewState
    <2>2. s \in Index /\ mem[cr3][s].present
      <3>1. s \in Index /\ s < Entries
        BY Numbers DEF KernelSlots, Index
      <3>2. start = Entries
        BY <1>1, <2>1 DEF TablesInv
      <3> QED
        BY <2>1, <3>1, <3>2 DEF TablesInv, Has, Table
    <2>3. ~paging_earlyinit
      BY <1>1 DEF paging_earlyinit, AllocTables, LinkOld, ClearNew, FillTable, mm_load_cr3,
                  SpaceTurn, SpaceZero, SpaceDone
    <2>4. UNCHANGED <<cr3, pagedir_page>>
      BY <1>1, <2>3 DEF Next, heap_grow, MapFramebuffer, mmio_map, MmioTurn, locals, vars
    <2>5. Table(s)' = Table(s)
      <3>1. CASE heap_grow
        BY <1>1, <2>2, <3>1, HeapGrowStep
      <3>2. ASSUME NEW d, mmio_map(d) PROVE Table(s)' = Table(s)
        BY <2>4, <3>2 DEF mmio_map, Table
      <3>3. CASE MmioTurn
        BY <1>1, <2>2, <3>3, MmioTurnStep
      <3>4. CASE UNCHANGED vars
        BY <3>4 DEF vars, Table
      <3> QED
        BY <1>1, <2>3, <3>1, <3>2, <3>3, <3>4 DEF Next, MapFramebuffer
    <2> QED
      BY <2>1, <2>2, <2>4, <2>5 DEF Table
  <1>2. AddressInv /\ [Next]_vars =>
          [(pc = "run" \/ pc = "mmio") =>
             \A s \in KernelSlots : mem[cr3][s].present /\ mem'[cr3'][s] = mem[cr3][s]]_vars
    BY <1>1
  <1> QED
    BY <1>2, AddressInvariant, PTL DEF Spec, KernelTablesFixed
=============================================================================
