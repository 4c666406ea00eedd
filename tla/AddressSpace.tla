---------------------------- MODULE AddressSpace ----------------------------
(***************************************************************************)
(* The kernel half of the address space: the page tables boot.S leaves     *)
(* behind, their replacement by paging_earlyinit (memory/paging.c), and    *)
(* the mappings made later by heap_grow (malloc.c) and mmio_map (mmio.c)   *)
(* with mm_map_page (memory_manager.h).                                    *)
(*                                                                         *)
(* Physical memory is a set of pages of Entries words each.  The code      *)
(* never writes to a table directly: it stores through virtual addresses,  *)
(* which are translated by the very tables it changes and by the TLB.  A   *)
(* virtual address is the number of its page: directory slot * Entries +   *)
(* index in the table.                                                     *)
(***************************************************************************)
EXTENDS Naturals

CONSTANTS
  Entries,        \* 1024: entries of a page table or directory
  PageSize,       \* 4096
  KernelSlot,     \* 768: 0xC0000000
  MmioSlot,       \* 896: kernel_mmio_start, 0xE0000000
  VgaPage,        \* 184: 0xB8000
  KernelStart,    \* 256: first page of the kernel image
  boot_pagedir, boot_pagetab1,   \* their pages, in the image
  KernelEnds,     \* addresses (physical) where the image may end
  MemoryEnds,     \* first page behind the memory of the page allocator
  Framebuffers,   \* what the boot loader may report: physical address, size in bytes
  Devices         \* the same of further devices

Index == 0..Entries - 1
VPages == 0..Entries * Entries - 1
Pages == UNION {0..e - 1 : e \in MemoryEnds}

(* The bytes of the pages of a device are less than n.                     *)
Below(d, n) == d.size + (d.addr % PageSize) + PageSize - 1 < n

(* The image lies in memory and fits into one table below the two entries *)
(* that paging_earlyinit borrows, and the memory fits between it and the   *)
(* MMIO window (the bitmap covers 64 MB, the window starts 512 MB higher). *)
(* The sum mmio_map compares with the limit of the window does not wrap    *)
(* around: the framebuffer is smaller than 512 MB, what is left of the     *)
(* address space (30 MB in the mode boot.S asks for); further devices,     *)
(* wherever the window is filled to, than the two slots (8 MB) behind its  *)
(* limit.                                                                  *)
ASSUME AddressAssumption ==
  /\ {Entries, PageSize, KernelSlot, MmioSlot, KernelStart} \subseteq Nat \ {0}
  /\ KernelSlot < MmioSlot /\ MmioSlot < Entries - 2
  /\ VgaPage \in 0..KernelStart - 1
  /\ {boot_pagedir, boot_pagetab1} \subseteq Nat /\ boot_pagedir # boot_pagetab1
  /\ KernelEnds \subseteq Nat /\ MemoryEnds \subseteq Nat
  /\ \A k \in KernelEnds :
       /\ k \div PageSize < Entries - 2
       /\ \A p \in {boot_pagedir, boot_pagetab1} : p >= KernelStart /\ p < k \div PageSize
       /\ \A e \in MemoryEnds : k <= e * PageSize
  /\ \A e \in MemoryEnds : e < (MmioSlot - KernelSlot) * Entries
  /\ \A d \in Framebuffers \cup Devices : d.addr \in Nat /\ d.size \in Nat \ {0}
  /\ \A d \in Framebuffers : Below(d, (Entries - MmioSlot) * Entries * PageSize)
  /\ \A d \in Devices : Below(d, 2 * Entries * PageSize)

VARIABLES
  mem,            \* contents of physical pages, as tables
  cr3, tlb,
  free,           \* pages the page allocator may hand out
  kernel_end,     \* linker symbol, minus 0xC0000000
  pc,             \* where the boot thread is
  pagedir_page, pagetbx_page, start,   \* locals of paging_earlyinit and its loop
  kernel_heap_end, kernel_mmio_ptr,    \* as page numbers
  job,            \* the call of mmio_map in progress
  given           \* history: <<virtual page, physical page>> the kernel relies on

vars == <<mem, cr3, tlb, free, kernel_end, pc, pagedir_page, pagetbx_page, start,
          kernel_heap_end, kernel_mmio_ptr, job, given>>
locals == <<kernel_end, pagedir_page, pagetbx_page>>
users == <<kernel_heap_end, kernel_mmio_ptr, job, given>>

Entry(page, w) == [present |-> TRUE, page |-> page, writable |-> w]
Absent == [present |-> FALSE, page |-> 0, writable |-> FALSE]
Empty == [i \in Index |-> Absent]

(* What memory holds before anybody writes to it: anything, here entries   *)
(* that look valid.                                                        *)
Garbage == [i \in Index |-> Entry(0, TRUE)]

Page(slot, index) == slot * Entries + index
Slot(v) == v \div Entries
Kernel(page) == Page(KernelSlot, page)         \* page + 0xC0000000
Self == Entries - 1
Window(slot) == Page(Self, slot)               \* 0xFFC00000 + slot * 4096
Directory == Window(Self)                      \* 0xFFFFF000

(* The page table walk of the CPU, and the TLB.  The TLB may remember any  *)
(* translation that was valid since its last flush; the worst it can do is *)
(* to remember all of them.                                                *)
Walk(m, dir, v) ==
  IF m[dir][Slot(v)].present THEN m[m[dir][Slot(v)].page][v % Entries] ELSE Absent

Filled(t, m, dir) == [v \in VPages |-> IF t[v].present THEN t[v] ELSE Walk(m, dir, v)]

Flushed(vs) == [v \in VPages |-> IF v \in vs THEN Absent ELSE tlb[v]]

(* Where a store to virtual page v goes.                                   *)
Target(v) == tlb[v].page

Lowest(S) == CHOOSE p \in S : \A q \in S : p <= q

-----------------------------------------------------------------------------
(* malloc_init                                                             *)
kernel_heap_start(k) == Kernel((k + PageSize - 1) \div PageSize)

Image(k) == {i \in Index : i >= KernelStart /\ i * PageSize < k}

(* boot.S maps the image and the VGA buffer.  The allocator has reserved   *)
(* the pages of the image up to the one kernel_end lies in (see            *)
(* PageAllocator); the heap starts behind kernel_end (malloc_init), the    *)
(* MMIO window at its slot (mmio_init).                                    *)
Init ==
  /\ kernel_end \in KernelEnds
  /\ \E e \in MemoryEnds : free = {p \in Pages : p >= kernel_end \div PageSize /\ p < e}
  /\ mem = [p \in Pages |->
              CASE p = boot_pagedir  -> [Empty EXCEPT ![KernelSlot] = Entry(boot_pagetab1, TRUE)]
                [] p = boot_pagetab1 -> [i \in Index |-> IF i \in Image(kernel_end) \cup {VgaPage}
                                                         THEN Entry(i, TRUE) ELSE Absent]
                [] OTHER             -> Garbage]
  /\ cr3 = boot_pagedir
  /\ tlb = Filled([v \in VPages |-> Absent], mem, cr3)
  /\ pc = "alloc"
  /\ pagedir_page = 0 /\ pagetbx_page = 0 /\ start = KernelSlot
  /\ kernel_heap_end = kernel_heap_start(kernel_end)
  /\ kernel_mmio_ptr = Page(MmioSlot, 0)
  /\ job = [addr |-> 0, size |-> 0, virt |-> 0, i |-> 0, num_pages |-> 0]
  /\ given = {<<Kernel(p), p>> : p \in Image(kernel_end)}

-----------------------------------------------------------------------------
(* paging_earlyinit, one step for each group of stores.                    *)

(* Two pages, or PANIC.                                                    *)
AllocTables ==
  /\ pc = "alloc"
  /\ LET rest == free \ {Lowest(free)}
     IN  IF free = {} \/ rest = {}
         THEN pc' = "panic" /\ UNCHANGED <<free, pagedir_page, pagetbx_page>>
         ELSE /\ pagedir_page' = Lowest(free)
              /\ pagetbx_page' = Lowest(rest)
              /\ free' = rest \ {Lowest(rest)}
              /\ pc' = "link"
  /\ UNCHANGED <<mem, cr3, tlb, kernel_end, start, users>>

(* The old table becomes the last one of the old directory, and its last   *)
(* two entries show the new directory and the new table.                   *)
LinkOld ==
  /\ pc = "link"
  /\ mem' = [mem EXCEPT
       ![Target(Kernel(boot_pagetab1))][Entries - 1] = Entry(pagedir_page, TRUE),
       ![Target(Kernel(boot_pagetab1))][Entries - 2] = Entry(pagetbx_page, TRUE),
       ![Target(Kernel(boot_pagedir))][Self] = Entry(boot_pagetab1, TRUE)]
  /\ tlb' = Filled(Flushed({Kernel(boot_pagedir), Kernel(boot_pagetab1),
                            Directory, Window(Entries - 2)}), mem', cr3)
  /\ pc' = "clear"
  /\ UNCHANGED <<cr3, free, locals, start, users>>

(* A bug in paging_earlyinit: the last entry of the new directory is the   *)
(* new table and not the directory itself.                                 *)
SelfToTable ==
  /\ pc = "clear"
  /\ mem' = [mem EXCEPT
       ![Target(Window(Entries - 2))] = Empty,
       ![Target(Directory)] = [Empty EXCEPT ![Self] = Entry(pagetbx_page, TRUE),
                                            ![KernelSlot] = Entry(pagetbx_page, TRUE)]]
  /\ tlb' = Filled(tlb, mem', cr3)
  /\ pc' = "fill"
  /\ UNCHANGED <<cr3, free, locals, start, users>>

ClearNew ==
  /\ pc = "clear"
  /\ mem' = [mem EXCEPT
       ![Target(Window(Entries - 2))] = Empty,
       ![Target(Directory)] = [Empty EXCEPT ![Self] = Entry(pagedir_page, TRUE),
                                            ![KernelSlot] = Entry(pagetbx_page, TRUE)]]
  /\ tlb' = Filled(tlb, mem', cr3)
  /\ pc' = "fill"
  /\ UNCHANGED <<cr3, free, locals, start, users>>

(* Low memory and the image; the page of the old directory is read-only.   *)
FillTable ==
  /\ pc = "fill"
  /\ LET page_kernel_end == kernel_end \div PageSize + 1
     IN  mem' = [mem EXCEPT ![Target(Window(Entries - 2))] =
                   [i \in Index |-> IF i < page_kernel_end THEN Entry(i, i # boot_pagedir)
                                                           ELSE Absent]]
  /\ tlb' = Filled(tlb, mem', cr3)
  /\ pc' = "load"
  /\ UNCHANGED <<cr3, free, locals, start, users>>

mm_load_cr3 ==
  /\ pc = "load"
  /\ cr3' = pagedir_page
  /\ tlb' = Filled([v \in VPages |-> Absent], mem, cr3')
  /\ pc' = "space"
  /\ UNCHANGED <<mem, free, locals, start, users>>

(* A bug in paging_init_kernel_space: a page is used for a table that the  *)
(* allocator does not know to be taken.                                    *)
SpaceNotTaken ==
  /\ pc = "space"
  /\ start < Entries
  /\ IF mem[Target(Directory)][start].present
     THEN start' = start + 1 /\ UNCHANGED <<mem, tlb, pc>>
     ELSE /\ free # {}
          /\ mem' = [mem EXCEPT ![Target(Directory)][start] = Entry(Lowest(free), TRUE)]
          /\ tlb' = Filled(Flushed({Window(start)}), mem', cr3)
          /\ pc' = "zero"
          /\ UNCHANGED start
  /\ UNCHANGED <<cr3, free, locals, users>>

(* paging_init_kernel_space: a slot that has a table is skipped, others    *)
(* get a new page ...                                                      *)
SpaceTurn ==
  /\ pc = "space"
  /\ start < Entries
  /\ IF mem[Target(Directory)][start].present
     THEN start' = start + 1 /\ UNCHANGED <<mem, tlb, free, pc>>
     ELSE IF free = {}
     THEN pc' = "panic" /\ UNCHANGED <<mem, tlb, free, start>>
     ELSE /\ mem' = [mem EXCEPT ![Target(Directory)][start] = Entry(Lowest(free), TRUE)]
          /\ tlb' = Filled(Flushed({Window(start)}), mem', cr3)
          /\ free' = free \ {Lowest(free)}
          /\ pc' = "zero"
          /\ UNCHANGED start
  /\ UNCHANGED <<cr3, locals, users>>

(* ... which is cleared through the window.                                *)
SpaceZero ==
  /\ pc = "zero"
  /\ mem' = [mem EXCEPT ![Target(Window(start))] = Empty]
  /\ tlb' = Filled(tlb, mem', cr3)
  /\ start' = start + 1
  /\ pc' = "space"
  /\ UNCHANGED <<cr3, free, locals, users>>

(* A bug in paging_init_kernel_space: the loop ends before the slot of the *)
(* MMIO window.                                                            *)
SpaceShort ==
  /\ pc = "space" /\ start >= MmioSlot
  /\ pc' = "run"
  /\ UNCHANGED <<mem, cr3, tlb, free, locals, start, users>>

SpaceDone ==
  /\ pc = "space" /\ start = Entries
  /\ pc' = "run"
  /\ UNCHANGED <<mem, cr3, tlb, free, locals, start, users>>

-----------------------------------------------------------------------------
(* A bug in mm_map_page: the TLB keeps what it knows about vaddr.          *)
MapNoInvlpg(page, vaddr, pages) ==
  /\ mem' = [mem EXCEPT ![Target(Window(Slot(vaddr)))][vaddr % Entries] = Entry(page, TRUE)]
  /\ tlb' = Filled(tlb, mem', cr3)
  /\ free' = pages

(* mm_map_page, with the pages that are left; all callers pass flags 3.    *)
(* Where a table is missing it is taken from the allocator.  When there is *)
(* none left the code goes on with an uninitialised page number.           *)
mm_map_page(page, vaddr, pages) ==
  LET slot  == Slot(vaddr)
      index == vaddr % Entries
  IN  IF mem[Target(Directory)][slot] # Absent
      THEN /\ mem' = [mem EXCEPT ![Target(Window(slot))][index] = Entry(page, TRUE)]
           /\ tlb' = Filled(Flushed({vaddr}), mem', cr3)
           /\ free' = pages
      ELSE \E t \in IF pages = {} THEN Pages ELSE {Lowest(pages)} :
           /\ mem' = [mem EXCEPT ![Target(Directory)][slot] = Entry(t, TRUE),
                                 ![t] = [Empty EXCEPT ![index] = Entry(page, TRUE)]]
           /\ tlb' = Filled(Flushed({vaddr, Directory, Window(slot)}), mem', cr3)
           /\ free' = pages \ {t}

(* malloc takes another page, if there is one.                             *)
heap_grow ==
  /\ pc = "run"
  /\ free # {}
  /\ LET page == Lowest(free)
     IN  /\ mm_map_page(page, kernel_heap_end, free \ {page})
         /\ given' = given \cup {<<kernel_heap_end, page>>}
  /\ kernel_heap_end' = kernel_heap_end + 1
  /\ UNCHANGED <<cr3, locals, pc, start, kernel_mmio_ptr, job>>

NumPages(d) == (d.size + (d.addr % PageSize) + PageSize - 1) \div PageSize

kernel_mmio_limit == Page(Entries - 2, 0)

(* mmio_map returns NULL when the window is full; the sum is a 32-bit one. *)
mmio_map(d) ==
  /\ pc = "run"
  /\ (kernel_mmio_ptr + NumPages(d)) % (Entries * Entries) <= kernel_mmio_limit
  /\ job' = [addr |-> d.addr, size |-> d.size, virt |-> kernel_mmio_ptr, i |-> 0,
             num_pages |-> NumPages(d)]
  /\ kernel_mmio_ptr' = kernel_mmio_ptr + NumPages(d)
  /\ pc' = "mmio"
  /\ UNCHANGED <<mem, cr3, tlb, free, locals, start, kernel_heap_end, given>>

(* _multiboot2_main maps the framebuffer, before anything else is mapped   *)
(* there.                                                                  *)
MapFramebuffer ==
  /\ kernel_mmio_ptr = Page(MmioSlot, 0)
  /\ \E d \in Framebuffers : mmio_map(d)

(* The caller of mmio_map relies on every byte of the device being found   *)
(* at the same distance from the address that was returned.                *)
Promised ==
  LET result == job.virt * PageSize + (job.addr % PageSize)
  IN  {<<(result + k) \div PageSize, (job.addr + k) \div PageSize>> : k \in 0..job.size - 1}

(* One turn of its loop; it returns after the last.                        *)
MmioTurn ==
  /\ pc = "mmio"
  /\ mm_map_page(job.addr \div PageSize + job.i, job.virt + job.i, free)
  /\ job' = [job EXCEPT !.i = @ + 1]
  /\ IF job'.i = job.num_pages
     THEN pc' = "run" /\ given' = given \cup Promised
     ELSE UNCHANGED <<pc, given>>
  /\ UNCHANGED <<cr3, locals, start, kernel_heap_end, kernel_mmio_ptr>>

paging_earlyinit ==
  AllocTables \/ LinkOld \/ ClearNew \/ FillTable \/ mm_load_cr3
    \/ SpaceTurn \/ SpaceZero \/ SpaceDone

Next ==
  \/ paging_earlyinit \/ heap_grow
  \/ MapFramebuffer \/ (\E d \in Devices : mmio_map(d)) \/ MmioTurn

Spec == Init /\ [][Next]_vars

-----------------------------------------------------------------------------
KernelSlots == KernelSlot..Entries - 1

(* The pages the next step stores through, and what it means to reach.     *)
Uses ==
  CASE pc = "link"  -> {<<Kernel(p), p>> : p \in {boot_pagedir, boot_pagetab1}}
    [] pc = "clear" -> {<<Directory, pagedir_page>>, <<Window(Entries - 2), pagetbx_page>>}
    [] pc = "fill"  -> {<<Window(Entries - 2), pagetbx_page>>}
    [] pc = "space" -> {<<Directory, pagedir_page>>}
    [] pc = "zero"  -> {<<Window(start), mem[pagedir_page][start].page>>}
    [] pc \in {"run", "mmio"} ->
         {<<Directory, pagedir_page>>}
           \cup {<<Window(s), mem[pagedir_page][s].page>> : s \in KernelSlots}
    [] OTHER        -> {}

(* Virtual page v is found at physical page p, with and without the TLB.   *)
FoundAt(v, p) == tlb[v] = Walk(mem, cr3, v) /\ tlb[v].present /\ tlb[v].page = p

(* The code edits page tables through the tables themselves, old and new.  *)
(* Every store reaches the table it is meant for: its virtual page is      *)
(* mapped there, writable, and the TLB holds nothing older.                *)
AccessesReach == \A u \in Uses : FoundAt(u[1], u[2]) /\ tlb[u[1]].writable

(* What the kernel has been given stays: the image while the tables are    *)
(* replaced under it, every heap page, and every byte of every device      *)
(* mmio_map has mapped, whatever is mapped later.                          *)
MappingsKept == \A g \in given : FoundAt(g[1], g[2])

TablePages == {cr3, boot_pagedir, boot_pagetab1} \cup {mem[cr3][s].page : s \in KernelSlots}

HeapPages == {g \in given : g[1] >= kernel_heap_start(kernel_end) /\ Slot(g[1]) < MmioSlot}

(* Heap memory belongs to the heap: no page table and no part of the image *)
(* lies in it, no two of its pages are one, and none is left in the pool.  *)
(* It does not grow into the MMIO window, nor that into the tables.        *)
HeapPrivate ==
  pc \in {"run", "mmio"} =>
    /\ \A g \in HeapPages : g[2] \notin TablePages \cup Image(kernel_end) \cup free
    /\ \A g, h \in HeapPages : g[2] = h[2] => g = h
    /\ kernel_heap_end <= Page(MmioSlot, 0) /\ kernel_mmio_ptr <= kernel_mmio_limit

(* An action property: once paging_earlyinit is done, the kernel's part of *)
(* the directory is complete and never changes, as other address spaces    *)
(* that share the tables need it; mm_map_page never has to find a page for *)
(* a table, the case it does not handle.                                   *)
KernelTablesFixed ==
  [][(pc = "run" \/ pc = "mmio") =>
       \A s \in KernelSlots : mem[cr3][s].present /\ mem'[cr3'][s] = mem[cr3][s]]_vars
=============================================================================
