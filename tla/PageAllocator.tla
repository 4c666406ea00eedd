---------------------------- MODULE PageAllocator ---------------------------
(***************************************************************************)
(* The physical page allocator: the memory map handed over by the boot     *)
(* loader (kernel/kernel/memory/memory_map.c), the choice of a region and  *)
(* the reservation of the kernel image in _multiboot2_main, and the bitmap *)
(* allocator of memory_region.c and memory_region.h.                       *)
(*                                                                         *)
(* Addresses are in units of the model's page size; pages are numbers.     *)
(* The lock functions of memory_region.c are empty.  The callers run with  *)
(* interrupts off (boot) or in thread context, never in a handler, and do  *)
(* not yield in between, so each function is one step.                     *)
(***************************************************************************)
EXTENDS Integers, Sequences, FiniteSets

CONSTANTS
  PageSize,       \* 4096
  WordBits,       \* 32: find_and_set scans the bitmap word by word
  BitmapBits,     \* bits in a bitmap: 8 * MEMORY_BITMAP_SIZE
  MapSize,        \* MAX_MEMORY_MAP_SIZE
  AddressMod,     \* 2^32: addresses and lengths in the kernel are 32 bits wide
  LowMemory,      \* 0x00100000: regions below are left alone
  FirmwareMaps,   \* the memory maps a boot loader may pass
  Linked,         \* regions linked behind the first (none in the kernel)
  KernelStart,    \* physical address of _kernel_start
  KernelEnd       \* physical address of _kernel_end, the first byte after

(* An entry of the boot loader's map, 64 bits wide, as the arguments of    *)
(* memory_map_add_region.                                                  *)
Truncated(e) == [addr |-> e.addr % AddressMod, length |-> e.length % AddressMod,
                 available |-> e.available]

(* Linked regions have a bitmap of their own each.  The list is sorted:    *)
(* memory_region_setbit stops at the first region that does not end before *)
(* the page it looks for.                                                  *)
ASSUME PageAssumption ==
  /\ {PageSize, WordBits, BitmapBits, MapSize, AddressMod} \subseteq Nat \ {0}
  /\ {LowMemory, KernelStart, KernelEnd} \subseteq Nat
  /\ KernelStart < KernelEnd
  /\ FirmwareMaps \subseteq Seq([addr : Nat, length : Nat, available : BOOLEAN])
  /\ Linked \in Seq([base : Nat, length : 0..BitmapBits])
  /\ \A r, s \in DOMAIN Linked :
       r < s => Linked[r].base + Linked[r].length <= Linked[s].base
  /\ \A m \in FirmwareMaps : \A i \in DOMAIN m : \A r \in DOMAIN Linked :
       Truncated(m[i]).addr \div PageSize + BitmapBits <= Linked[r].base

NoPage == -1

VARIABLES
  phase,       \* "map", "reserve", "run"
  firmware,    \* entries of the boot loader's map still to be added
  map,         \* _memory_map: entries [addr, length, available]
  regions,     \* the list from _root_memory_region: records [base, length]
  bitmap,      \* for each region the offsets whose bit is set
  last_free,   \* position of _last_free_region
  page,        \* *page of the last memory_region_alloc_page, or NoPage
  owned,       \* history: pages handed out and not given back
  requests     \* history: number of requests, modulo 2

vars == <<phase, firmware, map, regions, bitmap, last_free, page, owned, requests>>

Init ==
  /\ phase = "map"
  /\ firmware \in FirmwareMaps
  /\ map = <<>>
  /\ regions = <<>>
  /\ bitmap = <<>>
  /\ last_free = 1
  /\ page = NoPage
  /\ owned = {}
  /\ requests = 0

-----------------------------------------------------------------------------
(* memory_map_add_region: a full table drops the entry; the high halves of *)
(* address and length are lost.                                            *)
memory_map_add_region ==
  /\ phase = "map" /\ firmware # <<>>
  /\ firmware' = Tail(firmware)
  /\ map' = IF Len(map) = MapSize THEN map ELSE Append(map, Truncated(Head(firmware)))
  /\ UNCHANGED <<phase, regions, bitmap, last_free, page, owned, requests>>

Candidate(e) == e.available /\ e.addr >= LowMemory

Smaller(a, b) == IF a < b THEN a ELSE b

(* A bug in the boot code: the region keeps the length of the map entry.   *)
RegionUnclamped(e) == [base |-> e.addr \div PageSize, length |-> e.length \div PageSize]

(* The region memory_region_early_init sets up for a map entry.            *)
RegionOf(e) ==
  [base   |-> e.addr \div PageSize,
   length |-> Smaller(e.length, BitmapBits * PageSize) \div PageSize]

(* Every candidate initialises the same static region: the last one stays. *)
InitRegions ==
  /\ phase = "map" /\ firmware = <<>>
  /\ phase' = "reserve"
  /\ \/ /\ \A i \in DOMAIN map : ~Candidate(map[i])
        /\ regions' = Linked
     \/ \E i \in DOMAIN map :
          /\ Candidate(map[i]) /\ \A j \in i + 1..Len(map) : ~Candidate(map[j])
          /\ regions' = <<RegionOf(map[i])>> \o Linked
  /\ bitmap' = [r \in DOMAIN regions' |-> {}]
  /\ last_free' = 1
  /\ UNCHANGED <<firmware, map, page, owned, requests>>

memory_region_overlap(r, min, max) == ~(max < r.base) /\ ~(min > r.base + r.length)

(* The pages the boot code takes for the kernel image.                     *)
MinKernelPage == KernelStart \div PageSize
MaxKernelPage == KernelEnd \div PageSize

(* A bug in the reservation loop: the last reserved page is left out.      *)
ReserveOneShort(r) ==
  IF ~memory_region_overlap(r, MinKernelPage, MaxKernelPage) THEN {}
  ELSE {p - r.base : p \in {q \in r.base..r.base + r.length - 1 :
                             MinKernelPage <= q /\ q < MaxKernelPage - 1}}

(* Offsets of region r that the loop over its kernel pages sets.           *)
Reserved(r) ==
  IF ~memory_region_overlap(r, MinKernelPage, MaxKernelPage) THEN {}
  ELSE {p - r.base : p \in {q \in r.base..r.base + r.length - 1 :
                             MinKernelPage <= q /\ q < MaxKernelPage}}

ReserveKernel ==
  /\ phase = "reserve"
  /\ phase' = "run"
  /\ bitmap' = [r \in DOMAIN bitmap |-> bitmap[r] \cup Reserved(regions[r])]
  /\ UNCHANGED <<firmware, map, regions, last_free, page, owned, requests>>

-----------------------------------------------------------------------------
(* The walk over the list in memory_region_setbit: the first region that   *)
(* does not end before p.                                                  *)
Reaches(r, p) ==
  /\ p < regions[r].base + regions[r].length
  /\ \A s \in 1..r - 1 : p >= regions[s].base + regions[s].length

memory_region_setbit(p, set) ==
  [r \in DOMAIN bitmap |->
     IF Reaches(r, p) /\ p >= regions[r].base
     THEN IF set THEN bitmap[r] \cup {p - regions[r].base}
                 ELSE bitmap[r] \ {p - regions[r].base}
     ELSE bitmap[r]]

(* The whole words of a region's bitmap, and the clear bits in them.       *)
Scanned(r) == 0..(regions[r].length \div WordBits) * WordBits - 1
Clear(r) == Scanned(r) \ bitmap[r]

(* Words in order, and ffs in a word: the first clear bit.                 *)
FirstClear(r) == CHOOSE o \in Clear(r) : \A x \in Clear(r) : o <= x

(* memory_region_alloc_page: search from _last_free_region to the end of   *)
(* the list, then from the root up to it.                                  *)
Searched(r) ==
  IF r >= last_free THEN last_free..r - 1
                    ELSE (last_free..Len(regions)) \cup (1..r - 1)

(* A bug in memory_region_find_and_set: the bit is not set.                *)
FindNoSet(r) ==
  /\ Clear(r) # {} /\ \A s \in Searched(r) : Clear(s) = {}
  /\ page' = regions[r].base + FirstClear(r)
  /\ UNCHANGED bitmap

memory_region_find_and_set(r) ==
  /\ Clear(r) # {} /\ \A s \in Searched(r) : Clear(s) = {}
  /\ page' = regions[r].base + FirstClear(r)
  /\ bitmap' = [bitmap EXCEPT ![r] = @ \cup {FirstClear(r)}]

memory_region_alloc_page(r) ==
  /\ phase = "run"
  /\ memory_region_find_and_set(r)
  /\ last_free' = r
  /\ owned' = owned \cup {page'}
  /\ requests' = 1 - requests
  /\ UNCHANGED <<phase, firmware, map, regions>>

AllocFails ==
  /\ phase = "run"
  /\ \A r \in DOMAIN bitmap : Clear(r) = {}
  /\ page' = NoPage
  /\ requests' = 1 - requests
  /\ UNCHANGED <<phase, firmware, map, regions, bitmap, last_free, owned>>

(* memory_region_dealloc_page, by the owner of the page.                   *)
memory_region_dealloc_page(p) ==
  /\ phase = "run" /\ p \in owned
  /\ bitmap' = memory_region_setbit(p, FALSE)
  /\ owned' = owned \ {p}
  /\ UNCHANGED <<phase, firmware, map, regions, last_free, page, requests>>

Next ==
  \/ memory_map_add_region \/ InitRegions \/ ReserveKernel
  \/ \E r \in DOMAIN bitmap : memory_region_alloc_page(r)
  \/ AllocFails
  \/ \E p \in owned : memory_region_dealloc_page(p)

Spec == Init /\ [][Next]_vars

-----------------------------------------------------------------------------
PageOf(r, o) == regions[r].base + o

(* Every bit that is ever tested or set lies inside the bitmap: the region *)
(* is never longer than its bitmap, although memory_region_early_init      *)
(* itself would admit four times as many pages.  Nor does a long memory    *)
(* map overrun its table.                                                  *)
BitmapInBounds ==
  /\ Len(map) <= MapSize
  /\ \A r \in DOMAIN bitmap : Scanned(r) \cup bitmap[r] \subseteq 0..BitmapBits - 1

(* The kernel image is safe: no page that lies wholly inside it is handed  *)
(* out, whatever the memory map was.                                       *)
KernelPagesKept ==
  \A p \in owned : ~(KernelStart <= p * PageSize /\ (p + 1) * PageSize <= KernelEnd)

(* The pages of the pool: in a scanned word and not reserved at boot.      *)
Pool ==
  IF phase # "run" THEN {}
  ELSE UNION {{PageOf(r, o) : o \in Scanned(r) \ Reserved(regions[r])} : r \in DOMAIN regions}

P == INSTANCE PagePool WITH pool <- Pool

(* The bitmap implements PagePool: no page is handed out twice, and a      *)
(* request fails only when every page of every region is taken, wherever   *)
(* _last_free_region points and whatever was given back in between.        *)
ImplementsPagePool == P!Spec

(* "Mark used bits" (main.c): every page the kernel image touches is taken *)
(* out of the pool.                                                        *)
KernelReserved ==
  phase = "run" =>
    \A p \in Pool : ~(p * PageSize < KernelEnd /\ KernelStart < (p + 1) * PageSize)
=============================================================================
