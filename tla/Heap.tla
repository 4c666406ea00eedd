-------------------------------- MODULE Heap --------------------------------
(***************************************************************************)
(* The kernel heap: malloc and free of libc/stdlib/malloc.c (the __is_libk *)
(* part).  Blocks are cut from a break, kernel_heap, that grows page by    *)
(* page; freed blocks go to a list threaded through their headers.         *)
(*                                                                         *)
(* No handler and no second CPU allocates, so the locks are never          *)
(* contended and calls do not interleave; a step is one turn of a loop.    *)
(* Memory is modelled by bytes, because headers can overlap.  An access    *)
(* outside the mapped heap is a page fault, where the model stops.         *)
(***************************************************************************)
EXTENDS Naturals, FiniteSets

CONSTANTS
  PAGE_SIZE,
  SizeMod,      \* 2^32: sizes and addresses are 32 bits wide
  ImageEnd,     \* address of _kernel_end
  Pages,         \* physical pages memory_region_alloc_page can still give
  Requests,      \* the sizes that are asked for
  MaxCalls       \* bound: calls of malloc

ASSUME HeapAssumption ==
  /\ {PAGE_SIZE, ImageEnd} \subseteq Nat \ {0} /\ Pages \in Nat
  /\ PAGE_SIZE % 16 = 0
  /\ SizeMod \in Nat \ {0} /\ SizeMod % 16 = 0 /\ (SizeMod - 1) \div 65536 < 65536
  /\ Requests \subseteq 0..SizeMod - 1 /\ MaxCalls \in Nat
  /\ ImageEnd + (Pages + 1) * PAGE_SIZE < SizeMod

VARIABLES
  mem,                      \* the bytes of the heap
  kernel_heap_end,          \* first address not mapped
  kernel_heap,              \* the break
  kernel_malloc_freelist,   \* first free block, or NULL
  pages,                    \* physical pages left (external)
  pc,                       \* "none", "search", "heap", "free", "fault"
  freelist,                 \* block under the cursor of malloc; block to free
  prev,                     \* freelist_prev of malloc, prev of free
  other,                    \* the cursor of free
  want,                     \* num_bytes_aligned
  live,                     \* history: the blocks handed out, by call
  calls,                    \* history: calls of malloc so far
  freed,                    \* history: bytes of the blocks that were freed
  reused,                   \* history: malloc has taken a block off the list
  wrapped                   \* history: a size malloc was asked for has wrapped around

breakVars == <<kernel_heap_end, kernel_heap, pages>>
callVars  == <<freelist, prev, other, want>>
history   == <<live, calls, freed, reused, wrapped>>
heapVars == <<mem, breakVars, kernel_malloc_freelist, pc, callVars, history>>

NULL == 0

AlignUp(n, a) == IF n % a = 0 THEN n ELSE n + a - (n % a)

kernel_heap_start == AlignUp(ImageEnd, PAGE_SIZE)

HeapBytes == kernel_heap_start..kernel_heap_start + Pages * PAGE_SIZE - 1

(* sizeof(malloc_freelist_t), a multiple of MALLOC_ALIGN_BYTES.            *)
header_size == AlignUp(8, 16)

(* malloc_init.                                                            *)
HeapInit ==
  /\ mem = [a \in HeapBytes |-> 0]
  /\ kernel_heap_end = kernel_heap_start
  /\ kernel_heap = kernel_heap_start
  /\ kernel_malloc_freelist = NULL
  /\ pages = Pages
  /\ pc = "none"
  /\ freelist = NULL /\ prev = NULL /\ other = NULL
  /\ want = 0
  /\ live = [i \in {} |-> NULL]
  /\ calls = 0
  /\ freed = {}
  /\ reused = FALSE
  /\ wrapped = FALSE

-----------------------------------------------------------------------------
(* The header at address a: a 32-bit next and a 32-bit size.               *)
Mapped(a) == kernel_heap_start <= a /\ a + 8 <= kernel_heap_end

Word(m, a) ==
  (m[a] + 256 * m[a + 1] + 65536 * m[a + 2] + (16777216 % SizeMod) * m[a + 3]) % SizeMod

NextOf(a) == Word(mem, a)
SizeOf(a) == Word(mem, a + 4)

PutWord(m, a, v) ==
  [m EXCEPT ![a] = v % 256, ![a + 1] = (v \div 256) % 256,
            ![a + 2] = (v \div 65536) % 256, ![a + 3] = (v \div 16777216) % 256]

SetNext(m, a, v) == PutWord(m, a, v)
SetSize(m, a, v) == PutWord(m, a + 4, v)

Xor15(n) == n - (n % 16) + (15 - (n % 16))

Bytes(a, size) == a..a + header_size + size - 1

Fault ==
  /\ pc' = "fault"
  /\ UNCHANGED <<mem, breakVars, kernel_malloc_freelist, callVars, history>>

(* The sum of two sizes or addresses.                                      *)
Plus(a, b) == (a + b) % SizeMod

(* malloc returns the block with its header at a.                          *)
Return(a) ==
  /\ pc' = "none"
  /\ live' = [i \in DOMAIN live \cup {calls} |->
                IF i = calls THEN [addr |-> a, size |-> want] ELSE live[i]]
  /\ UNCHANGED <<pages, callVars, calls, freed, wrapped>>

(* malloc(n): the cursor is set to the first free block.  A size next to   *)
(* the largest wraps around when it is aligned or the header is added, and *)
(* is granted with a block that is far too small.                          *)
malloc(n) ==
  /\ pc = "none" /\ calls < MaxCalls
  /\ pc' = "search"
  /\ freelist' = kernel_malloc_freelist
  /\ prev' = NULL
  /\ want' = AlignUp(n, 16) % SizeMod
  /\ wrapped' = (wrapped \/ AlignUp(n, 16) + header_size >= SizeMod)
  /\ calls' = calls + 1
  /\ UNCHANGED <<mem, breakVars, kernel_malloc_freelist, other, live, freed, reused>>

Searching == pc = "search" /\ freelist # NULL

(* The size malloc takes the free block under the cursor to have.          *)
Size == Xor15(SizeOf(freelist))

SearchOn ==
  /\ Searching /\ Mapped(freelist)
  /\ Size < want
  /\ prev' = freelist
  /\ freelist' = NextOf(freelist)
  /\ UNCHANGED <<mem, breakVars, kernel_malloc_freelist, pc, other, want, history>>

(* The block is split; what remains becomes a free block of its own.       *)
TakePart ==
  LET rest == Plus(freelist, Size) IN
  /\ Searching /\ Mapped(freelist) /\ Mapped(rest)
  /\ Size >= want /\ Size - want > 16
  /\ LET m1 == SetNext(mem, rest, NextOf(freelist))
         m2 == SetSize(m1, rest, Size - want - 16)
         m3 == SetSize(m2, freelist, want)
     IN  mem' = IF prev # NULL THEN SetNext(m3, prev, rest) ELSE m3
  /\ kernel_malloc_freelist' = IF prev = NULL THEN rest ELSE kernel_malloc_freelist
  /\ reused' = TRUE
  /\ Return(freelist)
  /\ UNCHANGED <<kernel_heap_end, kernel_heap>>

(* The whole block is taken.                                               *)
TakeWhole ==
  /\ Searching /\ Mapped(freelist)
  /\ Size >= want /\ Size - want <= 16
  /\ LET m == IF prev # NULL THEN SetNext(mem, prev, NextOf(freelist)) ELSE mem
     IN  mem' = SetSize(m, freelist, want)
  /\ reused' = TRUE
  /\ Return(freelist)
  /\ UNCHANGED <<kernel_heap_end, kernel_heap, kernel_malloc_freelist>>

SearchFaults ==
  /\ Searching
  /\ \/ ~Mapped(freelist)
     \/ Mapped(freelist) /\ Size >= want + 17 /\ ~Mapped(Plus(freelist, Size))
  /\ Fault

SearchEnds ==
  /\ pc = "search" /\ freelist = NULL
  /\ pc' = "heap"
  /\ UNCHANGED <<mem, breakVars, kernel_malloc_freelist, callVars, history>>

(* A bug in malloc: the header is not counted.                             *)
EnoughNoHeader == kernel_heap_end - kernel_heap >= want

Enough == kernel_heap_end - kernel_heap >= Plus(header_size, want)

heap_grow ==
  /\ pc = "heap" /\ ~Enough /\ pages > 0
  /\ pages' = pages - 1
  /\ kernel_heap_end' = kernel_heap_end + PAGE_SIZE
  /\ UNCHANGED <<mem, kernel_heap, kernel_malloc_freelist, pc, callVars, history>>

(* malloc returns NULL; pages it did get stay on the heap.                 *)
MallocFails ==
  /\ pc = "heap" /\ ~Enough /\ pages = 0
  /\ pc' = "none"
  /\ UNCHANGED <<mem, breakVars, kernel_malloc_freelist, callVars, history>>

(* A bug in malloc: the break moves by the data and not by the header.     *)
TakeNoHeader ==
  /\ pc = "heap" /\ Enough /\ Mapped(kernel_heap)
  /\ mem' = SetSize(SetNext(mem, kernel_heap, NULL), kernel_heap, want)
  /\ kernel_heap' = Plus(kernel_heap, want)
  /\ Return(kernel_heap)
  /\ UNCHANGED <<kernel_heap_end, kernel_malloc_freelist, reused>>

TakeNew ==
  /\ pc = "heap" /\ Enough /\ Mapped(kernel_heap)
  /\ mem' = SetSize(SetNext(mem, kernel_heap, NULL), kernel_heap, want)
  /\ kernel_heap' = kernel_heap + Plus(header_size, want)
  /\ Return(kernel_heap)
  /\ UNCHANGED <<kernel_heap_end, kernel_malloc_freelist, reused>>

(* The size has wrapped around to nothing, and there is no memory at the   *)
(* break for the header; the break moves by nothing before it is written.  *)
NewFaults == pc = "heap" /\ Enough /\ ~Mapped(kernel_heap) /\ Fault

-----------------------------------------------------------------------------
(* free of the block handed out by call i.                                 *)
free(i) ==
  /\ pc = "none"
  /\ pc' = IF SizeOf(live[i].addr) % 16 # 0 THEN "none" ELSE "free"
  /\ freelist' = live[i].addr
  /\ prev' = NULL
  /\ other' = kernel_malloc_freelist
  /\ freed' = freed \cup Bytes(live[i].addr, live[i].size)
  /\ live' = [j \in DOMAIN live \ {i} |-> live[j]]
  /\ UNCHANGED <<mem, breakVars, kernel_malloc_freelist, want, calls, reused, wrapped>>

Freeing == pc = "free" /\ other # NULL

Before == Plus(freelist, SizeOf(freelist) + header_size) = other
After  == freelist = Plus(other, SizeOf(other) + header_size)

(* A bug in free: the block that is merged away stays on the list.         *)
MergeKeepsOther ==
  /\ Freeing /\ Mapped(other) /\ Before
  /\ mem' = SetNext(SetSize(mem, freelist, Plus(SizeOf(freelist) + header_size, SizeOf(other))),
                    freelist, other)
  /\ kernel_malloc_freelist' = freelist
  /\ pc' = "none"
  /\ UNCHANGED <<breakVars, callVars, history>>

(* The block ends where a free one begins, and takes its place.            *)
MergeBefore ==
  /\ Freeing /\ Mapped(other) /\ Before
  /\ LET m1 == SetSize(mem, freelist, Plus(SizeOf(freelist) + header_size, SizeOf(other)))
         m2 == SetNext(m1, freelist, NextOf(other))
     IN  mem' = IF prev # NULL THEN SetNext(m2, prev, freelist) ELSE m2
  /\ kernel_malloc_freelist' = IF prev = NULL THEN freelist ELSE kernel_malloc_freelist
  /\ pc' = "none"
  /\ UNCHANGED <<breakVars, callVars, history>>

(* The block begins where a free one ends, which grows by it.              *)
MergeAfter ==
  /\ Freeing /\ Mapped(other) /\ ~Before /\ After
  /\ mem' = SetSize(mem, other, Plus(SizeOf(other) + header_size, SizeOf(freelist)))
  /\ pc' = "none"
  /\ UNCHANGED <<breakVars, kernel_malloc_freelist, callVars, history>>

FreeOn ==
  /\ Freeing /\ Mapped(other) /\ ~Before /\ ~After
  /\ prev' = other
  /\ other' = NextOf(other)
  /\ UNCHANGED <<mem, breakVars, kernel_malloc_freelist, pc, freelist, want, history>>

FreeFaults == Freeing /\ ~Mapped(other) /\ Fault

FreePush ==
  /\ pc = "free" /\ other = NULL
  /\ mem' = SetNext(mem, freelist, kernel_malloc_freelist)
  /\ kernel_malloc_freelist' = freelist
  /\ pc' = "none"
  /\ UNCHANGED <<breakVars, callVars, history>>

MallocStep ==
  \/ \E n \in Requests : malloc(n)
  \/ SearchOn \/ TakePart \/ TakeWhole \/ SearchFaults \/ SearchEnds
  \/ heap_grow \/ MallocFails \/ TakeNew \/ NewFaults

FreeStep ==
  \/ \E i \in DOMAIN live : free(i)
  \/ MergeBefore \/ MergeAfter \/ FreeOn \/ FreeFaults \/ FreePush

HeapNext == MallocStep \/ FreeStep

HeapSpec == HeapInit /\ [][HeapNext]_heapVars

-----------------------------------------------------------------------------
(* The break never passes the end of the mapped pages, after a request     *)
(* that ran out of pages half way too, and every page that was taken is    *)
(* mapped there.                                                           *)
BreakMapped ==
  /\ kernel_heap_start <= kernel_heap /\ kernel_heap <= kernel_heap_end
  /\ kernel_heap_end = kernel_heap_start + (Pages - pages) * PAGE_SIZE

Extent(i) == Bytes(live[i].addr, live[i].size)

(* Two callers of malloc never share memory: what malloc takes for "a free *)
(* block with available space" (malloc.c) is one.                          *)
BlocksDisjoint ==
  \A i, j \in DOMAIN live : i # j => Extent(i) \cap Extent(j) = {}

(* The header of a block that is in use is not written to by anybody: "if  *)
(* any part of the freelist entry has changed ... there is code with a out *)
(* of bounds memory access bug" (malloc.c, CONFIG_DEBUG_MALLOC).           *)
HeadersKept == \A i \in DOMAIN live : SizeOf(live[i].addr) = live[i].size

(* As long as malloc has not reused a freed block (the kernel never frees  *)
(* one) and no size has wrapped around (it asks for nothing near 4 GB),    *)
(* blocks are disjoint, aligned, below the break, and their headers say    *)
(* how large they are.                                                     *)
SoundUntilReuse ==
  (~reused /\ ~wrapped) =>
    /\ BlocksDisjoint /\ HeadersKept
    /\ \A i \in DOMAIN live :
         live[i].addr % 16 = 0 /\ Extent(i) \subseteq kernel_heap_start..kernel_heap - 1

(* The blocks on the free list, up to n links from its head.               *)
FreeBlocks ==
  LET chain[n \in 0..MaxCalls] ==
        IF n = 0 THEN {kernel_malloc_freelist} \ {NULL}
        ELSE chain[n - 1] \cup ({NextOf(a) : a \in chain[n - 1]} \ {NULL})
  IN  chain[MaxCalls]

(* Until then the free list holds all the memory that was freed, once:     *)
(* merging a block with its neighbours neither loses nor duplicates any.   *)
FreeListExact ==
  (~reused /\ ~wrapped /\ pc \in {"none", "search", "heap"}) =>
    /\ UNION {Bytes(a, SizeOf(a)) : a \in FreeBlocks} = freed
    /\ \A a, b \in FreeBlocks :
         a # b => Bytes(a, SizeOf(a)) \cap Bytes(b, SizeOf(b)) = {}
=============================================================================
