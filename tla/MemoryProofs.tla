---------------------------- MODULE MemoryProofs ----------------------------
(***************************************************************************)
(* Proofs about the page allocator, for every memory map, page size, word  *)
(* size and bitmap, and any sorted list of regions.                        *)
(*                                                                         *)
(* No property of the allocator is inductive by itself: that a page is not *)
(* handed out twice rests on BitsExact, the bitmap knows exactly the pages *)
(* that are reserved or owned, and that a page given back is found again   *)
(* in the list on RegionsSorted.                                           *)
(*                                                                         *)
(* Then proofs about the heap, for every page size, any number of pages    *)
(* and any requests.  Until a freed block is used again, the free list     *)
(* that malloc and free read from the bytes of the heap is a sequence fl   *)
(* of L blocks that do not overlap each other, the blocks in use or the    *)
(* block being freed (Sound), and the cursor of free is on one of its      *)
(* links.                                                                  *)
(***************************************************************************)
EXTENDS PageAllocator, Heap, FiniteSetTheorems, SequenceTheorems, WellFoundedInduction, TLAPS

MapEntry == [addr : Nat, length : Nat, available : BOOLEAN]
Region   == [base : Nat, length : 0..BitmapBits]

PageTypeOK ==
  /\ phase \in {"map", "reserve", "run"}
  /\ firmware \in Seq(MapEntry)
  /\ map \in Seq(MapEntry) /\ Len(map) <= MapSize
  /\ regions \in Seq(Region)
  /\ DOMAIN bitmap = DOMAIN regions
  /\ owned \subseteq Nat

(* The entries of the map, truncated, lie before the linked regions.       *)
BeforeLinked(e) ==
  \A r \in DOMAIN Linked : e.addr \div PageSize + BitmapBits <= Linked[r].base

EntriesBefore ==
  /\ \A i \in DOMAIN firmware : BeforeLinked(Truncated(firmware[i]))
  /\ \A i \in DOMAIN map : BeforeLinked(map[i])

RegionsSorted ==
  \A r, s \in DOMAIN regions :
    r < s => regions[r].base + regions[r].length <= regions[s].base

(* Before the allocator runs nothing is owned and no bit is set; then a    *)
(* bit is set if its page is reserved or owned.                            *)
BitsExact ==
  /\ phase # "run" => owned = {} /\ \A r \in DOMAIN bitmap : bitmap[r] = {}
  /\ phase = "run" =>
       \A r \in DOMAIN regions :
         bitmap[r] = {o \in 0..regions[r].length - 1 :
                        o \in Reserved(regions[r]) \/ PageOf(r, o) \in owned}

OwnedInPool == owned \subseteq Pool

PageInv == PageTypeOK /\ EntriesBefore /\ RegionsSorted /\ BitsExact /\ OwnedInPool

-----------------------------------------------------------------------------
(* Arithmetic and order.                                                   *)

LEMMA DivBounds ==
  ASSUME NEW a \in Nat, NEW b \in Nat \ {0}
  PROVE  a \div b \in Nat /\ (a \div b) * b <= a
  OBVIOUS

LEMMA DivAtMost ==
  ASSUME NEW a \in Nat, NEW b \in Nat \ {0}, NEW c \in Nat, a <= c * b
  PROVE  a \div b <= c
  OBVIOUS

LEMMA DivAtLeast ==
  ASSUME NEW a \in Nat, NEW b \in Nat \ {0}, NEW c \in Nat, c * b <= a
  PROVE  c <= a \div b
  OBVIOUS

(* A set of natural numbers has a least one: the search of                 *)
(* memory_region_find_and_set ends at it.                                  *)
LEMMA LeastExists ==
  ASSUME NEW S \in SUBSET Nat, S # {}
  PROVE  \E x \in S : \A y \in S : x <= y
  <1> DEFINE R == OpToRel(<, Nat)
  <1>1. IsWellFoundedOn(R, Nat)
    BY NatLessThanWellFounded
  <1>2. \E x \in S : \A y \in S : <<y, x>> \notin R
    <2> HIDE DEF R
    <2> QED
      BY <1>1, WFMin
  <1>3. PICK x \in S : \A y \in S : <<y, x>> \notin R
    BY <1>2
  <1>4. ASSUME NEW y \in S PROVE x <= y
    <2>1. <<y, x>> \notin R
      BY <1>3
    <2>2. ~(y < x)
      BY <2>1 DEF OpToRel
    <2> QED
      BY <2>2
  <1> QED
    BY <1>4

-----------------------------------------------------------------------------
(* Facts about the operators of the allocator.                             *)

LEMMA RegionFields ==
  ASSUME PageTypeOK, NEW r \in DOMAIN regions
  PROVE  /\ regions[r].base \in Nat /\ regions[r].length \in Nat
         /\ regions[r].length <= BitmapBits /\ BitmapBits \in Nat
         /\ r \in Nat /\ r >= 1 /\ r <= Len(regions)
  <1>1. regions[r] \in Region
    BY ElementOfSeq DEF PageTypeOK
  <1>2. BitmapBits \in Nat
    BY PageAssumption
  <1> QED
    BY <1>1, <1>2 DEF PageTypeOK, Region

(* Whole words lie inside the region.                                      *)
LEMMA ScannedInside ==
  ASSUME PageTypeOK, NEW r \in DOMAIN regions
  PROVE  Scanned(r) \subseteq 0..regions[r].length - 1
  <1>1. WordBits \in Nat \ {0}
    BY PageAssumption
  <1>2. regions[r].length \in Nat
    BY RegionFields
  <1>3. (regions[r].length \div WordBits) * WordBits <= regions[r].length
    BY <1>1, <1>2, DivBounds
  <1>4. (regions[r].length \div WordBits) * WordBits \in Nat
    BY <1>1, <1>2, DivBounds
  <1> QED
    BY <1>2, <1>3, <1>4 DEF Scanned

(* memory_region_find_and_set returns a bit of a whole word that is clear. *)
LEMMA FirstClearIsClear ==
  ASSUME PageTypeOK, NEW r \in DOMAIN regions, Clear(r) # {}
  PROVE  FirstClear(r) \in Clear(r)
  <1>1. regions[r].length \in Nat
    BY RegionFields
  <1>2. Clear(r) \in SUBSET Nat
    BY <1>1, ScannedInside DEF Clear
  <1>3. \E o \in Clear(r) : \A x \in Clear(r) : o <= x
    BY <1>2, LeastExists
  <1> QED
    BY <1>3 DEF FirstClear

(* The region made of a map entry has pages for its bitmap at most.        *)
LEMMA RegionOfEntry ==
  ASSUME NEW e \in MapEntry
  PROVE  RegionOf(e) \in Region
  <1>1. PageSize \in Nat \ {0} /\ BitmapBits \in Nat /\ e.addr \in Nat /\ e.length \in Nat
    BY PageAssumption DEF MapEntry
  <1> DEFINE l == Smaller(e.length, BitmapBits * PageSize)
  <1>2. l \in Nat /\ l <= BitmapBits * PageSize
    BY <1>1 DEF Smaller
  <1>3. l \div PageSize \in Nat /\ l \div PageSize <= BitmapBits /\ e.addr \div PageSize \in Nat
    <2> HIDE DEF l
    <2> QED
      BY <1>1, <1>2, DivBounds, DivAtMost
  <1> QED
    BY <1>1, <1>3 DEF RegionOf, Region

(* Two regions have no page in common.                                     *)
LEMMA PagesDistinct ==
  ASSUME PageTypeOK, RegionsSorted,
         NEW r \in DOMAIN regions, NEW s \in DOMAIN regions,
         NEW p \in Nat,
         regions[r].base <= p, p < regions[r].base + regions[r].length,
         regions[s].base <= p, p < regions[s].base + regions[s].length
  PROVE  r = s
  <1>1. /\ regions[r].base \in Nat /\ regions[r].length \in Nat /\ r \in Nat
        /\ regions[s].base \in Nat /\ regions[s].length \in Nat /\ s \in Nat
    BY RegionFields
  <1> QED
    BY <1>1 DEF RegionsSorted

(* A page of the pool is a page of a region, in a whole word and not       *)
(* reserved.                                                               *)
LEMMA InPool ==
  ASSUME PageTypeOK, NEW p, p \in Pool
  PROVE  \E r \in DOMAIN regions :
           /\ p - regions[r].base \in Scanned(r) \ Reserved(regions[r])
           /\ p \in Nat /\ regions[r].base <= p /\ p < regions[r].base + regions[r].length
  <1>1. PICK r \in DOMAIN regions : \E o \in Scanned(r) \ Reserved(regions[r]) : p = PageOf(r, o)
    BY DEF Pool
  <1> PICK o \in Scanned(r) \ Reserved(regions[r]) : p = PageOf(r, o)
    BY <1>1
  <1>2. o \in 0..regions[r].length - 1 /\ regions[r].base \in Nat /\ regions[r].length \in Nat
    BY ScannedInside, RegionFields
  <1>3. p - regions[r].base = o /\ p \in Nat
    BY <1>2 DEF PageOf
  <1> QED
    BY <1>2, <1>3 DEF PageOf

(* What the regions say stays true as long as they, the phase and the      *)
(* bitmap do not change.                                                   *)
LEMMA PageFrame ==
  ASSUME PageInv, UNCHANGED <<phase, regions, bitmap, owned>>,
         firmware' \in Seq(MapEntry), map' \in Seq(MapEntry), Len(map') <= MapSize,
         EntriesBefore'
  PROVE  PageInv'
  <1>1. PageTypeOK' /\ RegionsSorted'
    BY DEF PageInv, PageTypeOK, RegionsSorted
  <1>2. BitsExact'
    BY DEF PageInv, BitsExact, PageOf
  <1>3. OwnedInPool'
    BY DEF PageInv, OwnedInPool, Pool, Scanned, PageOf
  <1> QED
    BY <1>1, <1>2, <1>3 DEF PageInv

-----------------------------------------------------------------------------
(* The inductive step: one lemma per action.                               *)

LEMMA InitPages ==
  ASSUME Init
  PROVE  PageInv
  <1>1. firmware \in FirmwareMaps /\ FirmwareMaps \subseteq Seq(MapEntry)
    BY PageAssumption DEF Init, MapEntry
  <1>2. EntriesBefore
    BY <1>1, PageAssumption DEF Init, EntriesBefore, BeforeLinked
  <1>3. PageTypeOK
    BY <1>1, PageAssumption, EmptySeq DEF Init, PageTypeOK
  <1>4. RegionsSorted /\ BitsExact /\ OwnedInPool
    BY DEF Init, RegionsSorted, BitsExact, OwnedInPool
  <1> QED
    BY <1>2, <1>3, <1>4 DEF PageInv

(* A truncated entry is an entry.                                          *)
LEMMA TruncatedType ==
  ASSUME NEW e \in MapEntry
  PROVE  Truncated(e) \in MapEntry
  <1>1. e.addr \in Nat /\ e.length \in Nat /\ e.available \in BOOLEAN
    BY DEF MapEntry
  <1>2. AddressMod \in Nat \ {0}
    BY PageAssumption
  <1>3. e.addr % AddressMod \in Nat /\ e.length % AddressMod \in Nat
    BY <1>1, <1>2
  <1> QED
    BY <1>1, <1>3 DEF Truncated, MapEntry

(* memory_map_add_region appends an entry or drops it.                     *)
LEMMA StepAddRegion ==
  ASSUME PageInv, memory_map_add_region
  PROVE  PageInv'
  <1>1. /\ firmware \in Seq(MapEntry) /\ firmware # <<>>
        /\ map \in Seq(MapEntry) /\ Len(map) <= MapSize /\ MapSize \in Nat
    BY PageAssumption DEF PageInv, PageTypeOK, memory_map_add_region
  <1>2. /\ Head(firmware) = firmware[1] /\ 1 \in DOMAIN firmware /\ Head(firmware) \in MapEntry
        /\ Tail(firmware) \in Seq(MapEntry)
        /\ \A i \in DOMAIN Tail(firmware) :
             i + 1 \in DOMAIN firmware /\ Tail(firmware)[i] = firmware[i + 1]
    BY <1>1, HeadTailProperties
  <1>3. firmware' = Tail(firmware)
    BY DEF memory_map_add_region
  <1>4. \A i \in DOMAIN firmware' : BeforeLinked(Truncated(firmware'[i]))
    BY <1>2, <1>3 DEF PageInv, EntriesBefore
  <1>5. CASE map' = map
    BY <1>1, <1>2, <1>3, <1>4, <1>5, PageFrame
    DEF PageInv, EntriesBefore, memory_map_add_region
  <1>6. CASE Len(map) # MapSize /\ map' = Append(map, Truncated(Head(firmware)))
    <2>1. /\ map' \in Seq(MapEntry) /\ Len(map') = Len(map) + 1
          /\ \A i \in DOMAIN map' : \/ i \in DOMAIN map /\ map'[i] = map[i]
                                    \/ map'[i] = Truncated(firmware[1])
      <3>1. Truncated(Head(firmware)) \in MapEntry
        BY <1>2, TruncatedType
      <3> QED
        BY <1>1, <1>2, <1>6, <3>1, AppendProperties
    <2>2. Len(map') <= MapSize
      BY <1>1, <1>6, <2>1
    <2>3. EntriesBefore'
      BY <1>2, <1>4, <2>1 DEF PageInv, EntriesBefore, BeforeLinked
    <2> QED
      BY <1>2, <1>3, <2>1, <2>2, <2>3, PageFrame DEF memory_map_add_region
  <1> QED
    BY <1>5, <1>6 DEF memory_map_add_region

(* The list is the region of the last candidate, if any, and the linked    *)
(* ones behind it.                                                         *)
LEMMA StepInitRegions ==
  ASSUME PageInv, InitRegions
  PROVE  PageInv'
  <1>1. /\ phase' = "reserve" /\ owned = {} /\ UNCHANGED <<firmware, map, owned>>
        /\ bitmap' = [r \in DOMAIN regions' |-> {}]
    BY DEF InitRegions, PageInv, BitsExact
  <1>2. Linked \in Seq(Region)
    BY PageAssumption DEF Region
  <1>3. regions' \in Seq(Region) /\ RegionsSorted'
    <2>1. CASE regions' = Linked
      BY <1>2, <2>1, PageAssumption DEF RegionsSorted
    <2>2. ASSUME NEW i \in DOMAIN map, regions' = <<RegionOf(map[i])>> \o Linked
          PROVE  regions' \in Seq(Region) /\ RegionsSorted'
      <3> DEFINE e == map[i]
                 u == RegionOf(e)
      <3>1. e \in MapEntry /\ BeforeLinked(e)
        BY <2>2, ElementOfSeq DEF PageInv, PageTypeOK, EntriesBefore
      <3>2. u \in Region
        BY <3>1, RegionOfEntry
      <3>3. <<u>> \in Seq(Region) /\ Len(<<u>>) = 1 /\ <<u>>[1] = u
        BY <3>2
      <3>4. /\ regions' \in Seq(Region) /\ Len(regions') = 1 + Len(Linked)
            /\ \A k \in 1..1 + Len(Linked) : regions'[k] = IF k <= 1 THEN u ELSE Linked[k - 1]
        BY <1>2, <2>2, <3>3, ConcatProperties
      <3>5. DOMAIN regions' = 1..1 + Len(Linked) /\ Len(Linked) \in Nat
            /\ DOMAIN Linked = 1..Len(Linked)
        BY <1>2, <3>4, LenProperties
      <3>6. \A k \in DOMAIN Linked : u.base + u.length <= Linked[k].base
        <4>1. u.base = e.addr \div PageSize
          BY DEF RegionOf
        <4>2. u.base \in Nat /\ u.length \in 0..BitmapBits /\ BitmapBits \in Nat
          BY <3>2, PageAssumption DEF Region
        <4>3. ASSUME NEW k \in DOMAIN Linked PROVE u.base + u.length <= Linked[k].base
          <5>1. Linked[k] \in Region
            BY <1>2, ElementOfSeq
          <5>2. Linked[k].base \in Nat
            BY <5>1 DEF Region
          <5>3. u.base + BitmapBits <= Linked[k].base
            BY <3>1, <4>1 DEF BeforeLinked
          <5> HIDE DEF u
          <5> QED
            BY <4>2, <5>2, <5>3
        <4> QED
          BY <4>3
      <3>7. ASSUME NEW r \in DOMAIN regions', NEW s \in DOMAIN regions', r < s
            PROVE  regions'[r].base + regions'[r].length <= regions'[s].base
        <4>1. s > 1 /\ s - 1 \in DOMAIN Linked /\ regions'[s] = Linked[s - 1]
          BY <3>4, <3>5, <3>7
        <4>2. CASE r = 1
          BY <3>4, <3>5, <3>6, <4>1, <4>2
        <4>3. CASE r > 1
          <5>1. r - 1 \in DOMAIN Linked /\ regions'[r] = Linked[r - 1] /\ r - 1 < s - 1
            BY <3>4, <3>5, <3>7, <4>3
          <5> QED
            BY <4>1, <5>1, PageAssumption
        <4> QED
          BY <3>5, <4>2, <4>3
      <3> QED
        BY <3>4, <3>7 DEF RegionsSorted
    <2> QED
      BY <2>1, <2>2 DEF InitRegions
  <1>4. PageTypeOK' /\ EntriesBefore'
    BY <1>1, <1>3 DEF PageInv, PageTypeOK, EntriesBefore, BeforeLinked
  <1>5. BitsExact' /\ OwnedInPool'
    BY <1>1 DEF BitsExact, OwnedInPool
  <1> QED
    BY <1>3, <1>4, <1>5 DEF PageInv

(* Reserved bits lie in the region.                                        *)
LEMMA ReservedInside ==
  ASSUME PageTypeOK, NEW r \in DOMAIN regions
  PROVE  Reserved(regions[r]) \subseteq 0..regions[r].length - 1
  <1>1. regions[r].base \in Nat /\ regions[r].length \in Nat
    BY RegionFields
  <1> QED
    BY <1>1 DEF Reserved

(* The loop that marks the pages of the kernel image.                      *)
LEMMA StepReserveKernel ==
  ASSUME PageInv, ReserveKernel
  PROVE  PageInv'
  <1>1. /\ phase' = "run" /\ owned = {}
        /\ UNCHANGED <<firmware, map, regions, owned>>
        /\ bitmap' = [r \in DOMAIN regions |-> Reserved(regions[r])]
    BY DEF ReserveKernel, PageInv, PageTypeOK, BitsExact
  <1>2. PageTypeOK' /\ EntriesBefore' /\ RegionsSorted' /\ OwnedInPool'
    BY <1>1 DEF PageInv, PageTypeOK, EntriesBefore, BeforeLinked, RegionsSorted, OwnedInPool
  <1>3. ASSUME NEW r \in DOMAIN regions
        PROVE  bitmap'[r] = {o \in 0..regions[r].length - 1 : o \in Reserved(regions[r])}
    BY <1>1, ReservedInside DEF PageInv
  <1>4. BitsExact'
    BY <1>1, <1>3 DEF BitsExact
  <1> QED
    BY <1>2, <1>4 DEF PageInv

(* memory_region_alloc_page sets the bit of the page it returns, and of no *)
(* other page.                                                             *)
LEMMA StepAlloc ==
  ASSUME PageInv, NEW r \in DOMAIN bitmap, memory_region_alloc_page(r)
  PROVE  PageInv' /\ page' \in Pool \ owned
  <1> DEFINE f == FirstClear(r)
  <1>1. /\ phase = "run" /\ UNCHANGED <<phase, firmware, map, regions>>
        /\ r \in DOMAIN regions /\ Clear(r) # {}
        /\ page' = regions[r].base + f /\ owned' = owned \cup {page'}
        /\ bitmap' = [bitmap EXCEPT ![r] = @ \cup {f}]
    BY DEF memory_region_alloc_page, memory_region_find_and_set, PageInv, PageTypeOK
  <1>2. PageTypeOK /\ RegionsSorted /\ owned \subseteq Nat
    BY DEF PageInv, PageTypeOK
  <1>3. f \in Scanned(r) /\ f \notin bitmap[r] /\ f \in 0..regions[r].length - 1
    BY <1>1, <1>2, FirstClearIsClear, ScannedInside DEF Clear
  <1>4. regions[r].base \in Nat /\ regions[r].length \in Nat
    BY <1>1, <1>2, RegionFields
  <1>5. bitmap[r] = {o \in 0..regions[r].length - 1 :
                       o \in Reserved(regions[r]) \/ PageOf(r, o) \in owned}
    BY <1>1 DEF PageInv, BitsExact
  <1>6. f \notin Reserved(regions[r]) /\ PageOf(r, f) \notin owned
    BY <1>3, <1>5
  <1> HIDE DEF f
  <1>7. page' = PageOf(r, f) /\ page' \in Nat
    BY <1>1, <1>3, <1>4 DEF PageOf
  <1>8. page' \in Pool \ owned
    BY <1>1, <1>3, <1>6, <1>7 DEF Pool
  <1>9. PageTypeOK' /\ EntriesBefore' /\ RegionsSorted'
    BY <1>1, <1>7 DEF PageInv, PageTypeOK, EntriesBefore, BeforeLinked, RegionsSorted
  <1>10. OwnedInPool'
    <2>1. Pool' = Pool
      BY <1>1 DEF Pool, Scanned, PageOf
    <2> QED
      BY <1>1, <1>8, <2>1 DEF PageInv, OwnedInPool
  <1>11. BitsExact'
    <2>1. ASSUME NEW s \in DOMAIN regions, NEW o \in 0..regions[s].length - 1
          PROVE  PageOf(s, o) \in owned' <=> PageOf(s, o) \in owned \/ (s = r /\ o = f)
      <3>1. /\ regions[s].base \in Nat /\ regions[s].length \in Nat /\ o \in Nat
            /\ PageOf(s, o) = regions[s].base + o /\ PageOf(s, o) \in Nat
        BY <1>2, <2>1, RegionFields DEF PageOf
      <3>2. PageOf(s, o) = page' => s = r
        BY <1>1, <1>2, <1>3, <1>4, <3>1, PagesDistinct
      <3>3. PageOf(s, o) = page' <=> s = r /\ o = f
        BY <1>1, <1>3, <1>4, <3>1, <3>2 DEF PageOf
      <3> QED
        BY <1>1, <3>3
    <2>2. ASSUME NEW s \in DOMAIN regions
          PROVE  bitmap'[s] = {o \in 0..regions[s].length - 1 :
                                 o \in Reserved(regions[s]) \/ PageOf(s, o) \in owned'}
      <3>1. bitmap[s] = {o \in 0..regions[s].length - 1 :
                           o \in Reserved(regions[s]) \/ PageOf(s, o) \in owned}
        BY <1>1, <2>2 DEF PageInv, BitsExact
      <3>2. bitmap'[s] = IF s = r THEN bitmap[s] \cup {f} ELSE bitmap[s]
        BY <1>1, <1>2, <2>2 DEF PageTypeOK
      <3> QED
        BY <1>3, <2>1, <3>1, <3>2
    <2> QED
      BY <1>1, <2>2 DEF BitsExact, PageOf
  <1> QED
    BY <1>8, <1>9, <1>10, <1>11 DEF PageInv

(* memory_region_dealloc_page finds the region of the page it is given:    *)
(* the list is sorted, so the first region that does not end before it.    *)
LEMMA StepDealloc ==
  ASSUME PageInv, NEW p \in owned, memory_region_dealloc_page(p)
  PROVE  PageInv'
  <1>1. /\ phase = "run" /\ UNCHANGED <<phase, firmware, map, regions>>
        /\ owned' = owned \ {p} /\ bitmap' = memory_region_setbit(p, FALSE)
    BY DEF memory_region_dealloc_page
  <1>2. PageTypeOK /\ RegionsSorted /\ p \in Pool
    BY DEF PageInv, OwnedInPool
  <1>3. PICK r \in DOMAIN regions :
          /\ p - regions[r].base \in Scanned(r) \ Reserved(regions[r])
          /\ p \in Nat /\ regions[r].base <= p /\ p < regions[r].base + regions[r].length
    BY <1>2, InPool
  <1>4. regions[r].base \in Nat /\ regions[r].length \in Nat
    BY <1>2, RegionFields
  <1>5. Reaches(r, p)
    <2>1. ASSUME NEW s \in 1..r - 1 PROVE p >= regions[s].base + regions[s].length
      <3>1. s \in DOMAIN regions /\ s < r
        BY <1>2, <1>3, <2>1, RegionFields DEF PageTypeOK
      <3>2. regions[s].base \in Nat /\ regions[s].length \in Nat
        BY <1>2, <3>1, RegionFields
      <3>3. regions[s].base + regions[s].length <= regions[r].base
        BY <1>2, <1>3, <3>1 DEF RegionsSorted
      <3> QED
        BY <1>3, <1>4, <3>2, <3>3
    <2> QED
      BY <1>3, <2>1 DEF Reaches
  <1>6. ASSUME NEW s \in DOMAIN regions
        PROVE  (Reaches(s, p) /\ p >= regions[s].base) <=> s = r
    <2>1. regions[s].base \in Nat /\ regions[s].length \in Nat
      BY <1>2, RegionFields
    <2> QED
      BY <1>2, <1>3, <1>4, <1>5, <2>1, PagesDistinct DEF Reaches
  <1>7. ASSUME NEW s \in DOMAIN regions
        PROVE  bitmap'[s] = IF s = r THEN bitmap[s] \ {p - regions[s].base} ELSE bitmap[s]
    BY <1>1, <1>2, <1>6 DEF memory_region_setbit, PageTypeOK
  <1>8. PageTypeOK' /\ EntriesBefore' /\ RegionsSorted'
    BY <1>1, <1>2 DEF PageInv, PageTypeOK, EntriesBefore, BeforeLinked, RegionsSorted,
                      memory_region_setbit
  <1>9. OwnedInPool'
    <2>1. Pool' = Pool
      BY <1>1 DEF Pool, Scanned, PageOf
    <2> QED
      BY <1>1, <2>1 DEF PageInv, OwnedInPool
  <1>10. BitsExact'
    <2>1. ASSUME NEW s \in DOMAIN regions, NEW o \in 0..regions[s].length - 1
          PROVE  PageOf(s, o) = p <=> s = r /\ o = p - regions[s].base
      <3>1. /\ regions[s].base \in Nat /\ regions[s].length \in Nat /\ o \in Nat
            /\ PageOf(s, o) = regions[s].base + o
        BY <1>2, <2>1, RegionFields DEF PageOf
      <3>2. PageOf(s, o) = p => s = r
        BY <1>2, <1>3, <1>4, <3>1, PagesDistinct
      <3> QED
        BY <1>3, <3>1, <3>2
    <2>2. ASSUME NEW s \in DOMAIN regions
          PROVE  bitmap'[s] = {o \in 0..regions[s].length - 1 :
                                 o \in Reserved(regions[s]) \/ PageOf(s, o) \in owned'}
      <3>1. bitmap[s] = {o \in 0..regions[s].length - 1 :
                           o \in Reserved(regions[s]) \/ PageOf(s, o) \in owned}
        BY <1>1, <2>2 DEF PageInv, BitsExact
      <3> QED
        BY <1>1, <1>3, <1>7, <2>1, <3>1
    <2> QED
      BY <1>1, <2>2 DEF BitsExact, PageOf
  <1> QED
    BY <1>8, <1>9, <1>10 DEF PageInv

LEMMA PageStep ==
  ASSUME PageInv, [Next]_vars
  PROVE  PageInv'
  <1>1. CASE AllocFails \/ UNCHANGED vars
    <2>1. UNCHANGED <<phase, firmware, map, regions, bitmap, owned>>
      BY <1>1 DEF AllocFails, vars
    <2>2. EntriesBefore'
      BY <2>1 DEF PageInv, EntriesBefore, BeforeLinked
    <2> QED
      BY <2>1, <2>2, PageFrame DEF PageInv, PageTypeOK
  <1> QED
    BY <1>1, StepAddRegion, StepInitRegions, StepReserveKernel, StepAlloc, StepDealloc DEF Next

-----------------------------------------------------------------------------
(* The bitmap and the list of regions are consistent, whatever the memory  *)
(* map was and whatever was allocated and given back.                      *)
THEOREM PageInvariant == Spec => []PageInv
  BY InitPages, PageStep, PTL DEF Spec

(* Every bit that is tested or set lies inside its bitmap, and the memory  *)
(* map inside its table, for every memory map.                             *)
THEOREM BitmapCorrect == Spec => []BitmapInBounds
  <1>1. ASSUME PageInv PROVE BitmapInBounds
    <2>1. PageTypeOK /\ Len(map) <= MapSize
      BY <1>1 DEF PageInv, PageTypeOK
    <2>2. ASSUME NEW r \in DOMAIN bitmap
          PROVE  Scanned(r) \cup bitmap[r] \subseteq 0..BitmapBits - 1
      <3>1. r \in DOMAIN regions
        BY <2>1, <2>2 DEF PageTypeOK
      <3>2. /\ regions[r].length \in Nat /\ regions[r].length <= BitmapBits /\ BitmapBits \in Nat
            /\ Scanned(r) \subseteq 0..regions[r].length - 1
        BY <2>1, <3>1, RegionFields, ScannedInside
      <3>3. bitmap[r] \subseteq 0..regions[r].length - 1
        BY <1>1, <2>2, <3>1 DEF PageInv, PageTypeOK, BitsExact
      <3> QED
        BY <3>2, <3>3
    <2> QED
      BY <2>1, <2>2 DEF BitmapInBounds
  <1> QED
    BY <1>1, PageInvariant, PTL

(* No page that lies wholly inside the kernel image is ever handed out.    *)
THEOREM KernelKept == Spec => []KernelPagesKept
  <1>1. ASSUME PageInv PROVE KernelPagesKept
    <2> SUFFICES ASSUME NEW p \in owned,
                        KernelStart <= p * PageSize, (p + 1) * PageSize <= KernelEnd
                 PROVE  FALSE
      BY DEF KernelPagesKept
    <2>1. PageTypeOK /\ p \in Pool
      BY <1>1 DEF PageInv, OwnedInPool
    <2>2. PICK r \in DOMAIN regions :
            /\ p - regions[r].base \in Scanned(r) \ Reserved(regions[r])
            /\ p \in Nat /\ regions[r].base <= p /\ p < regions[r].base + regions[r].length
      BY <2>1, InPool
    <2>3. regions[r].base \in Nat /\ regions[r].length \in Nat
      BY <2>1, RegionFields
    <2>4. PageSize \in Nat \ {0} /\ KernelStart \in Nat /\ KernelEnd \in Nat
      BY PageAssumption
    <2>5. MinKernelPage \in Nat /\ MinKernelPage <= p
      BY <2>2, <2>4, DivBounds, DivAtMost DEF MinKernelPage
    <2>6. MaxKernelPage \in Nat /\ p + 1 <= MaxKernelPage
      BY <2>2, <2>4, DivBounds, DivAtLeast DEF MaxKernelPage
    <2>7. memory_region_overlap(regions[r], MinKernelPage, MaxKernelPage)
      BY <2>2, <2>3, <2>5, <2>6 DEF memory_region_overlap
    <2>8. p - regions[r].base \in Reserved(regions[r])
      BY <2>2, <2>3, <2>5, <2>6, <2>7 DEF Reserved
    <2> QED
      BY <2>2, <2>8
  <1> QED
    BY <1>1, PageInvariant, PTL

(* The allocator implements PagePool: a page is never handed out twice,    *)
(* and a request fails only if every page of every region is taken.        *)
THEOREM PoolRefinement == Spec => ImplementsPagePool
  <1>1. Init => P!Init
    BY DEF Init, P!Init, Pool, NoPage
  <1>2. ASSUME PageInv, [Next]_vars PROVE [P!Next]_P!vars
    <2>1. CASE memory_map_add_region \/ InitRegions
      <3>1. phase # "run" /\ phase' # "run" /\ UNCHANGED <<owned, page, requests>>
        BY <2>1 DEF memory_map_add_region, InitRegions
      <3> QED
        BY <3>1 DEF Pool, P!vars
    <2>2. CASE ReserveKernel
      <3>1. owned = {} /\ UNCHANGED <<owned, page, requests>>
        BY <1>2, <2>2 DEF ReserveKernel, PageInv, BitsExact
      <3>2. P!Fill(Pool')
        BY <3>1 DEF P!Fill
      <3> QED
        BY <3>2 DEF P!Next
    <2>3. ASSUME NEW r \in DOMAIN bitmap, memory_region_alloc_page(r) PROVE P!Next
      <3>1. page' \in Pool \ owned
        BY <1>2, <2>3, StepAlloc
      <3>2. UNCHANGED <<phase, regions>> /\ owned' = owned \cup {page'} /\ requests' = 1 - requests
        BY <2>3 DEF memory_region_alloc_page
      <3>3. Pool' = Pool
        BY <3>2 DEF Pool, Scanned, PageOf
      <3>4. P!Alloc(page')
        BY <3>1, <3>2, <3>3 DEF P!Alloc
      <3> QED
        BY <3>1, <3>4 DEF P!Next
    <2>4. CASE AllocFails
      <3>1. /\ phase = "run" /\ UNCHANGED <<phase, regions, owned>>
            /\ page' = NoPage /\ requests' = 1 - requests
        BY <2>4 DEF AllocFails
      <3>2. ASSUME NEW p \in Pool PROVE p \in owned
        <4>1. PICK r \in DOMAIN regions :
                \E o \in Scanned(r) \ Reserved(regions[r]) : p = PageOf(r, o)
          BY <3>1 DEF Pool
        <4>2. PICK o \in Scanned(r) \ Reserved(regions[r]) : p = PageOf(r, o)
          BY <4>1
        <4>3. o \in bitmap[r]
          BY <1>2, <2>4, <4>2 DEF AllocFails, Clear, PageInv, PageTypeOK
        <4> QED
          BY <1>2, <3>1, <4>2, <4>3 DEF PageInv, BitsExact
      <3>3. Pool' = Pool
        BY <3>1 DEF Pool, Scanned, PageOf
      <3>4. P!Exhausted
        BY <3>1, <3>2, <3>3 DEF P!Exhausted
      <3> QED
        BY <3>4 DEF P!Next
    <2>5. ASSUME NEW p \in owned, memory_region_dealloc_page(p) PROVE P!Next
      <3>1. UNCHANGED <<phase, regions, page, requests>> /\ owned' = owned \ {p}
        BY <2>5 DEF memory_region_dealloc_page
      <3>2. Pool' = Pool
        BY <3>1 DEF Pool, Scanned, PageOf
      <3>3. P!Free(p)
        BY <3>1, <3>2 DEF P!Free
      <3> QED
        BY <3>3 DEF P!Next
    <2>6. CASE UNCHANGED vars
      BY <2>6 DEF vars, P!vars, Pool, Scanned, PageOf
    <2> QED
      BY <1>2, <2>1, <2>2, <2>3, <2>4, <2>5, <2>6 DEF Next
  <1> QED
    BY <1>1, <1>2, PageInvariant, PTL DEF Spec, ImplementsPagePool, P!Spec

-----------------------------------------------------------------------------
(* Where the heap is.                                                      *)
WordLimit == 4294967296
HeapLimit == kernel_heap_start + Pages * PAGE_SIZE

(* A number whose upper half fits 16 bits fits 32.                         *)
LEMMA WordFits ==
  ASSUME NEW k \in Nat, k \div 65536 < 65536
  PROVE  k < 4294967296
  OBVIOUS

LEMMA AlignUpIs ==
  ASSUME NEW n \in Nat, NEW a \in Nat \ {0}
  PROVE  AlignUp(n, a) \in Nat /\ AlignUp(n, a) >= n /\ AlignUp(n, a) < n + a /\ AlignUp(n, a) % a = 0
<1>1. n % a \in 0..a - 1
  OBVIOUS
<1>2. PICK q \in Nat : n = q * a + (n % a)
  <2>1. n = (n \div a) * a + (n % a) /\ n \div a \in Nat
    OBVIOUS
  <2> QED BY <2>1
<1>3. CASE n % a = 0
  BY <1>3 DEF AlignUp
<1>4. CASE n % a # 0
  <2>1. AlignUp(n, a) = n + a - (n % a)
    BY <1>4 DEF AlignUp
  <2>2. PICK r \in 1..a - 1 : r = n % a
    BY <1>1, <1>4
  <2>3. AlignUp(n, a) = (q + 1) * a
    BY <1>2, <2>1, <2>2
  <2>4. ((q + 1) * a) % a = 0
    OBVIOUS
  <2> QED BY <1>2, <2>1, <2>2, <2>3, <2>4
<1> QED BY <1>3, <1>4

(* A multiple of a multiple of 16.                                         *)
LEMMA Multiple16 ==
  ASSUME NEW p \in Nat \ {0}, p % 16 = 0, NEW x \in Nat, x % p = 0 PROVE x % 16 = 0
<1>1. PICK q \in Nat : x = q * p
  <2>1. x = (x \div p) * p + (x % p) /\ x \div p \in Nat
    OBVIOUS
  <2> QED BY <2>1
<1>2. PICK r \in Nat : p = 16 * r
  <2>1. p = 16 * (p \div 16) /\ p \div 16 \in Nat
    OBVIOUS
  <2> QED BY <2>1
<1>3. x = 16 * (q * r) /\ q * r \in Nat
  BY <1>1, <1>2
<1> QED BY <1>3

LEMMA HeapPlace ==
  /\ kernel_heap_start \in Nat \ {0} /\ kernel_heap_start % 16 = 0
  /\ PAGE_SIZE \in Nat \ {0} /\ Pages \in Nat
  /\ Pages * PAGE_SIZE \in Nat
  /\ HeapLimit \in Nat /\ HeapLimit < SizeMod
  /\ SizeMod \in Nat \ {0} /\ SizeMod <= WordLimit /\ SizeMod % 16 = 0
  /\ header_size = 16
  /\ HeapBytes = kernel_heap_start..HeapLimit - 1
<1>1. /\ PAGE_SIZE \in Nat \ {0} /\ PAGE_SIZE % 16 = 0 /\ ImageEnd \in Nat \ {0} /\ Pages \in Nat
      /\ SizeMod \in Nat \ {0} /\ SizeMod % 16 = 0 /\ (SizeMod - 1) \div 65536 < 65536
      /\ ImageEnd + (Pages + 1) * PAGE_SIZE < SizeMod
  BY HeapAssumption
<1>2. /\ kernel_heap_start \in Nat /\ kernel_heap_start >= ImageEnd
      /\ kernel_heap_start < ImageEnd + PAGE_SIZE /\ kernel_heap_start % PAGE_SIZE = 0
  BY <1>1, AlignUpIs DEF kernel_heap_start
<1>3. kernel_heap_start % 16 = 0
  <2>1. PICK p \in Nat \ {0}, x \in Nat : p = PAGE_SIZE /\ x = kernel_heap_start
    BY <1>1, <1>2
  <2>2. p % 16 = 0 /\ x % p = 0
    BY <1>1, <1>2, <2>1
  <2> QED BY <2>1, <2>2, Multiple16
<1>4. Pages * PAGE_SIZE \in Nat
  BY <1>1
<1>5. PICK x \in Nat : x = ImageEnd + (Pages + 1) * PAGE_SIZE
  BY <1>1
<1>6. x < SizeMod
  BY <1>1, <1>5
<1>9. SizeMod <= WordLimit
  <2>1. PICK k \in Nat : k = SizeMod - 1
    BY <1>1
  <2>2. k \div 65536 < 65536
    BY <1>1, <2>1
  <2>3. k < 4294967296
    BY <2>2, WordFits
  <2> QED BY SMT, <1>1, <2>1, <2>3 DEF WordLimit
<1>7. x = ImageEnd + PAGE_SIZE + Pages * PAGE_SIZE
  BY <1>1, <1>5
<1>8. HeapLimit \in Nat /\ HeapLimit < SizeMod
  BY <1>1, <1>2, <1>4, <1>6, <1>7, SMT DEF HeapLimit
<1> QED BY <1>1, <1>2, <1>3, <1>4, <1>8, <1>9, SMT DEF HeapBytes, HeapLimit, header_size, AlignUp

-----------------------------------------------------------------------------
(* The words of the heap.  A word that is written reads back, and the      *)
(* words that it does not overlap stay what they were.                     *)
Memory == [HeapBytes -> Nat]

LEMMA FourBytes ==
  ASSUME NEW v \in Nat, v < WordLimit
  PROVE  v = (v % 256) + 256 * ((v \div 256) % 256) + 65536 * ((v \div 65536) % 256)
             + 16777216 * ((v \div 16777216) % 256)
<1>1. v \div 65536 = (v \div 256) \div 256
  BY SMT
<1>2. v \div 16777216 = (v \div 65536) \div 256
  BY SMT
<1>3. v \div 16777216 \in Nat /\ v \div 16777216 < 256
  BY SMT DEF WordLimit
<1>4. PICK a \in Nat, b \in Nat, c \in Nat : a = v \div 256 /\ b = v \div 65536 /\ c = v \div 16777216
  BY SMT
<1>5. v = 256 * a + (v % 256) /\ a = 256 * b + (a % 256) /\ b = 256 * c + (b % 256) /\ c % 256 = c
  BY SMT, <1>1, <1>2, <1>3, <1>4
<1> QED BY SMT, <1>4, <1>5

LEMMA WordType ==
  ASSUME NEW m \in Memory, NEW a \in Nat, a..a + 3 \subseteq HeapBytes
  PROVE  Word(m, a) \in Nat
<1>1. {a, a + 1, a + 2, a + 3} \subseteq HeapBytes
  BY SMT
<1>2. m[a] \in Nat /\ m[a + 1] \in Nat /\ m[a + 2] \in Nat /\ m[a + 3] \in Nat
  BY SMT, <1>1 DEF Memory
<1>3. PICK k \in Nat \ {0}, g \in Nat : k = SizeMod /\ g = 16777216 % SizeMod
  BY HeapPlace
<1>4. PICK x \in Nat : x = m[a] + 256 * m[a + 1] + 65536 * m[a + 2] + g * m[a + 3]
  BY <1>2
<1>5. x % k \in Nat
  OBVIOUS
<1> QED BY <1>3, <1>4, <1>5 DEF Word

LEMMA PutWordType ==
  ASSUME NEW m \in Memory, NEW a \in Nat, NEW v \in Nat
  PROVE  PutWord(m, a, v) \in Memory
<1>1. /\ v % 256 \in Nat /\ (v \div 256) % 256 \in Nat
      /\ (v \div 65536) % 256 \in Nat /\ (v \div 16777216) % 256 \in Nat
  BY SMT
<1>2. PICK b0 \in Nat, b1 \in Nat, b2 \in Nat, b3 \in Nat :
        /\ b0 = v % 256 /\ b1 = (v \div 256) % 256
        /\ b2 = (v \div 65536) % 256 /\ b3 = (v \div 16777216) % 256
  BY SMT, <1>1
<1>3. [m EXCEPT ![a] = b0, ![a + 1] = b1, ![a + 2] = b2, ![a + 3] = b3] \in Memory
  <2>1. [m EXCEPT ![a] = b0] \in Memory
    BY DEF Memory
  <2>2. [m EXCEPT ![a] = b0, ![a + 1] = b1] \in Memory
    BY <2>1 DEF Memory
  <2>3. [m EXCEPT ![a] = b0, ![a + 1] = b1, ![a + 2] = b2] \in Memory
    BY <2>2 DEF Memory
  <2> QED BY <2>3 DEF Memory
<1> QED BY SMT, <1>2, <1>3 DEF PutWord

LEMMA PutWordReads ==
  ASSUME NEW m \in Memory, NEW a \in Nat, a..a + 3 \subseteq HeapBytes, NEW v \in Nat, v < SizeMod
  PROVE  Word(PutWord(m, a, v), a) = v
<1>1. {a, a + 1, a + 2, a + 3} \subseteq HeapBytes
  BY SMT
<1>2. PICK w : w = PutWord(m, a, v)
  BY SMT
<1>3. /\ w[a] = v % 256 /\ w[a + 1] = (v \div 256) % 256
      /\ w[a + 2] = (v \div 65536) % 256 /\ w[a + 3] = (v \div 16777216) % 256
  BY SMT, <1>1, <1>2 DEF PutWord, Memory
<1>4. PICK b0 \in Nat, b1 \in Nat, b2 \in Nat, b3 \in Nat, k \in Nat \ {0} :
        /\ b0 = v % 256 /\ b1 = (v \div 256) % 256 /\ k = SizeMod
        /\ b2 = (v \div 65536) % 256 /\ b3 = (v \div 16777216) % 256
  BY SMT, HeapPlace
<1>5. v = b0 + 256 * b1 + 65536 * b2 + 16777216 * b3 /\ v < k
  <2>1. v < WordLimit
    BY SMT, HeapPlace DEF WordLimit
  <2> QED BY <1>4, <2>1, FourBytes
<1>6. (16777216 % k) * b3 = 16777216 * b3
  <2>1. CASE 16777216 < k
    <3>1. 16777216 % k = 16777216
      BY SMT, <2>1
    <3> QED BY <3>1
  <2>2. CASE ~(16777216 < k)
    <3>1. b3 = 0
      BY SMT, <1>5, <2>2
    <3>2. 16777216 % k \in Nat
      BY SMT
    <3> QED BY SMT, <3>1, <3>2
  <2> QED BY <2>1, <2>2
<1>7. v % k = v
  BY SMT, <1>5
<1>8. Word(w, a) = (b0 + 256 * b1 + 65536 * b2 + 16777216 * b3) % k
  BY <1>3, <1>4, <1>6 DEF Word
<1> QED BY <1>2, <1>5, <1>7, <1>8

LEMMA PutWordKeeps ==
  ASSUME NEW m \in Memory, NEW a \in Nat, NEW v \in Nat,
         NEW b \in Nat, b..b + 3 \subseteq HeapBytes, b + 4 <= a \/ a + 4 <= b
  PROVE  Word(PutWord(m, a, v), b) = Word(m, b)
<1>1. {b, b + 1, b + 2, b + 3} \subseteq HeapBytes
  BY SMT
<1>2. PICK w : w = PutWord(m, a, v)
  BY SMT
<1>3. \A x \in HeapBytes : x \notin {a, a + 1, a + 2, a + 3} => w[x] = m[x]
  BY SMT, <1>2 DEF PutWord, Memory
<1>4. w[b] = m[b] /\ w[b + 1] = m[b + 1] /\ w[b + 2] = m[b + 2] /\ w[b + 3] = m[b + 3]
  BY SMT, <1>1, <1>3
<1> QED BY SMT, <1>2, <1>4 DEF Word

(* A header, at a multiple of 16 inside the heap: its two words are apart  *)
(* from each other and from those of any other header.                     *)
Header(a) == a \in Nat /\ a % 16 = 0 /\ kernel_heap_start <= a /\ a + 16 <= HeapLimit

NextAt(m, a) == Word(m, a)
SizeAt(m, a) == Word(m, a + 4)

LEMMA HeaderBytes ==
  ASSUME NEW a, Header(a)
  PROVE  /\ a \in Nat /\ a + 4 \in Nat
         /\ a..a + 3 \subseteq HeapBytes /\ a + 4..(a + 4) + 3 \subseteq HeapBytes
BY HeapPlace DEF Header

LEMMA HeaderType ==
  ASSUME NEW m \in Memory, NEW a, Header(a)
  PROVE  NextAt(m, a) \in Nat /\ SizeAt(m, a) \in Nat
BY HeaderBytes, WordType DEF NextAt, SizeAt

LEMMA HeadersApart ==
  ASSUME NEW a, NEW b, Header(a), Header(b), a # b
  PROVE  a + 16 <= b \/ b + 16 <= a
<1>1. a \in Nat /\ b \in Nat /\ a % 16 = 0 /\ b % 16 = 0
  BY DEF Header
<1> QED BY <1>1

(* The header at a of memory n says v, and no other header is changed.     *)
NextSet(m, n, a, v) ==
  /\ n \in Memory
  /\ NextAt(n, a) = v /\ SizeAt(n, a) = SizeAt(m, a)
  /\ \A b : Header(b) /\ b # a => NextAt(n, b) = NextAt(m, b) /\ SizeAt(n, b) = SizeAt(m, b)
SizeSet(m, n, a, v) ==
  /\ n \in Memory
  /\ SizeAt(n, a) = v /\ NextAt(n, a) = NextAt(m, a)
  /\ \A b : Header(b) /\ b # a => NextAt(n, b) = NextAt(m, b) /\ SizeAt(n, b) = SizeAt(m, b)

LEMMA SetNextIs ==
  ASSUME NEW m \in Memory, NEW a, Header(a), NEW v \in Nat, v < SizeMod
  PROVE  NextSet(m, SetNext(m, a, v), a, v)
<1>1. SetNext(m, a, v) = PutWord(m, a, v)
  BY Zenon DEF SetNext
<1>2. PICK n : n = PutWord(m, a, v)
  OBVIOUS
<1>3. n \in Memory /\ Word(n, a) = v
  BY <1>2, HeaderBytes, PutWordType, PutWordReads
<1>4. Word(n, a + 4) = Word(m, a + 4)
  BY <1>2, HeaderBytes, PutWordKeeps
<1>5. ASSUME NEW b, Header(b), b # a
      PROVE  Word(n, b) = Word(m, b) /\ Word(n, b + 4) = Word(m, b + 4)
  <2>1. a \in Nat /\ b \in Nat /\ (a + 16 <= b \/ b + 16 <= a)
    BY <1>5, HeadersApart, HeaderBytes
  <2>2. (b + 4 <= a \/ a + 4 <= b) /\ ((b + 4) + 4 <= a \/ a + 4 <= b + 4)
    BY <2>1
  <2>3. /\ b..b + 3 \subseteq HeapBytes /\ b + 4..(b + 4) + 3 \subseteq HeapBytes
        /\ b + 4 \in Nat
    BY <1>5, HeaderBytes
  <2>4. Word(n, b) = Word(m, b)
    BY <1>2, <2>1, <2>2, <2>3, PutWordKeeps
  <2>5. Word(n, b + 4) = Word(m, b + 4)
    BY <1>2, <2>1, <2>2, <2>3, PutWordKeeps
  <2> QED BY <2>4, <2>5
<1> QED BY <1>1, <1>2, <1>3, <1>4, <1>5 DEF NextSet, NextAt, SizeAt

LEMMA SetSizeIs ==
  ASSUME NEW m \in Memory, NEW a, Header(a), NEW v \in Nat, v < SizeMod
  PROVE  SizeSet(m, SetSize(m, a, v), a, v)
<1>1. SetSize(m, a, v) = PutWord(m, a + 4, v)
  BY Zenon DEF SetSize
<1>2. PICK n : n = PutWord(m, a + 4, v)
  OBVIOUS
<1>3. n \in Memory /\ Word(n, a + 4) = v
  BY <1>2, HeaderBytes, PutWordType, PutWordReads
<1>4. Word(n, a) = Word(m, a)
  BY <1>2, HeaderBytes, PutWordKeeps
<1>5. ASSUME NEW b, Header(b), b # a
      PROVE  Word(n, b) = Word(m, b) /\ Word(n, b + 4) = Word(m, b + 4)
  <2>1. a \in Nat /\ b \in Nat /\ (a + 16 <= b \/ b + 16 <= a) /\ a + 4 \in Nat
    BY <1>5, HeadersApart, HeaderBytes
  <2>2. (b + 4 <= a + 4 \/ (a + 4) + 4 <= b) /\ ((b + 4) + 4 <= a + 4 \/ (a + 4) + 4 <= b + 4)
    BY <2>1
  <2>3. /\ b..b + 3 \subseteq HeapBytes /\ b + 4..(b + 4) + 3 \subseteq HeapBytes
        /\ b + 4 \in Nat
    BY <1>5, HeaderBytes
  <2>4. Word(n, b) = Word(m, b)
    BY <1>2, <2>1, <2>2, <2>3, PutWordKeeps
  <2>5. Word(n, b + 4) = Word(m, b + 4)
    BY <1>2, <2>1, <2>2, <2>3, PutWordKeeps
  <2> QED BY <2>4, <2>5
<1> QED BY <1>1, <1>2, <1>3, <1>4, <1>5 DEF SizeSet, NextAt, SizeAt

-----------------------------------------------------------------------------
(* Blocks, in use or free, below the break h: none overlaps another.       *)
BlockAt(m, h, a) ==
  Header(a) /\ SizeAt(m, a) \in Nat /\ SizeAt(m, a) % 16 = 0 /\ a + 16 + SizeAt(m, a) <= h
ApartAt(m, a, b) == a + 16 + SizeAt(m, a) <= b \/ b + 16 + SizeAt(m, b) <= a

Laid(m, h, S) ==
  /\ \A a \in S : BlockAt(m, h, a)
  /\ \A a, b \in S : a # b => ApartAt(m, a, b)

LEMMA LaidSame ==
  ASSUME NEW m, NEW n, NEW h \in Nat, NEW k \in Nat, h <= k, NEW S, NEW T \in SUBSET S,
         Laid(m, h, S), \A a \in T : SizeAt(n, a) = SizeAt(m, a)
  PROVE  Laid(n, k, T)
<1>1. ASSUME NEW a \in T PROVE BlockAt(n, k, a)
  <2>1. BlockAt(m, h, a) /\ SizeAt(n, a) = SizeAt(m, a)
    BY DEF Laid
  <2> QED BY <2>1 DEF BlockAt, Header
<1>2. ASSUME NEW a \in T, NEW b \in T, a # b PROVE ApartAt(n, a, b)
  BY <1>2 DEF Laid, ApartAt
<1> QED BY <1>1, <1>2 DEF Laid

(* A new block at the break.                                               *)
LEMMA LaidNew ==
  ASSUME NEW m, NEW n, NEW h \in Nat, NEW w \in Nat, NEW S, Laid(m, h, S),
         Header(h), w % 16 = 0,
         SizeAt(n, h) = w, \A a \in S : SizeAt(n, a) = SizeAt(m, a)
  PROVE  h \notin S /\ Laid(n, h + 16 + w, S \cup {h})
<1>1. ASSUME NEW a \in S
      PROVE  /\ a \in Nat /\ SizeAt(m, a) \in Nat /\ a + 16 + SizeAt(m, a) <= h
             /\ SizeAt(n, a) = SizeAt(m, a)
  BY DEF Laid, BlockAt, Header
<1>2. h \notin S
  <2> SUFFICES ASSUME h \in S PROVE FALSE
    OBVIOUS
  <2> QED BY <1>1
<1>3. Laid(n, h, S)
  BY LaidSame
<1>4. ASSUME NEW a \in S \cup {h} PROVE BlockAt(n, h + 16 + w, a)
  <2>1. CASE a = h
    BY <2>1 DEF BlockAt
  <2>2. CASE a \in S
    <3>1. BlockAt(n, h, a)
      BY <1>3, <2>2 DEF Laid
    <3> QED BY <3>1 DEF BlockAt, Header
  <2> QED BY <2>1, <2>2
<1>5. ASSUME NEW a \in S \cup {h}, NEW b \in S \cup {h}, a # b PROVE ApartAt(n, a, b)
  <2>1. CASE a \in S /\ b \in S
    BY <1>3, <1>5, <2>1 DEF Laid
  <2>2. CASE a = h
    BY <1>1, <1>5, <2>2 DEF ApartAt
  <2>3. CASE b = h
    BY <1>1, <1>5, <2>3 DEF ApartAt
  <2> QED BY <2>1, <2>2, <2>3
<1> QED BY <1>2, <1>4, <1>5 DEF Laid

(* Two blocks side by side become one.                                     *)
LEMMA LaidMerge ==
  ASSUME NEW m, NEW n, NEW h \in Nat, NEW S, Laid(m, h, S),
         NEW x \in S, NEW y \in S, x # y, x + SizeAt(m, x) + 16 = y,
         SizeAt(n, x) = SizeAt(m, x) + 16 + SizeAt(m, y),
         \A a \in S \ {x, y} : SizeAt(n, a) = SizeAt(m, a)
  PROVE  Laid(n, h, S \ {y})
<1>1. /\ Header(x) /\ Header(y) /\ x \in Nat /\ y \in Nat
      /\ SizeAt(m, x) \in Nat /\ SizeAt(m, y) \in Nat
      /\ SizeAt(m, x) % 16 = 0 /\ SizeAt(m, y) % 16 = 0
      /\ y + 16 + SizeAt(m, y) <= h
  BY DEF Laid, BlockAt, Header
<1>2. ASSUME NEW a \in S \ {y} PROVE BlockAt(n, h, a)
  <2>1. CASE a = x
    BY <1>1, <2>1 DEF BlockAt
  <2>2. CASE a # x
    <3>1. BlockAt(m, h, a) /\ SizeAt(n, a) = SizeAt(m, a)
      BY <2>2 DEF Laid
    <3> QED BY <3>1 DEF BlockAt
  <2> QED BY <2>1, <2>2
<1>3. ASSUME NEW a \in S \ {x, y} PROVE ApartAt(n, x, a)
  <2>1. a \in Nat /\ SizeAt(m, a) \in Nat /\ SizeAt(n, a) = SizeAt(m, a)
    BY DEF Laid, BlockAt, Header
  <2>2. ApartAt(m, x, a) /\ ApartAt(m, y, a)
    BY DEF Laid
  <2> QED BY <1>1, <2>1, <2>2 DEF ApartAt
<1>4. ASSUME NEW a \in S \ {y}, NEW b \in S \ {y}, a # b PROVE ApartAt(n, a, b)
  <2>1. CASE a = x
    BY <1>3, <1>4, <2>1
  <2>2. CASE b = x
    <3>1. ApartAt(n, x, a)
      BY <1>3, <1>4, <2>2
    <3> QED BY <2>2, <3>1 DEF ApartAt
  <2>3. CASE a # x /\ b # x
    <3>1. ApartAt(m, a, b) /\ SizeAt(n, a) = SizeAt(m, a) /\ SizeAt(n, b) = SizeAt(m, b)
      BY <1>4, <2>3 DEF Laid
    <3> QED BY <3>1 DEF ApartAt
  <2> QED BY <2>1, <2>2, <2>3
<1> QED BY <1>2, <1>4 DEF Laid

-----------------------------------------------------------------------------
(* The break.                                                              *)
BreakInv ==
  /\ kernel_heap \in Nat /\ kernel_heap % 16 = 0 /\ pages \in 0..Pages /\ want \in Nat /\ want % 16 = 0
  /\ wrapped \in BOOLEAN /\ (~wrapped => want + 16 < SizeMod)
  /\ BreakMapped

LEMMA BreakLimit ==
  ASSUME BreakInv
  PROVE  kernel_heap_end \in Nat /\ kernel_heap_end <= HeapLimit
<1>1. PICK p, q : p = Pages - pages /\ q = PAGE_SIZE
  OBVIOUS
<1>2. p \in Nat /\ p <= Pages /\ q \in Nat
  BY <1>1, HeapPlace DEF BreakInv
<1>3. p * q \in Nat /\ p * q <= Pages * q
  BY <1>2, HeapPlace
<1>4. kernel_heap_end = kernel_heap_start + p * q
  BY <1>1 DEF BreakInv, BreakMapped
<1> QED BY <1>1, <1>3, <1>4, HeapPlace DEF HeapLimit

(* Sums that do not pass the width of a word.                              *)
LEMMA PlusIs ==
  ASSUME NEW a \in Nat, NEW b \in Nat PROVE Plus(a, b) \in Nat /\ (a + b < SizeMod => Plus(a, b) = a + b)
<1>1. PICK k \in Nat \ {0}, x \in Nat : k = SizeMod /\ x = a + b
  BY HeapPlace
<1>2. x % k \in Nat /\ (x < k => x % k = x)
  BY SMT
<1> QED BY <1>1, <1>2 DEF Plus

(* What remains of a multiple of 16 is one.                                *)
LEMMA Remains16 ==
  ASSUME NEW x \in Nat, x % 16 = 0
  PROVE  x % SizeMod \in Nat /\ (x % SizeMod) % 16 = 0
<1>1. PICK k \in Nat \ {0} : k = SizeMod /\ k % 16 = 0
  BY HeapPlace
<1>2. PICK q \in Nat, y \in Nat : y = x % k /\ x = q * k + y
  <2>1. x = (x \div k) * k + (x % k) /\ x \div k \in Nat /\ x % k \in Nat
    OBVIOUS
  <2> QED BY <2>1
<1>3. PICK c \in Nat, d \in Nat : k = 16 * c /\ x = 16 * d
  <2>1. k = 16 * (k \div 16) /\ k \div 16 \in Nat /\ x = 16 * (x \div 16) /\ x \div 16 \in Nat
    BY <1>1
  <2> QED BY <2>1
<1>4. PICK e \in Nat : e = q * c
  OBVIOUS
<1>5. q * (16 * c) = 16 * (q * c)
  OBVIOUS
<1>6. 16 * d = 16 * e + y
  BY <1>2, <1>3, <1>4, <1>5
<1>7. y % 16 = 0
  BY <1>6
<1> QED BY <1>1, <1>2, <1>7

LEMMA WantIs ==
  ASSUME NEW n \in Requests
  PROVE  /\ AlignUp(n, 16) % SizeMod \in Nat /\ (AlignUp(n, 16) % SizeMod) % 16 = 0
         /\ AlignUp(n, 16) + 16 < SizeMod => AlignUp(n, 16) % SizeMod = AlignUp(n, 16)
<1>1. n \in Nat
  BY HeapAssumption
<1>2. PICK x \in Nat, k \in Nat \ {0} : x = AlignUp(n, 16) /\ x % 16 = 0 /\ k = SizeMod
  <2>1. 16 \in Nat \ {0}
    OBVIOUS
  <2>2. AlignUp(n, 16) \in Nat /\ AlignUp(n, 16) % 16 = 0
    BY <1>1, <2>1, AlignUpIs
  <2> QED BY <2>2, HeapPlace
<1>3. x + 16 < k => x % k = x
  BY SMT
<1> QED BY <1>2, <1>3, Remains16

LEMMA BreakStep ==
  ASSUME BreakInv, [HeapNext]_heapVars PROVE BreakInv'
<1> USE DEF BreakInv, BreakMapped
<1>1. CASE \E n \in Requests : malloc(n)
  <2>1. PICK n \in Requests : malloc(n)
    BY <1>1
  <2>2. PICK x \in Nat : x = AlignUp(n, 16)
    BY HeapAssumption, AlignUpIs
  <2>3. want' = x % SizeMod /\ wrapped' = (wrapped \/ x + 16 >= SizeMod) /\ UNCHANGED <<kernel_heap, kernel_heap_end, pages>>
    BY <2>1, <2>2, HeapPlace DEF malloc, breakVars
  <2>4. want' \in Nat /\ want' % 16 = 0 /\ (x + 16 < SizeMod => want' = x)
    BY <2>2, <2>3, WantIs
  <2>5. ~wrapped' => want' + 16 < SizeMod
    <3>1. CASE x + 16 >= SizeMod
      BY <2>3, <3>1
    <3>2. CASE ~(x + 16 >= SizeMod)
      <4>1. x + 16 < SizeMod
        BY <3>2, HeapPlace
      <4> QED BY <2>4, <4>1
    <3> QED BY <3>1, <3>2
  <2> QED BY <2>3, <2>4, <2>5
<1>2. CASE heap_grow
  <2>1. pages \in Nat /\ pages > 0 /\ pages <= Pages /\ kernel_heap_end' = kernel_heap_end + PAGE_SIZE
        /\ pages' = pages - 1 /\ UNCHANGED <<kernel_heap, want, wrapped>>
    BY <1>2 DEF heap_grow, callVars, history
  <2>2. PICK p, q : p = Pages - pages /\ q = PAGE_SIZE
    OBVIOUS
  <2>3. p \in Nat /\ q \in Nat /\ Pages - pages' = p + 1
    BY <2>1, <2>2, HeapPlace
  <2>4. (p + 1) * q = p * q + q /\ p * q \in Nat
    BY <2>3
  <2>5. kernel_heap_end' = kernel_heap_start + (p + 1) * q
    BY <2>1, <2>2, <2>3, <2>4, HeapPlace
  <2>6. kernel_heap <= kernel_heap_end'
    BY <2>1, HeapPlace, BreakLimit
  <2>7. kernel_heap_end' = kernel_heap_start + (Pages - pages') * PAGE_SIZE
    BY <2>2, <2>3, <2>5
  <2>8. pages' \in 0..Pages
    BY <2>1, HeapPlace
  <2> QED BY <2>1, <2>6, <2>7, <2>8
<1>3. CASE TakeNew
  <2>1. PICK z : z = Plus(16, want)
    OBVIOUS
  <2>2. kernel_heap_end - kernel_heap >= z /\ kernel_heap' = kernel_heap + z
        /\ UNCHANGED <<kernel_heap_end, pages, want, wrapped>>
    BY <1>3, <2>1, HeapPlace DEF TakeNew, Enough, Return, callVars
  <2>3. z \in Nat /\ z % 16 = 0
    <3>1. 16 + want \in Nat /\ (16 + want) % 16 = 0
      OBVIOUS
    <3> QED BY <2>1, <3>1, Remains16 DEF Plus
  <2>4. kernel_heap_end \in Nat /\ kernel_heap_start \in Nat
    BY BreakLimit, HeapPlace
  <2>5. kernel_heap' \in Nat /\ kernel_heap' % 16 = 0 /\ kernel_heap' <= kernel_heap_end
        /\ kernel_heap_start <= kernel_heap'
    BY <2>2, <2>3, <2>4
  <2> QED BY <2>2, <2>5
<1>4. CASE UNCHANGED <<kernel_heap, kernel_heap_end, pages, want, wrapped>>
  BY <1>4
<1> QED
  BY <1>1, <1>2, <1>3, <1>4
  DEF HeapNext, MallocStep, FreeStep, SearchOn, TakePart, TakeWhole, SearchFaults, SearchEnds, MallocFails,
      NewFaults, free, MergeBefore, MergeAfter, FreeOn, FreeFaults, FreePush, Fault, Return, heapVars, breakVars,
      callVars, history

-----------------------------------------------------------------------------
(* The free list as the sequence fl of the addresses of its L blocks.      *)
At(L, fl, j) == IF j \in 1..L THEN fl[j] ELSE NULL
OnList(L, fl) == {fl[j] : j \in 1..L}

Listed(m, head, L, fl) ==
  /\ L \in Nat /\ fl \in [1..L -> Nat]
  /\ head = At(L, fl, 1)
  /\ \A j \in 1..L : NextAt(m, fl[j]) = At(L, fl, j + 1)
  /\ \A i, j \in 1..L : fl[i] = fl[j] => i = j

(* The bytes of the blocks of S.                                           *)
Space(m, S) == UNION {Bytes(a, SizeAt(m, a)) : a \in S}

LEMMA SpaceSame ==
  ASSUME NEW m, NEW n, NEW S, \A a \in S : SizeAt(n, a) = SizeAt(m, a)
  PROVE  Space(n, S) = Space(m, S)
BY DEF Space

LEMMA SpaceMerge ==
  ASSUME NEW m, NEW n, NEW h \in Nat, NEW S, Laid(m, h, S),
         NEW x \in S, NEW y \in S, x # y, x + SizeAt(m, x) + 16 = y,
         SizeAt(n, x) = SizeAt(m, x) + 16 + SizeAt(m, y),
         \A a \in S \ {x, y} : SizeAt(n, a) = SizeAt(m, a)
  PROVE  Space(n, S \ {y}) = Space(m, S)
<1>1. x \in Nat /\ y \in Nat /\ SizeAt(m, x) \in Nat /\ SizeAt(m, y) \in Nat
  BY DEF Laid, BlockAt, Header
<1>2. PICK s \in Nat, t \in Nat : s = SizeAt(m, x) /\ t = SizeAt(m, y)
  BY <1>1
<1>3. x..x + 16 + (s + 16 + t) - 1 = (x..x + 16 + s - 1) \cup (y..y + 16 + t - 1)
  BY <1>1, <1>2
<1>4. Bytes(x, SizeAt(n, x)) = Bytes(x, SizeAt(m, x)) \cup Bytes(y, SizeAt(m, y))
  BY <1>2, <1>3, HeapPlace DEF Bytes
<1>5. \A a \in S \ {x, y} : Bytes(a, SizeAt(n, a)) = Bytes(a, SizeAt(m, a))
  OBVIOUS
<1> QED BY <1>4, <1>5, Zenon DEF Space

(* Of two blocks that do not overlap, the bytes are disjoint.              *)
LEMMA ApartBytes ==
  ASSUME NEW m, NEW a \in Nat, NEW b \in Nat, SizeAt(m, a) \in Nat, SizeAt(m, b) \in Nat,
         ApartAt(m, a, b)
  PROVE  Bytes(a, SizeAt(m, a)) \cap Bytes(b, SizeAt(m, b)) = {}
<1>1. PICK s \in Nat, t \in Nat : s = SizeAt(m, a) /\ t = SizeAt(m, b)
  OBVIOUS
<1>2. a + 16 + s <= b \/ b + 16 + t <= a
  BY <1>1 DEF ApartAt
<1>3. (a..a + 16 + s - 1) \cap (b..b + 16 + t - 1) = {}
  BY <1>2
<1> QED BY <1>1, <1>3, HeapPlace DEF Bytes

-----------------------------------------------------------------------------
(* What holds until a freed block is reused or a size wraps around.  The   *)
(* blocks in use, those on the free list and the one that free is about to *)
(* put there are laid out without overlap, and what was freed is the bytes *)
(* of the last two.                                                        *)
Addrs  == {live[i].addr : i \in DOMAIN live}
Victim == IF pc = "free" THEN {freelist} ELSE {}

LiveInv ==
  /\ calls \in 0..MaxCalls /\ DOMAIN live \subseteq 1..calls
  /\ pc \in {"none", "search", "heap", "free", "fault"}
  /\ pc \in {"search", "heap"} => calls \notin DOMAIN live
  /\ \A i \in DOMAIN live : live[i].addr \in Nat /\ SizeAt(mem, live[i].addr) = live[i].size
  /\ \A i, j \in DOMAIN live : live[i].addr = live[j].addr => i = j

Pending == IF pc \in {"search", "heap", "free"} THEN 1 ELSE 0
CountInv(L) == Cardinality(DOMAIN live) + L + Pending <= calls

LaidInv(L, fl) ==
  /\ mem \in Memory
  /\ Laid(mem, kernel_heap, Addrs \cup OnList(L, fl) \cup Victim)
  /\ Addrs \cap OnList(L, fl) = {} /\ Addrs \cap Victim = {} /\ OnList(L, fl) \cap Victim = {}

CursorInv(L, fl) ==
  pc = "free" => \E j \in 1..L + 1 : other = At(L, fl, j) /\ prev = At(L, fl, j - 1)

Sound(L, fl) ==
  /\ Listed(mem, kernel_malloc_freelist, L, fl)
  /\ LaidInv(L, fl) /\ CursorInv(L, fl)
  /\ freed = Space(mem, OnList(L, fl) \cup Victim)
  /\ LiveInv /\ CountInv(L)

HeapInv == BreakInv /\ (~reused /\ ~wrapped => \E L, fl : Sound(L, fl))

LEMMA HeapStarts ==
  ASSUME HeapInit PROVE HeapInv
<1>1. BreakInv
  <2>1. kernel_heap = kernel_heap_start /\ kernel_heap_end = kernel_heap_start /\ pages = Pages /\ want = 0 /\ wrapped = FALSE
    BY DEF HeapInit
  <2>2. (Pages - pages) * PAGE_SIZE = 0
    BY <2>1, HeapPlace
  <2>3. 16 < SizeMod
    <3>1. PICK b \in Nat \ {0}, e \in Nat : b = kernel_heap_start /\ e = Pages * PAGE_SIZE /\ b % 16 = 0
      BY HeapPlace
    <3>2. b + e < SizeMod /\ SizeMod \in Nat
      BY <3>1, HeapPlace DEF HeapLimit
    <3>3. b >= 16
      BY <3>1
    <3> QED BY <3>1, <3>2, <3>3
  <2>4. wrapped \in BOOLEAN
    BY <2>1
  <2>6. want \in Nat /\ want % 16 = 0 /\ want + 16 < SizeMod
    <3>1. want = 0
      BY <2>1
    <3> QED BY <2>3, <3>1
  <2>5. kernel_heap \in Nat /\ kernel_heap % 16 = 0 /\ pages \in 0..Pages /\ BreakMapped
    BY <2>1, <2>2, HeapPlace DEF BreakMapped
  <2> QED BY <2>4, <2>5, <2>6 DEF BreakInv
<1>2. PICK L, fl : L = 0 /\ fl = [j \in 1..0 |-> 0]
  OBVIOUS
<1>3. 1..L = {} /\ DOMAIN live = {} /\ pc = "none"
  BY <1>2 DEF HeapInit
<1>4. OnList(L, fl) = {} /\ Victim = {} /\ Addrs = {}
  BY <1>3 DEF OnList, Victim, Addrs
<1>5. Listed(mem, kernel_malloc_freelist, L, fl)
  BY <1>2, <1>3 DEF HeapInit, Listed, At, NULL
<1>6. LaidInv(L, fl)
  BY <1>4 DEF LaidInv, Laid, HeapInit, Memory
<1>7. freed = Space(mem, OnList(L, fl) \cup Victim)
  BY <1>4 DEF HeapInit, Space
<1>8. LiveInv /\ CountInv(L) /\ CursorInv(L, fl)
  BY <1>2, <1>3, HeapAssumption, FS_EmptySet DEF LiveInv, CountInv, CursorInv, Pending, HeapInit
<1> QED BY <1>1, <1>5, <1>6, <1>7, <1>8 DEF HeapInv, Sound

(* Steps that touch neither a block nor the free list.                     *)
LEMMA QuietStep ==
  ASSUME NEW L, NEW fl, Sound(L, fl), UNCHANGED <<mem, kernel_heap, kernel_malloc_freelist, live, freed>>,
         pc # "free", pc' # "free", LiveInv', CountInv(L)'
  PROVE  Sound(L, fl)'
<1>1. Victim = {} /\ Victim' = {} /\ Addrs' = Addrs
  BY DEF Victim, Addrs
<1>2. LaidInv(L, fl)'
  BY <1>1 DEF Sound, LaidInv
<1>3. CursorInv(L, fl)' /\ Listed(mem, kernel_malloc_freelist, L, fl)'
  BY DEF Sound, CursorInv
<1>4. (freed = Space(mem, OnList(L, fl) \cup Victim))'
  BY <1>1 DEF Sound
<1> QED BY <1>2, <1>3, <1>4 DEF Sound

LEMMA LiveSize ==
  ASSUME LiveInv PROVE IsFiniteSet(DOMAIN live) /\ Cardinality(DOMAIN live) \in Nat
<1>1. calls \in Nat
  BY HeapAssumption DEF LiveInv
<1>2. IsFiniteSet(1..calls)
  BY <1>1, FS_Interval
<1> QED BY <1>2, FS_Subset, FS_CardinalityType DEF LiveInv

LEMMA QuietSteps ==
  ASSUME NEW L, NEW fl, Sound(L, fl), BreakInv,
         (\E n \in Requests : malloc(n)) \/ SearchOn \/ SearchFaults \/ SearchEnds \/ heap_grow \/ MallocFails
         \/ NewFaults
  PROVE  Sound(L, fl)'
<1>1. LiveInv /\ CountInv(L) /\ L \in Nat
  BY DEF Sound, Listed
<1>2. Cardinality(DOMAIN live) \in Nat /\ calls \in Nat /\ MaxCalls \in Nat
  BY <1>1, LiveSize, HeapAssumption DEF LiveInv
<1>3. CASE \E n \in Requests : malloc(n)
  <2>1. /\ pc = "none" /\ pc' = "search" /\ calls < MaxCalls /\ calls' = calls + 1
        /\ UNCHANGED <<mem, kernel_heap, kernel_malloc_freelist, live, freed>>
    BY <1>3 DEF malloc, breakVars
  <2>2. calls' \in 0..MaxCalls /\ DOMAIN live \subseteq 1..calls' /\ calls' \notin DOMAIN live
    BY <1>1, <1>2, <2>1 DEF LiveInv
  <2>3. LiveInv'
    BY <1>1, <2>1, <2>2 DEF LiveInv
  <2>4. CountInv(L)'
    BY <1>1, <1>2, <2>1 DEF CountInv, Pending
  <2> QED BY <2>1, <2>3, <2>4, QuietStep
<1>4. CASE ~\E n \in Requests : malloc(n)
  <2>1. /\ pc \in {"search", "heap"} /\ pc' \in {"search", "heap", "none", "fault"}
        /\ UNCHANGED <<mem, kernel_heap, kernel_malloc_freelist, live, freed, calls>>
    BY <1>4 DEF SearchOn, SearchFaults, SearchEnds, heap_grow, MallocFails, NewFaults, Searching, Fault, breakVars, history
  <2>2. LiveInv'
    BY <1>1, <2>1 DEF LiveInv
  <2>3. CountInv(L)'
    BY <1>1, <1>2, <2>1 DEF CountInv, Pending
  <2> QED BY <2>1, <2>2, <2>3, QuietStep
<1> QED BY <1>3, <1>4

(* The links of the list are kept when those of its blocks are.            *)
LEMMA ListedSame ==
  ASSUME NEW m, NEW n, NEW head, NEW L, NEW fl, Listed(m, head, L, fl),
         \A a \in OnList(L, fl) : NextAt(n, a) = NextAt(m, a)
  PROVE  Listed(n, head, L, fl)
BY DEF Listed, OnList

(* malloc cuts a block at the break.                                       *)
LEMMA TakeNewStep ==
  ASSUME NEW L, NEW fl, Sound(L, fl), BreakInv, TakeNew, ~wrapped
  PROVE  Sound(L, fl)'
<1> DEFINE S == Addrs \cup OnList(L, fl) \cup Victim
<1>1. PICK h, w : h = kernel_heap /\ w = want
  OBVIOUS
<1>2. /\ pc = "heap" /\ pc' = "none" /\ kernel_heap' = h + 16 + w
      /\ UNCHANGED <<kernel_malloc_freelist, calls, freed>>
      /\ kernel_heap_end - h >= 16 + w
      /\ mem' = SetSize(SetNext(mem, h, NULL), h, w)
      /\ live' = [i \in DOMAIN live \cup {calls} |-> IF i = calls THEN [addr |-> h, size |-> w] ELSE live[i]]
  <2>1. Plus(16, w) = 16 + w
    <3>1. w \in Nat /\ w + 16 < SizeMod /\ 16 \in Nat /\ 16 + w = w + 16
      BY <1>1 DEF BreakInv
    <3> QED BY <3>1, PlusIs
  <2>2. h + (16 + w) = h + 16 + w
    BY <1>1 DEF BreakInv
  <2> QED BY <1>1, <2>1, <2>2, HeapPlace DEF TakeNew, Enough, Return
<1>3. h \in Nat /\ w \in Nat /\ w % 16 = 0 /\ Header(h) /\ w < SizeMod
  <2>1. h \in Nat /\ w \in Nat /\ w % 16 = 0 /\ h % 16 = 0 /\ kernel_heap_start <= h
    BY <1>1 DEF BreakInv, BreakMapped
  <2>2. HeapLimit \in Nat /\ HeapLimit < SizeMod /\ kernel_heap_start \in Nat \ {0}
    BY HeapPlace
  <2>3. h + 16 + w <= HeapLimit
    BY <1>2, <2>1, <2>2, BreakLimit
  <2>4. SizeMod \in Nat
    BY HeapPlace
  <2>5. w < SizeMod
    BY <2>1, <2>2, <2>3, <2>4
  <2> QED BY <2>5, <2>1, <2>2, <2>3, HeapPlace DEF Header
<1>4. mem \in Memory /\ Laid(mem, h, S) /\ Victim = {} /\ Victim' = {}
  BY <1>1, <1>2 DEF Sound, LaidInv, Victim
<1>5. PICK m1 : m1 = SetNext(mem, h, NULL)
  OBVIOUS
<1>6. NULL \in Nat /\ NULL < SizeMod
  BY HeapPlace DEF NULL
<1>7. NextSet(mem, m1, h, NULL)
  BY <1>3, <1>4, <1>5, <1>6, SetNextIs
<1>8. m1 \in Memory
  BY <1>7 DEF NextSet
<1>9. SizeSet(m1, mem', h, w)
  <2>1. SizeSet(m1, SetSize(m1, h, w), h, w)
    BY <1>3, <1>8, SetSizeIs
  <2> QED BY <1>2, <1>5, <2>1
<1>10. /\ mem' \in Memory /\ SizeAt(mem', h) = w
       /\ \A b : Header(b) /\ b # h => NextAt(mem', b) = NextAt(mem, b) /\ SizeAt(mem', b) = SizeAt(mem, b)
  BY <1>7, <1>9 DEF NextSet, SizeSet
<1>11. \A a \in S : a # h /\ Header(a)
  BY <1>3, <1>4 DEF Laid, BlockAt, Header
<1>12. \A a \in S : NextAt(mem', a) = NextAt(mem, a) /\ SizeAt(mem', a) = SizeAt(mem, a)
  BY <1>10, <1>11
<1>13. PICK n : n = mem'
  OBVIOUS
<1>14. h \notin S /\ Laid(n, h + 16 + w, S \cup {h})
  BY <1>3, <1>4, <1>10, <1>12, <1>13, LaidNew
<1>15. Addrs' = Addrs \cup {h}
  <2>1. calls \notin DOMAIN live
    BY <1>2 DEF Sound, LiveInv
  <2> QED BY <1>2, <2>1 DEF Addrs
<1>16. LaidInv(L, fl)'
  <2>1. Addrs' \cup OnList(L, fl) \cup Victim' = S \cup {h}
    BY <1>4, <1>15
  <2>2. Laid(mem', kernel_heap', Addrs' \cup OnList(L, fl) \cup Victim')
    BY <1>2, <1>13, <1>14, <2>1
  <2>3. Addrs \cap OnList(L, fl) = {}
    BY DEF Sound, LaidInv
  <2> QED BY <1>4, <1>10, <1>14, <1>15, <2>2, <2>3 DEF LaidInv
<1>17. Listed(mem, kernel_malloc_freelist, L, fl)'
  <2>1. PICK hd : hd = kernel_malloc_freelist
    OBVIOUS
  <2>2. Listed(mem, hd, L, fl)
    BY <2>1 DEF Sound
  <2>3. \A a \in OnList(L, fl) : NextAt(mem', a) = NextAt(mem, a)
    BY <1>12
  <2>4. Listed(n, hd, L, fl)
    BY <1>13, <2>2, <2>3, ListedSame
  <2> QED BY <1>2, <1>13, <2>1, <2>4
<1>18. (freed = Space(mem, OnList(L, fl) \cup Victim))'
  <2>1. freed = Space(mem, OnList(L, fl) \cup Victim)
    BY DEF Sound
  <2>2. Space(n, OnList(L, fl)) = Space(mem, OnList(L, fl))
    BY <1>12, <1>13, SpaceSame
  <2> QED BY <1>2, <1>4, <1>13, <2>1, <2>2
<1>19. LiveInv /\ CountInv(L) /\ L \in Nat /\ Cardinality(DOMAIN live) \in Nat /\ IsFiniteSet(DOMAIN live)
       /\ calls \in Nat
  BY LiveSize, HeapAssumption DEF Sound, Listed, LiveInv
<1>20. DOMAIN live' = DOMAIN live \cup {calls} /\ calls \notin DOMAIN live
  BY <1>2, <1>19 DEF LiveInv
<1>21. LiveInv'
  <2>1. calls' \in 0..MaxCalls /\ DOMAIN live' \subseteq 1..calls'
    <3>1. Cardinality(DOMAIN live) + L + 1 <= calls
      BY <1>2, <1>19 DEF CountInv, Pending
    <3>2. calls \in 1..calls
      BY <1>19, <3>1
    <3> QED BY <1>2, <1>19, <1>20, <3>2 DEF LiveInv
  <2>2. ASSUME NEW i \in DOMAIN live'
        PROVE  live'[i].addr \in Nat /\ SizeAt(mem', live'[i].addr) = live'[i].size
    <3>1. CASE i = calls
      BY <1>2, <1>3, <1>10, <3>1
    <3>2. CASE i # calls
      <4>1. i \in DOMAIN live /\ live'[i] = live[i]
        BY <1>2, <1>20, <3>2
      <4>2. live[i].addr \in S /\ live[i].addr \in Nat /\ SizeAt(mem, live[i].addr) = live[i].size
        BY <1>19, <4>1 DEF Addrs, LiveInv
      <4> QED BY <1>12, <4>1, <4>2
    <3> QED BY <3>1, <3>2
  <2>3. ASSUME NEW i \in DOMAIN live', NEW j \in DOMAIN live', live'[i].addr = live'[j].addr
        PROVE  i = j
    <3>1. \A k \in DOMAIN live : live'[k] = live[k] /\ live[k].addr \in S
      BY <1>2, <1>20 DEF Addrs
    <3>2. live'[calls].addr = h
      BY <1>2
    <3>3. \A k \in DOMAIN live : live[k].addr # h
      BY <1>14, <3>1
    <3> QED BY <1>19, <1>20, <2>3, <3>1, <3>2, <3>3 DEF LiveInv
  <2> QED BY <1>2, <2>1, <2>2, <2>3 DEF LiveInv
<1>22. CountInv(L)'
  <2>1. Cardinality(DOMAIN live') = Cardinality(DOMAIN live) + 1
    BY <1>19, <1>20, FS_AddElement
  <2> QED BY <1>2, <1>19, <2>1 DEF CountInv, Pending
<1>23. CursorInv(L, fl)'
  BY <1>2 DEF CursorInv
<1> QED BY <1>16, <1>17, <1>18, <1>21, <1>22, <1>23 DEF Sound

(* free takes a block from its user.                                       *)
LEMMA FreeStarts ==
  ASSUME NEW L, NEW fl, Sound(L, fl), BreakInv, NEW i \in DOMAIN live, free(i)
  PROVE  Sound(L, fl)'
<1> DEFINE a == live[i].addr
<1>1. LiveInv /\ CountInv(L) /\ L \in Nat /\ Cardinality(DOMAIN live) \in Nat /\ IsFiniteSet(DOMAIN live)
      /\ calls \in Nat
  BY LiveSize, HeapAssumption DEF Sound, Listed, LiveInv
<1>2. a \in Addrs /\ SizeAt(mem, a) = live[i].size /\ a \in Nat
  BY <1>1 DEF Addrs, LiveInv
<1>3. SizeOf(a) % 16 = 0
  <2>1. BlockAt(mem, kernel_heap, a)
    BY <1>2 DEF Sound, LaidInv, Laid
  <2> QED BY <2>1 DEF BlockAt, SizeAt, SizeOf
<1>4. /\ pc = "none" /\ pc' = "free" /\ freelist' = a /\ prev' = NULL /\ other' = kernel_malloc_freelist
      /\ freed' = freed \cup Bytes(a, SizeAt(mem, a))
      /\ live' = [j \in DOMAIN live \ {i} |-> live[j]]
      /\ UNCHANGED <<mem, kernel_heap, kernel_malloc_freelist, calls>>
  BY <1>2, <1>3 DEF free, breakVars
<1>5. Victim = {} /\ Victim' = {a}
  BY <1>4 DEF Victim
<1>6. DOMAIN live' = DOMAIN live \ {i} /\ \A j \in DOMAIN live' : live'[j] = live[j]
  BY <1>4
<1>7. Addrs' = Addrs \ {a}
  <2>1. \A j \in DOMAIN live : live[j].addr = a => j = i
    BY <1>1 DEF LiveInv
  <2> QED BY <1>6, <2>1 DEF Addrs
<1>8. LaidInv(L, fl)'
  <2>1. Addrs' \cup OnList(L, fl) \cup Victim' = Addrs \cup OnList(L, fl) \cup Victim
    BY <1>2, <1>5, <1>7
  <2>2. Laid(mem, kernel_heap, Addrs \cup OnList(L, fl) \cup Victim) /\ mem \in Memory
        /\ Addrs \cap OnList(L, fl) = {}
    BY DEF Sound, LaidInv
  <2> QED BY <1>2, <1>4, <1>5, <1>7, <2>1, <2>2 DEF LaidInv
<1>9. CursorInv(L, fl)' /\ Listed(mem, kernel_malloc_freelist, L, fl)'
  <2>1. Listed(mem, kernel_malloc_freelist, L, fl)
    BY DEF Sound
  <2>2. kernel_malloc_freelist = At(L, fl, 1) /\ NULL = At(L, fl, 1 - 1) /\ 1 \in 1..L + 1
    BY <1>1, <2>1 DEF Listed, At, NULL
  <2> QED BY <1>4, <2>1, <2>2 DEF CursorInv
<1>10. (freed = Space(mem, OnList(L, fl) \cup Victim))'
  <2>1. Space(mem, OnList(L, fl) \cup {a}) = Space(mem, OnList(L, fl)) \cup Bytes(a, SizeAt(mem, a))
    BY DEF Space
  <2>2. freed = Space(mem, OnList(L, fl))
    BY <1>5 DEF Sound
  <2> QED BY <1>4, <1>5, <2>1, <2>2
<1>11. LiveInv'
  BY <1>1, <1>4, <1>6 DEF LiveInv
<1>12. CountInv(L)'
  <2>1. Cardinality(DOMAIN live') = Cardinality(DOMAIN live) - 1
    BY <1>1, <1>6, FS_RemoveElement
  <2> QED BY <1>1, <1>4, <2>1 DEF CountInv, Pending
<1> QED BY <1>8, <1>9, <1>10, <1>11, <1>12 DEF Sound

(* Where free is on the list: f is the block to free, o the block under    *)
(* the cursor and p the one before it.                                     *)
LEMMA FreeCursor ==
  ASSUME NEW L, NEW fl, Sound(L, fl), BreakInv, pc = "free"
  PROVE  /\ mem \in Memory /\ Laid(mem, kernel_heap, Addrs \cup OnList(L, fl) \cup {freelist})
         /\ Victim = {freelist} /\ freelist \notin Addrs \cup OnList(L, fl) /\ Addrs \cap OnList(L, fl) = {}
         /\ Header(freelist) /\ freelist # NULL
         /\ \A a \in Addrs \cup OnList(L, fl) : Header(a) /\ a # NULL
         /\ L \in Nat /\ kernel_heap \in Nat
         /\ \E j \in 1..L + 1 : /\ other = At(L, fl, j) /\ prev = At(L, fl, j - 1)
                                /\ other # NULL => j \in 1..L /\ other = fl[j] /\ Mapped(other)
<1>1. Victim = {freelist} /\ L \in Nat /\ kernel_heap \in Nat
  BY DEF Victim, Sound, Listed, BreakInv
<1>2. /\ mem \in Memory /\ Laid(mem, kernel_heap, Addrs \cup OnList(L, fl) \cup {freelist})
      /\ freelist \notin Addrs \cup OnList(L, fl) /\ Addrs \cap OnList(L, fl) = {}
  BY <1>1 DEF Sound, LaidInv
<1>3. \A a \in Addrs \cup OnList(L, fl) \cup {freelist} : Header(a) /\ a # NULL
  BY <1>2, HeapPlace DEF Laid, BlockAt, Header, NULL
<1>4. PICK j \in 1..L + 1 : other = At(L, fl, j) /\ prev = At(L, fl, j - 1)
  BY DEF Sound, CursorInv
<1>5. ASSUME other # NULL PROVE j \in 1..L /\ other = fl[j] /\ Mapped(other)
  <2>1. j \in 1..L /\ other = fl[j]
    BY <1>4, <1>5 DEF At
  <2>2. other \in OnList(L, fl)
    BY <2>1 DEF OnList
  <2>3. BlockAt(mem, kernel_heap, other)
    BY <1>2, <2>2 DEF Laid
  <2>4. other \in Nat /\ kernel_heap_start <= other /\ SizeAt(mem, other) \in Nat
        /\ other + 16 + SizeAt(mem, other) <= kernel_heap
    BY <2>3 DEF BlockAt, Header
  <2>5. kernel_heap \in Nat /\ kernel_heap <= kernel_heap_end /\ kernel_heap_end \in Nat
    BY BreakLimit DEF BreakInv, BreakMapped
  <2>6. Mapped(other)
    BY <2>4, <2>5 DEF Mapped
  <2> QED BY <2>1, <2>6
<1> QED BY <1>1, <1>2, <1>3, <1>4, <1>5

(* The blocks in use when a step of free ends.                             *)
LEMMA FreeKeepsLive ==
  ASSUME NEW L, NEW fl, Sound(L, fl), UNCHANGED <<live, calls>>, pc' \in {"none", "free"},
         \A a \in Addrs : SizeAt(mem', a) = SizeAt(mem, a)
  PROVE  LiveInv' /\ Addrs' = Addrs
<1>1. LiveInv
  BY DEF Sound
<1>2. Addrs' = Addrs
  BY DEF Addrs
<1>3. \A i \in DOMAIN live : live[i].addr \in Addrs
  BY DEF Addrs
<1> QED BY <1>1, <1>2, <1>3 DEF LiveInv

LEMMA FreeOnStep ==
  ASSUME NEW L, NEW fl, Sound(L, fl), BreakInv, FreeOn
  PROVE  Sound(L, fl)'
<1>1. /\ pc = "free" /\ pc' = "free" /\ other # NULL /\ prev' = other /\ other' = NextOf(other)
      /\ UNCHANGED <<mem, kernel_heap, kernel_malloc_freelist, live, calls, freed, freelist>>
  BY DEF FreeOn, Freeing, breakVars, history
<1>2. PICK j \in 1..L : other = fl[j]
  BY <1>1, FreeCursor
<1>3. Listed(mem, kernel_malloc_freelist, L, fl)
  BY DEF Sound
<1>4. L \in Nat /\ NextOf(other) = At(L, fl, j + 1) /\ other = At(L, fl, (j + 1) - 1)
  BY <1>2, <1>3 DEF Listed, NextOf, NextAt, At
<1>5. CursorInv(L, fl)'
  <2>1. j + 1 \in 1..L + 1
    BY <1>4
  <2> QED BY <1>1, <1>4, <2>1 DEF CursorInv
<1>6. Victim' = Victim
  BY <1>1 DEF Victim
<1>7. LiveInv' /\ Addrs' = Addrs
  BY <1>1, FreeKeepsLive
<1>8. LaidInv(L, fl)' /\ CountInv(L)' /\ (freed = Space(mem, OnList(L, fl) \cup Victim))'
  BY <1>1, <1>6, <1>7 DEF Sound, LaidInv, CountInv, Pending
<1> QED BY <1>1, <1>3, <1>5, <1>7, <1>8 DEF Sound

(* The block becomes the first of the list.                                *)
LEMMA FreePushStep ==
  ASSUME NEW L, NEW fl, Sound(L, fl), BreakInv, FreePush
  PROVE  \E K, gl : Sound(K, gl)'
<1>1. PICK f, hd, n : f = freelist /\ hd = kernel_malloc_freelist /\ n = mem'
  OBVIOUS
<1>2. /\ pc = "free" /\ pc' = "none" /\ n = SetNext(mem, f, hd) /\ kernel_malloc_freelist' = f
      /\ UNCHANGED <<kernel_heap, live, calls, freed>>
  BY <1>1 DEF FreePush, breakVars, history
<1>3. /\ mem \in Memory /\ Laid(mem, kernel_heap, Addrs \cup OnList(L, fl) \cup {f})
      /\ Victim = {f} /\ f \notin Addrs \cup OnList(L, fl) /\ Addrs \cap OnList(L, fl) = {}
      /\ Header(f) /\ f # NULL
      /\ \A a \in Addrs \cup OnList(L, fl) : Header(a) /\ a # NULL
      /\ L \in Nat /\ kernel_heap \in Nat
  BY <1>1, <1>2, FreeCursor
<1>4. Listed(mem, hd, L, fl)
  BY <1>1 DEF Sound
<1>5. hd \in Nat /\ hd < SizeMod
  <2>1. CASE 1 \in 1..L
    <3>1. hd \in OnList(L, fl)
      BY <1>4, <2>1 DEF Listed, At, OnList
    <3>2. Header(hd)
      BY <1>3, <3>1
    <3>3. hd \in Nat /\ hd + 16 <= HeapLimit /\ HeapLimit \in Nat /\ HeapLimit < SizeMod /\ SizeMod \in Nat
      BY <3>2, HeapPlace DEF Header
    <3> QED BY <3>3
  <2>2. CASE 1 \notin 1..L
    BY <1>4, <2>2, HeapPlace DEF Listed, At, NULL
  <2> QED BY <2>1, <2>2
<1>6. NextSet(mem, n, f, hd)
  BY <1>2, <1>3, <1>5, SetNextIs
<1>7. /\ n \in Memory /\ NextAt(n, f) = hd
      /\ \A a \in Addrs \cup OnList(L, fl) \cup {f} : SizeAt(n, a) = SizeAt(mem, a)
      /\ \A a \in OnList(L, fl) : NextAt(n, a) = NextAt(mem, a)
  BY <1>3, <1>6 DEF NextSet
<1>8. PICK K, gl : K = L + 1 /\ gl = [j \in 1..L + 1 |-> IF j = 1 THEN f ELSE fl[j - 1]]
  OBVIOUS
<1>9. /\ K \in Nat /\ gl \in [1..K -> Nat] /\ gl[1] = f
      /\ \A j \in 1..L : gl[j + 1] = fl[j]
      /\ \A j \in 1..K : j = 1 \/ (j - 1 \in 1..L /\ gl[j] = fl[j - 1])
  <2>1. f \in Nat /\ \A j \in 1..L : fl[j] \in Nat
    BY <1>3, <1>4 DEF Header, Listed
  <2>2. \A j \in 1..L + 1 : j = 1 \/ j - 1 \in 1..L
    BY <1>3
  <2>3. \A j \in 1..L : j + 1 \in 1..L + 1 /\ j + 1 # 1 /\ (j + 1) - 1 = j
    BY <1>3
  <2>4. 1 \in 1..L + 1 /\ L + 1 \in Nat
    BY <1>3
  <2> QED BY <1>8, <2>1, <2>2, <2>3, <2>4
<1>10. OnList(K, gl) = OnList(L, fl) \cup {f}
  <2>1. \A x \in OnList(K, gl) : x \in OnList(L, fl) \cup {f}
    BY <1>9 DEF OnList
  <2>2. f \in OnList(K, gl)
    BY <1>3, <1>8, <1>9 DEF OnList
  <2>3. ASSUME NEW x \in OnList(L, fl) PROVE x \in OnList(K, gl)
    <3>1. PICK j \in 1..L : x = fl[j]
      BY DEF OnList
    <3>2. j + 1 \in 1..K /\ gl[j + 1] = x
      BY <1>3, <1>8, <1>9, <3>1
    <3> QED BY <3>2 DEF OnList
  <2> QED BY <2>1, <2>2, <2>3
<1>11. Listed(n, f, K, gl)
  <2>1. f = At(K, gl, 1)
    BY <1>3, <1>8, <1>9 DEF At
  <2>2. \A j \in 1..L + 1 : At(K, gl, j + 1) = At(L, fl, j)
    <3>1. ASSUME NEW j \in 1..L + 1 PROVE At(K, gl, j + 1) = At(L, fl, j)
      <4>1. CASE j \in 1..L
        <5>1. j + 1 \in 1..K
          BY <1>3, <1>8, <4>1
        <5> QED BY <1>9, <4>1, <5>1 DEF At
      <4>2. CASE j = L + 1
        BY <1>3, <1>8, <4>2 DEF At
      <4> QED BY <1>3, <4>1, <4>2
    <3> QED BY <3>1
  <2>3. ASSUME NEW j \in 1..K PROVE NextAt(n, gl[j]) = At(K, gl, j + 1)
    <3>1. CASE j = 1
      <4>1. hd = At(L, fl, 1) /\ 1 \in 1..L + 1
        BY <1>3, <1>4 DEF Listed
      <4> QED BY <1>7, <1>9, <2>2, <3>1, <4>1
    <3>2. CASE j # 1
      <4>1. PICK i \in 1..L : i = j - 1 /\ gl[j] = fl[i]
        BY <1>9, <3>2
      <4>2. NextAt(n, fl[i]) = NextAt(mem, fl[i]) /\ NextAt(mem, fl[i]) = At(L, fl, i + 1)
        BY <1>4, <1>7 DEF Listed, OnList
      <4>3. j \in 1..L + 1 /\ i + 1 = j
        BY <1>3, <1>8, <4>1
      <4> QED BY <2>2, <4>1, <4>2, <4>3
    <3> QED BY <3>1, <3>2
  <2>4. ASSUME NEW i \in 1..K, NEW j \in 1..K, gl[i] = gl[j] PROVE i = j
    <3>1. \A k \in 1..K : k # 1 => gl[k] # f /\ k - 1 \in 1..L /\ gl[k] = fl[k - 1]
      <4>1. \A k \in 1..L : fl[k] \in OnList(L, fl)
        BY DEF OnList
      <4> QED BY <1>3, <1>9, <4>1
    <3>2. CASE i = 1 \/ j = 1
      BY <1>9, <2>4, <3>1, <3>2
    <3>3. CASE i # 1 /\ j # 1
      <4>1. i - 1 = j - 1
        BY <1>4, <2>4, <3>1, <3>3 DEF Listed
      <4> QED BY <1>9, <4>1
    <3> QED BY <3>2, <3>3
  <2> QED BY <1>9, <2>1, <2>3, <2>4 DEF Listed
<1>12. Victim' = {} /\ LiveInv' /\ Addrs' = Addrs
  <2>1. \A a \in Addrs : SizeAt(mem', a) = SizeAt(mem, a)
    BY <1>1, <1>7
  <2> QED BY <1>2, <2>1, FreeKeepsLive DEF Victim
<1>13. LaidInv(K, gl)'
  <2>1. Laid(n, kernel_heap, Addrs \cup OnList(L, fl) \cup {f})
    BY <1>3, <1>7, LaidSame
  <2>2. Addrs' \cup OnList(K, gl) \cup Victim' = Addrs \cup OnList(L, fl) \cup {f}
    BY <1>10, <1>12
  <2>3. Laid(mem', kernel_heap', Addrs' \cup OnList(K, gl) \cup Victim')
    BY <1>1, <1>2, <2>1, <2>2
  <2> QED BY <1>1, <1>3, <1>7, <1>10, <1>12, <2>3 DEF LaidInv
<1>14. (freed = Space(mem, OnList(K, gl) \cup Victim))'
  <2>1. freed = Space(mem, OnList(L, fl) \cup {f})
    BY <1>3 DEF Sound
  <2>2. Space(n, OnList(L, fl) \cup {f}) = Space(mem, OnList(L, fl) \cup {f})
    BY <1>7, SpaceSame
  <2> QED BY <1>1, <1>2, <1>10, <1>12, <2>1, <2>2
<1>15. CountInv(K)'
  <2>1. LiveInv /\ CountInv(L)
    BY DEF Sound
  <2>2. Cardinality(DOMAIN live) \in Nat
    BY <2>1, LiveSize
  <2> QED BY <1>2, <1>3, <1>8, <2>1, <2>2 DEF CountInv, Pending
<1>16. CursorInv(K, gl)' /\ Listed(mem, kernel_malloc_freelist, K, gl)'
  BY <1>1, <1>2, <1>11 DEF CursorInv
<1> QED BY <1>12, <1>13, <1>14, <1>15, <1>16 DEF Sound

(* The size of two blocks of the heap side by side fits a word.            *)
LEMMA MergedSize ==
  ASSUME BreakInv, NEW S, Laid(mem, kernel_heap, S), NEW x \in S, NEW y \in S, x + SizeAt(mem, x) + 16 = y
  PROVE  /\ SizeAt(mem, x) \in Nat /\ SizeAt(mem, y) \in Nat
         /\ SizeAt(mem, x) + 16 + SizeAt(mem, y) \in Nat
         /\ SizeAt(mem, x) + 16 + SizeAt(mem, y) < SizeMod
<1>1. /\ x \in Nat /\ y \in Nat /\ SizeAt(mem, x) \in Nat /\ SizeAt(mem, y) \in Nat
      /\ y + 16 + SizeAt(mem, y) <= kernel_heap
  BY DEF Laid, BlockAt, Header
<1>2. kernel_heap \in Nat /\ kernel_heap <= kernel_heap_end /\ kernel_heap_end \in Nat
      /\ kernel_heap_end <= HeapLimit
  BY BreakLimit DEF BreakInv, BreakMapped
<1>3. HeapLimit \in Nat /\ HeapLimit < SizeMod
  BY HeapPlace
<1>4. SizeMod \in Nat
  BY HeapPlace
<1> QED BY <1>1, <1>2, <1>3, <1>4

(* A block of the heap ends where the sum of its address and size says.    *)
LEMMA BlockEnd ==
  ASSUME BreakInv, NEW S, Laid(mem, kernel_heap, S), NEW x \in S
  PROVE  /\ x \in Nat /\ SizeAt(mem, x) \in Nat
         /\ Plus(x, SizeAt(mem, x) + 16) = x + SizeAt(mem, x) + 16
<1>1. x \in Nat /\ SizeAt(mem, x) \in Nat /\ x + 16 + SizeAt(mem, x) <= kernel_heap
  BY DEF Laid, BlockAt, Header
<1>2. kernel_heap \in Nat /\ kernel_heap <= kernel_heap_end /\ kernel_heap_end \in Nat
      /\ kernel_heap_end <= HeapLimit /\ HeapLimit \in Nat /\ HeapLimit < SizeMod /\ SizeMod \in Nat
  BY BreakLimit, HeapPlace DEF BreakInv, BreakMapped
<1>3. PICK s \in Nat : s = SizeAt(mem, x) + 16
  BY <1>1
<1>4. x + s < SizeMod /\ x + s = x + SizeAt(mem, x) + 16
  BY <1>1, <1>2, <1>3
<1> QED BY <1>1, <1>3, <1>4, PlusIs

LEMMA MergeAfterStep ==
  ASSUME NEW L, NEW fl, Sound(L, fl), BreakInv, MergeAfter
  PROVE  Sound(L, fl)'
<1> DEFINE S == Addrs \cup OnList(L, fl) \cup {freelist}
<1>1. PICK f, o, n, v : f = freelist /\ o = other /\ n = mem' /\ v = SizeAt(mem, o) + 16 + SizeAt(mem, f)
  OBVIOUS
<1>14. /\ pc = "free" /\ pc' = "none" /\ o # NULL
       /\ n = SetSize(mem, o, Plus(SizeAt(mem, o) + 16, SizeAt(mem, f))) /\ f = Plus(o, SizeAt(mem, o) + 16)
       /\ UNCHANGED <<kernel_heap, kernel_malloc_freelist, live, calls, freed>>
  BY <1>1, HeapPlace DEF MergeAfter, Freeing, After, breakVars, history, SizeOf, SizeAt
<1>3. /\ mem \in Memory /\ Laid(mem, kernel_heap, S)
      /\ Victim = {f} /\ f \notin Addrs \cup OnList(L, fl) /\ Addrs \cap OnList(L, fl) = {}
      /\ \A a \in Addrs \cup OnList(L, fl) : Header(a)
      /\ Header(f) /\ kernel_heap \in Nat /\ L \in Nat
  BY <1>1, <1>14, FreeCursor
<1>4. o \in OnList(L, fl)
  BY <1>1, <1>14, FreeCursor DEF OnList
<1>5. f \in S /\ o \in S /\ f # o
  BY <1>1, <1>3, <1>4
<1>15. o + SizeAt(mem, o) + 16 = f
  <2>1. PICK T : T = S
    OBVIOUS
  <2>2. Plus(o, SizeAt(mem, o) + 16) = o + SizeAt(mem, o) + 16
    BY <1>3, <1>5, <2>1, BlockEnd
  <2> QED BY <1>14, <2>2
<1>6. v \in Nat /\ v < SizeMod
  BY <1>1, <1>15, <1>3, <1>5, MergedSize
<1>2. /\ pc = "free" /\ pc' = "none" /\ o # NULL /\ n = SetSize(mem, o, v) /\ o + SizeAt(mem, o) + 16 = f
      /\ UNCHANGED <<kernel_heap, kernel_malloc_freelist, live, calls, freed>>
  <2>1. PICK T : T = S
    OBVIOUS
  <2>2. SizeAt(mem, o) \in Nat /\ SizeAt(mem, f) \in Nat
    BY <1>3, <1>5, <2>1, BlockEnd
  <2>3. Plus(SizeAt(mem, o) + 16, SizeAt(mem, f)) = v
    BY <1>1, <1>6, <2>2, PlusIs
  <2> QED BY <1>14, <1>15, <2>3
<1>7. SizeSet(mem, n, o, v)
  BY <1>2, <1>3, <1>4, <1>6, SetSizeIs
<1>8. /\ n \in Memory /\ SizeAt(n, o) = v
      /\ \A a \in S \ {o} : SizeAt(n, a) = SizeAt(mem, a)
      /\ \A a \in OnList(L, fl) : NextAt(n, a) = NextAt(mem, a)
  BY <1>1, <1>3, <1>7 DEF SizeSet
<1>9. Victim' = {} /\ LiveInv' /\ Addrs' = Addrs
  <2>1. \A a \in Addrs : SizeAt(mem', a) = SizeAt(mem, a)
    BY <1>1, <1>3, <1>4, <1>8
  <2> QED BY <1>2, <2>1, FreeKeepsLive DEF Victim
<1>10. LaidInv(L, fl)'
  <2>1. PICK T : T = S
    OBVIOUS
  <2>2. Laid(n, kernel_heap, T \ {f})
    BY <1>1, <1>2, <1>3, <1>5, <1>8, <2>1, LaidMerge
  <2>3. Addrs' \cup OnList(L, fl) \cup Victim' = T \ {f}
    BY <1>1, <1>3, <1>9, <2>1
  <2>4. Laid(mem', kernel_heap', Addrs' \cup OnList(L, fl) \cup Victim')
    BY <1>1, <1>2, <2>2, <2>3
  <2> QED BY <1>1, <1>3, <1>8, <1>9, <2>4 DEF LaidInv
<1>11. (freed = Space(mem, OnList(L, fl) \cup Victim))'
  <2>1. PICK T : T = OnList(L, fl) \cup {f}
    OBVIOUS
  <2>2. Laid(mem, kernel_heap, T)
    <3>1. T \in SUBSET S
      BY <1>1, <2>1
    <3> QED BY <1>3, <3>1, LaidSame
  <2>3. freed = Space(mem, T)
    BY <1>3, <2>1 DEF Sound
  <2>4. \A a \in T \ {o, f} : SizeAt(n, a) = SizeAt(mem, a)
    BY <1>8, <2>1
  <2>5. Space(n, T \ {f}) = Space(mem, T)
    BY <1>1, <1>2, <1>3, <1>4, <1>5, <1>8, <2>1, <2>2, <2>4, SpaceMerge
  <2>6. OnList(L, fl) \cup Victim' = T \ {f}
    BY <1>3, <1>9, <2>1
  <2> QED BY <1>1, <1>2, <2>3, <2>5, <2>6
<1>12. Listed(mem, kernel_malloc_freelist, L, fl)'
  <2>1. PICK hd : hd = kernel_malloc_freelist
    OBVIOUS
  <2>2. Listed(mem, hd, L, fl)
    BY <2>1 DEF Sound
  <2>3. Listed(n, hd, L, fl)
    BY <1>8, <2>2, ListedSame
  <2> QED BY <1>1, <1>2, <2>1, <2>3
<1>13. CountInv(L)' /\ CursorInv(L, fl)'
  <2>1. LiveInv /\ CountInv(L)
    BY DEF Sound
  <2>2. Cardinality(DOMAIN live) \in Nat /\ calls \in Nat
    BY <2>1, LiveSize, HeapAssumption DEF LiveInv
  <2> QED BY <1>2, <1>3, <2>1, <2>2 DEF CountInv, Pending, CursorInv
<1> QED BY <1>9, <1>10, <1>11, <1>12, <1>13 DEF Sound

(* Block j of the list is replaced by f, which takes over its link.        *)
Relinked(m, n, L, fl, j, f) ==
  /\ NextAt(n, f) = NextAt(m, fl[j])
  /\ \A i \in 1..L : i # j /\ i # j - 1 => NextAt(n, fl[i]) = NextAt(m, fl[i])
  /\ \A i \in 1..L : i = j - 1 => NextAt(n, fl[i]) = f
Replaced(head, front, fl, gl, j, f) ==
  (j = 1 => front = f) /\ (j # 1 => front = head) /\ gl = [fl EXCEPT ![j] = f]

LEMMA ListedReplace ==
  ASSUME NEW m, NEW n, NEW head, NEW L, NEW fl, Listed(m, head, L, fl), NEW j \in 1..L,
         NEW f \in Nat, f \notin OnList(L, fl), Relinked(m, n, L, fl, j, f),
         NEW front, NEW gl, Replaced(head, front, fl, gl, j, f)
  PROVE  /\ Listed(n, front, L, gl)
         /\ OnList(L, gl) = (OnList(L, fl) \ {fl[j]}) \cup {f}
<1>1. L \in Nat /\ fl \in [1..L -> Nat] /\ gl \in [1..L -> Nat] /\ gl[j] = f
      /\ \A i \in 1..L : i # j => gl[i] = fl[i]
  BY DEF Listed, Replaced
<1>2. \A i, k \in 1..L : fl[i] = fl[k] => i = k
  BY DEF Listed
<1>3. \A i \in 1..L : fl[i] # f
  BY DEF OnList
<1>4. \A i : At(L, gl, i) = IF i = j THEN f ELSE At(L, fl, i)
  BY <1>1 DEF At
<1>5. front = At(L, gl, 1)
  BY <1>4 DEF Listed, Replaced
<1>6. ASSUME NEW i \in 1..L PROVE NextAt(n, gl[i]) = At(L, gl, i + 1)
  <2>1. NextAt(m, fl[i]) = At(L, fl, i + 1)
    BY DEF Listed
  <2>2. CASE i = j
    <3>1. i + 1 # j
      BY <2>2
    <3> QED BY <1>1, <1>4, <2>1, <2>2, <3>1 DEF Relinked
  <2>3. CASE i # j /\ i = j - 1
    <3>1. i + 1 = j
      BY <2>3
    <3> QED BY <1>1, <1>4, <2>3, <3>1 DEF Relinked
  <2>4. CASE i # j /\ i # j - 1
    <3>1. i + 1 # j
      BY <2>4
    <3> QED BY <1>1, <1>4, <2>1, <2>4, <3>1 DEF Relinked
  <2> QED BY <2>2, <2>3, <2>4
<1>7. \A i, k \in 1..L : gl[i] = gl[k] => i = k
  BY <1>1, <1>2, <1>3
<1>8. OnList(L, gl) = (OnList(L, fl) \ {fl[j]}) \cup {f}
  <2>1. \A x \in OnList(L, gl) : x \in (OnList(L, fl) \ {fl[j]}) \cup {f}
    BY <1>1, <1>2 DEF OnList
  <2>2. f \in OnList(L, gl)
    BY <1>1 DEF OnList
  <2>3. \A x \in OnList(L, fl) \ {fl[j]} : x \in OnList(L, gl)
    BY <1>1 DEF OnList
  <2> QED BY <2>1, <2>2, <2>3
<1> QED BY <1>1, <1>5, <1>6, <1>7, <1>8 DEF Listed

(* What MergeBefore writes, with p = NULL when o is the first of the list. *)
MergeWritten(m, n, f, v, x, p) ==
  /\ n \in Memory /\ SizeAt(n, f) = v /\ NextAt(n, f) = x
  /\ p # NULL => NextAt(n, p) = f
  /\ \A b : Header(b) /\ b # f => SizeAt(n, b) = SizeAt(m, b)
  /\ \A b : Header(b) /\ b # f /\ b # p => NextAt(n, b) = NextAt(m, b)

LEMMA MergeBeforeWrites ==
  ASSUME NEW m \in Memory, NEW f, NEW v \in Nat, NEW x \in Nat, NEW p, NEW n, Header(f),
         v < SizeMod, x < SizeMod, p = NULL \/ (Header(p) /\ p # f),
         p = NULL => n = SetNext(SetSize(m, f, v), f, x),
         p # NULL => n = SetNext(SetNext(SetSize(m, f, v), f, x), p, f)
  PROVE  MergeWritten(m, n, f, v, x, p)
<1>1. PICK m1, m2 : m1 = SetSize(m, f, v) /\ m2 = SetNext(m1, f, x)
  OBVIOUS
<1>2. SizeSet(m, m1, f, v)
  BY <1>1, SetSizeIs
<1>3. m1 \in Memory
  BY <1>2 DEF SizeSet
<1>4. NextSet(m1, m2, f, x)
  BY <1>1, <1>3, SetNextIs
<1>5. m2 \in Memory
  BY <1>4 DEF NextSet
<1>6. CASE p = NULL
  BY <1>1, <1>2, <1>4, <1>6 DEF SizeSet, NextSet, MergeWritten
<1>7. CASE p # NULL
  <2>1. n = SetNext(m2, p, f) /\ Header(p) /\ p # f
    BY <1>1, <1>7
  <2>2. f \in Nat /\ f + 16 <= HeapLimit /\ HeapLimit \in Nat /\ HeapLimit < SizeMod
    BY HeapPlace DEF Header
  <2>3. SizeMod \in Nat
    BY HeapPlace
  <2>4. f < SizeMod
    BY <2>2, <2>3
  <2>5. NextSet(m2, n, p, f)
    BY <1>5, <2>1, <2>2, <2>4, SetNextIs
  <2> QED BY <1>2, <1>4, <1>7, <2>1, <2>5 DEF SizeSet, NextSet, MergeWritten
<1> QED BY <1>6, <1>7

LEMMA MergeBeforeStep ==
  ASSUME NEW L, NEW fl, Sound(L, fl), BreakInv, MergeBefore
  PROVE  \E gl : Sound(L, gl)'
<1> DEFINE S == Addrs \cup OnList(L, fl) \cup {freelist}
<1>1. PICK f, o, p, n, v, x : /\ f = freelist /\ o = other /\ p = prev /\ n = mem'
                              /\ v = SizeAt(mem, f) + 16 + SizeAt(mem, o) /\ x = NextAt(mem, o)
  OBVIOUS
<1>20. PICK u : u = Plus(SizeAt(mem, f) + 16, SizeAt(mem, o))
  OBVIOUS
<1>21. /\ pc = "free" /\ pc' = "none" /\ o # NULL /\ Plus(f, SizeAt(mem, f) + 16) = o
       /\ p = NULL => n = SetNext(SetSize(mem, f, u), f, x)
       /\ p # NULL => n = SetNext(SetNext(SetSize(mem, f, u), f, x), p, f)
       /\ kernel_malloc_freelist' = IF p = NULL THEN f ELSE kernel_malloc_freelist
       /\ UNCHANGED <<kernel_heap, live, calls, freed>>
  BY <1>1, <1>20, HeapPlace DEF MergeBefore, Freeing, Before, breakVars, history, SizeOf, SizeAt, NextOf, NextAt
<1>3. /\ mem \in Memory /\ Laid(mem, kernel_heap, S)
      /\ Victim = {f} /\ f \notin Addrs \cup OnList(L, fl) /\ Addrs \cap OnList(L, fl) = {}
      /\ \A a \in Addrs \cup OnList(L, fl) : Header(a) /\ a # NULL
      /\ Header(f) /\ kernel_heap \in Nat /\ L \in Nat
  BY <1>1, <1>21, FreeCursor
<1>4. PICK j \in 1..L : o = fl[j] /\ p = At(L, fl, j - 1)
  BY <1>1, <1>21, FreeCursor
<1>5. f \in S /\ o \in S /\ f # o /\ o \in OnList(L, fl)
  BY <1>1, <1>3, <1>4 DEF OnList
<1>22. f + SizeAt(mem, f) + 16 = o
  <2>1. PICK T : T = S
    OBVIOUS
  <2>2. Plus(f, SizeAt(mem, f) + 16) = f + SizeAt(mem, f) + 16
    BY <1>3, <1>5, <2>1, BlockEnd
  <2> QED BY <1>21, <2>2
<1>6. v \in Nat /\ v < SizeMod
  BY <1>1, <1>22, <1>3, <1>5, MergedSize
<1>23. u = v
  <2>1. PICK T : T = S
    OBVIOUS
  <2>2. SizeAt(mem, o) \in Nat /\ SizeAt(mem, f) \in Nat
    BY <1>3, <1>5, <2>1, BlockEnd
  <2> QED BY <1>1, <1>6, <1>20, <2>2, PlusIs
<1>2. /\ pc = "free" /\ pc' = "none" /\ o # NULL /\ f + SizeAt(mem, f) + 16 = o
      /\ p = NULL => n = SetNext(SetSize(mem, f, v), f, x)
      /\ p # NULL => n = SetNext(SetNext(SetSize(mem, f, v), f, x), p, f)
      /\ kernel_malloc_freelist' = IF p = NULL THEN f ELSE kernel_malloc_freelist
      /\ UNCHANGED <<kernel_heap, live, calls, freed>>
  BY <1>21, <1>22, <1>23
<1>7. Listed(mem, kernel_malloc_freelist, L, fl)
  BY DEF Sound
<1>8. x \in Nat /\ x < SizeMod
  <2>1. x = At(L, fl, j + 1)
    BY <1>1, <1>4, <1>7 DEF Listed
  <2>2. CASE j + 1 \in 1..L
    <3>1. Header(x)
      BY <1>3, <2>1, <2>2 DEF At, OnList
    <3>2. x \in Nat /\ x + 16 <= HeapLimit /\ HeapLimit \in Nat /\ HeapLimit < SizeMod
      BY <3>1, HeapPlace DEF Header
    <3>3. SizeMod \in Nat
      BY HeapPlace
    <3> QED BY <3>2, <3>3
  <2>3. CASE j + 1 \notin 1..L
    BY <2>1, <2>3, HeapPlace DEF At, NULL
  <2> QED BY <2>2, <2>3
<1>9. /\ j = 1 => p = NULL
      /\ j # 1 => j - 1 \in 1..L /\ p = fl[j - 1] /\ p # NULL /\ Header(p) /\ p # f
  <2>1. CASE j = 1
    BY <1>4, <2>1 DEF At
  <2>2. CASE j # 1
    <3>1. j - 1 \in 1..L
      BY <1>3, <2>2
    <3>2. p = fl[j - 1] /\ p \in OnList(L, fl)
      BY <1>4, <3>1 DEF At, OnList
    <3> QED BY <1>3, <2>2, <3>1, <3>2
  <2> QED BY <2>1, <2>2
<1>10. /\ n \in Memory /\ SizeAt(n, f) = v /\ NextAt(n, f) = x
       /\ p # NULL => NextAt(n, p) = f
       /\ \A b : Header(b) /\ b # f => SizeAt(n, b) = SizeAt(mem, b)
       /\ \A b : Header(b) /\ b # f /\ b # p => NextAt(n, b) = NextAt(mem, b)
  <2>1. p = NULL \/ (Header(p) /\ p # f)
    BY <1>9
  <2>2. PICK m \in Memory : m = mem
    BY <1>3
  <2>3. /\ p = NULL => n = SetNext(SetSize(m, f, v), f, x)
        /\ p # NULL => n = SetNext(SetNext(SetSize(m, f, v), f, x), p, f)
    BY <1>2, <2>2
  <2>4. MergeWritten(m, n, f, v, x, p)
    BY <1>3, <1>6, <1>8, <2>1, <2>3, MergeBeforeWrites
  <2> QED BY <2>2, <2>4 DEF MergeWritten
<1>11. PICK gl : gl = [fl EXCEPT ![j] = f]
  OBVIOUS
<1>12. /\ \A i \in 1..L : i # j /\ i # j - 1 => NextAt(n, fl[i]) = NextAt(mem, fl[i])
       /\ \A i \in 1..L : i = j - 1 => NextAt(n, fl[i]) = f
  <2>1. ASSUME NEW i \in 1..L, i # j
        PROVE  (i # j - 1 => NextAt(n, fl[i]) = NextAt(mem, fl[i])) /\ (i = j - 1 => NextAt(n, fl[i]) = f)
    <3>1. fl[i] \in OnList(L, fl) /\ Header(fl[i]) /\ fl[i] # f /\ fl[i] # NULL
      BY <1>3 DEF OnList
    <3>2. CASE i = j - 1
      <4>1. j # 1
        BY <3>2
      <4> QED BY <1>9, <1>10, <3>2, <4>1
    <3>3. CASE i # j - 1
      <4>1. fl[i] # p
        BY <1>7, <1>9, <3>1, <3>3 DEF Listed
      <4> QED BY <1>10, <3>1, <3>3, <4>1
    <3> QED BY <3>2, <3>3
  <2>2. \A i \in 1..L : i = j - 1 => i # j
    OBVIOUS
  <2> QED BY <2>1, <2>2
<1>13. PICK hd, front : hd = kernel_malloc_freelist /\ front = kernel_malloc_freelist'
  OBVIOUS
<1>14. /\ Listed(n, front, L, gl)
       /\ OnList(L, gl) = (OnList(L, fl) \ {o}) \cup {f}
  <2>1. f \in Nat /\ f \notin OnList(L, fl) /\ NextAt(n, f) = NextAt(mem, fl[j]) /\ Listed(mem, hd, L, fl)
    BY <1>1, <1>3, <1>4, <1>7, <1>10, <1>13 DEF Header
  <2>2. Replaced(hd, front, fl, gl, j, f)
    BY <1>2, <1>9, <1>11, <1>13 DEF Replaced
  <2>4. PICK m : m = mem
    OBVIOUS
  <2>5. Relinked(m, n, L, fl, j, f) /\ Listed(m, hd, L, fl)
    BY <1>12, <2>1, <2>4 DEF Relinked
  <2>3. Listed(n, front, L, gl) /\ OnList(L, gl) = (OnList(L, fl) \ {fl[j]}) \cup {f}
    BY <2>1, <2>2, <2>5, ListedReplace
  <2> QED BY <1>4, <2>3
<1>15. Listed(mem, kernel_malloc_freelist, L, gl)'
  BY <1>1, <1>13, <1>14
<1>16. Victim' = {} /\ LiveInv' /\ Addrs' = Addrs
  <2>1. \A a \in Addrs : SizeAt(mem', a) = SizeAt(mem, a)
    BY <1>1, <1>3, <1>10
  <2> QED BY <1>2, <2>1, FreeKeepsLive DEF Victim
<1>17. LaidInv(L, gl)'
  <2>1. PICK T : T = S
    OBVIOUS
  <2>2. \A a \in T \ {f, o} : SizeAt(n, a) = SizeAt(mem, a)
    BY <1>1, <1>3, <1>10, <2>1
  <2>3. Laid(n, kernel_heap, T \ {o})
    BY <1>1, <1>2, <1>3, <1>5, <1>10, <2>1, <2>2, LaidMerge
  <2>4. Addrs' \cup OnList(L, gl) \cup Victim' = T \ {o}
    BY <1>1, <1>3, <1>5, <1>14, <1>16, <2>1
  <2>5. Laid(mem', kernel_heap', Addrs' \cup OnList(L, gl) \cup Victim')
    BY <1>1, <1>2, <2>3, <2>4
  <2> QED BY <1>1, <1>3, <1>10, <1>14, <1>16, <2>5 DEF LaidInv
<1>18. (freed = Space(mem, OnList(L, gl) \cup Victim))'
  <2>1. PICK T : T = OnList(L, fl) \cup {f}
    OBVIOUS
  <2>2. Laid(mem, kernel_heap, T)
    <3>1. T \in SUBSET S
      BY <1>1, <2>1
    <3> QED BY <1>3, <3>1, LaidSame
  <2>3. freed = Space(mem, T)
    BY <1>3, <2>1 DEF Sound
  <2>4. \A a \in T \ {f, o} : SizeAt(n, a) = SizeAt(mem, a)
    BY <1>3, <1>10, <2>1
  <2>5. Space(n, T \ {o}) = Space(mem, T)
    BY <1>1, <1>2, <1>3, <1>5, <1>10, <2>1, <2>2, <2>4, SpaceMerge
  <2>6. OnList(L, gl) \cup Victim' = T \ {o}
    BY <1>5, <1>14, <1>16, <2>1
  <2> QED BY <1>1, <1>2, <2>3, <2>5, <2>6
<1>19. CountInv(L)' /\ CursorInv(L, gl)'
  <2>1. LiveInv /\ CountInv(L)
    BY DEF Sound
  <2>2. Cardinality(DOMAIN live) \in Nat /\ calls \in Nat
    BY <2>1, LiveSize, HeapAssumption DEF LiveInv
  <2> QED BY <1>2, <1>3, <2>1, <2>2 DEF CountInv, Pending, CursorInv
<1> QED BY <1>15, <1>16, <1>17, <1>18, <1>19 DEF Sound

LEMMA HeapStep ==
  ASSUME HeapInv, [HeapNext]_heapVars PROVE HeapInv'
<1>1. BreakInv /\ BreakInv'
  BY BreakStep DEF HeapInv
<1>2. SUFFICES ASSUME ~reused', ~wrapped' PROVE (\E L, fl : Sound(L, fl)')
  BY <1>1 DEF HeapInv
<1>3. CASE UNCHANGED heapVars
  <2>1. PICK L, fl : Sound(L, fl)
    BY <1>2, <1>3 DEF HeapInv, heapVars, history
  <2>2. Sound(L, fl)'
    BY <1>3, <2>1
    DEF Sound, LaidInv, CursorInv, LiveInv, CountInv, Pending, Addrs, Victim, heapVars, breakVars, callVars, history
  <2> QED BY <2>2
<1>4. CASE TakePart \/ TakeWhole
  BY <1>2, <1>4 DEF TakePart, TakeWhole
<1>5. CASE MallocStep /\ ~(TakePart \/ TakeWhole)
  <2>1. ~reused /\ ~wrapped
    <3>1. CASE \E n \in Requests : malloc(n)
      BY <1>1, <1>2, <3>1 DEF malloc, BreakInv
    <3>2. CASE ~\E n \in Requests : malloc(n)
      BY <1>2, <1>5, <3>2
      DEF MallocStep, SearchOn, SearchFaults, SearchEnds, heap_grow, MallocFails, TakeNew, NewFaults, Return, Fault,
          history
    <3> QED BY <3>1, <3>2
  <2>2. PICK L, fl : Sound(L, fl)
    BY <2>1 DEF HeapInv
  <2>3. CASE TakeNew
    BY <1>1, <2>1, <2>2, <2>3, TakeNewStep
  <2>4. CASE (\E n \in Requests : malloc(n)) \/ SearchOn \/ SearchFaults \/ SearchEnds \/ heap_grow \/ MallocFails
            \/ NewFaults
    BY <1>1, <2>2, <2>4, QuietSteps
  <2> QED BY <1>5, <2>3, <2>4 DEF MallocStep
<1>6. CASE FreeStep
  <2>1. ~reused /\ ~wrapped
    <3>1. UNCHANGED <<reused, wrapped>>
      BY <1>6 DEF FreeStep, free, MergeBefore, MergeAfter, FreeOn, FreeFaults, FreePush, Fault, history
    <3> QED BY <1>2, <3>1
  <2>2. PICK L, fl : Sound(L, fl)
    BY <2>1 DEF HeapInv
  <2>3. CASE \E i \in DOMAIN live : free(i)
    BY <1>1, <2>2, <2>3, FreeStarts
  <2>4. CASE MergeBefore
    BY <1>1, <2>2, <2>4, MergeBeforeStep
  <2>5. CASE MergeAfter
    BY <1>1, <2>2, <2>5, MergeAfterStep
  <2>6. CASE FreeOn
    BY <1>1, <2>2, <2>6, FreeOnStep
  <2>7. CASE FreeFaults
    <3>1. pc = "free" /\ other # NULL /\ ~Mapped(other)
      BY <2>7 DEF FreeFaults, Freeing
    <3> QED BY <1>1, <2>2, <3>1, FreeCursor
  <2>8. CASE FreePush
    BY <1>1, <2>2, <2>8, FreePushStep
  <2> QED BY <1>6, <2>3, <2>4, <2>5, <2>6, <2>7, <2>8 DEF FreeStep
<1> QED BY <1>3, <1>4, <1>5, <1>6 DEF HeapNext

LEMMA HeapInvariant == HeapSpec => []HeapInv
BY HeapStarts, HeapStep, PTL DEF HeapSpec

(* Whatever is asked for, freed and reused, the break stays between the    *)
(* start of the heap and the end of the mapped pages, and every page that  *)
(* heap_grow took is mapped there, after a request that ran out of pages   *)
(* half way too (malloc and heap_grow of malloc.c).                        *)
THEOREM BreakStaysMapped == HeapSpec => []BreakMapped
<1>1. HeapInv => BreakMapped
  BY DEF HeapInv, BreakInv
<1> QED BY <1>1, HeapInvariant, PTL

LEMMA SoundBlocks ==
  ASSUME NEW L, NEW fl, Sound(L, fl), BreakInv
  PROVE  SoundUntilReuse
<1>1. LiveInv
  BY DEF Sound
<1>2. ASSUME NEW i \in DOMAIN live
      PROVE  /\ live[i].addr \in Nat /\ live[i].addr % 16 = 0 /\ live[i].size \in Nat
             /\ SizeAt(mem, live[i].addr) = live[i].size /\ SizeOf(live[i].addr) = live[i].size
             /\ kernel_heap_start <= live[i].addr /\ live[i].addr + 16 + live[i].size <= kernel_heap
  <2>1. SizeAt(mem, live[i].addr) = live[i].size /\ SizeOf(live[i].addr) = SizeAt(mem, live[i].addr)
    BY <1>1 DEF LiveInv, SizeOf, SizeAt
  <2>2. BlockAt(mem, kernel_heap, live[i].addr)
    BY DEF Sound, LaidInv, Laid, Addrs
  <2> QED BY <2>1, <2>2 DEF BlockAt, Header
<1>3. ASSUME NEW i \in DOMAIN live, NEW j \in DOMAIN live, i # j PROVE Extent(i) \cap Extent(j) = {}
  <2>1. PICK a, b, m : a = live[i].addr /\ b = live[j].addr /\ m = mem
    OBVIOUS
  <2>2. a # b
    BY <1>1, <1>3, <2>1 DEF LiveInv
  <2>3. ApartAt(m, a, b)
    BY <2>1, <2>2 DEF Sound, LaidInv, Laid, Addrs
  <2>4. a \in Nat /\ b \in Nat /\ SizeAt(m, a) \in Nat /\ SizeAt(m, b) \in Nat
    BY <1>2, <2>1
  <2>5. Bytes(a, SizeAt(m, a)) \cap Bytes(b, SizeAt(m, b)) = {}
    BY <2>3, <2>4, ApartBytes
  <2> QED BY <1>2, <2>1, <2>5 DEF Extent
<1>4. ASSUME NEW i \in DOMAIN live PROVE Extent(i) \subseteq kernel_heap_start..kernel_heap - 1
  <2>1. PICK a \in Nat, s \in Nat : a = live[i].addr /\ s = live[i].size
    BY <1>2
  <2>2. kernel_heap_start <= a /\ a + 16 + s <= kernel_heap /\ kernel_heap \in Nat /\ kernel_heap_start \in Nat
    BY <1>2, <2>1, HeapPlace DEF BreakInv
  <2>3. a..a + 16 + s - 1 \subseteq kernel_heap_start..kernel_heap - 1
    BY <2>2
  <2> QED BY <2>1, <2>3, HeapPlace DEF Extent, Bytes
<1> QED BY <1>2, <1>3, <1>4 DEF SoundUntilReuse, BlocksDisjoint, HeadersKept

(* Until malloc takes a block off the free list or is asked for a size     *)
(* that wraps around, whatever was allocated, freed and merged: no two     *)
(* blocks in use overlap, their headers still hold the size they were      *)
(* given, and each is aligned and below the break (malloc, free and the    *)
(* merging loop of free in malloc.c).                                      *)
THEOREM HeapSoundUntilReuse == HeapSpec => []SoundUntilReuse
<1>1. HeapInv => SoundUntilReuse
  <2> SUFFICES ASSUME HeapInv PROVE SoundUntilReuse
    OBVIOUS
  <2>1. CASE reused \/ wrapped
    BY <2>1 DEF SoundUntilReuse
  <2>2. CASE ~reused /\ ~wrapped
    BY <2>2, SoundBlocks DEF HeapInv
  <2> QED BY <2>1, <2>2
<1> QED BY <1>1, HeapInvariant, PTL

-----------------------------------------------------------------------------
(* The blocks that the free list reaches: FreeBlocks follows the links, n  *)
(* of them in chain[n], which is the first n + 1 blocks of the list.       *)
ChainBody(f) ==
  [n \in 0..MaxCalls |->
     IF n = 0 THEN {kernel_malloc_freelist} \ {NULL}
     ELSE f[n - 1] \cup ({NextOf(a) : a \in f[n - 1]} \ {NULL})]
Chain == CHOOSE f : f = ChainBody(f)

LEMMA FreeBlocksIs == FreeBlocks = Chain[MaxCalls]
BY Zenon DEF FreeBlocks, Chain, ChainBody

LEMMA ChainUnique ==
  ASSUME NEW f, NEW g, f = ChainBody(f), g = ChainBody(g) PROVE f = g
<1> DEFINE Link(s) == s \cup ({NextOf(a) : a \in s} \ {NULL})
           First   == {kernel_malloc_freelist} \ {NULL}
<1>1. \A n \in 0..MaxCalls : f[n] = IF n = 0 THEN First ELSE Link(f[n - 1])
  BY Zenon DEF ChainBody
<1>2. \A n \in 0..MaxCalls : g[n] = IF n = 0 THEN First ELSE Link(g[n - 1])
  BY Zenon DEF ChainBody
<1>3. /\ 0 \in 0..MaxCalls /\ f[0] = g[0]
      /\ \A n \in 0..MaxCalls : n # 0 /\ f[n - 1] = g[n - 1] => f[n] = g[n]
  <2>1. 0 \in 0..MaxCalls
    BY HeapAssumption
  <2> HIDE DEF Link, First
  <2> QED BY <1>1, <1>2, <2>1
<1> HIDE DEF Link, First
<1>4. \A n \in 0..MaxCalls : f[n] = g[n]
  <2> DEFINE D == {n \in 0..MaxCalls : f[n] # g[n]}
  <2> SUFFICES ASSUME D # {} PROVE FALSE
    OBVIOUS
  <2>1. D \in SUBSET Nat
    BY HeapAssumption
  <2>2. PICK x \in D : \A y \in D : x <= y
    BY <2>1, LeastExists
  <2>3. x # 0 /\ x \in 0..MaxCalls /\ f[x] # g[x]
    BY <1>3
  <2>4. x - 1 \in 0..MaxCalls /\ x - 1 \notin D
    <3>1. x \in Nat /\ MaxCalls \in Nat /\ x # 0 /\ x <= MaxCalls
      BY <2>1, <2>3, HeapAssumption
    <3>2. x - 1 \in 0..MaxCalls /\ ~(x <= x - 1)
      BY <3>1
    <3> HIDE DEF D
    <3> QED BY <2>2, <3>2
  <2> QED BY <1>3, <2>3, <2>4
<1> QED BY <1>4, Zenon DEF ChainBody

LEMMA FreeBlocksAre ==
  ASSUME NEW L, NEW fl, Sound(L, fl), pc # "free", \A a \in OnList(L, fl) : a # NULL
  PROVE  FreeBlocks = OnList(L, fl)
<1> DEFINE G(n) == {fl[i] : i \in {k \in 1..L : k <= n + 1}}
           g == [n \in 0..MaxCalls |-> G(n)]
<1>1. Listed(mem, kernel_malloc_freelist, L, fl) /\ L \in Nat /\ MaxCalls \in Nat
  BY HeapAssumption DEF Sound, Listed
<1>2. \A i \in 1..L : fl[i] # NULL /\ NextOf(fl[i]) = At(L, fl, i + 1)
  BY <1>1 DEF OnList, Listed, NextOf, NextAt
<1>3. {kernel_malloc_freelist} \ {NULL} = G(0)
  <2>1. kernel_malloc_freelist = At(L, fl, 1)
    BY <1>1 DEF Listed
  <2>2. {k \in 1..L : k <= 0 + 1} = IF 1 \in 1..L THEN {1} ELSE {}
    BY <1>1
  <2>3. CASE 1 \in 1..L
    <3>1. G(0) = {fl[1]} /\ kernel_malloc_freelist = fl[1] /\ fl[1] # NULL
      BY <1>2, <2>1, <2>2, <2>3 DEF At
    <3> QED BY <3>1
  <2>4. CASE 1 \notin 1..L
    <3>1. G(0) = {} /\ kernel_malloc_freelist = NULL
      BY <2>1, <2>2, <2>4 DEF At
    <3> QED BY <3>1
  <2> QED BY <2>3, <2>4
<1>4. ASSUME NEW n \in 0..MaxCalls, n # 0
      PROVE  G(n) = G(n - 1) \cup ({NextOf(a) : a \in G(n - 1)} \ {NULL})
  <2>1. ASSUME NEW x \in G(n) PROVE x \in G(n - 1) \cup ({NextOf(a) : a \in G(n - 1)} \ {NULL})
    <3>1. PICK i \in 1..L : x = fl[i] /\ i <= n + 1
      OBVIOUS
    <3>2. CASE i <= n
      <4>1. i <= (n - 1) + 1
        BY <3>2
      <4> QED BY <3>1, <4>1
    <3>3. CASE i = n + 1
      <4>1. n \in 1..L /\ n <= (n - 1) + 1
        BY <1>1, <1>4, <3>3
      <4>2. NextOf(fl[n]) = x /\ x # NULL /\ fl[n] \in G(n - 1)
        BY <1>2, <3>1, <3>3, <4>1 DEF At
      <4> QED BY <4>2
    <3> QED BY <3>1, <3>2, <3>3
  <2>2. ASSUME NEW x \in G(n - 1) PROVE x \in G(n)
    <3>1. PICK i \in 1..L : x = fl[i] /\ i <= (n - 1) + 1
      OBVIOUS
    <3>2. i <= n + 1
      BY <3>1
    <3> QED BY <3>1, <3>2
  <2>3. ASSUME NEW x \in {NextOf(a) : a \in G(n - 1)} \ {NULL} PROVE x \in G(n)
    <3>1. PICK i \in 1..L : x = NextOf(fl[i]) /\ i <= (n - 1) + 1
      OBVIOUS
    <3>2. x = At(L, fl, i + 1) /\ x # NULL
      BY <1>2, <3>1
    <3>3. i + 1 \in 1..L /\ x = fl[i + 1]
      BY <3>2 DEF At
    <3>4. i + 1 <= n + 1
      BY <3>1
    <3> QED BY <3>3, <3>4
  <2> QED BY <2>1, <2>2, <2>3
<1>5. g = ChainBody(g)
  <2>1. \A n \in 0..MaxCalls : g[n] = G(n)
    OBVIOUS
  <2>2. \A n \in 0..MaxCalls : n # 0 => n - 1 \in 0..MaxCalls
    BY <1>1
  <2>3. \A n \in 0..MaxCalls :
          G(n) = IF n = 0 THEN {kernel_malloc_freelist} \ {NULL}
                 ELSE g[n - 1] \cup ({NextOf(a) : a \in g[n - 1]} \ {NULL})
    <3>1. ASSUME NEW n \in 0..MaxCalls, n = 0 PROVE G(n) = {kernel_malloc_freelist} \ {NULL}
      BY <1>3, <3>1
    <3>2. ASSUME NEW n \in 0..MaxCalls, n # 0
          PROVE  G(n) = g[n - 1] \cup ({NextOf(a) : a \in g[n - 1]} \ {NULL})
      <4>1. g[n - 1] = G(n - 1)
        BY <2>1, <2>2, <3>2
      <4> HIDE DEF G, g
      <4> QED BY <1>4, <3>2, <4>1
    <3> HIDE DEF G, g
    <3> QED BY <3>1, <3>2
  <2> HIDE DEF G
  <2> QED BY <2>3, Zenon DEF ChainBody
<1>6. Chain = ChainBody(Chain)
  <2> HIDE DEF g
  <2> QED BY <1>5, Zenon DEF Chain
<1>7. Chain = g
  <2> HIDE DEF g
  <2> QED BY <1>5, <1>6, ChainUnique
<1>8. G(MaxCalls) = OnList(L, fl)
  <2>1. L <= MaxCalls
    <3>1. LiveInv /\ CountInv(L)
      BY DEF Sound
    <3>2. Cardinality(DOMAIN live) \in Nat /\ calls \in 0..MaxCalls
      BY <3>1, LiveSize DEF LiveInv
    <3> QED BY <1>1, <3>1, <3>2 DEF CountInv, Pending
  <2>2. {k \in 1..L : k <= MaxCalls + 1} = 1..L
    BY <1>1, <2>1
  <2> QED BY <2>2 DEF OnList
<1>9. g[MaxCalls] = G(MaxCalls)
  BY <1>1
<1> HIDE DEF g, G
<1> QED BY <1>7, <1>8, <1>9, FreeBlocksIs

LEMMA ExactList ==
  ASSUME NEW L, NEW fl, Sound(L, fl), BreakInv
  PROVE  FreeListExact
<1> SUFFICES ASSUME pc \in {"none", "search", "heap"}
             PROVE  /\ UNION {Bytes(a, SizeOf(a)) : a \in FreeBlocks} = freed
                    /\ \A a, b \in FreeBlocks :
                         a # b => Bytes(a, SizeOf(a)) \cap Bytes(b, SizeOf(b)) = {}
  BY DEF FreeListExact
<1>1. Laid(mem, kernel_heap, Addrs \cup OnList(L, fl) \cup Victim) /\ Victim = {}
  BY DEF Sound, LaidInv, Victim
<1>2. \A a \in OnList(L, fl) : a \in Nat /\ a # NULL /\ SizeAt(mem, a) \in Nat
  BY <1>1, HeapPlace DEF Laid, BlockAt, Header, NULL
<1>3. FreeBlocks = OnList(L, fl)
  BY <1>2, FreeBlocksAre
<1>4. \A a : SizeOf(a) = SizeAt(mem, a)
  BY DEF SizeOf, SizeAt
<1>5. UNION {Bytes(a, SizeOf(a)) : a \in FreeBlocks} = freed
  <2>1. freed = Space(mem, OnList(L, fl))
    BY <1>1 DEF Sound
  <2> QED BY <1>3, <1>4, <2>1 DEF Space
<1>6. ASSUME NEW a \in FreeBlocks, NEW b \in FreeBlocks, a # b
      PROVE  Bytes(a, SizeOf(a)) \cap Bytes(b, SizeOf(b)) = {}
  <2>1. PICK m : m = mem
    OBVIOUS
  <2>2. ApartAt(m, a, b)
    BY <1>1, <1>3, <1>6, <2>1 DEF Laid
  <2>3. a \in Nat /\ b \in Nat /\ SizeAt(m, a) \in Nat /\ SizeAt(m, b) \in Nat
    BY <1>2, <1>3, <2>1
  <2>4. Bytes(a, SizeAt(m, a)) \cap Bytes(b, SizeAt(m, b)) = {}
    BY <2>2, <2>3, ApartBytes
  <2> QED BY <1>4, <2>1, <2>4
<1> QED BY <1>5, <1>6

(* Until then the free list reaches exactly the memory that was freed and  *)
(* reaches none of it twice, however the blocks were merged: free loses no *)
(* block and duplicates none (the loop over kernel_malloc_freelist in      *)
(* free, malloc.c).                                                        *)
THEOREM FreeListHoldsFreed == HeapSpec => []FreeListExact
<1>1. HeapInv => FreeListExact
  <2> SUFFICES ASSUME HeapInv PROVE FreeListExact
    OBVIOUS
  <2>1. CASE reused \/ wrapped
    BY <2>1 DEF FreeListExact
  <2>2. CASE ~reused /\ ~wrapped
    BY <2>2, ExactList DEF HeapInv
  <2> QED BY <2>1, <2>2
<1> QED BY <1>1, HeapInvariant, PTL
=============================================================================
