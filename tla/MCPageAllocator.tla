--------------------------- MODULE MCPageAllocator --------------------------
(* Instances of PageAllocator for TLC: pages of 4 bytes, words of 2 bits.  *)
EXTENDS PageAllocator

Entry(a, l, v) == [addr |-> a, length |-> l, available |-> v]

(* Low memory, a hole and up to three regions above LowMemory = 16; memory *)
(* above AddressMod = 128, which loses its high half and is taken for      *)
(* memory at 16; the last map overflows a table of three entries.          *)
MCFirmwareMaps ==
  { << Entry(0, 12, TRUE) >>,
    << Entry(0, 12, TRUE), Entry(16, 26, TRUE) >>,
    << Entry(0, 12, TRUE), Entry(12, 4, FALSE), Entry(16, 100, TRUE) >>,
    << Entry(0, 12, TRUE), Entry(16, 26, TRUE), Entry(144, 152, TRUE) >>,
    << Entry(16, 8, TRUE), Entry(24, 4, FALSE), Entry(28, 16, TRUE), Entry(44, 8, TRUE) >> }

(* The kernel as it is: a single region.                                   *)
NoneLinked == <<>>

(* A second region linked behind, as in test_memory_region.h.              *)
OneLinked == << [base |-> 20, length |-> 5] >>
=============================================================================
