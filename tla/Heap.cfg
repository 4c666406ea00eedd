\* Pages of 64 bytes; blocks of two sizes, one of which spans two pages; sizes
\* that wrap around to 0 with the header, and when they are aligned.
CONSTANTS
  PAGE_SIZE = 64
  SizeMod = 1024
  ImageEnd = 40
  Pages = 3
  Requests = {16, 56, 1008, 1020}
  MaxCalls = 4
SPECIFICATION HeapSpec
INVARIANTS BreakMapped SoundUntilReuse FreeListExact
CHECK_DEADLOCK FALSE
