\* A kernel image of one and a half pages at the start of high memory, a
\* second region linked behind the first.
CONSTANTS
  PageSize = 4
  WordBits = 2
  BitmapBits = 8
  MapSize = 3
  AddressMod = 128
  LowMemory = 16
  FirmwareMaps <- MCFirmwareMaps
  Linked <- OneLinked
  KernelStart = 16
  KernelEnd = 26
SPECIFICATION Spec
INVARIANTS BitmapInBounds KernelPagesKept
PROPERTIES ImplementsPagePool
