\* The kernel: one region, an image that ends inside a page.
CONSTANTS
  PageSize = 4
  WordBits = 2
  BitmapBits = 8
  MapSize = 3
  AddressMod = 128
  LowMemory = 16
  FirmwareMaps <- MCFirmwareMaps
  Linked <- NoneLinked
  KernelStart = 16
  KernelEnd = 26
SPECIFICATION Spec
INVARIANTS KernelReserved
