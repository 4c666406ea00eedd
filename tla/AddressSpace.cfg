\* Tables of 9 entries, pages of 4 bytes.  Slot 2 has low memory, the image and
\* the start of the heap, slot 3 more heap, slots 4 to 6 the MMIO window, slot 8
\* the directory.  The image ends inside page 4 or behind it; memory ends too
\* early for the tables, or leaves enough pages for the heap to reach slot 3.
CONSTANTS
  Entries = 9
  PageSize = 4
  KernelSlot = 2
  MmioSlot = 4
  VgaPage = 0
  KernelStart = 1
  boot_pagedir = 2
  boot_pagetab1 = 3
  KernelEnds = {18, 20}
  MemoryEnds = {5, 8, 12, 17}
  Framebuffers <- MCFramebuffers
  Devices <- MCDevices
SPECIFICATION Spec
INVARIANTS AccessesReach MappingsKept HeapPrivate
PROPERTIES KernelTablesFixed
CHECK_DEADLOCK FALSE
