\* Real sizes of the buses; long has 16 bits, so that a speed can be too large.
CONSTANTS
  Machines <- MCMachines
  NDevices = 32
  NFunctions = 8
  CompatBase <- MCCompatBase
  CompatControl <- MCCompatControl
  IRQs = {0, 1}
  JiffiesMod = 4
  LongMod = 65536
  MinLoops = 4096
SPECIFICATION Spec
INVARIANTS EveryFunctionOnce DrivesIdentified ContextKept ReadyWhenUsed Calibrated
PROPERTIES BootEnds
CHECK_DEADLOCK FALSE
