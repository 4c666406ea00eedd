\* The boot thread, the idle thread and two more, on the two queues of the
\* kernel (timer_queue and key_wait_queue).
CONSTANTS
  NULL = NULL
  Main = main
  Idle = idle
  w1 = w1
  w2 = w2
  Tasks = {main, idle, w1, w2}
  Queues = {timer_queue, key_wait_queue}
SPECIFICATION SchedSpec
SYMMETRY Symmetry
INVARIANTS
  OneRing
  QueuesHoldSleepers
  NeverLinkedTwice
  RemovalTerminates
  LocksNeverSpin
  YieldFindsTask
  SchedInv
PROPERTIES SwitchToAwake ImplementsThreads
