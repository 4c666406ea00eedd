\* The boot thread, the idle thread and one more; jiffies wraps after 4 ticks.
\* 5 ms are one tick, 6 ms need two.
CONSTANTS
  NULL = NULL
  Main = main
  Idle = idle
  Tasks = {main, idle, w}
  Queues = {timer_queue}
  TimerQueue = timer_queue
  HZ = 200
  JiffiesMod = 4
  Wraps = TRUE
  U64Mod = 65536
  Durations = {0, 5, 6}
  ElapsedMax = 2
SPECIFICATION Spec
INVARIANTS NoOversleeping
PROPERTIES NeverShort
