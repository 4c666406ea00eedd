\* The boot thread, the idle thread and kash; fewer events than ring slots, and
\* no tick after jiffies = 3.
CONSTANTS
  NULL = NULL
  Main = main
  Idle = idle
  Tasks = {main, idle, kash}
  Queues = {timer_queue, key_wait_queue}
  TimerQueue = timer_queue
  HZ = 200
  JiffiesMod = 4
  Wraps = FALSE
  U64Mod = 65536
  Durations = {6}
  ElapsedMax = 2
  KeyQueue = key_wait_queue
  Readers = {kash}
  KEY_RING_SIZE = 3
  Keys = {30}
  plain_map = {30}
  shift_map = {30}
  altgr_map = {}
  MaxEvents = 2
  MaxPending = 2
SPECIFICATION Spec
PROPERTIES ImplementsScheduler SleepReturns KeyDelivered
