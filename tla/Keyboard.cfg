\* The boot thread, the idle thread and kash; a letter and every modifier key;
\* a ring of 2 slots, which 3 events overrun.
CONSTANTS
  NULL = NULL
  Main = main
  Idle = idle
  Tasks = {main, idle, kash}
  Queues = {key_wait_queue}
  KeyQueue = key_wait_queue
  Readers = {kash}
  KEY_RING_SIZE = 2
  Keys = {29, 30, 42, 54, 56, 58, 97, 100}
  plain_map = {30}
  shift_map = {30}
  altgr_map = {}
  MaxEvents = 3
  MaxPending = 2
SPECIFICATION Spec
INVARIANTS FreshKey NoSleepOnKey NoStuckModifier
