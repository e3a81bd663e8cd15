SPECIFICATION LiveSpec
CONSTANTS
  a = a
  b = b
  Idle = idle
  Thread = {a, b, idle}
  RT_THREAD_PRIORITY_MAX = 2
  InitPriority <- MCInitPriority
  InitTick <- MCInitTick
  WaitList = {}
  Defunct = Defunct
  Wild = Wild
  Static = {a, idle}
  Cleanup = {}
  Boot = {a, b, idle}
  Controllers = {b}
  Unlocked = {}
  Reschedule = TRUE
  EndUnstarted = FALSE
  Garbage = {{}}
  Delays = {0, 1}
  MaxLock = 1
PROPERTIES RoundRobin TimeoutsHappen
