SPECIFICATION Spec
CONSTANTS
  a = a
  b = b
  Idle = idle
  Thread = {a, b, idle}
  RT_THREAD_PRIORITY_MAX = 3
  InitPriority <- MCInitPriority
  InitTick <- MCInitTick
  WaitList = {}
  Defunct = Defunct
  Wild = Wild
  Static = {a, idle}
  Cleanup = {a}
  Boot = {b, idle}
  Controllers = {b}
  Unlocked = {"startup","suspend","resume","delete","detach"}
  Reschedule = TRUE
  EndUnstarted = FALSE
  Garbage = {{}, {1}}
  Delays = {}
  MaxLock = 2
INVARIANTS HighestRuns 
