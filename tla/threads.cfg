SPECIFICATION Spec
CONSTANTS
  a = a
  b = b
  Idle = idle
  Thread = {a, b, idle}
  RT_THREAD_PRIORITY_MAX = 3
  InitPriority <- MCInitPriority
  InitTick <- MCInitTick
  WaitList = {}
  Defunct = Defunct
  Wild = Wild
  Static = {a, idle}
  Cleanup = {}
  Boot = {b, idle}
  Controllers = {a, b}
  Unlocked = {}
  Reschedule = TRUE
  EndUnstarted = FALSE
  Garbage = {{}, {1}}
  Delays = {0, 2}
  MaxLock = 2
INVARIANTS TypeOK KernelConsistent TimeoutsOnTime HighestRuns
PROPERTIES SwitchesToReady EndedStaysEnded
