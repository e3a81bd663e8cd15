SPECIFICATION LiveSpec
CONSTANTS
  a = a
  b = b
  c = c
  m = m
  Idle = idle
  Thread = {a, b, c, idle}
  RT_THREAD_PRIORITY_MAX = 4
  InitPriority <- MCInitPriority
  InitTick <- MCInitTick
  WaitList = {m}
  Mutexes = {m}
  Defunct = Defunct
  Wild = Wild
  MaxHeld = 1
  Uses <- MCLive
PROPERTIES UrgentServed
