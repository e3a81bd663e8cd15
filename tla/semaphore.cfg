SPECIFICATION Spec
CONSTANTS
  a = a
  b = b
  c = c
  Idle = idle
  Thread = {a, b, c, idle}
  RT_THREAD_PRIORITY_MAX = 3
  InitPriority <- MCInitPriority
  InitTick <- MCInitTick
  WaitList = {Sem}
  Sem = Sem
  Defunct = Defunct
  Wild = Wild
  InitValue = {1}
  MaxValue = 1
  MaxLock = 2
  Uses <- MCUses
INVARIANTS Undisturbed WaitersInOrder 
PROPERTIES Implements 
