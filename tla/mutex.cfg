SPECIFICATION Spec
CONSTANTS
  a = a
  b = b
  c = c
  m = m
  Idle = idle
  Thread = {a, b, c, idle}
  RT_THREAD_PRIORITY_MAX = 4
  InitPriority <- MCInitPriority
  InitTick <- MCInitTick
  WaitList = {m, n}
  Mutexes = {m, n}
  Defunct = Defunct
  Wild = Wild
  MaxHeld = 2
  Uses <- MCUses
INVARIANTS Undisturbed BeliefsTrue Inheritance PriorityRestored Preemption
PROPERTIES Implements
