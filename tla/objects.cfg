SPECIFICATION Spec
CONSTANTS
  a = a
  b = b
  c = c
  e = e
  f = f
  i1 = i1
  i2 = i2
  Idle = idle
  Thread = {a, b, c, idle}
  RT_THREAD_PRIORITY_MAX = 3
  InitPriority <- MCInitPriority
  InitTick <- MCInitTick
  Defunct = Defunct
  Wild = Wild
  WaitList = {Ev, MbIn, MbOut, MqOut, Mp, Cp, DqIn, DqOut, PpIn, PpOut}
  Ev = Ev
  Events = {e, f}
  MbIn = MbIn
  MbOut = MbOut
  MbSize = 2
  Mail = {i1, i2}
  MqOut = MqOut
  MqBlocks = {m1, m2}
  Message = {i1, i2}
  Mp = Mp
  Blocks = {b1, b2}
  Cp = Cp
  Works = {i1, i2}
  DqIn = DqIn
  DqOut = DqOut
  DqSize = 2
  DqLwm = 1
  Item = {i1, i2}
  PpIn = PpIn
  PpOut = PpOut
  RbSize = 3
  Byte = {0}
  Junk = Junk
  Datas <- MCDatas
  Lengths = {1, 2, 4}
  AnyForce = FALSE
  Soft = {i1, i2}
  SoftTime <- MCSoftTime
  SoftPeriodic = {i1}
  Uses <- MCUses
INVARIANTS Undisturbed  NoLostWakeup NobodyForgotten BlocksConserved 
PROPERTIES EvDelivered StCallsLinked QueuesImplement
