SPECIFICATION Spec
CONSTANTS
  o = o
  p = p
  q = q
  Timer = {o, p, q}
  Managed = {o, p}
  Kinds <- MCKinds
  Times <- MCTimes
  Levels = 2
  RT_TICK_MAX = 15
  MaxLate = 1
  AnyCallback = FALSE
INVARIANTS RowsSound FlagTrue
PROPERTIES Implements CheckEnds
