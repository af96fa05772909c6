SPECIFICATION Spec
CONSTANTS
  t1 = t1
  t2 = t2
  Tokens = {t1, t2}
  None = None
  MaxBoots = 2
  MaxMoves = 4
  MaxTurns = 1
  MaxFaults = 1
INVARIANTS
  ScreenTruthful
PROPERTIES
  EndedForCause
  WaitEnds
CHECK_DEADLOCK FALSE
