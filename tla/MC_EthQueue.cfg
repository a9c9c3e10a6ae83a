SPECIFICATION Spec
CONSTANTS
  Thread = {t1, t2, t3}
  NoThread = noThread
  Foreign = foreign
  Hole = hole
  NonceMod = 16
  StartCount = 2
  MaxCalls = 2
  MaxPolls = 1
  MaxUncounted = 0
  MaxLost = 1
  MaxResends = 0
  MaxForeign = 0
  MaxCrashes = 0
SYMMETRY Symmetry
INVARIANT
  NoReplacement
PROPERTY
  ImplementsCallQueue
CHECK_DEADLOCK FALSE
