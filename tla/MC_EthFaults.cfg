SPECIFICATION FairSpec
CONSTANTS
  Thread = {t1, t2}
  NoThread = noThread
  Foreign = foreign
  Hole = hole
  NonceMod = 16
  StartCount = 0
  MaxCalls = 1
  MaxPolls = 2
  MaxUncounted = 1
  MaxLost = 1
  MaxResends = 1
  MaxForeign = 1
  MaxCrashes = 1
INVARIANTS
  TypeOK
  MinedOnce
  NoGap
PROPERTY
  CallReturns
CHECK_DEADLOCK FALSE
