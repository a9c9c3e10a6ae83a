SPECIFICATION FairSpec
CONSTANTS
  Table = {t1, t2}
  NoTx = noTx
  NoTable = noTable
  Main = main
  NoOne = noOne
  Settings = {TRUE}
  Switches = {FALSE}
  MaxOps = 2
  MaxHoles = 1
CONSTRAINT InFixedOrder
PROPERTY
  CommitReturns
INVARIANTS
  TypeOK
  WorkersHaveTheirTx
  CommitIsPrepared
  AppliedWhole
  CleanIsLast
CHECK_DEADLOCK FALSE
