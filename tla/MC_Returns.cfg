SPECIFICATION FairSpec
CONSTANTS
  Conn = {c1}
  NoConn = noConn
  Table = {t1, t2}
  TxId = {i1, i2}
  NoId = noId
  NoTx = noTx
  RevertAllowed = TRUE
  CoreRollsBack = FALSE
  MaxTx = 2
  MaxOps = 1
  MaxHoles = 1
  MaxWrites = 2
CONSTRAINT FewWrites
INVARIANTS
  TypeOK
  CommitIsAlone
PROPERTIES
  OrphanedByFailure
  CommitReturns
CHECK_DEADLOCK FALSE
