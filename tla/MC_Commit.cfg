SPECIFICATION Spec
CONSTANTS
  Conn = {c1, c2}
  NoConn = noConn
  Table = {t1, t2}
  TxId = {i1, i2}
  NoId = noId
  NoTx = noTx
  RevertAllowed = FALSE
  CoreRollsBack = TRUE
  MaxTx = 2
  MaxOps = 2
  MaxHoles = 1
  MaxWrites = 3
CONSTRAINT AloneOrOneEach
SYMMETRY Symmetry
INVARIANTS
  LiveTxRegistered
  OkMeansApplied
  OneIdPerTransaction
PROPERTY
  ImplementsAtomicCommit
CHECK_DEADLOCK FALSE
