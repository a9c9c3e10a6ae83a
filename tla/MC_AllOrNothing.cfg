SPECIFICATION Spec
CONSTANTS
  Conn = {c1}
  NoConn = noConn
  Table = {t1, t2}
  TxId = {i1}
  NoId = noId
  NoTx = noTx
  RevertAllowed = TRUE
  CoreRollsBack = TRUE
  MaxTx = 1
  MaxOps = 1
  MaxHoles = 1
  MaxWrites = 2
CONSTRAINT FewWrites
SYMMETRY Symmetry
INVARIANT
  AllOrNothing
CHECK_DEADLOCK FALSE
