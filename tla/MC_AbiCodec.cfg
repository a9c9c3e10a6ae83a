SPECIFICATION Spec
CONSTANTS
  WordSize = 4
  NullBytes = 1
  KeySize = 2
  ValueSize = 3
  Record <- Rows
  TxId <- Ids
  Addresses <- Commits
  MaxBatch = 2
INVARIANTS
  TypeOK
  ReceivedAsSent
  ReadReturnsWritten
