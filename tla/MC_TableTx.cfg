SPECIFICATION Spec
CONSTANTS
  Key = {k1, k2}
  Value = {v1, zero}
  Zero = zero
  Absent = absent
  Handler = {h1}
  CacheModes = {TRUE, FALSE}
  CacheTurns = FALSE
  Autocommit = TRUE
  Rescans = {TRUE}
  ReadsFail = TRUE
  Reinserts = FALSE
  NoTx = noTx
  NoRow = noRow
  EndOfFile = endOfFile
  Unread = unread
  MaxStmts = 3
SYMMETRY Symmetry
INVARIANTS
  TypeOK
  OwnWritesRead
  ScanComplete
  PositionsHold
PROPERTIES
  RemovesDeferred
  ScanStartsWithOwnWrites
  ReadsRepeat
  CommitAppliesStatements
