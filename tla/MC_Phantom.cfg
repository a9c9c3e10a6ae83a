SPECIFICATION Spec
CONSTANTS
  Key = {k1, k2}
  Value = {v1, zero}
  Zero = zero
  Absent = absent
  Handler = {h1}
  CacheModes = {TRUE}
  CacheTurns = FALSE
  Autocommit = FALSE
  Rescans = {}
  ReadsFail = FALSE
  Reinserts = FALSE
  NoTx = noTx
  NoRow = noRow
  EndOfFile = endOfFile
  Unread = unread
  MaxStmts = 1
SYMMETRY Symmetry
PROPERTY
  NoPhantom
