SPECIFICATION Spec
CONSTANTS
  Conn = {c1, c2}
  Handler = {h1, h2, h3}
  Table = {t1, t2, u}
  Alias = {}
  Configured = {t1, t2}
  Writable = {t1, t2}
  CacheOverflows = FALSE
  NoConn = noConn
  Null = null
  NoAddress = noAddress
  Unlisted = unlisted
SYMMETRY Symmetry
INVARIANTS
  TypeOK
  ConnectorAlive
PROPERTY
  CommitReachesTables
CHECK_DEADLOCK FALSE
