SPECIFICATION Spec
CONSTANTS
  Conn = {c1}
  Handler = {h1, h2}
  Table = {t1, t2}
  Alias = {a1}
  Configured = {t1, t2}
  Writable = {t1, t2}
  CacheOverflows = FALSE
  NoConn = noConn
  Null = null
  NoAddress = noAddress
  Unlisted = unlisted
PROPERTY
  CommitReachesTables
CHECK_DEADLOCK FALSE
