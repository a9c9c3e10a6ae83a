SPECIFICATION Spec
CONSTANTS
  Key = {k1, k2}
  Value = {v1, zero}
  Zero = zero
  Absent = absent
  TxId = {t1}
  NoTx = noTx
  MaxBlock = 2
  MaxBuffer = 3
  MaxBatch = 2
  Batches <- MCBatches
SYMMETRY Symmetry
INVARIANTS
  TypeOK
  KeyListIndexesData
PROPERTY
  ImplementsKVMap
CHECK_DEADLOCK FALSE
