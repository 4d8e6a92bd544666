CONSTANTS
  k1 = k1
  k2 = k2
  c1 = c1
  c2 = c2
  NoKey = NoKey
  NoBlock = NoBlock
  NoData = NoData
  Keys = {k1, k2}
  PathPrefix = {}
  Clients = {c1, c2}
  CACHE_BLOCK_NUMBER = 1
  MAX_WORKQUEUE_SIZE = 2
  Ops = {"READ", "WRITE", "OVERWRITE"}
  IOFaults = TRUE
  MaxWrites = 2
  MaxTrims = 1
  Short = {k1}
SPECIFICATION DataSpec
SYMMETRY MCSymmetry
CHECK_DEADLOCK FALSE
INVARIANTS
  DataTypeOK
  NewReadsValid
  CleanIsInFile
PROPERTY ReadsValid
