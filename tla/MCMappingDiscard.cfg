CONSTANTS
  test = test
  testfile = testfile
  data = data
  c1 = c1
  c2 = c2
  NoKey = NoKey
  NoBlock = NoBlock
  Keys = {test, testfile, data}
  PathPrefix <- MCPathPrefix
  Clients = {c1}
  CACHE_BLOCK_NUMBER = 2
  MAX_WORKQUEUE_SIZE = 3
  Ops = {"READ", "WRITE", "OVERWRITE", "DISCARD"}
  IOFaults = TRUE
SPECIFICATION Spec
CHECK_DEADLOCK FALSE
INVARIANTS
  Intact
  UniqueKeys
PROPERTY OnlyInFlightDiscardCorrupts
