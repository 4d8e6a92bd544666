CONSTANTS
  test = test
  testfile = testfile
  data = data
  c1 = c1
  c2 = c2
  NoKey = NoKey
  NoBlock = NoBlock
  Keys = {test, testfile, data}
  PathPrefix <- MCPathPrefix
  Clients = {c1, c2}
  CACHE_BLOCK_NUMBER = 3
  MAX_WORKQUEUE_SIZE = 4
  Ops = {"READ", "WRITE", "OVERWRITE"}
  IOFaults = FALSE
SPECIFICATION Spec
INVARIANT HitIsStable
PROPERTY MissIsPromoted
