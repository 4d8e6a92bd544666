CONSTANTS
  test = test
  testfile = testfile
  data = data
  log = log
  NoWork = NoWork
  Works <- MCWorks
  MAX_WORKQUEUE_SIZE = 4
SPECIFICATION Spec
INVARIANTS
  TypeOK
  SizeMatchesCursors
  NoDuplicateWork
  PeakedIsHead
PROPERTIES
  FifoSpec
  WorkConsumed
