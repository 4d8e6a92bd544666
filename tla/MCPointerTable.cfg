CONSTANTS
  k1 = k1
  k2 = k2
  k3 = k3
  k4 = k4
  c1 = c1
  NoKey = NoKey
  NoBlock = NoBlock
  INDEXER_NULL = INDEXER_NULL
  Keys = {k1, k2, k3, k4}
  PathPrefix <- MCPathPrefix
  Clients = {c1}
  CACHE_BLOCK_NUMBER = 3
  MAX_WORKQUEUE_SIZE = 2
  Ops = {"OVERWRITE", "DISCARD"}
  IOFaults = TRUE
  BUCKETS_NUMBER = 2
  hash_32 <- MCHash
  UINT_MOD = 8
SPECIFICATION Spec
SYMMETRY MCSymmetry
CHECK_DEADLOCK FALSE
INVARIANTS
  TypeOK
  QueuesWellLinked
  ChainsWellFormed
PROPERTY ImplementsMapping
