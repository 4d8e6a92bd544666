CONSTANTS
  PAGE_SIZE = 4
  PagesPerCblock = 4
  BlockSizes = {1, 2, 4}
  CACHE_BLOCK_NUMBER = 2
  PageIndexes <- MCPageIndexes
  OFFSET_MOD = 64
SPECIFICATION Spec
INVARIANT OffsetIsExact
