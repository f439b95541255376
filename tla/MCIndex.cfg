CONSTANTS
  MaxHeight = 5
  ForkB = 1
  ForkC = 3
  RANGE_SIZE = 2
  MaxGeneration = 4
  GenesisPrev = genesis_prev
  Block <- MCBlock
  Height <- MCHeight
  Prev <- MCPrev
  Segments <- MCSegments
  Metas <- MCMetas
SPECIFICATION Spec
INVARIANTS
  CoverageRule
  ChainRule
  VerifiedRule
  RangeMetaRule
  StartupChecksPass
PROPERTIES
  ImplementsChainStore
CHECK_DEADLOCK FALSE
