CONSTANTS
  MaxHeight = 5
  ForkB = 0
  ForkC = 3
  RANGE_SIZE = 2
  MaxGeneration = 20
  PERSIST_DEPTH = 2
  SEAL_DEPTH = 3
  MAX_BLOCK_REORG_HEIGHT = 5
  MaxBatch = 1
  MaxMoves = 2
  MaxFailures = 0
  MaxRestarts = 0
  MaxRequests = 0
  NoBlock = NoBlock
  GenesisPrev = genesis_prev
  Block <- MCBlock
  Height <- MCHeight
  Prev <- MCPrev
  Segments <- MCEmpty
  Metas <- MCEmpty
  InitNodes <- LowNodes
  Moves <- ForwardMove
SPECIFICATION HeadSpec
PROPERTY FollowsHead
