CONSTANTS
  MaxHeight = 5
  ForkB = 0
  ForkC = 3
  RANGE_SIZE = 2
  MaxGeneration = 20
  PERSIST_DEPTH = 2
  SEAL_DEPTH = 3
  MAX_BLOCK_REORG_HEIGHT = 5
  MaxBatch = 1
  MaxMoves = 2
  MaxFailures = 1
  MaxRestarts = 1
  MaxRequests = 1
  NoBlock = NoBlock
  GenesisPrev = genesis_prev
  Block <- MCBlock
  Height <- MCHeight
  Prev <- MCPrev
  Segments <- MCEmpty
  Metas <- MCEmpty
  InitNodes <- MCInitNodes
  Moves <- AnyMove
  CHUNK = 2
  Requests <- MCRequests
  OverflowChecks <- AllBuilds
  Calls = {"tree", "latest", "subtrees", "address", "ids"}
  Keys <- MCKeys
  Completes <- MCCompletes
  TxOf <- MCTxOf
  Ranges <- MCRanges
  BackendRanges <- MCBackendRanges
SPECIFICATION ServingSpec
INVARIANTS
  SnapshotIsSound
  ReaderSeesOneChain
  StreamIsOneWholeChain
  TreeAnswersAreOfOneChain
  AddressAnswersAreWhole
PROPERTIES
  FinalityRule
  StreamFailsOnlyOnReorg
