CONSTANTS
  Worker = {w1, w2, w3}
  Start = 1
  Target = 7
  source_segment_blocks = 2
  max_batch_bytes = 2
  max_pending_bytes = 6
  MAX_RECORD_BYTES = 2
  RANGE_SIZE = 3
  Faults = {"Source", "Panic", "Parent", "Write"}
  CanStop = TRUE
  Size <- MCSize
SPECIFICATION CatchUpSpec
INVARIANTS
  PassIsExact
  FailureIsReported
  RangeIsCanonical
PROPERTIES
  TailIsTheNodes
SYMMETRY WorkerSymmetry
CHECK_DEADLOCK FALSE
