SPECIFICATION EndsSpec
INVARIANTS
  DaemonEndsRight
PROPERTIES
  
  HonestEpochIsAccepted
  CallsAndTasksEnd
CHECK_DEADLOCK FALSE
