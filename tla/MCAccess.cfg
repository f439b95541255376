SPECIFICATION AccessSpec
CONSTANTS
  Calls = {send, read}
  UnsentCalls = {send}
  IsCookie = FALSE
  max_retries = 1
  MaxRestarts = 1
INVARIANTS
  UnsentRunsOnce
  AttemptsAreBounded
  
  
PROPERTIES
  MempoolReadIsWhole
  StreamIsOfOneTip
CHECK_DEADLOCK FALSE
