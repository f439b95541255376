SPECIFICATION ImportSpec
CONSTANTS
  Calls = {c1, c2, c3}
  RootHeights = {1, 2}
  CACHE_CAPACITY = 1
INVARIANTS
  OneNodeCallPerHeight
  InstallIsNeverRefused
  ImportIsSound
  
PROPERTIES
  FetchIsExact
CHECK_DEADLOCK FALSE
