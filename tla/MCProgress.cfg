SPECIFICATION ProgressSpec
CONSTANT NoBlock = NoBlock
PROPERTIES
  FollowsHead
  CatchUpEnds
  RowsComeEventually
  ImportsEnd
CHECK_DEADLOCK FALSE
