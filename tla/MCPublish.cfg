SPECIFICATION PublishSpec
CONSTANTS
  Exporters = {e1}
  MaxRanges = 2
  MaxTime = 1
  MaxReorgs = 2
  MaxCrashes = 1
  MaxDamages = 1
INVARIANTS
  ReaderIsServed
  RowsDescribeTheirRanges
  RowsMakeAManifest
PROPERTIES
  PublicationRule
CHECK_DEADLOCK FALSE
