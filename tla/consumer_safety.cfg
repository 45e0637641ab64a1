SPECIFICATION FairSpec
CONSTANTS
  Partitions = {p1}
  MaxLog = 2
  Logs <- MCLogs
  MaxRetries = 1
  MaxDisruptions = 2
INVARIANT NoneSkipped
PROPERTIES
  ImplementsAtLeastOnce
  StopReturns
  PartitionDrains
