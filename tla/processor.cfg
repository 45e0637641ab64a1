CONSTANTS
  bad = bad
  worse = worse
  m1 = m1
  Message <- MCMessage
  Partition <- MCPartition
  Key <- MCKey
  keyOf <- MCKeyOf
  partitionOf <- MCPartitionOf
  Unencodable <- MCUnencodable
  BufferSize = 2
  BatchSize = 2
  MaxBatches = 3
SPECIFICATION FairSpec
CHECK_DEADLOCK FALSE
INVARIANT NothingVanishes
PROPERTIES ImplementsDelivery AcceptedMessagesLeave StopReturns
