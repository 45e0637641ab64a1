SPECIFICATION FairSpec
CONSTANTS
  Worker <- MCWorker
  Caller = {}
  DeviceCount = 1
  SensorCount = 2
  TaskQueueSize = 1
  BufferSize = 2
  BatchSize = 2
  MaxMessages = 3
  MaxStarts = 1
CHECK_DEADLOCK FALSE
PROPERTIES StopReturns MessagesLeave
