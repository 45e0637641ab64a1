SPECIFICATION Spec
CONSTANTS
  Worker <- MCWorker
  Caller <- MCCaller
  DeviceCount = 1
  SensorCount = 2
  TaskQueueSize = 1
  BufferSize = 2
  BatchSize = 2
  MaxMessages = 3
  MaxStarts = 2
CHECK_DEADLOCK FALSE
INVARIANTS OnceAndInOrder FirstRunIsOrderly
PROPERTY ImplementsDelivery
