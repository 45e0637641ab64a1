SPECIFICATION FairSpec
CONSTANTS
  Client <- MCClient
  Kind <- MCKind
  Pusher <- MCPusher
  WorkerCount = 1
  QueueSize = 1
  BufferSize = 1
  PushRetries = 1
CHECK_DEADLOCK FALSE
INVARIANT HeldOpenOrClosed
PROPERTIES DeadClientsRemoved StopCompletes
