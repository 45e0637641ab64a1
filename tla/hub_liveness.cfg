CONSTANTS
  c1 = c1
  c2 = c2
  Client = {c1, c2}
  Id = {c1, c2}
  IdOf <- OwnId
  NoClient = NoClient
  Feed = {}
  MaxConnections = 1
  BufferSize = 1
SPECIFICATION FairSpec
CHECK_DEADLOCK FALSE
PROPERTIES DeadClientsRemoved ClosedClientsDrain
