CONSTANTS
  c1 = c1
  c2 = c2
  c3 = c3
  Client = {c1, c2, c3}
  Id = {c1, c2, c3}
  IdOf <- OwnId
  NoClient = NoClient
  Feed = {"broadcast"}
  MaxConnections = 1
  BufferSize = 1
SPECIFICATION Spec
SYMMETRY Symmetry
CHECK_DEADLOCK FALSE
INVARIANTS HeldOpenOrClosed ConnectionsBounded
