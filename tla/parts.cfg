SPECIFICATION PartsSpec
CONSTANTS
  AlertSet <- MCAlertSet
  Window = 1
  MaxHistory = 3
  MaxNow = 4
  MaxSaves = 3
  MaxPending = 2
  Socket = {"s1", "s2"}
  Claim = {"c1", "c2"}
  Buffer = 1
  MaxDevices = 3
  MaxFailures = 1
  Member = {"m1", "m2"}
  HashBits = 5
  DlqSize = 2
  Ttl = 2
  MaxMembers = 1
  MaxSecond = 3
  MaxFailed = 5
  Caller = {c1, c2, c3}
  MaxSize = 2
  MaxClients = 4
  Requester = {"v1", "v2"}
  Workers = 2
  QueueSize = 1
  CacheKey = {1, 2, 3}
  CacheSize = 2
  CacheTtl = 1
  MaxTasks = 4
  MaxCacheNow = 3
  Sender = {"p1", "p2"}
  Closer = {"x1", "x2"}
  Device = {"d1", "d2"}
  SendBuffer = 1
  MaxMessages = 3
  Second = 2
  Rates = {1, 3}
  IntBits = 4
  HistorySize = 3
  Enough = 2
  Loads = {1, 11, 15, 20}
  PartitionCounts = {2, 3}
  StickyBatch = 2
  MaxTick = 7
  MaxPartitioned = 10
  Retrier = {"r1", "r2"}
  Claimer = {"b1", "b2"}
  MaxRetries = 4
  BaseDelay = 2
  MaxDelay = 5
  MaxDelays = {3, 5}
  DurationBits = 5
  Threshold = 2
  Successes = 2
  MaxErrors = 8
SYMMETRY Symmetry
INVARIANTS
  ClientsAccounted
  OvershootBounded
  AlertsAreAccounted
  LoneSaveIsLoaded
  OnlyRacesPanic
  RoundsAreWhole
  RoutingKeepsTrack
  ValidationHolds
  ClientHolds
  ThrottlingHolds
  ErrorsAreCounted
CHECK_DEADLOCK FALSE
