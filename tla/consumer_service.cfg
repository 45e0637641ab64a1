SPECIFICATION FairSpec
CONSTANTS
  Loop = {"r1"}
  Config <- MCConfig
  FirstConfig <- Base
  MaxStarts = 2
  MaxChanges = 2
CHECK_DEADLOCK FALSE
INVARIANTS NoSecondLife ReloadApplied
PROPERTY StopReturns
