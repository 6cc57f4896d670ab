SPECIFICATION FairSpec
CONSTANTS
  Starts = {s1, s2}
  Polls = 1
  MaxManagers = 2
  MaxFaults = 1
INVARIANTS
  OneTunnelManager
PROPERTIES
  ImplementsContract
  ConnectsReturn
  NoGoroutineLeft
CHECK_DEADLOCK FALSE
