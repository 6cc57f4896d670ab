SPECIFICATION StateSpec
CONSTANTS
  Devices = {A, B}
  Requests = {r1, r2, r3}
  Kinds = {"connect", "disconnect", "restart", "tap", "launch"}
  Observers = {}
  ObserverKinds = {}
  Parallel = 3
  MaxDeaths = 0
  None = None
SYMMETRY Symmetry
INVARIANTS
  StateCoherent
  PortAccounted
  DisconnectedIsClean
  FullModeWorks
  CaptureFollowsSession
  DisconnectEndsCapture
  GuardsHold
CHECK_DEADLOCK FALSE
