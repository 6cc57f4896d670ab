SPECIFICATION StateSpec
CONSTANTS
  Devices = {A, B}
  Requests = {r1, r2}
  Kinds = {"connect", "disconnect", "restart", "tap", "launch"}
  Observers = {o1}
  ObserverKinds = {"look", "screen", "element", "app"}
  Parallel = 3
  MaxDeaths = 1
  None = None
SYMMETRY Symmetry
INVARIANT EvidenceAgrees
CHECK_DEADLOCK FALSE
