SPECIFICATION Spec
CONSTANTS
  Daemons = {d1, d2}
  Clients = {c1, c2}
  Commands = {"call", "stop", "follow", "crashlist"}
  Fires = {f1}
  MaxPolls = 1
  MaxCrashes = 1
  None = None
SYMMETRY Symmetry
INVARIANTS
  PidFileNamesServer
  SocketLeadsToServer
  CleanExit
  StopLeavesAtMostOne
PROPERTIES
  ImplementsSingleServer
  SocketKeptWhileServing
CHECK_DEADLOCK FALSE
