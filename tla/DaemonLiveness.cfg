SPECIFICATION FairSpec
CONSTANTS
  Daemons = {d1}
  Clients = {c1, c2}
  Commands = {"call", "status", "stop", "crashlist"}
  Fires = {f1}
  MaxPolls = 1
  MaxCrashes = 0
  None = None
PROPERTIES
  SignalledDaemonExits
  CommandsFinish
CHECK_DEADLOCK FALSE
