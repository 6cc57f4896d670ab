SPECIFICATION FairSpec
CONSTANTS
  Daemons = {d1}
  Clients = {c1}
  Commands = {"call"}
  Fires = {f1}
  MaxPolls = 1
  MaxCrashes = 0
  None = None
PROPERTY IdleDaemonExits
CHECK_DEADLOCK FALSE
