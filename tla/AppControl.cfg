SPECIFICATION MCSpec
CONSTANTS
  NoAnswer = NoAnswer
  Requests = {r1, r2}
  Kinds = {"launch", "kill", "install", "uninstall", "list", "foreground", "running"}
  Bundles <- MCBundles
  Execs <- MCExecs
  Main <- MCMain
  Matches <- MCMatches
  UserApps <- MCUserApps
  Name <- MCName
  MaxProcs = 2
  Callers = {a, b}
  MaxSessions = 3
  NoSession = NoSession
SYMMETRY Symmetry
INVARIANTS
  OkMeansDone
  FallbackInOrder
  OneSession
CHECK_DEADLOCK FALSE
