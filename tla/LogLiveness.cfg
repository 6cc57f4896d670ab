SPECIFICATION FairSpec
CONSTANTS
  Devices = {A}
  Subs = {s1}
  MaxStarts = 1
  MaxMessages = 4
  ChanCap = 1
  SubCap = 1
  BufferSize = 2
  DefaultN = 1
  None = None
INVARIANT StopIsBounded
PROPERTIES
  EntriesReachBuffer
  DrainerEnds
CHECK_DEADLOCK FALSE
