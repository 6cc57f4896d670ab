SPECIFICATION Spec
CONSTANTS
  Devices = {A}
  Subs = {s1}
  MaxStarts = 2
  MaxMessages = 2
  ChanCap = 1
  SubCap = 2
  BufferSize = 2
  DefaultN = 1
  None = None
INVARIANTS
  OneLiveCapture
  NoGap
  SubscriberOrder
CHECK_DEADLOCK FALSE
