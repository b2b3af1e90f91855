\* Two processors; the stack slot of events holds no exit bit.
CONSTANTS
  NumCPUs = 2
  Interval = 2
  Timeout = 4
  Delay = 3
  Garbage = {FALSE}
  NONE = NONE
SPECIFICATION FairSpec
INVARIANTS
  KickedInTime
  EnabledIsKicked
  StoppedIsGone
PROPERTIES
  DestroyReturns
