\* Two processors; the stack slot of events may hold anything.
CONSTANTS
  NumCPUs = 2
  Interval = 2
  Timeout = 4
  Delay = 3
  Garbage = {TRUE, FALSE}
  NONE = NONE
SPECIFICATION FairSpec
INVARIANTS
  KickedInTime
