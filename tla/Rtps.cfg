\* Two processors, two commands, every configuration that compiles.
CONSTANTS
  NumCPUs = 2
  RtitIrq = 8
  MaxCmds = 2
  NONE = NONE
SPECIFICATION FairSpec
INVARIANTS
  BootSafe
  ShutdownClean
PROPERTIES
  ShutdownEnds
