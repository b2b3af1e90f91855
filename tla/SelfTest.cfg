\* Three tests in a row, of boot and shell, three timer events and one command of
\* the HPPS link.
CONSTANTS
  MaxTests = 3
  NumEvents = 3
  Skew = 1
  OtherCmds = 1
SPECIFICATION FairSpec
INVARIANTS
  TypeOK
  ContextsAlive
  
PROPERTIES
  TestsEnd
