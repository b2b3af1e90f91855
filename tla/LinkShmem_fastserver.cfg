\* The reply arrives before the client has polled for the ACK.
CONSTANTS
  MaxRequests = 1
  MaxTrials = 1
  CMDQ_LEN = 2
  PollFirst = TRUE
SPECIFICATION Spec
INVARIANTS
  WokenByAck
