\* Two requests, one of whose waits times out, or one with two timeouts; a
\* reply may come before the ACK has been seen; the links are closed and the
\* server shuts down.
CONSTANTS
  MaxRequests = 2
  MaxTrials = 3
  CMDQ_LEN = 2
  PollFirst = TRUE
SPECIFICATION FairSpec
INVARIANTS
  TypeOK
  WokenByAckOrReply
  ReplyAnswersRequest
  MessageOrAckInFlight
  ClosedUnused
  NoStaleCommands
PROPERTIES
  BufferReturned
  RepliesArrive
  CloseReturns
