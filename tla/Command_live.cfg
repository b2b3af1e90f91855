\* Replies time out; a global callback comes and goes as command.h allows.
CONSTANTS
  CMDQ_LEN = 3
  HoldBack = TRUE
  c1 = c1
  c2 = c2
  c3 = c3
  c4 = c4
  Cmds <- MCCmds2
  WithCb = {c1}
  MsgType <- MCMsgType
  Tasks = {t1, t2}
  Producers = {p1}
  Clients = {k1}
  NONE = NONE
  ReplyTimeout = TRUE
SPECIFICATION FairSpec
PROPERTIES
  CommandsServed
  DestroyReturns
