\* Callers do not hold back.
CONSTANTS
  CMDQ_LEN = 4
  HoldBack = FALSE
  c1 = c1
  c2 = c2
  c3 = c3
  c4 = c4
  Cmds <- MCCmds4
  WithCb = {c1, c2, c3, c4}
  MsgType <- MCMsgType
  Tasks = {t1}
  Producers = {p1}
  Clients = {}
  NONE = NONE
  ReplyTimeout = TRUE
SPECIFICATION Spec
INVARIANTS
  QueueHoldsAccepted
