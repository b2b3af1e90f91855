\* Two handler tasks, started and destroyed in turn; enough commands to wrap
\* around the ring and to be refused.
CONSTANTS
  CMDQ_LEN = 3
  HoldBack = TRUE
  c1 = c1
  c2 = c2
  c3 = c3
  c4 = c4
  Cmds <- MCCmds4
  WithCb = {c1, c3, c4}
  MsgType <- MCMsgType
  Tasks = {t1, t2}
  Producers = {p1}
  Clients = {}
  NONE = NONE
  ReplyTimeout = TRUE
SPECIFICATION Spec
SYMMETRY MCSymmetry
INVARIANTS
  TypeOK
  SingleHandlerTask
  HandlerOwnsContext
  NoLostWakeup
  QueueHoldsAccepted
PROPERTIES
  DestroyStopsHandler
  QueueSpec
