\* A server and a client link on channels of their own; the remote owns the
\* client's channels and may get hold of the server's, so that a connect of the
\* server may fail at its first or its second claim.
CONSTANTS
  s = s
  k = k
  f1 = f1
  t1 = t1
  f2 = f2
  t2 = t2
  NONE = NONE
  Chans = {f1, t1, f2, t2}
  Links = {s, k}
  Servers = {s}
  From <- MCFrom
  To <- MCTo
  RemoteChans = {f1, t1, f2, t2}
  MaxMsgs = 3
SPECIFICATION Spec
INVARIANTS
  TypeOK
  ReadInOrder
  AckedWasRead
  OpenLinkHoldsChannels
  InterruptsHandled
  MessageInFlight
  NoCallbackOnFreedLink
