CONSTANTS
  c1 = c1
  c2 = c2
  Call = {c1}
  Timed = {c1}
  Context = {x1}
  CtxOf <- SharedCtx
  ReplyCode <- AllWell
  UserDone = {x1}
  MaxSession = 2
  Beating = {1, 2}
SPECIFICATION FairSpec
INVARIANTS
  NothingToSendAsleep
PROPERTIES
  TimedCallsReturn
  SessionsEnd
CHECK_DEADLOCK FALSE
