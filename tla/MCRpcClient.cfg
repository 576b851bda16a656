CONSTANTS
  c1 = c1
  c2 = c2
  Call = {c1, c2}
  Timed = {c1}
  Context = {x1}
  CtxOf <- SharedCtx
  ReplyCode <- Mixed
  UserDone = {x1}
  MaxSession = 2
  Beating = {}
SPECIFICATION Spec
INVARIANTS
  ReplyFindsWaiter
  OneRunningSession
  NoSessionAfterStop
PROPERTIES
  ImplementsRpcCalls
CHECK_DEADLOCK FALSE
