CONSTANTS
  Session = {s1, s2, s3}
  MaxSession = 2
  Func = {f1}
  TcpSession = {"a", "b", "c"}
  Endpoint = {"x", "y"}
  NoSession = NoSession
  MaxMsg = 2
  MaxReq = 2
  Path = {"p", "q"}
  MaxHandle = 2
  MaxFile = 1
  SubSecond = FALSE
  Service = {"a", "b"}
  Thread = {"t", "u"}
  MaxTask = 5
SPECIFICATION MCSpec
INVARIANTS
  TypeOK
  PoolBounded
  RunningArePooled
  ServersHold
PROPERTIES
  ServersEnd
  ServersServe
CHECK_DEADLOCK FALSE
