CONSTANTS
  Session = {s1, s2}
  MaxSession = 2
  Func = {f1}
SPECIFICATION Spec
INVARIANTS
  NoSessionOutlivesStop
CHECK_DEADLOCK FALSE
