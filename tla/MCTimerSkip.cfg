CONSTANTS
  WheelSize <- TwoWheels
  Task = {t1}
  Ratio = {1}
  InitRatio = 1
  MaxDelay = 7
  MaxTick = 12
  CallInTick = FALSE
SPECIFICATION Spec
INVARIANTS
  NotLate
CHECK_DEADLOCK FALSE
