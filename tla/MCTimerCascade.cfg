CONSTANTS
  WheelSize <- TwoWheels
  Task = {t1, t2}
  Ratio = {1, 2}
  InitRatio = 1
  MaxDelay = 9
  MaxTick = 11
  CallInTick = TRUE
SPECIFICATION Spec
INVARIANTS
  SlotMatchesDue
PROPERTIES
  NearTasksArePrompt
CHECK_DEADLOCK FALSE
