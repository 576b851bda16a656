CONSTANTS
  WheelSize <- OneWheel
  Task = {t1, t2}
  Ratio = {0, 1, 2}
  InitRatio = 1
  MaxDelay = 3
  MaxTick = 9
  CallInTick = FALSE
SPECIFICATION FairSpec
INVARIANTS
PROPERTIES
  ImplementsPromptTimer
  EveryTaskRuns
  ShutdownJoins
CHECK_DEADLOCK FALSE
