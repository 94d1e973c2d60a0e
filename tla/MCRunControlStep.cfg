SPECIFICATION SafetySpec
CONSTANTS
  Loops = {l1, l2}
  NoLoop = NoLoop
  MaxTypeAhead = 1
  StepCounts = {1}
  MaxQueue = 1
INVARIANT
  StepDisabledWhileRunning
CHECK_DEADLOCK FALSE
