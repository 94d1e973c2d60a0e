SPECIFICATION Spec
CONSTANTS
  Loops = {l1, l2}
  NoLoop = NoLoop
  MaxTypeAhead = 1
  StepCounts = {2}
  MaxQueue = 1
CHECK_DEADLOCK FALSE
PROPERTIES
  StopHonoured
