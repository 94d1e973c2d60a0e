SPECIFICATION MCSpec
CONSTANTS
  Loops = {l1, l2, l3}
  NoLoop = NoLoop
  MaxTypeAhead = 1
  StepCounts = {2}
  MaxQueue = 1
SYMMETRY Symmetry
INVARIANTS
  OneMachineUser
  NoOrphan
  ControlsTrackLoop
  ControlsSettle
  TraceShown
CHECK_DEADLOCK FALSE
