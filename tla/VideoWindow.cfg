SPECIFICATION Spec
CONSTANTS
  Base = 2
  endAddress = 2
  Sizes = {1, 2}
  ScanLines = {0, 1}
  CursorModes = {0, 2}
  Columns = 2
  Rows = 1
  Lines = 1
  PageStart = 0
  MaxPosted = 1
INVARIANTS
  CanScroll
  WindowFollows
  FrameInBounds
PROPERTY CursorShown
