SPECIFICATION Spec
CONSTANTS
  StackSize = 6
  Program <- MCProgram
  ResetVector = 65530
  NmiVector = 30
  IrqVector = 20
  MaxPushed = 7
INVARIANTS
  StackIsLifo
  BreakVisible
  NestingNeedsUnmask
PROPERTIES
  ReturnResumes
  PendingIrqKept
