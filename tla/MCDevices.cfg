SPECIFICATION MCSpec
CONSTANTS
  Kind = "6551"
  Guest = "poll"
  BaudDelay = TRUE
  MemoryWindow = TRUE
  MaxTypeAhead = 3
  MaxTyped = 7
  Devices = {"ram", "low", "same", "uart", "long", "rom1", "rom2"}
  NoDevice = "none"
  startOf <- MCStart
  endOf <- MCEnd
  Priorities = {0, 1}
  Roms = {"rom1", "rom2"}
  startAddress = 2
  endAddress = 8
INVARIANTS
  OrderKept
  EchoIsFaithful
  LossReported
  InterruptPending
  RomReplaced
  HighestStartWins
  OffsetInRange
PROPERTY LastKeyReceived
