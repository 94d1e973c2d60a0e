CONSTANTS
  Keys = {"letter", "F7", "keypad", "cursor", "print", "pause", "shift", "ctrl", "caps", "num"}
  BufferSize = 10
  MaxEvents = 3
  MaxErrors = 1
  MaxRefused = 1
SPECIFICATION Spec
INVARIANTS ModifiersTracked LedsShown
PROPERTIES KeysDelivered ComesBack
CHECK_DEADLOCK FALSE
