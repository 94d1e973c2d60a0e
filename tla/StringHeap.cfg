SPECIFICATION MCSpec
CONSTANTS
  Drives = {"A", "B"}
  Disks = {"src", "tgt", "big"}
  NoDisk = "none"
  SourceDisk = "src"
  TargetDisk = "tgt"
  Format <- MCFormat
  Heaps = {2, 3, 9}
  WordBase = 8
  MAX_CHUNKS = 3
  NumOverlays = 3
  AreaSize = 5
  Size <- MCSize
  EM_PAGE_SIZE = 2
  PageCounts = {0, 2, 3, 6}
  Voices = {1, 2, 3}
  Tune <- MCTune
  TICKS_PER_TONE = 2
  ByteBase = 8
  C128 = TRUE
  Dirs = {"start", "root1", "root2", "a", "b", "c", "d", "e", "f"}
  Start = "start"
  Devices <- MCDevices
  Subdirs <- MCSubdirs
  COUNT = 36
  SQRT_COUNT = 6
  PageLines = 5
  One = 8
  ShortLimit = 256
  maxiterations = 6
  Screen <- MCScreen
  GzBufferSize = 38
  GzFiles <- MCFiles
  Width = 4
  Reach = 1
  MaxPresses = 4
  Top = 11
  T1 = 0
  SL = 1
  EL = 2
  DA = 3
  DL = 4
  Text = 9
  Memories <- MCMemories
  MaxCommands = 1
  Typeable = {141, 223, 155, 174, 186, 177, 194}
  Cells = {0, 141, 58, 177}
  Words = {38, 43, 513, 519}
  LineLength = 4
  PageSize = 8
  MaxKeys = 5
  MaxStores = 6
  Operands = {0, 1, 9, 80, 128, 153, 255}
  NumBytes = 2
  MaxSimulators = 4
  ProgramText <- MCText
  Literals <- MCLiterals
  MEMSIZ = 5
  Scalars = {"A", "B"}
  Elements = {"E"}
  Temporaries <- MCTemporaries
  ArrayBytes = 1
  MaxLength = 3
  Codes = {1}
  MaxOperands = 3
  MaxOperations = 7
INVARIANTS TemporariesKept
CHECK_DEADLOCK FALSE
