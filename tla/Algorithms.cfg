SPECIFICATION Spec
CONSTANTS
  MaxNodes = 5
  MaxLoops = 4
  UbOuter = 3
  MaxBufferNumber = 5
  Ranks = {0, 1, 2, 3}
  Dims = {0, 1, 2, 3}
  Cores = {1, 2, 5}
  Rooms <- MCRooms
  NddmaMaxDims = 2
  RepeatBytes = 2
  CacheLine = 2
  PerCoreMinUbByte = 8
  MinBytesPerCore = 4
  BlockAlign = 2
  UbBlockSize = 4
  CacheLineSize = 16
  VRegSize = 16
  MaxInnerA = 32
  CacheBufSize = 192
  AStepLen = 4
  Reductions <- MCReductions
  ExpLen = 4
  ManLen = 3
  TruncLen = 16
  FloatManLen = 8
  DoubleManLen = 12
  Int8Len = 3
  Int16Len = 8
  Int32Len = 10
  BfExpLen = 3
  BfManLen = 2
  BfCut = 5
  MaxQueryRank = 2
  KnownDims = {0, 1, 2, 3}
  MaxAxes = 3
INVARIANTS
  ReadsOwnInput
  KernelsRight
  MemoryFits
  InferenceRight
  ArithmeticRounds
  ConversionsRound
CHECK_DEADLOCK FALSE
