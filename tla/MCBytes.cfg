CONSTANTS
  Size = 4
  Amounts = {1, 2, 3, 5}
  MaxWritten = 14
  Chunk = 2
  Half = 3
  Dp = 2
  MaxBiased = 6
  Powers = 2
  LogSize = 13
  Slack = 6
  MaxNumeric = 5
  PtrSize = 1
  Header <- MCHeader
  Operands <- MCOperands
  Levels = {"INFO", "WARN"}
  MaxMessages = 2
  MaxDepth = 2
SPECIFICATION MCSpec
INVARIANTS IndicesOK Queue ExchangeKept CutIsNoticed TextReadsBack ReadyForDigitGen ShortestAndNearest LineIsWhole
CHECK_DEADLOCK FALSE
