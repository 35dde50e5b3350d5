SPECIFICATION RingSpec
CONSTANTS
  SectorCount = 4
  SectorSize = 4
  PageSize = 4
  a = a
  b = b
  erased = erased
  x = x
  y = y
  Ids = {a, b}
  Contents = {erased, x}
  Size <- SmallSizes
  BitsOnlyClear = FALSE
  ClearMayFail = TRUE
PROPERTY WritesSurviveCutClear
