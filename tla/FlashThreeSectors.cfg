SPECIFICATION DurabilitySpec
CONSTANTS
  SectorCount = 3
  SectorSize = 4
  PageSize = 2
  a = a
  b = b
  erased = erased
  x = x
  y = y
  Ids = {a, b}
  Contents = {erased, x, y}
  Size <- SmallSizes
  BitsOnlyClear = FALSE
  ClearMayFail = TRUE
SYMMETRY Alike
INVARIANT ReadIsDurable
PROPERTY AtomicDurableMap
