SPECIFICATION DurabilityLiveSpec
CONSTANTS
  SectorCount = 2
  SectorSize = 5
  PageSize = 3
  a = a
  b = b
  erased = erased
  x = x
  y = y
  Ids = {a, b}
  Contents = {erased, x, y}
  Size <- MixedSizes
  BitsOnlyClear = FALSE
  ClearMayFail = TRUE
INVARIANTS
  TypeOK
  TableBelowData
  NextIsErased
  OutOfMemoryIsReal
PROPERTIES
  AtomicDurableMap
  WritesReturn
  RecoveryEnds
