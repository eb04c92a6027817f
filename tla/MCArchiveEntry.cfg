SPECIFICATION FairSpec
CONSTANTS
  Size <- MCSize
  MaxRead <- MCMaxRead
  Timeout <- MCTimeout
  MayDamage = FALSE
INVARIANTS
  TypeOK
  PositionBacked
  BufferTrueMeansData
  SeekLands
  NoUseAfterFree
  PromptAwaited
PROPERTIES
  AvailableMonotone
  CallsReturn
CHECK_DEADLOCK FALSE
