SPECIFICATION Spec
CONSTANTS
  Size <- MCSize
  MaxRead <- MCMaxRead
  Timeout <- MCTimeout
  MayDamage = FALSE
INVARIANTS
  ReadZeroMeansEnd
CHECK_DEADLOCK FALSE
