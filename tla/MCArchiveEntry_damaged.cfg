SPECIFICATION Spec
CONSTANTS
  Size <- MCSize
  MaxRead <- MCMaxRead
  Timeout <- MCTimeout
  MayDamage = TRUE
INVARIANTS
  BufferTrueMeansData
CHECK_DEADLOCK FALSE
