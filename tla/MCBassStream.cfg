SPECIFICATION StreamFairSpec
CONSTANTS
  Size <- Small
  MaxRead <- MCMaxRead
  Timeout <- MCTimeout
  MayDamage = FALSE
  Precision = 4
  Minima <- MCMinima
INVARIANTS
  StreamTypeOK
  ClosedOnce
  MinimumAvailable
  MinimumInside
  RefusalTold
PROPERTIES
  CreationReturns
