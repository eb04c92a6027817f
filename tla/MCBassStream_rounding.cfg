SPECIFICATION StreamSpec
CONSTANTS
  Size <- Large
  MaxRead <- MCMaxRead
  Timeout <- MCTimeout
  MayDamage = FALSE
  Precision = 4
  Minima <- MCMinima
INVARIANTS
  MinimumInside
