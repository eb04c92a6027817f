SPECIFICATION Spec
CONSTANTS
  s1 = s1
  s2 = s2
  s3 = s3
  Sessions = {s1, s2}
  Entries <- Two
  Paths <- MCPaths
  PathOf <- DiscsPath
  SizeOf <- DiscsSize
  MayDamage = FALSE
  Nothing = Nothing
SYMMETRY Symmetric
INVARIANTS
  SkippedIsEntry
