SPECIFICATION Spec
CONSTANTS
  s1 = s1
  s2 = s2
  s3 = s3
  Sessions = {s1, s2}
  Entries <- One
  Paths <- MCPaths
  PathOf <- OnePath
  SizeOf <- OneSize
  MayDamage = FALSE
  Nothing = Nothing
SYMMETRY Symmetric
INVARIANTS
  SkippedIsEntry
