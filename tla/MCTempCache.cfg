SPECIFICATION Spec
CONSTANTS
  s1 = s1
  s2 = s2
  s3 = s3
  Sessions = {s1, s2, s3}
  Entries <- Three
  Paths <- MCPaths
  PathOf <- MixedPath
  SizeOf <- MixedSize
  MayDamage = TRUE
  Nothing = Nothing
SYMMETRY Symmetric
INVARIANTS
  TypeOK
  WriterAlone
  SkippedIsWhole
  CleanupComplete
PROPERTIES
  ReaderUndisturbed
