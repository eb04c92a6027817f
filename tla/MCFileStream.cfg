SPECIFICATION FairSpec
CONSTANTS
  Size <- MCSize
  MaxChunk <- MCMaxChunk
INVARIANTS
  TypeOK
  MutualExclusion
  NoStrandedWaiter
  PrefixIntact
  IInv
PROPERTIES
  ReadComplete
  ImplementsEntryStream
  CallsReturn
  TaskCompletes
CHECK_DEADLOCK FALSE
