SPECIFICATION FairSpec
CONSTANTS
  s1 = s1
  s2 = s2
  s3 = s3
  Session = {s1, s2, s3}
  NameOf <- TwoArchives
  MaxPrompts = 2
INVARIANTS
  TypeOK
  EveryPromptListed
  SearchExactWhenSorted
  NoStalePrompt
  PromptListInv
PROPERTIES
  WaitReturns
CHECK_DEADLOCK FALSE
