SPECIFICATION Spec
CONSTANTS
  s1 = s1
  s2 = s2
  s3 = s3
  Session = {s1, s2, s3}
  NameOf <- TwoArchives
  MaxPrompts = 1
INVARIANTS
  PromptVisible
CHECK_DEADLOCK FALSE
