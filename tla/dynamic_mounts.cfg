SPECIFICATION Spec
CONSTANTS
  s1 = s1
  s2 = s2
  s3 = s3
  main = main
  Sources = {s1, s2, s3}
  Paths = {main}
  Configs <- Lists
  MaxMounts = 2
SYMMETRY SourceSymmetry
INVARIANTS
  DynamicEntryHasOwner
  SettledPathServes
  LoneSourceIsFound
CHECK_DEADLOCK FALSE
