SPECIFICATION Spec
CONSTANTS
  m = m
  d = d
  r = r
  v1 = v1
  v2 = v2
  sa = sa
  sb = sb
  Paths = {m, d, r}
  Place <- OnePlaceEach
  Versions = {v1, v2}
  Savers = {sa, sb}
  Edits <- AnyConfig
  MaxRequests = 3
  Absent = Absent
  Off = Off
  NoFile = NoFile
  None = None
SYMMETRY ReloadSymmetry
INVARIANTS
  TasksMatchConfig
  OneTaskPerEntry
  ConfiguredIsRegistered
  TasksAreHeard
PROPERTIES
  UnchangedUndisturbed
