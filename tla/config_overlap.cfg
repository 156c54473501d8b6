SPECIFICATION Spec
CONSTANTS
  m = m
  d = d
  r = r
  v1 = v1
  v2 = v2
  sa = sa
  sb = sb
  Paths = {m, d, r}
  Place <- OnePlaceEach
  Versions = {v1}
  Savers = {sa, sb}
  Edits <- NoConfig
  MaxRequests = 2
  Absent = Absent
  Off = Off
  NoFile = NoFile
  None = None
INVARIANTS
  SavedIsRunning
