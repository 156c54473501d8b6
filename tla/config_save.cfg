SPECIFICATION Spec
CONSTANTS
  main = main
  side = side
  root = root
  dj = dj
  ca = ca
  cb = cb
  s1 = s1
  s2 = s2
  r1 = r1
  t1 = t1
  x1 = x1
  Paths = {main, side}
  Names = {root, dj}
  Settings = {s1, s2}
  Rates = {r1}
  Transcodes = {t1}
  Rests = {x1}
  Versions = {1, 2}
  Unset = Unset
  Blank = Blank
  Marker = Marker
  Bad = Bad
  Clients = {ca, cb}
  Bodies <- Requests
  Files <- HandWritten
  Defaults <- Built
  MaxSaves = 2
  MaxFaults = 1
  NoFile = NoFile
  Garbage = Garbage
  None = None
SYMMETRY ConsoleSymmetry
INVARIANTS
  PasswordsStayPut
  EchoIsNoop
  FileIsRunning
  RestartLoads
  AuthFollowsConfig
  AdminCanLogIn
CHECK_DEADLOCK FALSE
