SPECIFICATION Spec
CONSTANTS
  Sources <- MCSources
  TagHead = 2
  Probe = 3
  Buffer = 3
  None = None
INVARIANTS
  AudioOnly
  OkIsComplete
  ErrorBeforeAbort
  StopsPromptly
  IngestInv
PROPERTIES
  IngestEnds
CHECK_DEADLOCK FALSE
