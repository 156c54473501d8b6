SPECIFICATION BodySpec
CONSTANTS
  Requests <- Uploads
  Faults = {"none", "leaves", "stalls", "kick", "malformed", "refused"}
  VerbLen = 2
  BlockSize = 4
  MaxHeaderBytes = 8
  MaxSizeLine = 5
  MaxTrailer = 5
  ReadSize = 3
INVARIANTS
  OneFinalStatus
PROPERTIES
  UploadIsStream
  UploadCompletes
  ConnectionEnds
CHECK_DEADLOCK FALSE
