\* The calls and the bytes of one run, with a slow reader.
CONSTANTS
  Release = {"v25_05"}
  Implemented = {"v25_05"}
  None = None
  Files <- OneFile
  Starts <- Queries
  MaxLookups = 0
  MaxJobs = 2
  Pieces = 2
  BufCap = 2
  SinkCap = 2
SPECIFICATION FairSpec
INVARIANTS
  LinesAreOut
  StatusZeroIsWhole
PROPERTIES
  NoLateOutput
  ConnectionReleased
