\* What arrives, under partial writes, errors, kills and readers who leave,
\* and that it arrives.
CONSTANTS
  MaxJobs = 3
  Pieces = 3
  BufCap = 2
  SinkCap = 3
SPECIFICATION FairSpec
INVARIANTS
  TypeOK
  StreamIntact
  LinesOutBeforeDecode
  SuccessIsComplete
  TruncationNoticed
PROPERTIES
  WritesLines
  Termination
  LineArrives
