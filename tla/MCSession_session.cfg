\* One run of main(), every kind of library, up to three jobs, upgrades and kills.
CONSTANTS
  Release = {"v24_11", "v25_05", "v99"}
  Implemented = {"v24_11", "v25_05"}
  None = None
  Files <- AllFiles
  MaxLookups = 1
  MaxJobs = 3
SPECIFICATION FairSpec
INVARIANTS
  TypeOK
  LibraryMatchesAbi
  ClosedExactlyOnce
  NoContractBreach
  ListsReleased
  ReportNamesFailingCall
PROPERTIES
  NothingAfterFailedWrite
  KeepsPromise
  Termination
