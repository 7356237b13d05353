\* The job list survives a header line that could not be written.
CONSTANTS
  Release = {"v25_05"}
  Implemented = {"v25_05"}
  None = None
  Files <- OneFile
  MaxLookups = 1
  MaxJobs = 2
SPECIFICATION Spec
INVARIANTS
  JobListAlwaysDestroyed
