\* A zone that is UTC in winter only.
CONSTANTS
  Inputs <- Winter
  Jobs <- SomeJobs
  lower <- Lower
  MaxClock = 0
SPECIFICATION Spec
INVARIANTS
  RefusesNonUtc
