\* Counts that share a key of the expansion.
CONSTANTS
  U32 = 1048576
  U64 = 16777216
  tres_by_id <- Tres
  qos_by_id <- Qos
  Stored <- Alone
  Specimen = {}
SPECIFICATION Spec
INVARIANTS
  EveryCountShown
