\* What the comparison with sacct accepts and what it catches.
CONSTANTS
  U32 = 1048576
  U64 = 16777216
  tres_by_id <- Tres
  qos_by_id <- Qos
  Stored <- Answers
  Specimen <- WrongValues
SPECIFICATION Spec
INVARIANTS
  TypeOK
  AgreesWithSacct
  CorruptionCaught
