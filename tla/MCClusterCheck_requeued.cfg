\* A requeued job: two records of one job id, in both answers.
CONSTANTS
  U32 = 1048576
  U64 = 16777216
  tres_by_id <- Tres
  qos_by_id <- Qos
  Stored <- Requeued
  Specimen = {}
SPECIFICATION Spec
INVARIANTS
  SameAnswerAccepted
