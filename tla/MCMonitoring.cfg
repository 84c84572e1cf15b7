\* A supervisor with a reader of its logs, or with readiness checks.
SPECIFICATION MonitoringSpec
CONSTANTS
  Outputs <- SmallOutputs
  CheckLists <- SmallLists
  MaxBytes = 3
  Capacity = 2
  Batch = 1
  ChunkBytes = 2
  Limit = 1
  Faults = {"spawn", "read", "io", "crash"}
INVARIANTS
  TypeOK
  ReadersFollowTheLog
  OnlyFailedRunsLookDamaged
  RetainedIsPrefix
  EndIsComplete
  EvidenceIsRetained
PROPERTIES
  LogKeepsContract
  VerdictIsFinal
  OutputMovesOn
  ReadinessIsDecided
CHECK_DEADLOCK FALSE
