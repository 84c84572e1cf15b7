\* A child whose output stays open: its log after the drain has timed out.
SPECIFICATION SafeMonitoringSpec
CONSTANTS
  Outputs <- SmallOutputs
  CheckLists <- SmallLists
  MaxBytes = 3
  Capacity = 2
  Batch = 1
  ChunkBytes = 2
  Limit = 1
  Faults = {}
INVARIANT TerminalLogsReadable
CHECK_DEADLOCK FALSE
