\* The readiness of a child that exits while a descendant holds its output.
SPECIFICATION SafeSpec
CONSTANTS
  Observers = {}
  Unix = TRUE
  Faults = {"escape"}
INVARIANT ReadinessDecidedOnChildExit
CHECK_DEADLOCK FALSE
