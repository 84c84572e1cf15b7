\* A run on Windows whose supervisor is killed.
SPECIFICATION SafeSpec
CONSTANTS
  Observers = {}
  Unix = FALSE
  Faults = {"crash"}
INVARIANT NoTreeWithoutSupervisor
CHECK_DEADLOCK FALSE
