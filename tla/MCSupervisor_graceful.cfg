\* A stop request of a run on which nothing else goes wrong.
SPECIFICATION SafeSpec
CONSTANTS
  Observers = {}
  Unix = TRUE
  Faults = {}
PROPERTY StopIsGraceful
CHECK_DEADLOCK FALSE
