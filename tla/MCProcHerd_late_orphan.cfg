\* A start that takes its own running run for an orphan.
SPECIFICATION SafePlainSpec
CONSTANTS
  c1 = c1
  c2 = c2
  c3 = c3
  c4 = c4
  c5 = c5
  c6 = c6
  c7 = c7
  Observers = {c1}
  Command <- AllCommands
  Unix = TRUE
  Faults = {}
INVARIANT OrphanAnswersAreAlwaysTrue
CHECK_DEADLOCK FALSE
