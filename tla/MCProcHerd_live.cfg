\* Progress of a start and a stop.
SPECIFICATION PlainSpec
CONSTANTS
  c1 = c1
  c2 = c2
  c3 = c3
  c4 = c4
  c5 = c5
  c6 = c6
  c7 = c7
  Observers = {c1, c2}
  Command <- AllCommands
  Unix = TRUE
  Faults = {"crash"}
CONSTRAINT NoDescendants
PROPERTIES
  GivenUpStartsEnd
CHECK_DEADLOCK FALSE
