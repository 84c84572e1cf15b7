\* The teams of commands that meet over one run, with failing files and crashes.
SPECIFICATION TeamsSpec
CONSTANTS
  c1 = c1
  c2 = c2
  c3 = c3
  c4 = c4
  c5 = c5
  c6 = c6
  c7 = c7
  Observers = {c1, c2, c3, c4, c5, c6, c7}
  Command <- AllCommands
  Unix = TRUE
  Faults = {"io", "crash"}
CONSTRAINTS
  NoDescendants
  NoLimit
  FilesWork
INVARIANTS
  ClientTypeOK
  OrphanAnswersAreTrue
  EndAnswersAreSettled
  StartAnswersAreTrue
  ReadyAnswersAreTrue
  GcRemovesOnlyEndedRuns
PROPERTIES
  RunIsSupervised
CHECK_DEADLOCK FALSE
