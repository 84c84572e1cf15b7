\* One run on Unix, with every fault and one process probing the lock.
SPECIFICATION Spec
CONSTANTS
  Observers = {o1}
  o1 = o1
  Unix = TRUE
  Faults = {"io", "crash", "denied", "escape"}
INVARIANTS
  TypeOK
  SupervisionInv
  NoLiveTreeAtTerminal
  ReleasedAtTerminal
  PortsOutliveTree
  OrphanOnlyByFault
  KillIsRecorded
PROPERTIES
  TerminalIsFinal
  CauseStands
  GraceRespected
  ContractSpec
  StopSettles
  TerminalIsQuiet
CHECK_DEADLOCK FALSE
