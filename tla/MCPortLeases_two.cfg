\* Two runs, one with two ports, of three ports, with failing files and crashes.
SPECIFICATION Spec
CONSTANTS
  r1 = r1
  r2 = r2
  p1 = p1
  p2 = p2
  p3 = p3
  Runs = {r1, r2}
  Ports = {p1, p2, p3}
  Wanted <- TwoAndOne
  Faults = {"io", "crash"}
INVARIANTS
  HeldPortsAreListed
  PortsAreExclusive
  ReleasedRunsAreUnlisted
PROPERTIES
  LeasesKeepContract
  UpdatesEnd
CHECK_DEADLOCK FALSE
