\* Two runs after one port, when another run's lock file cannot be opened.
SPECIFICATION SafeSpec
CONSTANTS
  r1 = r1
  r2 = r2
  p1 = p1
  p2 = p2
  p3 = p3
  Runs = {r1, r2}
  Ports = {p1}
  Wanted <- OneEach
  Faults = {"probe"}
INVARIANT PortsAreExclusive
CHECK_DEADLOCK FALSE
