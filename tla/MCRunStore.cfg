\* Two runs; a gc beside a list or another gc; failures and crashes.
SPECIFICATION StoreSpec
CONSTANTS
  c1 = c1
  c2 = c2
  Runs = {1, 2}
  Scanners = {c1, c2}
  Faults = {"io", "crash", "launch"}
INVARIANTS
  TypeOK
  GcIsThorough
PROPERTIES
  DeletesOnlyOldRuns
  GcCatchesUp
