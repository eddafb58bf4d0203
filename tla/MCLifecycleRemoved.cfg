\* A removal, and no call that fails.
SPECIFICATION Spec
CONSTANTS
  MaxEdits = 2
  MaxFaults = 0
INVARIANTS
  RemovedShowsNothing
CHECK_DEADLOCK FALSE
