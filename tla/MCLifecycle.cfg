\* Edits, and a failed call, a signal or a crash.
SPECIFICATION FairSpec
CONSTANTS
  MaxEdits = 3
  MaxFaults = 1
INVARIANTS
  TypeOK
  NoOrphanWorker
  SyncedWithListing
PROPERTIES
  ConfigurationApplied
  ConfigurationShown
CHECK_DEADLOCK FALSE
