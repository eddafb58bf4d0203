\* One connector process: crashes, lost answers, degraded threads.
SPECIFICATION FairSpec
CONSTANTS
  p1 = p1
  p2 = p2
  c1 = c1
  NoRow = NoRow
  Procs <- OneProc
  Chats <- OneChat
  Kinds <- KindsOther
  Batch = 2
  MaxUpdates = 3
  MaxFaults = 1
  MaxDegraded = 2
INVARIANTS
  TypeOK
  DuplicatesBounded
  SkippedForCause
PROPERTIES
  EveryUpdateSettled
  OffsetNeverRegresses
  AnswerFindsWayBack
  RelaySpec
CHECK_DEADLOCK FALSE
