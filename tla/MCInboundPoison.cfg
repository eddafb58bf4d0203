\* An attachment that can never be fetched, and a text sent after it.
SPECIFICATION FairSpec
CONSTANTS
  p1 = p1
  p2 = p2
  c1 = c1
  NoRow = NoRow
  Procs <- OneProc
  Chats <- OneChat
  Kinds <- KindsPoison
  Batch = 2
  MaxUpdates = 2
  MaxFaults = 0
  MaxDegraded = 0
PROPERTIES
  TextReachesThread
CHECK_DEADLOCK FALSE
