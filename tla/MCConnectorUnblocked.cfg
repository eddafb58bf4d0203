\* A user who blocks the bot, unblocks it and writes again.
SPECIFICATION Spec
CONSTANTS
  p1 = p1
  c1 = c1
  c2 = c2
  NoRow = NoRow
  Procs <- OneProc
  Chats <- OneChat
  Kinds <- KindsText
  Batch = 1
  MayBlock <- OneChat
  Bodies <- BodyText
  RetryMax = 0
  MaxThreads = 2
  MaxUpdates = 2
  MaxDegraded = 0
  MaxMessages = 2
  MaxFaults = 0
  MaxOutFaults = 0
INVARIANTS
  UnblockedGetAnswers
CHECK_DEADLOCK FALSE
