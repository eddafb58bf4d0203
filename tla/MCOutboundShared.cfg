\* Workers of two installations and their one app identity.
SPECIFICATION Spec
CONSTANTS
  w1 = w1
  w2 = w2
  c1 = c1
  c2 = c2
  NoRow = NoRow
  Workers <- TwoWorkers
  Chats <- TwoChats
  Serves <- ServesOwn
  Threads <- OneThread
  MayBlock <- NoChat
  MayLimit <- NoChat
  Listeners <- NoWorker
  Bodies <- BodiesText
  OldestFirst = FALSE
  RetryMax = 1
  MaxMessages = 1
  MaxRejections = 0
  MaxFaults = 0
INVARIANTS
  ReplyReachesChat
CHECK_DEADLOCK FALSE
