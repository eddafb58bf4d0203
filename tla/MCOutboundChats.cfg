\* One worker with two chats, one limited and one blocking: the limited chat holds
\* up the other, but not for ever.  The messages are listed in any order.
SPECIFICATION FairSpec
CONSTANTS
  w1 = w1
  w2 = w2
  c1 = c1
  c2 = c2
  NoRow = NoRow
  Workers <- OneWorker
  Chats <- TwoChats
  Serves <- ServesTwoC
  Threads <- TwoThreads
  MayBlock <- OtherChat
  MayLimit <- OneChat
  Listeners <- NoWorker
  Bodies <- BodiesText
  OldestFirst = FALSE
  RetryMax = 0
  MaxMessages = 2
  MaxRejections = 1
  MaxFaults = 1
INVARIANTS
  TypeOK
  SilentLossBounded
  AckedAreSettled
  ReplyReachesChat
PROPERTIES
  EveryMessageAcked
CHECK_DEADLOCK FALSE
