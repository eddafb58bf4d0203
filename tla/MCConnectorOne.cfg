\* One process, both loops of its worker, two chats: threads are made, used,
\* answered and replaced.
SPECIFICATION Spec
CONSTANTS
  p1 = p1
  c1 = c1
  c2 = c2
  NoRow = NoRow
  Procs <- OneProc
  Chats <- TwoChats
  Kinds <- KindsTried
  Batch = 1
  MayBlock <- OneChat
  Bodies <- BodyText
  RetryMax = 0
  MaxThreads = 2
  MaxUpdates = 2
  MaxDegraded = 1
  MaxMessages = 1
  MaxFaults = 1
  MaxOutFaults = 1
INVARIANTS
  AnswersDelivered
  PartsReachAsker
PROPERTIES
  InboundSpec
  OutboundSpec
CHECK_DEADLOCK FALSE
