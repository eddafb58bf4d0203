\* Two processes that run a worker for the same installation: messages of two parts,
\* retries, refusals, a notification stream, a fault; the service lists older
\* messages first.
SPECIFICATION Spec
CONSTANTS
  w1 = w1
  w2 = w2
  c1 = c1
  c2 = c2
  NoRow = NoRow
  Workers <- TwoWorkers
  Chats <- OneChat
  Serves <- ServesTwin
  Threads <- OneThread
  MayBlock <- NoChat
  MayLimit <- NoChat
  Listeners <- OneWorker
  Bodies <- BodiesTwo
  OldestFirst = TRUE
  RetryMax = 1
  MaxMessages = 2
  MaxRejections = 0
  MaxFaults = 1
INVARIANTS
  WakeupKept
  RepeatsBounded
  DeliveredInOrder
PROPERTIES
  DeliveriesSpec
CHECK_DEADLOCK FALSE
