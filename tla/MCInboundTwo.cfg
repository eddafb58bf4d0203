\* Two connector processes at once, as in a rolling update: both make and
\* replace the thread of a chat.
SPECIFICATION Spec
CONSTANTS
  p1 = p1
  p2 = p2
  c1 = c1
  NoRow = NoRow
  Procs <- TwoProcs
  Chats <- OneChat
  Kinds <- KindsText
  Batch = 2
  MaxUpdates = 2
  MaxFaults = 1
  MaxDegraded = 1
SYMMETRY SymProcs
INVARIANTS
  NoUpdateLost
  HandledInOrder
  PostsRouted
  MappingSound
CHECK_DEADLOCK FALSE
