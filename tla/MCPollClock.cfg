\* A pause is one tick, the client's timeout two, the minute four; the poll
\* timeout is shorter than the client's, or equal to it as by default.
SPECIFICATION Spec
CONSTANTS
  PollTimeouts = {1, 2}
  ClientTimeout = 2
  RetryDelay = 1
  UnreachableAfter = 4
  AuditRetryMax = 2
  MaxTime = 16
  MaxOutages = 2
  MaxMisses = 2
INVARIANTS
  TypeOK
  ReachabilityFollows
  OutagesLogged
PROPERTIES
  OutageIsReal
CHECK_DEADLOCK FALSE
