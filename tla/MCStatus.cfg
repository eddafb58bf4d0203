\* Three results in any order, one report that fails.
SPECIFICATION Spec
CONSTANTS
  PollResults <- PollAll
  DeliveryResults <- DeliveryAll
  MaxEvents = 3
  MaxFaults = 1
INVARIANTS
  TypeOK
  ChangeIsReported
  ReplacedShowsStopped
  ParkedMeansRejected
  RejectionAudited
  OutageEntriesPaired
PROPERTIES
  NoStaleReport
CHECK_DEADLOCK FALSE
