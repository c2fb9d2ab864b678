\* One order of two contracts: every race on one row, under the fairness of the two reconcile loops.
SPECIFICATION FairSpec
CONSTANTS
  Orders = {o1}
  Size = 2
  PartialLabel = "partial"
INVARIANTS
  TypeOK
  CancelledHidesNoFill
  OpenNeverOverstated
  NoUntrackedResting
PROPERTIES
  TracksExchange
  SweepTerminates
