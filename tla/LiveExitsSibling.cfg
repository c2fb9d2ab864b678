\* A sibling row that is force-exited, and whose entry order still fills.
SPECIFICATION Spec
CONSTANTS
  Rows = {1, 2}
  Partial = {2}
  Forced = {2}
  Runs = {poll}
  Poll = poll
  Size = 2
  MaxSold = 1
  MaxUpsets = 1
INVARIANTS
  RecordedWasSold
  HeldIsTracked
CHECK_DEADLOCK FALSE
