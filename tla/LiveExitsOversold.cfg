\* Two runs that loaded the same row.
SPECIFICATION Spec
CONSTANTS
  Rows = {1}
  Partial = {}
  Forced = {}
  Runs = {poll, tick}
  Poll = poll
  Size = 2
  MaxSold = 0
  MaxUpsets = 0
INVARIANTS
  NeverOversold
CHECK_DEADLOCK FALSE
