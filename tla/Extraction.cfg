CONSTANTS
  Analysts = {"loop", "desk"}
  Loop = "loop"
  Docs = {d1, d2}
  Main = main
  Jev = jev
  Slots = 2
  SpendCap = 2
  MaxCost = 1
  MaxErrors = 2
SPECIFICATION FairSpec
INVARIANTS OvershootBounded
PROPERTIES AllExtracted
CHECK_DEADLOCK FALSE
