SPECIFICATION FairSpec
CONSTANTS
  Positions = {p1}
  Passes = {monitor}
  StaleAfter = 2
  Failures = 1
INVARIANTS SettledHasResult
PROPERTIES ResultKept PositionsSettle
