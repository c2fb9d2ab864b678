\* Two positions at most, of three rows, in both modes.
SPECIFICATION FairSpec
CONSTANTS
  Markets = {a}
  Rows = {r1, r2, r3}
  Modes = {"paper", "live"}
  LimitEntries = FALSE
  PreSignalGate = TRUE
  ReentryBlocked = FALSE
  Deposit = 4
  MaxOpen = 2
  MaxPositionPct = 34
  MaxMarketPct = 50
  MaxTotalPct = 67
  MaxLossPct = 15
  DrawdownPct = 20
  MaxCloses = 1
  MaxCommands = 2
INVARIANTS
  PositionCap
  PaperOneSided
PROPERTIES
  EntryWithinCaps
  OtherModeUntouched
  QuietAfterPause
CHECK_DEADLOCK FALSE
