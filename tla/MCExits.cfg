\* LiveExits: two runs of check_all_positions over one row of three contracts.
SPECIFICATION ExitsSpec
CONSTANTS
  Rows = {1}
  Partial = {}
  Forced = {}
  Runs = {poll, tick}
  Poll = poll
  Size = 3
  MaxSold = 0
  MaxUpsets = 1
  \* ExitLadder: one position of two contracts.
  Quotes = {0, 35, 50, 65, 100}
  Contracts = 2
  Stop = 25
  Trailing = TRUE
  ArmAt = 10
  Trail = 20
  MaxSpread = 20
  OnExchange = TRUE
  LimitExit = TRUE
  EntryFee = 1
  ExitFee = 2
  Modes = {"paper", "live"}
  \* AlgoExits: four candles.
  Ticks <- MCTicks
  Entries = {40}
  Estimates = {50}
  MinEdge = 15
  Chop = 5
  Keep = 2
  Warm = 1
  Run = 2
  Longest = 4
INVARIANTS
  ExitsSound
  RecordedWasSold
  HeldIsTracked
PROPERTIES
  ClosedIsFinal
  ExitsEnd
CHECK_DEADLOCK FALSE
