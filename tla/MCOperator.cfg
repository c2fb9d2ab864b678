CONSTANTS
  Positions = {p1}
  MaxSent = 3
  MaxCommands = 2
  MaxStops = 1
  Commanded = {"running"}
  Clicked = {"paused"}
  Builtin = {"politics", "tech"}
  File = "mine.py"
  Name = "mine"
  Fields = {"min_edge", "stoploss"}
  Values = {"new"}
  Requests = {1}
SPECIFICATION OperatorSpec
INVARIANTS RepliesHold HandledOncePerProcess
PROPERTY OperatorHeard
CHECK_DEADLOCK FALSE
