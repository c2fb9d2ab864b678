SPECIFICATION FairSpec
CONSTANTS
  Markets = {m1}
  Metered = tavily
  Others = {gdelt}
  Feed = truthsocial
  MaxSkip = 2
  DailyCap = 2
  Queries = 2
  Generations = 2
  LastDay = 1
  Failures = 1
INVARIANT QuotaKept
PROPERTIES BackoffKept WaitsEnd
