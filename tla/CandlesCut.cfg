SPECIFICATION BackSpec
CONSTANTS
  \* Candles: the histories are one request and two, a run has two.
  Quoted = {"early", "late"}
  Opens <- MCOpens
  Closes <- MCCloses
  Span = 2
  Budget = 2
  Retention = 3
  Horizon = 6
  RunFailures = 2
  \* RealtimeFeed
  Account = "truthsocial"
  MainServices = {"gdelt"}
  LongestWait = 4
  Posts = {p1, p2}
  FeedFailures = 4
  \* Fetchers
  Sources = {"reddit", "tavily"}
  FetcherWait = 2
  FetcherStale = 3
  \* PhraseCounts
  Spoken = {m1, m2}
  RefreshEvery = 2
  Asks = 2
  FactFailures = 2
  \* Documents
  Writers = {main, realtime}
  Urls = {u1, u2}
  Texts = {"a", "b"}
  MaxVersion = 1
  StoreFailures = 0
  \* Watchdog
  Monitored = {"signal_loop", "feed"}
  SignalLoop = "signal_loop"
  PriceFeed = "feed"
  Stale = 1
  Cap = 2
  MaxTrouble = 2
  \* Upkeep
  Day = 4
  DigestHour = 2
  Changes = {"none", "forward"}
  MaxUpkeepTrouble = 3
INVARIANTS CoverageTrue
CHECK_DEADLOCK FALSE
