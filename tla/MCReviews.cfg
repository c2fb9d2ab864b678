\* PositionReview: one contract, a path of three quotes.
CONSTANTS
    Quotes = {0, 40, 55, 70, 100}
    Size = 1
    Stop = 15
    Trailing = TRUE
    ArmAt = 15
    Trail = 10
    MaxSpread = 35
    OnExchange = TRUE
    LimitExit = TRUE
    EntryFee = 1
    ExitFee = 2
    Modes = {"paper"}
    Faults = FALSE
    Ticks = 3
    Spans = {1, 2}
    Estimates = {30, 80}
    Laters = 1
    MinEdge = 5
    Timeout = 2
\* EntryRules: half-cents, on either side of each gate and at it.
    Markets = {m1, m2}
    Offers = {60, 70, 100, 130}
    Beliefs = {55, 90, 126, 131}
    Confidences = {5, 8}
    Days = {1, 9}
    Longest = 2
    LeastEdge = 20
    MaxEdge = 60
    MinConfidence = 6
    MinMid = 85
    MaxMid = 115
    WidestBook = 30
    MinDays = 0
    MaxDays = 7
    MinAnalysis = 75
    MaxAnalysis = 125
    Budget = 1000
    MaxSize = 400
\* Fixtures
    Blocks = {"series"}
    Style = "excerpts"
    MaxEdits = 1
    NoFile = NoFile
\* Benchmark
    Analysed = 3
    MaxReps = 2
    MaxCalls = 4
    MaxRuns = 3
    NoRun = NoRun
\* Assessment
    Evidence = {e1, e2}
    MaxSignals = 3
\* AssessorInputs
    MaxLog = 4
    MinSamples = 2
    MaxHistory = 5
    MaxPoints = 4
    MaxTime = 4
    MaxUses = 2
\* SignalAnswer: ten-thousandths
    Values = {100, 4400, 5050, 9900}
    Strays <- MCStrays
SPECIFICATION ReviewsSpec
INVARIANTS ReviewsAgree RecordsSound JudgedFairly
CHECK_DEADLOCK FALSE
