----------------------------- MODULE MCReviews -----------------------------
(***************************************************************************)
(* The analyses that repeat what trading does, and the records they work   *)
(* from, together: PositionReview, EntryRules, Fixtures, Benchmark,        *)
(* Assessment, AssessorInputs and SignalAnswer.  They share no state: a    *)
(* behaviour runs the one that `part` names, the variables of the others   *)
(* do not change.                                                          *)
(***************************************************************************)
EXTENDS Integers, FiniteSets

CONSTANTS
  Quotes, Size, Stop, Trailing, ArmAt, Trail, MaxSpread, OnExchange, LimitExit, EntryFee,
  ExitFee, Modes, Faults, Ticks, Spans, Estimates, Laters, MinEdge, Timeout, \* of PositionReview
  Markets, Offers, Beliefs, Confidences, Days, Longest, LeastEdge, MaxEdge, MinConfidence,
  MinMid, MaxMid, WidestBook, MinDays, MaxDays, MinAnalysis, MaxAnalysis, Budget,
  MaxSize,                                                                   \* of EntryRules
  Blocks, Style, MaxEdits, NoFile,                                           \* of Fixtures
  Analysed, MaxReps, MaxCalls, MaxRuns, NoRun,                                \* of Benchmark
  Evidence, MaxSignals,                                                      \* of Assessment
  MaxLog, MinSamples, MaxHistory, MaxPoints, MaxTime, MaxUses,               \* of AssessorInputs
  Values, Strays                                                             \* of SignalAnswer

VARIABLES
  part,
  side, mode, book, result, terminal, position, peak, best, worst, cash, seen,
  path, span, signals, limit, filledAt, exitAt, turn,
  log, entered, byLimit,
  world, settled, code, files, merged, edits,
  kind, cache, rev, calls, asked, runs, run,
  written, rows, scored, finished,
  resolved, history, uses,
  answer

review  == <<side, mode, book, result, terminal, position, peak, best, worst, cash, seen,
             path, span, signals, limit, filledAt, exitAt, turn>>
entries == <<log, entered, byLimit>>
frozen  == <<world, settled, code, files, merged, edits>>
bench   == <<kind, cache, rev, calls, asked, runs, run>>
judged  == <<written, rows, scored, finished>>
told    == <<resolved, history, uses>>

reviews == <<part, review, entries, frozen, bench, judged, told, answer>>

V == INSTANCE PositionReview WITH row <- position
E == INSTANCE EntryRules WITH
       Quotes <- Offers, Estimates <- Beliefs, Log <- Longest, MinEdge <- LeastEdge,
       MaxSpread <- WidestBook, limit <- byLimit
X == INSTANCE Fixtures WITH None <- NoFile
B == INSTANCE Benchmark WITH Signals <- Analysed, Idle <- NoRun
A == INSTANCE Assessment WITH signals <- written, settled <- finished
I == INSTANCE AssessorInputs WITH log <- resolved
S == INSTANCE SignalAnswer

ASSUME ReviewsAssumption ==
  /\ V!QuotesAssumption /\ V!SizeAssumption /\ V!StopAssumption /\ V!FeeAssumption
  /\ V!FlagAssumption /\ V!ModeAssumption
  /\ V!PathAssumption /\ V!ReviewAssumption /\ V!TrailAssumption
  /\ IsFiniteSet(Markets) /\ Analysed \in Nat \ {0}
  /\ E!BandsAssumption /\ I!PointsAssumption /\ S!UnitsAssumption

\* A number above every range, and one below.
MCStrays == {20000000, -100}

Off == "off"
Is(name) == part = name

ReviewsInit ==
  /\ part \in {"review", "entries", "frozen", "bench", "judged", "told", "answer"}
  /\ IF Is("review") THEN V!ReviewInit
     ELSE /\ side = Off /\ mode = Off /\ book = Off /\ result = Off /\ terminal = Off
          /\ position = Off /\ peak = Off /\ best = Off /\ worst = Off /\ cash = Off
          /\ seen = Off /\ path = Off /\ span = Off /\ signals = Off /\ limit = Off
          /\ filledAt = Off /\ exitAt = Off /\ turn = Off
  /\ IF Is("entries") THEN E!Init ELSE log = Off /\ entered = Off /\ byLimit = Off
  /\ IF Is("frozen") THEN X!Init
     ELSE /\ world = Off /\ settled = Off /\ code = Off /\ files = Off /\ merged = Off
          /\ edits = Off
  /\ IF Is("bench") THEN B!Init
     ELSE /\ kind = Off /\ cache = Off /\ rev = Off /\ calls = Off /\ asked = Off /\ runs = Off
          /\ run = Off
  /\ IF Is("judged") THEN A!Init
     ELSE written = Off /\ rows = Off /\ scored = Off /\ finished = Off
  /\ IF Is("told") THEN I!Init ELSE resolved = Off /\ history = Off /\ uses = Off
  /\ IF Is("answer") THEN S!Init ELSE answer = Off

\* The last two are functions of an input: they take no step.
ReviewsNext ==
  \/ Is("review")  /\ V!ReviewNext /\ UNCHANGED <<part, entries, frozen, bench, judged, told, answer>>
  \/ Is("entries") /\ E!Next     /\ UNCHANGED <<part, review, frozen, bench, judged, told, answer>>
  \/ Is("frozen")  /\ X!Next     /\ UNCHANGED <<part, review, entries, bench, judged, told, answer>>
  \/ Is("bench")   /\ B!Next     /\ UNCHANGED <<part, review, entries, frozen, judged, told, answer>>
  \/ Is("judged")  /\ A!Next     /\ UNCHANGED <<part, review, entries, frozen, bench, told, answer>>

ReviewsSpec ==
  /\ ReviewsInit
  /\ [][ReviewsNext]_reviews

-----------------------------------------------------------------------------
(* Every second implementation agrees with the rules it repeats: replay,    *)
(* benchmark and weekly review with the entry gates, the stoploss and trail *)
(* sweeps and the entry simulation with what the ladder does, and a market  *)
(* with its mirror image.                                                   *)
ReviewsAgree ==
  /\ Is("entries") => E!ReplayAgrees /\ E!GatesAgree /\ E!MirrorSymmetric
  /\ Is("review") => V!SweepSeesStops /\ V!TrailSweepAgrees /\ V!SimulationAgrees

(* The bank of fixtures shows the past as it was, and the benchmark neither *)
(* pays twice for an answer, nor files one twice, nor asks for more than it *)
(* announced.                                                               *)
RecordsSound ==
  /\ Is("frozen") => X!BankIsAsOf
  /\ Is("bench") => B!EstimateBounds /\ B!RepsDistinct /\ B!FiledOnce

(* Answers and evidence are taken for what they are: a percentage for a     *)
(* fraction, a side for what its numbers say; a resolved signal counts once *)
(* per cohort, a history keeps its flips, a loss is shared out whole, and a *)
(* size comes from a judgment of the evidence it is applied to.             *)
JudgedFairly ==
  /\ Is("answer") => S!SideMatchesNumbers /\ S!Understood
  /\ Is("told") => I!CountedOnce /\ I!HistoryTold /\ I!LossSharedOut
  /\ Is("judged") => A!ScaledByItsEvidence
=============================================================================
