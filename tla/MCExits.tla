------------------------------ MODULE MCExits ------------------------------
(***************************************************************************)
(* Exits for TLC: LiveExits, ExitLadder and AlgoExits, with the constants  *)
(* of the configuration.  They share no state here: a behaviour runs the   *)
(* one that `part` names, the variables of the others do not change.       *)
(***************************************************************************)
EXTENDS LiveExits

CONSTANTS Quotes, Contracts, Stop, Trailing, ArmAt, Trail, MaxSpread, OnExchange, LimitExit,
          EntryFee, ExitFee, Modes,                  \* of ExitLadder
          Ticks, Entries, Estimates, MinEdge, Chop, Keep, Warm, Run, Longest   \* of AlgoExits

VARIABLES part, side, mode, book, result, terminal, position, peak, best, worst, cash, seen,
          buffer, cache, held, history

ladder == <<side, mode, book, result, terminal, position, peak, best, worst, cash, seen>>
candles == <<buffer, cache, held, history>>

L == INSTANCE ExitLadder WITH Size <- Contracts, Faults <- FALSE, row <- position
A == INSTANCE AlgoExits WITH position <- held

ASSUME LadderAssumption ==
  /\ L!QuotesAssumption /\ L!SizeAssumption /\ L!StopAssumption /\ L!FeeAssumption
  /\ L!FlagAssumption /\ L!ModeAssumption
ASSUME TicksAssumption == Ticks \subseteq L!Cents \X BOOLEAN /\ Keep \in Nat

\* Ticks of two prices, one of them also on a book too wide to trade on.
MCTicks == {<<30, TRUE>>, <<70, TRUE>>, <<70, FALSE>>}

Off == "off"

ExitsInit ==
  /\ part \in {"live", "ladder", "ticks"}
  /\ Init /\ A!Init
  /\ part # "live" => late = {}
  /\ IF part = "ladder" THEN L!Init
     ELSE /\ side = Off /\ mode = Off /\ book = Off /\ result = Off /\ terminal = Off
          /\ position = Off /\ peak = Off /\ best = Off /\ worst = Off /\ cash = Off
          /\ seen = Off

ExitsNext == \/ part = "live"   /\ Next   /\ UNCHANGED <<part, ladder, candles>>
             \/ part = "ladder" /\ L!Next /\ UNCHANGED <<part, vars, candles>>
             \/ part = "ticks"  /\ A!Next /\ UNCHANGED <<part, vars, ladder>>

\* The fairness of the two specifications; the monitor's loop runs for ever in both.
ExitsFairness ==
  /\ WF_vars(part = "live" /\ MonLoad(Poll))
  /\ WF_vars(part = "live" /\ Record(Poll))
  /\ \A r \in Rows : /\ WF_vars(part = "live" /\ RunRow(Poll, r))
                     /\ SF_vars(part = "live" /\ MonSells(Poll, r))
  /\ WF_ladder(part = "ladder" /\ \E wish \in L!Wishes : L!PaperExit(wish))

ExitsSpec == ExitsInit /\ [][ExitsNext]_<<part, vars, ladder, candles>> /\ ExitsFairness

-----------------------------------------------------------------------------
(* The ladder keeps its books: what a row was paid and paid out is its      *)
(* P&L, and until then its worth, through partial exits, fees and           *)
(* settlement, and its recorded excursions reach the worst and best price a *)
(* pass has seen.  The exits read off ticks rest on all complete candles.   *)
ExitsSound ==
  /\ part = "ladder" => L!BooksBalance /\ L!WorthShown /\ L!ExcursionsRemember
  /\ part = "ticks"  => A!AnswersCurrent

(* What is to be exited is: a live row whose exit rule keeps firing is      *)
(* closed one day, partial fill by partial fill (ExitCompletes); a paper    *)
(* position leaves its stop, however wide the book (StopsEnd).              *)
ToExit == IF part = "live" THEN ~settled /\ \E r \in Rows \ rested : IsOpen(r)
          ELSE mode = "paper" /\ L!IsOpen /\ L!AtStop

ExitsEnd == ToExit ~> ~ToExit
=============================================================================
