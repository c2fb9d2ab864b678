---------------------------- MODULE PositionReview ----------------------------
(***************************************************************************)
(* What the weekly review says of a position against what the monitor did  *)
(* with it: the stoploss sweeps over the recorded excursion and over the   *)
(* candles, the trailing-stop sweep with its re-entries                    *)
(* (metrics/weekly_review.py), and the replay of the entry signal          *)
(* (metrics/entry_counterfactual.py).  Each repeats rules of ExitLadder    *)
(* over candles of the market instead of its quotes.                       *)
(*                                                                         *)
(* A behaviour is the life of one paper position over a path of at most    *)
(* Ticks quotes, a pass of the monitor after each, then the settlement.    *)
(* The quote of time i is path[i]; a candle has `span` of them.  The       *)
(* entry is made, or its order placed, at time 0.                          *)
(***************************************************************************)
EXTENDS ExitLadder, Sequences

CONSTANTS
    Ticks,      \* quotes of a behaviour, at most
    Spans,      \* quotes a candle may have
    Estimates,  \* probabilities of later signals, in cents
    Laters,     \* later signals of a behaviour, at most
    MinEdge,
    Timeout     \* limit_order_timeout_hours

(* Assumed by MCReviews. *)
PathAssumption  == Ticks \in Nat /\ Spans \subseteq Nat \ {0} /\ Laters \in Nat
ReviewAssumption == Estimates \subseteq Cents /\ MinEdge \in Cents /\ Timeout \in Nat \ {0}
TrailAssumption == 0 < Trail /\ Trail <= Stop

VARIABLES
    path,     \* the quotes
    span,     \* of a candle
    signals,  \* later signals that cleared min_confidence, oldest first
    limit,    \* the price of the resting order of the entry, or None
    filledAt, exitAt,  \* times, or None
    turn      \* "market", or "monitor" when a pass is due

life == <<path, span, signals, limit, filledAt, exitAt, turn>>
all  == <<vars, life>>

-----------------------------------------------------------------------------
(* A side's prices, and its candles. *)

Sale(side_, quote) == IF side_ = "YES" THEN quote.bid ELSE Dollar - quote.ask
Cost(side_, quote) == IF side_ = "YES" THEN quote.ask ELSE Dollar - quote.bid

\* The candles whose period ended by the close, and the quotes of one.
Candles   == 1..(Len(path) \div span)
EndOf(c)  == c * span
InOf(c)   == {path[i] : i \in (EndOf(c - 1) + 1)..EndOf(c)}

SellLow(c)  == Min({Sale(side, q) : q \in InOf(c)})
SellHigh(c) == Max({Sale(side, q) : q \in InOf(c)})
BuyLow(c)   == Min({Cost(side, q) : q \in InOf(c)})

First(set) == IF set = {} THEN None ELSE Min(set)

(* An empty book is not a price: both loaders leave such a candle out. *)
Priced == {c \in Candles : SellLow(c) > 0}

-----------------------------------------------------------------------------
(* The stoploss sweeps. *)

FirstTouch(drop) == First({c \in Priced : SellLow(c) <= row.entry - drop})

(* stoploss_sweep: the same question asked of the recorded excursion. *)
MaeTouches(drop) == row.mae # None /\ row.mae <= -drop

HoldPnl == (OfSide(result) - row.entry) * row.contracts - PaidFee

SweptPnl(stopped, drop) ==
    IF stopped THEN -drop * row.contracts - PaidFee - ExitFee * row.contracts ELSE HoldPnl

-----------------------------------------------------------------------------
(* The trailing-stop sweep. *)

(* _trailing_stop_level *)
TrailLevel(entry, top, positive, offset) ==
    top - (IF top - entry >= positive THEN offset ELSE Stop)

(* The candle, of those from `from` that end by `until`, on which a leg     *)
(* ends; within a candle the high counts before the low.                    *)
LegTop(entry, from, c) == Max({entry} \cup {SellHigh(d) : d \in Priced \cap from..c})
LegEnd(entry, from, until, positive, offset) ==
    First({c \in Priced : /\ from <= c /\ EndOf(c) <= until
                          /\ SellLow(c) <= TrailLevel(entry, LegTop(entry, from, c), positive, offset)})

(* limit_entry_price *)
LimitOf(direction, p) == (IF direction = "YES" THEN p ELSE Dollar - p) - MinEdge

(* _next_fill: the first later signal that would have filled, and where.    *)
(* The candle's cost is that of the side held, whatever the signal's side.  *)
FillOf(s, from) ==
    First({c \in Priced : /\ from <= c /\ s.at < EndOf(c) /\ EndOf(c) <= s.at + Timeout
                          /\ BuyLow(c) <= LimitOf(s.direction, s.p)})
NextFill(after, from) ==
    First({i \in 1..Len(signals) : signals[i].at > after /\ FillOf(signals[i], from) # None})

(* _walk_position, re-entries allowed: its P&L, and the signals re-entered  *)
(* on.  A leg that never ends keeps the real outcome if it is the first,    *)
(* and settles if it is not.                                                *)
Walk(positive, offset) ==
    LET n == row.contracts
        leg[i \in 0..Len(signals), entry \in -Dollar..Dollar, from \in 1..(Ticks + 1)] ==
            LET c    == LegEnd(entry, from, IF i = 0 THEN exitAt ELSE Ticks, positive, offset)
                fee  == IF i = 0 THEN PaidFee ELSE 0
                out  == (TrailLevel(entry, LegTop(entry, from, c), positive, offset) - entry) * n
                        - fee - ExitFee * n
                next == NextFill(EndOf(c), c + 1)
                rest == leg[next, LimitOf(signals[next].direction, signals[next].p),
                            FillOf(signals[next], c + 1) + 1]
            IN  CASE c = None /\ i = 0 -> [pnl |-> row.pnl, entered |-> {}, fired |-> FALSE]
                  [] c = None /\ i > 0 -> [pnl |-> (OfSide(result) - entry) * n - fee,
                                           entered |-> {}, fired |-> FALSE]
                  [] OTHER ->
                        IF next = None THEN [pnl |-> out, entered |-> {}, fired |-> TRUE]
                        ELSE [pnl |-> out + rest.pnl, entered |-> {next} \cup rest.entered,
                              fired |-> TRUE]
    IN  leg[0, row.entry, 1]

-----------------------------------------------------------------------------
(* simulate_trade of the entry signal, for entries by a limit order. *)

(* should_exit of a later signal, in terms of the price of the limit. *)
Flips(s) ==
    /\ s.direction \notin {"SKIP", side}
    /\ (IF side = "YES" THEN limit - s.p ELSE s.p - (Dollar - limit)) > 0

SimFill == First({c \in Candles : EndOf(c) <= Timeout /\ BuyLow(c) <= limit})

SimStops(c)  == SellLow(c) > 0 /\ SellLow(c) <= limit - Stop
SimSignal(c) == SellLow(c) > 0 /\ \E i \in 1..Len(signals) :
                                      signals[i].at <= EndOf(c) /\ Flips(signals[i])

SimExit == First({c \in Candles : SimFill < c /\ (SimStops(c) \/ SimSignal(c))})

Trade(reason, price) == [reason |-> reason, pnl |-> price - limit]

SimulateTrade ==
    CASE limit <= 0                        -> [reason |-> "limit_unplaceable", pnl |-> 0]
      [] limit > 0 /\ SimFill = None       -> [reason |-> "cancelled", pnl |-> 0]
      [] limit > 0 /\ SimFill # None ->
            IF SimExit = None THEN Trade("market_resolved", OfSide(result))
            ELSE IF SimStops(SimExit) THEN Trade("stoploss", limit - Stop)
            ELSE Trade("signal", SellLow(SimExit))

-----------------------------------------------------------------------------
(* The position's life. *)

Signals == [at : 1..Ticks, direction : {"YES", "NO", "SKIP"}, p : Estimates]

ReviewInit ==
    /\ Init
    /\ path = <<>> /\ span \in Spans /\ signals = <<>>
    /\ limit = (IF row.status = "pending" THEN row.entry ELSE None)
    /\ filledAt = (IF row.status = "pending" THEN None ELSE 0)
    /\ exitAt = None /\ turn = "market"

Tick ==
    /\ turn = "market" /\ Len(path) < Ticks /\ result = None
    /\ book' \in {b \in Books : b.last = b.bid}
    /\ path' = Append(path, book')
    /\ \/ UNCHANGED signals
       \/ /\ Len(signals) < Laters
          /\ \E s \in Signals : s.at = Len(path') /\ signals' = Append(signals, s)
    /\ turn' = IF row.status = "closed" THEN "market" ELSE "monitor"
    /\ UNCHANGED <<side, mode, result, terminal, row, peak, best, worst, cash, seen,
                   span, limit, filledAt, exitAt>>

(* The market settles when its path ends. *)
Close ==
    /\ turn = "market" /\ Len(path) = Ticks /\ result = None
    /\ result' \in {0, Dollar}
    /\ turn' = IF row.status = "closed" THEN "market" ELSE "monitor"
    /\ UNCHANGED <<side, mode, book, terminal, row, peak, best, worst, cash, seen,
                   path, span, signals, limit, filledAt, exitAt>>

(* The fresh signal of a pass is one that came since the last. *)
Wish ==
    IF \E i \in 1..Len(signals) : signals[i].at = Len(path) /\ limit # None /\ Flips(signals[i])
    THEN "signal" ELSE "none"

Waits == row.status = "pending" /\ CurrentAsk > row.entry /\ Len(path) < Timeout /\ UNCHANGED vars

Monitor ==
    /\ turn = "monitor" /\ turn' = "market"
    /\ \/ PassHolds(Wish) \/ PassDefers(Wish) \/ PaperExit(Wish)
       \/ PaperFill \/ Waits
       \/ Len(path) >= Timeout /\ PaperCancel
    /\ filledAt' = IF row.status = "pending" /\ row'.status = "open" THEN Len(path) ELSE filledAt
    /\ exitAt'   = IF row'.status = "closed" THEN Len(path) ELSE exitAt
    /\ UNCHANGED <<path, span, signals, limit>>

ReviewNext == Tick \/ Close \/ Monitor

ReviewSpec == ReviewInit /\ [][ReviewNext]_all

-----------------------------------------------------------------------------
(* The closed position is reviewed once its market has a result. *)
Reviewed == row.status = "closed" /\ result # None

\* No quote of the path had lost its bids: the ladder then has the last trade to go by.
BidsThroughout == \A i \in 1..Len(path) : Sale(side, path[i]) > 0

AtMarket == limit = None

(* The candles show every stop: a position that stopped out has a candle,   *)
(* ended by the exit's, that touches the threshold; and while a quote is a  *)
(* candle, a position entered at once was out by the first such touch.      *)
SweepSeesStops ==
    Reviewed /\ BidsThroughout =>
        /\ row.reason = "stoploss" /\ exitAt <= EndOf(Len(path) \div span)
              => FirstTouch(Stop) # None /\ EndOf(FirstTouch(Stop) - 1) < exitAt
        /\ AtMarket /\ span = 1 /\ FirstTouch(Stop) # None => exitAt <= FirstTouch(Stop)

(* "Replays position_monitor._check_trailing_stop over real price paths":   *)
(* at the settings the position ran under, the first leg ends exactly when  *)
(* a stop ended the position, and books what the limit exit booked less a   *)
(* fee; and a stop on the last quote of a longer candle is not missed.      *)
TrailSweepAgrees ==
    Reviewed /\ BidsThroughout /\ AtMarket /\ Trailing =>
        LET end   == LegEnd(row.entry, 1, exitAt, ArmAt, Trail)
            stops == row.reason \in {"stoploss", "trailing_stop"}
        IN  /\ span = 1 => (end # None <=> stops)
            /\ span = 1 /\ stops => EndOf(end) = exitAt
            /\ span = 1 /\ row.reason = "trailing_stop" /\ LimitExit
                  => TrailLevel(row.entry, LegTop(row.entry, 1, end), ArmAt, Trail) = row.exit
            /\ stops /\ exitAt % span = 0 => end # None

(* The replay of the entry agrees with the monitor quote by quote: whether  *)
(* the limit filled, why the position ended, and a P&L no worse than the    *)
(* real one -- for what the replay has rules for: fills at the limit, no    *)
(* trailing exit, no flip before the fill or into a book too wide to exit.  *)
SimulationAgrees ==
    Reviewed /\ BidsThroughout /\ ~AtMarket /\ span = 1
        /\ (filledAt # None => row.entry = limit) /\ row.reason # "trailing_stop"
        /\ (\A i \in 1..Len(signals) : Flips(signals[i]) =>
                /\ filledAt # None /\ filledAt < signals[i].at
                /\ path[signals[i].at].ask - path[signals[i].at].bid <= MaxSpread)
    => /\ SimulateTrade.reason = row.reason
       /\ SimulateTrade.pnl * Size >= row.pnl

-----------------------------------------------------------------------------
(* Claims of the reports that the code refutes. *)

(* stoploss_sweep: "A position would have stopped at threshold t iff its    *)
(* recorded MAE ... reached t". The pass that stops a position out does not *)
(* record the excursion that made it.                                       *)
MaeCountsStops == Reviewed /\ row.reason = "stoploss" /\ row.mae # None => MaeTouches(Stop)

(* trailing_stop_sweep: a later signal "fills if the ask reaches it": the   *)
(* ask of its own side. The walk compares it with the side first held, and  *)
(* re-enters on signals that took no side.                                  *)
ReentriesWereOffered ==
    Reviewed /\ row.reason # "cancelled" =>
        \A i \in Walk(ArmAt, Trail).entered :
            /\ signals[i].direction # "SKIP"
            /\ \E t \in signals[i].at..Len(path) :
                  Cost(signals[i].direction, path[t]) <= LimitOf(signals[i].direction, signals[i].p)
=============================================================================
