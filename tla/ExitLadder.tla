------------------------------ MODULE ExitLadder ------------------------------
(***************************************************************************)
(* One position from its entry to its close: the exit ladder of            *)
(* trading/position_monitor.py, the peak and excursion trackers it keeps   *)
(* in memory, and the money trading/ledger.py books.  LiveExits has the    *)
(* interleavings of several tasks and no prices; here one task runs, a     *)
(* pass is a step, and prices and fees are whole cents.                    *)
(*                                                                         *)
(* Quotes bounds the prices of the book and Size the contracts; the book   *)
(* may move any number of times.  What the hooks of a strategy answer      *)
(* (force_exit, custom_exit, should_exit) is a free choice, the wish of a  *)
(* pass.                                                                   *)
(***************************************************************************)
EXTENDS Integers, FiniteSetsExt

CONSTANTS
    Quotes,      \* the prices of the book, in cents, 0 and 100 included
    Size,        \* contracts of the position
    Stop,        \* -stoploss: the drop from entry that ends the position
    Trailing,    \* trailing_stop
    ArmAt,       \* trailing_stop_positive
    Trail,       \* trailing_stop_positive_offset
    MaxSpread,   \* effective_max_spread
    OnExchange,  \* order_types.stoploss_on_exchange
    LimitExit,   \* order_types.exit = "limit"
    EntryFee, ExitFee,
    Modes,       \* the modes the position may be in
    Faults       \* whether a write of the excursions may fail

Dollar == 100
Cents  == 0..Dollar
None   == -1000                            \* no value: outside every price and delta

(* Assumed by MCExits and MCReviews, of the constants they give. *)
QuotesAssumption == Quotes \subseteq Cents /\ {0, Dollar} \subseteq Quotes
SizeAssumption   == Size \in Nat \ {0}
StopAssumption   == Stop \in Cents /\ ArmAt \in Cents /\ Trail \in Cents /\ MaxSpread \in Cents
FeeAssumption    == EntryFee \in Nat /\ ExitFee \in Nat
FlagAssumption   == {Trailing, OnExchange, LimitExit, Faults} \subseteq BOOLEAN
ModeAssumption   == Modes \subseteq {"paper", "live"}

VARIABLES
    side, mode,  \* of the position
    book,        \* [bid, ask, last] of the YES side, as the markets row has it
    result,      \* YES value of the settlement, or None
    terminal,    \* the market's status is finalized, resolved or settled
    row,         \* the positions row
    peak, best, worst,  \* the monitor's memory: None when nothing is tracked
    cash,        \* what the position has brought in, less what it cost
    seen         \* [high, peak, low]: bids of the passes that held it, see Held

vars == <<side, mode, book, result, terminal, row, peak, best, worst, cash, seen>>

-----------------------------------------------------------------------------
(* Prices on the side that is held. *)

OfSide(price) == IF side = "YES" THEN price ELSE Dollar - price

(* What a sale gets, and what a purchase costs. *)
CurrentPrice == IF side = "YES" THEN book.bid ELSE Dollar - book.ask
CurrentAsk   == IF side = "YES" THEN book.ask ELSE Dollar - book.bid

(* Step 0.5: a bid of 0 before the result is known is an emptied book; the *)
(* last trade stands in, unless that is 0 too.                             *)
EffectivePrice ==
    IF CurrentPrice = 0 /\ OfSide(book.last) > 0 THEN OfSide(book.last) ELSE CurrentPrice

PeakPrice == IF peak = None THEN row.entry ELSE peak

TrailDistance(top) == IF top - row.entry >= ArmAt THEN Trail ELSE Stop
StopLevel(top)     == top - TrailDistance(top)

StoplossHit(price) == price - row.entry <= -Stop
TrailingHit(price) == Trailing /\ price <= StopLevel(PeakPrice)

(* _compute_exchange_stoploss_price: the limit ratio is 0.99, the floor a cent. *)
ExchangeStopPrice == Max({((row.entry - Stop) * 99) \div 100, 1})

-----------------------------------------------------------------------------
(* evaluate_exit: the first rule that applies, or no exit. *)

Hold == [reason |-> "hold", price |-> 0]
Exit(reason, price) == [reason |-> reason, price |-> price]

Discretionary == {"force_exit", "custom_exit", "signal"}
Wishes        == Discretionary \cup {"none"}

EvaluateExit(wish) ==
    CASE result # None               -> Exit("market_resolved", OfSide(result))
      [] result = None /\ StoplossHit(EffectivePrice) ->
            Exit("stoploss", IF OnExchange THEN ExchangeStopPrice ELSE EffectivePrice)
      [] result = None /\ ~StoplossHit(EffectivePrice) /\ TrailingHit(EffectivePrice) ->
            Exit("trailing_stop", IF LimitExit THEN StopLevel(PeakPrice) ELSE EffectivePrice)
      [] OTHER ->
            IF wish # "none" THEN Exit(wish, EffectivePrice)
            ELSE IF terminal THEN Exit("market_resolved", EffectivePrice)
            ELSE Hold

(* Deferring stop exits too. *)
DeferredAny(reason) == reason # "market_resolved" /\ book.ask - book.bid > MaxSpread

(* _defer_on_wide_spread: an exit of opinion waits for a book it can cross. *)
Deferred(reason) == reason \in Discretionary /\ book.ask - book.bid > MaxSpread

-----------------------------------------------------------------------------
(* The ledger's writes. *)

(* open_position is given a fee for live orders only. *)
PaidFee == IF mode = "live" THEN EntryFee ELSE 0

(* close_position: P&L on the contracts the row has, whatever was sold before. *)
Closed(price, reason) ==
    [row EXCEPT !.status = "closed", !.reason = reason, !.exit = price,
                !.pnl = (price - row.entry) * row.contracts - PaidFee]

(* partial_close_position. *)
Sold(n, price, reason) ==
    LET acc  == row.acc + (price - row.entry) * n
        fees == row.fees + ExitFee
        part == [row EXCEPT !.acc = acc, !.fees = fees, !.filled = @ + n, !.contracts = @ - n]
    IN  IF n < row.contracts THEN part
        ELSE [part EXCEPT !.status = "closed", !.reason = reason, !.exit = price,
                          !.pnl = acc - PaidFee - fees]

-----------------------------------------------------------------------------
(* The monitor's memory. *)

PeakAfter(price)     == IF price > PeakPrice THEN price ELSE peak

PrevBestMemory == IF best # None THEN best ELSE CurrentPrice - row.entry

PrevBest  == IF best  # None THEN best  ELSE IF row.mfe # None THEN row.mfe ELSE CurrentPrice - row.entry
PrevWorst == IF worst # None THEN worst ELSE IF row.mae # None THEN row.mae ELSE CurrentPrice - row.entry

NewBest  == Max({PrevBest, CurrentPrice - row.entry})
NewWorst == Min({PrevWorst, CurrentPrice - row.entry})
NewExtreme == NewBest > PrevBest \/ NewWorst < PrevWorst \/ (best = None /\ row.mae = None)

(* _update_peak and _update_excursions after a pass that leaves r open. The *)
(* memory moves before the write, and a write that fails is not repeated.   *)
Tracked(r) ==
    /\ peak'  = PeakAfter(CurrentPrice)
    /\ best'  = NewBest
    /\ worst' = NewWorst
    /\ \E written \in (IF Faults THEN BOOLEAN ELSE {TRUE}) :
          row' = IF NewExtreme /\ written THEN [r EXCEPT !.mae = NewWorst, !.mfe = NewBest] ELSE r
    /\ seen' = [high |-> Max({seen.high, CurrentPrice}), peak |-> Max({seen.peak, CurrentPrice}),
                low  |-> Min({seen.low, CurrentPrice})]

Forgotten == peak' = None /\ best' = None /\ worst' = None /\ UNCHANGED seen

Kept == UNCHANGED <<peak, best, worst, seen>>

-----------------------------------------------------------------------------
(* check_all_positions for this position. *)

IsOpen == row.status = "open"

PassHolds(wish) ==
    /\ IsOpen
    /\ EvaluateExit(wish) = Hold
    /\ Tracked(row)
    /\ UNCHANGED <<side, mode, book, result, terminal, cash>>

(* A deferred or failed exit leaves the position and its trackers alone. *)
PassDefers(wish) ==
    LET e == EvaluateExit(wish)
    IN  /\ IsOpen /\ e # Hold
        /\ \/ Deferred(e.reason)
           \/ mode = "live"                   \* zero bid, refused, timed out or no fill
        /\ UNCHANGED vars

PaperExit(wish) ==
    LET e == EvaluateExit(wish)
    IN  /\ IsOpen /\ mode = "paper"
        /\ e # Hold /\ ~Deferred(e.reason)
        /\ row'  = Closed(e.price, e.reason)
        /\ cash' = cash + e.price * row.contracts
        /\ Forgotten
        /\ UNCHANGED <<side, mode, book, result, terminal>>

(* The IOC order takes n contracts at the bid. *)
LiveExit(wish) ==
    LET e == EvaluateExit(wish)
    IN  /\ IsOpen /\ mode = "live" /\ CurrentPrice > 0
        /\ e # Hold /\ ~Deferred(e.reason)
        /\ \E n \in 1..row.contracts :
              LET r == Sold(n, CurrentPrice, e.reason)
              IN  /\ cash' = cash + CurrentPrice * n - ExitFee
                  /\ IF r.status = "closed" THEN row' = r /\ Forgotten ELSE Tracked(r)
        /\ UNCHANGED <<side, mode, book, result, terminal>>

(* _process_pending_position: a resting paper limit fills when the ask      *)
(* reaches it, at the better of the two prices, or is cancelled at cost.    *)
PaperFill ==
    /\ row.status = "pending" /\ CurrentAsk <= row.entry
    /\ row'  = [row EXCEPT !.status = "open", !.entry = Min({CurrentAsk, row.entry})]
    /\ cash' = -(row'.entry * Size)
    /\ seen' = [high |-> 0, peak |-> row'.entry, low |-> Dollar]
    /\ UNCHANGED <<side, mode, book, result, terminal, peak, best, worst>>

PaperCancel ==
    /\ row.status = "pending" /\ CurrentAsk > row.entry
    /\ row'  = Closed(row.entry, "cancelled")
    /\ UNCHANGED <<side, mode, book, result, terminal, peak, best, worst, cash, seen>>

(* The watchers close the row of a settled market; Resolution has the rows  *)
(* they close, pending ones included.                                       *)
SettleElsewhere ==
    /\ IsOpen /\ result # None
    /\ row'  = Closed(OfSide(result), "market_resolved")
    /\ cash' = cash + OfSide(result) * row.contracts
    /\ UNCHANGED <<side, mode, book, result, terminal, peak, best, worst, seen>>

Restart ==
    /\ row.status # "closed"
    /\ peak' = None /\ best' = None /\ worst' = None
    /\ seen' = [seen EXCEPT !.peak = row.entry]
    /\ UNCHANGED <<side, mode, book, result, terminal, row, cash>>

-----------------------------------------------------------------------------
(* The market. *)

Books == {b \in [bid : Quotes, ask : Quotes, last : Quotes] : b.bid < b.ask}

Quote ==
    /\ row.status # "closed" /\ result = None
    /\ book' \in {b \in Books : b.last \in {book.last, b.bid, b.ask}}
    /\ UNCHANGED <<side, mode, result, terminal, row, peak, best, worst, cash, seen>>

Settle ==
    /\ row.status # "closed" /\ result = None
    /\ result' \in Quotes
    /\ UNCHANGED <<side, mode, book, terminal, row, peak, best, worst, cash, seen>>

Finalize ==
    /\ row.status # "closed" /\ ~terminal
    /\ terminal' = TRUE
    /\ UNCHANGED <<side, mode, book, result, row, peak, best, worst, cash, seen>>

-----------------------------------------------------------------------------
Entered(entry, status) ==
    [status |-> status, entry |-> entry, contracts |-> Size, acc |-> 0, fees |-> 0, filled |-> 0,
     mae |-> None, mfe |-> None, exit |-> None, reason |-> "none", pnl |-> 0]

Init ==
    /\ side \in {"YES", "NO"} /\ mode \in Modes
    /\ book \in {b \in Books : b.last \in {b.bid, b.ask} /\ b.bid > 0 /\ b.ask < Dollar}
    /\ result = None /\ terminal = FALSE
    /\ \/ row = Entered(CurrentAsk, "open") /\ cash = -(CurrentAsk * Size) - PaidFee
       \/ /\ mode = "paper"
          /\ \E limit \in {q \in Quotes : 0 < q /\ q < CurrentAsk} : row = Entered(limit, "pending")
          /\ cash = 0
    /\ peak = None /\ best = None /\ worst = None
    /\ seen = [high |-> 0, peak |-> row.entry, low |-> Dollar]

Pass ==
    \/ \E wish \in Wishes : PassHolds(wish) \/ PassDefers(wish) \/ PaperExit(wish) \/ LiveExit(wish)
    \/ PaperFill \/ PaperCancel

Next == Pass \/ SettleElsewhere \/ Restart \/ Quote \/ Settle \/ Finalize

Spec == Init /\ [][Next]_vars

(* run() starts a pass every poll interval for as long as the process       *)
(* lives, and a paper exit needs nothing but the database.                  *)
FairSpec == Spec /\ WF_vars(\E wish \in Wishes : PaperExit(wish))

-----------------------------------------------------------------------------
(* Every field stays in its range: no sale takes the contracts below zero.  *)
TypeOK ==
    /\ row.status \in {"pending", "open", "closed"}
    /\ row.contracts \in 0..Size /\ row.filled \in 0..Size
    /\ row.contracts + row.filled = Size
    /\ book \in Books /\ result \in Cents \cup {None}
    /\ peak \in Cents \cup {None}

(* What the ledger leaves out when close_position ends a row that exits had *)
(* already reduced: it reads neither the accumulator nor the exit fees.     *)
Unbooked == IF row.filled \in 1..(Size - 1) THEN row.acc - row.fees ELSE 0

(* The books balance: the P&L of a closed row is the cash the position      *)
(* brought in, over any number of partial exits, fees, settlements and      *)
(* restarts -- but for the share of the exits that preceded a settlement.   *)
BooksBalance == row.status = "closed" => cash = row.pnl + Unbooked

(* get_portfolio_summary of an open position, at the mid price that tickers *)
(* write: the last trade (PositionWatcher._on_ticker_update).               *)
Unrealized == row.contracts * (OfSide(book.last) - row.entry) - PaidFee

(* What the summary shows is what the position would bring at the mid, over *)
(* partial exits and restarts, but for the partial exits themselves; so it  *)
(* does not jump when the position closes there ("doesn't jump the moment   *)
(* positions actually close").                                              *)
WorthShown ==
    row.status = "open" =>
        cash + row.contracts * OfSide(book.last) = Unrealized + row.acc - row.fees

(* The reading of close_position's "pnl" its callers take: nothing is left  *)
(* out. The partial exits of a position that then settles refute it.        *)
PnlIsCash == row.status = "closed" => cash = row.pnl

(* The row remembers the best and the worst bid of every pass that held the *)
(* position, across partial exits and restarts.                             *)
ExcursionsRemember ==
    row.status = "open" /\ seen.low <= seen.high
        => row.mfe >= seen.high - row.entry /\ row.mae <= seen.low - row.entry

(* MAE is a loss somebody could have taken: a bid of an emptied book is not *)
(* a price ("not a real traded price", step 0.5 of evaluate_exit).          *)
MaeWasQuoted ==
    row.status = "open" /\ row.mae # None /\ row.mae = -row.entry => OfSide(book.last) = 0

(* The comment on _peak_prices, "best mid_price seen since entry": the peak *)
(* is at least every bid seen. A restart, and a pass whose exit was         *)
(* deferred, refute it.                                                     *)
PeakSinceEntry == row.status = "open" => PeakPrice >= seen.high

(* The bid is at the stop, or at the trailing level below the best bid at   *)
(* which a pass of this process has held the position.                      *)
AtStop ==
    \/ EffectivePrice <= row.entry - Stop
    \/ Trailing /\ EffectivePrice <= StopLevel(seen.peak)

(* A stop ends a paper position while the price stays there, however wide   *)
(* the book, whatever the last pass held it at and wherever the book is     *)
(* emptied: the deferral of exits "cannot trap a position".                 *)
StopsEnd == (mode = "paper" /\ IsOpen /\ AtStop) ~> ~(IsOpen /\ AtStop)
=============================================================================
