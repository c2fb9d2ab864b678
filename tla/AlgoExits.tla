------------------------------ MODULE AlgoExits ------------------------------
(***************************************************************************)
(* The exits of strategies that read the ticks of the WebSocket            *)
(* (strategy/algo_base.py, with the rule of strategy/defaults/politics.py) *)
(* for the positions of one market.  Ticks are gathered in candles; the    *)
(* last candle may still grow and is not looked at; what the others say is *)
(* kept per side of the market until a tick opens a new candle.  NO        *)
(* positions are judged on candles turned upside down.                     *)
(*                                                                         *)
(* Prices are mid prices in cents.  A candle keeps of its ticks what the   *)
(* rule reads.  Ticks are dropped where a candle begins, so the buffer is  *)
(* a sequence of candles; candles without ticks do not exist.              *)
(***************************************************************************)
EXTENDS Integers, Sequences, SequencesExt, FiniteSetsExt

CONSTANTS Ticks,      \* mid price of a tick, and whether the book is tight
          Entries,    \* entry prices of positions, on their own side
          Estimates,  \* estimated probabilities of their signals
          MinEdge, Chop,
          Keep,       \* max_candles
          Warm,       \* min_candles
          Run,        \* candles the rule looks at
          Longest     \* bound: candles in the buffer

Dollar == 100
Sides  == {"YES", "NO"}
None   == [exit |-> "none"]

VARIABLES
  buffer,   \* _ticks, as candles; _current_bucket is the last one's
  cache,    \* _candle_cache: the answer, and the position it was worked out for
  position, \* an open position, or None
  history   \* the last candles as each side of the market saw their ticks

vars == <<buffer, cache, position, history>>

-----------------------------------------------------------------------------
(* _resample: what a tick makes of its candle. *)
Fresh(price, tight) == [open |-> price, high |-> price, low |-> price, close |-> price,
                        tight |-> tight]
Grown(c, price, tight) ==
  [c EXCEPT !.high = Max({@, price}), !.low = Min({@, price}), !.close = price,
            !.tight = tight]

(* The complete candles, at most Keep of them. *)
Complete(b) == LET done == SubSeq(b, 1, Len(b) - 1)
               IN  SubSeq(done, Max({1, Len(done) - Keep + 1}), Len(done))

(* _invert_ohlc *)
Inverted(c) == [c EXCEPT !.open = Dollar - c.open, !.close = Dollar - c.close,
                         !.high = Dollar - c.low, !.low = Dollar - c.high]

Own(side, candles) ==
  IF side = "YES" THEN candles ELSE [i \in DOMAIN candles |-> Inverted(candles[i])]

(* populate_indicators, populate_exit_trend: the last candle closed outside *)
(* of what entry and estimate explain, and each of the last Run candles     *)
(* swung and came back, on a book one could trade on.                       *)
Abs(x) == IF x < 0 THEN -x ELSE x

Choppy(c) == /\ c.high - c.low > Chop
             /\ 2 * Abs(c.close - c.open) < c.high - c.low
             /\ c.tight

Outside(price, entry, est) ==
  \/ price < Max({0, Min({entry, est}) - MinEdge})
  \/ price > Min({Dollar, Max({entry, est}) + MinEdge})

Says(candles, entry, est) ==
  /\ Len(candles) >= Run
  /\ \A i \in Len(candles) - Run + 1 .. Len(candles) : Choppy(candles[i])
  /\ Outside(Last(candles).close, entry, est)

Est(p) == IF p.side = "YES" THEN p.est ELSE Dollar - p.est

-----------------------------------------------------------------------------
(* ingest_tick, from PositionWatcher._on_ticker_update: a new candle drops  *)
(* what was worked out for either side.                                     *)
Extended(seq, price, tight, new) ==
  IF new \/ seq = <<>> THEN Append(seq, Fresh(price, tight))
  ELSE [seq EXCEPT ![Len(seq)] = Grown(@, price, tight)]

Lately(seq) == SubSeq(seq, Max({1, Len(seq) - Keep}), Len(seq))

Tick(price, tight, new) ==
  /\ new => Len(buffer) < Longest
  /\ buffer' = Extended(buffer, price, tight, new)
  /\ cache' = IF new \/ buffer = <<>> THEN [s \in Sides |-> None] ELSE cache
  /\ history' = [YES |-> Lately(Extended(history.YES, price, tight, new)),
                 NO  |-> Lately(Extended(history.NO, Dollar - price, tight, new))]
  /\ UNCHANGED position

(* force_exit, asked by a pass of the monitor: the answer that is kept, or  *)
(* one worked out from the ticks, which are trimmed to the candles used.    *)
Trimmed(b) == SubSeq(b, Max({1, Len(b) - Keep}), Len(b))

WorksOut ==
  /\ position # None /\ cache[position.side] = None
  /\ Len(buffer) > 1
  /\ buffer' = Trimmed(buffer)
  /\ cache' = IF Len(Complete(buffer)) < Warm THEN cache
              ELSE [cache EXCEPT ![position.side] =
                      [entry |-> position.entry, est |-> Est(position),
                       exit |-> Says(Own(position.side, Complete(buffer)),
                                     position.entry, Est(position))]]
  /\ UNCHANGED <<position, history>>

(* The answer is carried out, deferred, or comes to nothing; other rules    *)
(* end positions too.  ExitLadder has what becomes of an exit.              *)
Leaves ==
  /\ position # None
  /\ position' = None
  /\ UNCHANGED <<buffer, cache, history>>

Enters(side, entry, est) ==
  /\ position = None
  /\ position' = [side |-> side, entry |-> entry, est |-> est, exit |-> "open"]
  /\ UNCHANGED <<buffer, cache, history>>

(* The ticks, and what was worked out, are in memory. *)
Restart ==
  /\ buffer' = <<>> /\ cache' = [s \in Sides |-> None]
  /\ history' = [s \in Sides |-> <<>>]
  /\ UNCHANGED position

Init ==
  /\ buffer = <<>> /\ position = None
  /\ cache = [s \in Sides |-> None] /\ history = [s \in Sides |-> <<>>]

Next ==
  \/ \E t \in Ticks, new \in BOOLEAN : Tick(t[1], t[2], new)
  \/ WorksOut \/ Leaves \/ Restart
  \/ \E side \in Sides, entry \in Entries, est \in Estimates : Enters(side, entry, est)

Spec == Init /\ [][Next]_vars

-----------------------------------------------------------------------------
(* An answer that is kept is the answer of all complete candles there are,  *)
(* as the side that asks saw the market: nothing was trimmed too soon, no   *)
(* candle has been completed since, and NO is YES of the opposite market.   *)
AnswersCurrent ==
  \A s \in Sides :
    cache[s] # None => cache[s].exit = Says(Complete(history[s]), cache[s].entry, cache[s].est)

(* Claim: the answer a position gets is worked out for it ("entry_price"    *)
(* and "p_est" of `metadata`).  A position that follows another on its side *)
(* before a candle is complete gets the other's.                            *)
AnswersOwn ==
  position # None /\ cache[position.side] # None =>
    cache[position.side].exit =
      Says(Complete(history[position.side]), position.entry, Est(position))
=============================================================================
