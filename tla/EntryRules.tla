------------------------------ MODULE EntryRules ------------------------------
(***************************************************************************)
(* Whether a signal becomes an order, and for how many contracts: the      *)
(* gates of strategy/base.py and trading/order_manager.py, and the three   *)
(* second implementations that are expected to follow them: the replay of  *)
(* fixtures (replay/engine.py), the benchmark's trade decision             *)
(* (bench/scoring.py) and the weekly review's gate analysis                *)
(* (metrics/weekly_review.py).                                             *)
(*                                                                         *)
(* A behaviour is the log of the signals of some markets, in the order of  *)
(* their creation, with the entries production made.  Prices and           *)
(* probabilities are half-cents, so that a computed price can lie between  *)
(* two ticks; confidences are tenths.  Portfolio state is TradingGate's:   *)
(* the portfolio is empty here and a market is entered once.               *)
(***************************************************************************)
EXTENDS Integers, Sequences, FiniteSetsExt

CONSTANTS
    Markets,
    Quotes,       \* the bids and asks of a book
    Estimates,    \* estimated probabilities
    Confidences,  \* of the signals, in tenths
    Days,         \* days to close
    Log,          \* the signals of a behaviour, at most
    MinEdge, MaxEdge, MinConfidence, MinMid, MaxMid, MaxSpread, MinDays, MaxDays,
    MinAnalysis, MaxAnalysis,  \* min_analysis_price, max_analysis_price
    Budget,       \* kelly_fraction * max_exposure_per_market * bankroll
    MaxSize       \* the least of the caps an empty portfolio is held to

Dollar == 200
Tick   == 2
Prices == 0..Dollar

(* Assumed by MCReviews. *)
BandsAssumption ==
    /\ Quotes \subseteq Prices /\ Estimates \subseteq Prices /\ Confidences \subseteq 0..10
    /\ {MinEdge, MaxEdge, MinConfidence, MinMid, MaxMid, MaxSpread, MinDays, MaxDays,
        MinAnalysis, MaxAnalysis, Budget, MaxSize} \cup Days \subseteq Int

VARIABLES
    log,      \* the signals, oldest first
    entered,  \* the indices of those production entered on
    limit     \* order_types.entry = "limit"; a behaviour has one configuration

vars == <<log, entered, limit>>

Signals == [market : Markets, direction : {"YES", "NO", "SKIP"}, p : Estimates,
            conf : Confidences, bid : Quotes, ask : Quotes, days : Days]

-----------------------------------------------------------------------------
(* The price of a signal. *)

OtherSide(price) == Dollar - price

\* Mutant: the NO side is priced at the YES ask.
EdgeAtAsk(s) == IF s.direction = "NO" THEN OtherSide(s.p) - OtherSide(s.ask) ELSE s.p - s.ask

(* compute_signal_edge. *)
SideAsk(s) == IF s.direction = "NO" THEN OtherSide(s.bid) ELSE s.ask
Edge(s)    == IF s.direction = "NO" THEN OtherSide(s.p) - SideAsk(s) ELSE s.p - s.ask

(* Twice the mid, of YES and of the side the signal takes. *)
Mid(s)     == s.bid + s.ask
SideMid(s) == IF s.direction = "NO" THEN 2 * Dollar - Mid(s) ELSE Mid(s)

Spread(s)  == s.ask - s.bid

-----------------------------------------------------------------------------
(* strategy/base.py *)

(* is_market_interesting; category and volume pass for every market here. *)
IsMarketInteresting(s) ==
    /\ 2 * MinMid <= Mid(s) /\ Mid(s) <= 2 * MaxMid
    /\ MinDays <= s.days /\ s.days <= MaxDays

ShouldTrade(s) ==
    /\ IsMarketInteresting(s)
    /\ MinEdge <= Edge(s) /\ Edge(s) <= MaxEdge
    /\ MinConfidence <= s.conf
    /\ 2 * MinMid <= SideMid(s) /\ SideMid(s) <= 2 * MaxMid

(* _ideal_total_exposure: the Kelly fraction of the budget on the estimate  *)
(* blended with the market, as it is computed there:                        *)
(*   B = (1 - m) / m,  q = c e + (1 - c) m,  f = (B q - (1 - q)) / B        *)
Kelly(s) ==
    LET m     == IF s.direction = "NO" THEN Dollar - (s.p + Edge(s)) ELSE s.p - Edge(s)
        e     == IF s.direction = "NO" THEN OtherSide(s.p) ELSE s.p
        q     == s.conf * e + (10 - s.conf) * m                  \* of 10 * Dollar
        above == q * (Dollar - m) - (10 * Dollar - q) * m
    IN  IF above <= 0 THEN 0 ELSE (above * Budget) \div (10 * Dollar * (Dollar - m))

(* should_analyze_position and should_exit, of a position entered on s. *)
ShouldAnalyze(s, now) ==
    LET side == IF s.direction = "YES" THEN Mid(now) ELSE 2 * Dollar - Mid(now)
    IN  2 * MinAnalysis < side /\ side < 2 * MaxAnalysis

ShouldExit(s, now) ==
    /\ now.direction \notin {"SKIP", s.direction}
    /\ now.conf >= MinConfidence
    /\ (IF s.direction = "YES" THEN s.p - now.p ELSE now.p - s.p) > MinEdge

-----------------------------------------------------------------------------
(* OrderManager.submit, with an empty portfolio and no assessment. *)

Declined == [trade |-> FALSE, price |-> 0, contracts |-> 0]
Order(price, contracts) == [trade |-> TRUE, price |-> price, contracts |-> contracts]

RoundToTick(price) == IF price <= 0 THEN 0 ELSE (price \div Tick) * Tick

(* The resting bid: the estimate of the side less the required edge. *)
LimitPrice(s) == (IF s.direction = "YES" THEN s.p ELSE OtherSide(s.p)) - MinEdge

(* Step 0 and step 1. *)
Clears(s) == s.direction # "SKIP" /\ Spread(s) <= MaxSpread /\ ShouldTrade(s)

Sized(price, size) ==
    IF price > 0 /\ size \div price >= 1 THEN Order(price, size \div price) ELSE Declined

CappedSize(s) == Min({Kelly(s), MaxSize})

Submit(s) ==
    IF ~Clears(s) THEN Declined
    ELSE Sized(IF limit THEN RoundToTick(LimitPrice(s)) ELSE SideAsk(s), CappedSize(s))

-----------------------------------------------------------------------------
(* replay_entry_decision: the same chain, and no rounding of the limit. *)

Replay(s) ==
    IF ~Clears(s) THEN Declined
    ELSE Sized(IF limit THEN LimitPrice(s)
               ELSE IF s.direction = "YES" THEN s.ask ELSE OtherSide(s.bid), CappedSize(s))

(* trade_decision of the benchmark: no market selection and no spread gate. *)
BenchTrades(s) ==
    /\ s.direction # "SKIP"
    /\ MinEdge <= Edge(s) /\ Edge(s) <= MaxEdge
    /\ MinConfidence <= s.conf
    /\ 2 * MinMid <= SideMid(s) /\ SideMid(s) <= 2 * MaxMid

-----------------------------------------------------------------------------
(* The weekly review's gates, over the signals that took a side. *)

Resolved == {i \in 1..Len(log) : log[i].direction # "SKIP"}

(* reconstruct_spread: the book reflected around the mid, from the side's   *)
(* ask; a book that comes out crossed is admitted.                          *)
ReconstructedSpread(s) ==
    IF s.direction = "YES" THEN 2 * s.ask - Mid(s) ELSE Mid(s) + 2 * SideAsk(s) - 2 * Dollar

SpreadWithin(s, most) == ReconstructedSpread(s) < 0 \/ ReconstructedSpread(s) <= most

Gates == {"min_edge", "max_edge", "min_confidence", "max_spread", "days_to_close", "mid_price_band"}

(* _gate_predicates *)
Admits(gate, s) ==
    CASE gate = "min_edge"       -> MinEdge <= Edge(s)
      [] gate = "max_edge"       -> Edge(s) <= MaxEdge
      [] gate = "min_confidence" -> MinConfidence <= s.conf
      [] gate = "max_spread"     -> SpreadWithin(s, MaxSpread)
      [] gate = "days_to_close"  -> MinDays <= s.days /\ s.days <= MaxDays
      [] gate = "mid_price_band" -> 2 * MinMid <= SideMid(s) /\ SideMid(s) <= 2 * MaxMid

(* first_per_market: the earliest of some signals, per market. *)
FirstPerMarket(set) ==
    {i \in set : \A j \in set : log[j].market = log[i].market => i <= j}

Passing(gates) == {i \in Resolved : \A g \in gates : Admits(g, log[i])}

(* entry_gate_analysis and gate_replay_analysis: the split one gate is      *)
(* responsible for, the others held.                                        *)
Admitted(gate) == FirstPerMarket({i \in Passing(Gates \ {gate}) : Admits(gate, log[i])})
Blocked(gate)  ==
    {i \in FirstPerMarket(Passing(Gates \ {gate})) :
        \A j \in Admitted(gate) : log[j].market # log[i].market}

Swept == {"min_edge", "max_edge", "min_confidence", "max_spread",
          "max_days_to_close", "max_mid_price", "min_mid_price"}

(* _threshold_predicate and _current_setting *)
Setting(gate) ==
    CASE gate = "min_edge"          -> MinEdge
      [] gate = "max_edge"          -> MaxEdge
      [] gate = "min_confidence"    -> MinConfidence
      [] gate = "max_spread"        -> MaxSpread
      [] gate = "max_days_to_close" -> MaxDays
      [] gate = "max_mid_price"     -> MaxMid
      [] gate = "min_mid_price"     -> MinMid

Within(gate, s, value) ==
    CASE gate = "min_edge"          -> value <= Edge(s)
      [] gate = "max_edge"          -> Edge(s) <= value
      [] gate = "min_confidence"    -> value <= s.conf
      [] gate = "max_spread"        -> SpreadWithin(s, value)
      [] gate = "max_days_to_close" -> s.days <= value
      [] gate = "max_mid_price"     -> SideMid(s) <= 2 * value
      [] gate = "min_mid_price"     -> 2 * value <= SideMid(s)

(* gate_threshold_replay_sweep: moving one edge of a band drops the band. *)
Excluded(gate) ==
    {gate} \cup (IF gate \in {"max_mid_price", "min_mid_price"} THEN {"mid_price_band"} ELSE {})
           \cup (IF gate = "max_days_to_close" THEN {"days_to_close"} ELSE {})

SweepRow(gate, value) ==
    FirstPerMarket({i \in Passing(Gates \ Excluded(gate)) : Within(gate, log[i], value)})

-----------------------------------------------------------------------------
Init == log = <<>> /\ entered = {} /\ limit \in BOOLEAN

(* A market is analysed, and entered by the first signal that clears the    *)
(* gates: from then on existing exposure stands in the way.                 *)
Analyze ==
    /\ Len(log) < Log
    /\ \E s \in Signals :
          /\ 0 < s.bid /\ s.bid < s.ask /\ s.ask < Dollar
          /\ log' = Append(log, s)
          /\ entered' = IF Clears(s) /\ \A i \in entered : log[i].market # s.market
                        THEN entered \cup {Len(log) + 1} ELSE entered
    /\ UNCHANGED limit

Next == Analyze

Spec == Init /\ [][Next]_vars

-----------------------------------------------------------------------------
SymmetricBands == MinMid + MaxMid = Dollar

TypeOK == log \in Seq(Signals) /\ entered \subseteq 1..Len(log) /\ limit \in BOOLEAN

(* The replay of a fixture decides as submit did: whether to trade, at what *)
(* price, how many contracts ("Mirror order_manager.submit()'s              *)
(* entry-decision chain") -- whenever the price is one the exchange takes.  *)
ReplayAgrees ==
    \A i \in 1..Len(log) :
        ~limit \/ LimitPrice(log[i]) % Tick = 0 => Replay(log[i]) = Submit(log[i])

(* The unconditional claim: a limit between two ticks refutes it, since     *)
(* submit rounds it down and the replay does not.                           *)
ReplayMirrors == \A i \in 1..Len(log) : Replay(log[i]) = Submit(log[i])

(* The review attributes what production did: whichever gate is singled     *)
(* out, the entries it says were admitted are those production made, its    *)
(* markets blocked are the others that every other gate let in, and the     *)
(* sweep's row at the current value of an unbounded gate says the same; and *)
(* the benchmark trades what production entered.  With an asymmetric price  *)
(* band it fails: is_market_interesting asks it of the YES mid as well.     *)
GatesAgree ==
    SymmetricBands =>
    /\ \A i \in entered : BenchTrades(log[i])
    /\ \A g \in Gates :
          /\ Admitted(g) = entered
          /\ \A i \in Passing(Gates \ {g}) :
                \/ \E j \in Admitted(g) \cup Blocked(g) : log[j].market = log[i].market
    /\ \A g \in Swept \cap Gates : SweepRow(g, Setting(g)) = entered

(* "the others held at their configured values": the row of every gate at   *)
(* its current value is production. Sweeping one edge of the price band or  *)
(* the days drops the other edge, which refutes it.                         *)
CurrentRowIsProduction == \A g \in Swept : SweepRow(g, Setting(g)) = entered

(* YES and NO are mirror images: a book, an estimate and a side reflected   *)
(* at half a dollar are admitted, sized, priced, re-analysed and exited     *)
(* alike, as long as the configured bands are symmetric themselves.         *)
Mirror(s) ==
    [s EXCEPT !.direction = CASE s.direction = "YES" -> "NO" [] s.direction = "NO" -> "YES"
                              [] OTHER -> "SKIP",
              !.p = OtherSide(s.p), !.bid = OtherSide(s.ask), !.ask = OtherSide(s.bid)]

MirrorSymmetric ==
    SymmetricBands =>
        /\ \A i \in Resolved :
              /\ Submit(Mirror(log[i])) = Submit(log[i])
              /\ Replay(Mirror(log[i])) = Replay(log[i])
              /\ \A g \in Gates : Admits(g, Mirror(log[i])) = Admits(g, log[i])
        /\ \A i, j \in Resolved : i < j =>
              /\ ShouldExit(Mirror(log[i]), Mirror(log[j])) = ShouldExit(log[i], log[j])
              /\ ShouldAnalyze(Mirror(log[i]), Mirror(log[j])) = ShouldAnalyze(log[i], log[j])
=============================================================================
