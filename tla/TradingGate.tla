---------------------------- MODULE TradingGate ----------------------------
(***************************************************************************)
(* How an entry is let through: the signal loop of cli.py, the checks of   *)
(* OrderManager.submit and RiskEngine, and the run_state row by which the  *)
(* operator starts, pauses and stops the loop.                             *)
(*                                                                         *)
(* The loop is one task, so entries do not race each other.  It reads the  *)
(* run state, the open positions and the breakers once a cycle and then    *)
(* spends minutes in LLM calls, during which orders fill, positions close, *)
(* the day ends and the operator gives commands.                           *)
(*                                                                         *)
(* A contract costs a dollar, so a size is a number of contracts; what the *)
(* LLM, the strategy and the order book decide is any outcome they could   *)
(* have.  The timestamps of the daily-loss window (midnight, the           *)
(* acknowledgement) are kept as the P&L that falls inside it.              *)
(***************************************************************************)
EXTENDS Integers, FiniteSets, Functions

CONSTANTS
  Markets,
  Rows,            \* PositionRow ids
  Modes,           \* "paper", "live": each with its own bankroll and windows
  LimitEntries,    \* order_types.entry = "limit": a paper entry rests first
  PreSignalGate,   \* strategy.config.pre_signal_risk_gate
  ReentryBlocked,  \* block_reentry_after_stoploss; else a cooldown
  Deposit,         \* trading.bankroll_usd
  MaxOpen,         \* risk.max_open_positions
  MaxPositionPct, MaxMarketPct, MaxTotalPct, MaxLossPct, DrawdownPct,
  MaxCloses,       \* bound: positions that close at a profit or a loss
  MaxCommands      \* bound: commands of the operator, and restarts

ASSUME GateAssumption ==
  /\ IsFiniteSet(Rows) /\ Modes \subseteq {"paper", "live"} /\ Modes # {}
  /\ LimitEntries \in BOOLEAN /\ PreSignalGate \in BOOLEAN /\ ReentryBlocked \in BOOLEAN
  /\ Deposit \in Nat /\ MaxOpen \in Nat
  /\ {MaxPositionPct, MaxMarketPct, MaxTotalPct, MaxLossPct, DrawdownPct} \subseteq Nat
  /\ MaxCloses \in Nat /\ MaxCommands \in Nat

VARIABLES
  row,       \* the PositionRows: what counts against the caps
  pnl,       \* per mode: P&L of all closed rows
  recent,    \* per mode: P&L of the rows closed since midnight and the acknowledgement
  lossy,     \* mode and market of losing exits that still bar re-entry
  state,     \* run_state.state
  baseline,  \* per mode: run_state.drawdown_reset_bankroll, 0 when never set
  flagged,   \* run_state.cb_active
  clearing,  \* /reset_drawdown has written the baseline, not yet cb_active
  mode,      \* the mode of the running process
  tripped,   \* signal_loop's own circuit_breaker_active
  loop,      \* where the signal loop is, and what it has read this cycle
  closes, commands

book   == <<row, pnl, recent, lossy>>
panel  == <<state, baseline, flagged, clearing>>
bounds == <<closes, commands>>
vars   == <<book, panel, mode, tripped, loop, bounds>>

Sides == {"YES", "NO"}
Free  == [status |-> "free", mode |-> "none", market |-> "none", side |-> "none", size |-> 0]
Sleep == [at |-> "sleep", state |-> "none", held |-> {}, todo |-> {}, full |-> FALSE,
          market |-> "none", side |-> "none", adds |-> FALSE, bank |-> 0, order |-> 0]

(* SUM(pnl) of ledger.get_net_bankroll, floored at zero. *)
Bankroll(m) == IF Deposit + pnl[m] > 0 THEN Deposit + pnl[m] ELSE 0

\* Mutant: a resting order does not count as a position.
OpenOnly(m) == {r \in Rows : row[r].mode = m /\ row[r].status = "open"}

Active(m)      == {r \in Rows : row[r].mode = m /\ row[r].status \in {"open", "pending"}}
Open(m, k)     == {r \in Rows : row[r].mode = m /\ row[r].status = "open" /\ row[r].market = k}
Exposure(rows) == SumFunctionOnSet([r \in Rows |-> row[r].size], rows)

(* RiskEngine._check_global_capacity. *)
CapacityFull(bank) ==
  \/ Cardinality(Active(mode)) >= MaxOpen
  \/ 100 * Exposure(Active(mode)) >= MaxTotalPct * bank

(* RiskEngine.check_circuit_breakers. *)
BreakerTripped(bank) ==
  \/ recent[mode] < 0 /\ -100 * recent[mode] > MaxLossPct * bank
  \/ /\ baseline[mode] > 0
     /\ 100 * (baseline[mode] - bank) > DrawdownPct * baseline[mode]

(* RiskEngine.evaluate_position_caps.  The exposure columns hold what was   *)
(* requested of a resting order, not what has filled.                       *)
InMarket(k) == {r \in Active(mode) : row[r].market = k}

\* Mutant: resting orders take nothing from the room left in their market.
FitsOpenOnly(n, bank, k) ==
  /\ 100 * n <= MaxPositionPct * bank
  /\ 100 * (n + Exposure(Open(mode, k))) <= MaxMarketPct * bank
  /\ 100 * (n + Exposure(Active(mode))) <= MaxTotalPct * bank

Fits(n, bank, k) ==
  /\ 100 * n <= MaxPositionPct * bank
  /\ 100 * (n + Exposure(InMarket(k))) <= MaxMarketPct * bank
  /\ 100 * (n + Exposure(Active(mode))) <= MaxTotalPct * bank

(* n contracts is the size the caps leave of those asked for. *)
CappedTo(n, asked, bank, k) ==
  IF <<mode, k>> \in lossy \/ CapacityFull(bank) THEN n = 0
  ELSE (n = 0 \/ Fits(n, bank, k)) /\ (n = asked \/ ~Fits(n + 1, bank, k))

Init ==
  /\ row = [r \in Rows |-> Free]
  /\ pnl = [m \in Modes |-> 0] /\ recent = [m \in Modes |-> 0] /\ lossy = {}
  /\ state = "running" /\ flagged = FALSE /\ clearing = FALSE
  /\ baseline = [m \in Modes |-> 0]
  /\ mode \in Modes
  /\ tripped = FALSE /\ loop = Sleep
  /\ closes = 0 /\ commands = 0

-----------------------------------------------------------------------------
(* The signal loop.                                                        *)

At(step) == loop.at = step

\* Mutant: the run state is read when the process starts.
BeginCycleUnread ==
  /\ At("sleep")
  /\ LET held == {k \in Markets : Open(mode, k) # {}} IN
     \E picked \in SUBSET Markets :
       loop' = [Sleep EXCEPT !.at = "breakers", !.state = "running", !.held = held,
                             !.todo = held \cup picked]
  /\ UNCHANGED <<book, panel, mode, tripped, bounds>>

(* The top of a cycle: a stopped loop reads the state and sleeps on.  The   *)
(* markets to visit are those the strategy picks and those with a position. *)
BeginCycle ==
  /\ At("sleep") /\ state # "stopped"
  /\ LET held == {k \in Markets : Open(mode, k) # {}} IN
     \E picked \in SUBSET Markets :
       loop' = [Sleep EXCEPT !.at = "breakers", !.state = state, !.held = held,
                             !.todo = held \cup picked]
  /\ UNCHANGED <<book, panel, mode, tripped, bounds>>

CheckBreakers ==
  /\ At("breakers")
  /\ tripped' = BreakerTripped(Bankroll(mode))
  /\ loop' = [loop EXCEPT !.at = "flag"]
  /\ UNCHANGED <<book, panel, mode, bounds>>

(* set_cb_state, in a transaction of its own. *)
PersistBreaker ==
  /\ At("flag")
  /\ flagged' = tripped
  /\ loop' = [loop EXCEPT !.at = "capacity"]
  /\ UNCHANGED <<book, state, baseline, clearing, mode, tripped, bounds>>

GateOn == PreSignalGate /\ ~tripped

CheckCapacity ==
  /\ At("capacity")
  /\ loop' = [loop EXCEPT !.at = "markets",
                          !.full = GateOn /\ CapacityFull(Bankroll(mode))]
  /\ UNCHANGED <<book, panel, mode, tripped, bounds>>

Barred(k) == GateOn /\ k \notin loop.held /\ (loop.full \/ <<mode, k>> \in lossy)

(* The next market is skipped by a gate (capacity, re-entry after a loss, a *)
(* wide spread, a position already decided) or goes to the LLM.             *)
NextMarket ==
  /\ At("markets")
  /\ \E k \in loop.todo :
       LET rest == [loop EXCEPT !.todo = @ \ {k}] IN
       \/ loop' = rest
       \/ ~Barred(k) /\ loop' = [rest EXCEPT !.at = "analyze", !.market = k]
  /\ UNCHANGED <<book, panel, mode, tripped, bounds>>

NextOrDone == [loop EXCEPT !.at = "markets", !.market = "none", !.side = "none",
                           !.adds = FALSE, !.bank = 0, !.order = 0]

(* pipeline.analyze or synthesize_signal: no signal, SKIP, or a side.  The  *)
(* exits that a fresh signal sets off are among the closes below.           *)
Analyze ==
  /\ At("analyze")
  /\ \/ loop' = NextOrDone
     \/ /\ ~tripped /\ loop.state = "running"
        /\ \E s \in Sides : loop' = [loop EXCEPT !.at = "submit", !.side = s]
  /\ UNCHANGED <<book, panel, mode, tripped, bounds>>

\* Mutant: a position on the other side does not stand in the way.
SubmitOpensEitherSide ==
  /\ At("submit")
  /\ \/ loop' = NextOrDone
     \/ /\ ~CapacityFull(Bankroll(mode))
        /\ loop' = [loop EXCEPT !.at = "assess", !.bank = Bankroll(mode),
                                !.adds = Open(mode, loop.market) # {}]
  /\ UNCHANGED <<book, panel, mode, tripped, bounds>>

(* submit, up to the assessment: the net bankroll is read here, once. *)
SubmitOpens ==
  /\ At("submit")
  /\ LET mine == Open(mode, loop.market) IN
     \/ loop' = NextOrDone       \* spread, should_trade, no price improvement
     \/ /\ \A r \in mine : row[r].side = loop.side
        /\ ~CapacityFull(Bankroll(mode))
        /\ loop' = [loop EXCEPT !.at = "assess", !.bank = Bankroll(mode), !.adds = mine # {}]
  /\ UNCHANGED <<book, panel, mode, tripped, bounds>>

(* submit, once the assessment is in: sizing, breakers, caps.  A breaker   *)
(* raises, which ends the cycle.                                           *)
SubmitChecks ==
  /\ At("assess")
  /\ \E asked \in 0..Deposit :
       LET declined == asked = 0 /\ loop.adds
           broken   == BreakerTripped(loop.bank) IN
       \/ declined /\ loop' = NextOrDone
       \/ ~declined /\ broken /\ loop' = Sleep
       \/ /\ ~declined /\ ~broken
          /\ \E n \in 0..asked :
               /\ CappedTo(n, asked, loop.bank, loop.market)
               /\ loop' = IF n = 0 THEN NextOrDone ELSE [loop EXCEPT !.at = "place", !.order = n]
  /\ UNCHANGED <<book, panel, mode, tripped, bounds>>

(* _submit_paper and _submit_live: a live order may be refused, and may    *)
(* have filled by the time its row is inserted.                            *)
EntryStatus == IF mode = "live" THEN {"pending", "open"}
               ELSE IF LimitEntries THEN {"pending"} ELSE {"open"}

(* uuid4: a fresh id, whichever it is. *)
NewRow == CHOOSE r \in Rows : row[r] = Free \/ \A x \in Rows : row[x] # Free

PlaceOrder ==
  /\ At("place")
  /\ \/ mode = "live" /\ UNCHANGED row
     \/ \E s \in EntryStatus : LET r == NewRow IN
          /\ row[r] = Free
          /\ row' = [row EXCEPT ![r] = [status |-> s, mode |-> mode, market |-> loop.market,
                                        side |-> loop.side, size |-> loop.order]]
  /\ loop' = NextOrDone
  /\ UNCHANGED <<pnl, recent, lossy, panel, mode, tripped, bounds>>

EndCycle ==
  /\ At("markets") /\ loop.todo = {}
  /\ loop' = Sleep
  /\ UNCHANGED <<book, panel, mode, tripped, bounds>>

(* LLMBudgetExceededError, LLMConsecutiveErrorsError or any other exception *)
(* of an LLM call, the exchange or the database.                            *)
CycleFails ==
  /\ loop.at \in {"analyze", "assess", "place"}
  /\ loop' = Sleep
  /\ UNCHANGED <<book, panel, mode, tripped, bounds>>

LoopStep ==
  \/ BeginCycle \/ CheckBreakers \/ PersistBreaker \/ CheckCapacity \/ NextMarket \/ Analyze
  \/ SubmitOpens \/ SubmitChecks \/ PlaceOrder \/ EndCycle \/ CycleFails

-----------------------------------------------------------------------------
(* The other tasks of the process, as the gate sees them.                  *)

Fill(r) ==
  /\ row[r].mode = mode /\ row[r].status = "pending"
  /\ row' = [row EXCEPT ![r].status = "open"]
  /\ UNCHANGED <<pnl, recent, lossy, panel, mode, tripped, loop, bounds>>

CancelPending(r) ==
  /\ row[r].mode = mode /\ row[r].status = "pending"
  /\ row' = [row EXCEPT ![r] = Free]
  /\ UNCHANGED <<pnl, recent, lossy, panel, mode, tripped, loop, bounds>>

Close(r) ==
  /\ row[r].mode = mode /\ row[r].status = "open" /\ closes < MaxCloses
  /\ \E gain \in {-row[r].size, row[r].size} :
       /\ pnl' = [pnl EXCEPT ![mode] = @ + gain]
       /\ recent' = [recent EXCEPT ![mode] = @ + gain]
       /\ lossy' = IF gain < 0 THEN lossy \cup {<<mode, row[r].market>>} ELSE lossy
  /\ row' = [row EXCEPT ![r] = Free]
  /\ closes' = closes + 1
  /\ UNCHANGED <<panel, mode, tripped, loop, commands>>

CooldownElapses ==
  /\ ~ReentryBlocked /\ lossy # {}
  /\ \E x \in lossy : lossy' = lossy \ {x}
  /\ UNCHANGED <<row, pnl, recent, panel, mode, tripped, loop, bounds>>

Midnight ==
  /\ recent' = [m \in Modes |-> 0]
  /\ UNCHANGED <<row, pnl, lossy, panel, mode, tripped, loop, bounds>>

-----------------------------------------------------------------------------
(* The operator: Telegram, or the dashboard's run-state endpoint.          *)

Command == commands < MaxCommands /\ commands' = commands + 1

\* Mutant: resuming acknowledges the losses of every mode.
SetRunStateUnscoped(s) ==
  /\ Command
  /\ state' = s
  /\ recent' = IF s = "running" THEN [m \in Modes |-> 0] ELSE recent
  /\ UNCHANGED <<row, pnl, lossy, baseline, flagged, clearing, mode, tripped, loop, closes>>

(* set_run_state: resuming also acknowledges the losses of this mode. *)
SetRunState(s) ==
  /\ Command
  /\ state' = s
  /\ recent' = IF s = "running" THEN [recent EXCEPT ![mode] = 0] ELSE recent
  /\ UNCHANGED <<row, pnl, lossy, baseline, flagged, clearing, mode, tripped, loop, closes>>

ResetDrawdown ==
  /\ Command /\ ~clearing
  /\ baseline' = [baseline EXCEPT ![mode] = Bankroll(mode)]
  /\ clearing' = TRUE
  /\ UNCHANGED <<book, state, flagged, mode, tripped, loop, closes>>

ClearFlag ==
  /\ clearing
  /\ flagged' = FALSE /\ clearing' = FALSE
  /\ UNCHANGED <<book, state, baseline, mode, tripped, loop, bounds>>

Restart ==
  /\ Command
  /\ mode' \in Modes
  /\ loop' = Sleep /\ tripped' = FALSE /\ clearing' = FALSE
  /\ UNCHANGED <<book, state, baseline, flagged, closes>>

Next ==
  \/ LoopStep
  \/ \E r \in Rows : Fill(r) \/ CancelPending(r) \/ Close(r)
  \/ CooldownElapses \/ Midnight
  \/ \E s \in {"running", "paused", "stopped"} : SetRunState(s)
  \/ ResetDrawdown \/ ClearFlag \/ Restart

Spec     == Init /\ [][Next]_vars
FairSpec == Spec /\ WF_vars(LoopStep)

-----------------------------------------------------------------------------
(* Each variable has its type, and the loop is at a step it has. *)
Steps == {"sleep", "breakers", "flag", "capacity", "markets", "analyze", "submit", "assess",
          "place"}
RowType == [status: {"free", "open", "pending"}, mode: Modes \cup {"none"},
            market: Markets \cup {"none"}, side: Sides \cup {"none"}, size: Nat]
LoopType == [at: Steps, state: {"none", "running", "paused", "stopped"},
             held: SUBSET Markets, todo: SUBSET Markets, full: BOOLEAN,
             market: Markets \cup {"none"}, side: Sides \cup {"none"}, adds: BOOLEAN,
             bank: Nat, order: Nat]
TypeOK ==
  /\ row \in [Rows -> RowType]
  /\ pnl \in [Modes -> Int] /\ recent \in [Modes -> Int] /\ lossy \subseteq Modes \X Markets
  /\ state \in {"running", "paused", "stopped"}
  /\ flagged \in BOOLEAN /\ clearing \in BOOLEAN /\ tripped \in BOOLEAN
  /\ baseline \in [Modes -> Nat]
  /\ mode \in Modes
  /\ loop \in LoopType
  /\ closes \in 0..MaxCloses /\ commands \in 0..MaxCommands

(* risk.max_open_positions: no mode ever has more open and resting rows,    *)
(* although the last check comes an LLM call or an exchange call early.     *)
PositionCap == \A m \in Modes : Cardinality(Active(m)) <= MaxOpen

(* "Pending orders count toward all capacity caps": what an entry adds      *)
(* keeps the mode and the market within their share of the bankroll that    *)
(* submit read, with whatever rested or closed since then counted.          *)
EntryWithinCaps ==
  [][\A r \in Rows :
       row[r].status = "free" /\ row'[r].status # "free" =>
         /\ 100 * Exposure(Active(mode))' <= MaxTotalPct * loop.bank
         /\ \A k \in {loop.market} :
              100 * Exposure(InMarket(k))' <= MaxMarketPct * loop.bank]_vars

(* The opposite-side guard of submit: market orders on paper, which are     *)
(* open at once, never hold both sides of a market.                         *)
PaperOneSided ==
  LimitEntries \/ \A k \in Markets : \A r, s \in {x \in Active("paper") : row[x].market = k} :
                    row[r].side = row[s].side

(* A command acts on the risk windows of the mode it is given in: neither   *)
(* /start nor /reset_drawdown forgives the other mode anything.             *)
OtherModeUntouched ==
  [][\A m \in Modes \ {mode} :
       /\ baseline'[m] = baseline[m]
       /\ recent'[m] # recent[m] => UNCHANGED commands]_vars

(* /pause and /stop take hold: once the operator leaves the loop paused or  *)
(* stopped, a time comes after which no cycle may enter anything, whatever   *)
(* the cycle then under way still does.                                      *)
QuietAfterPause == <>[](state # "running") => <>[](loop.state # "running")

(* SPEC.md, circuit breakers: "Total drawdown > 30% from reset baseline:    *)
(* halt all trading".  The checks of submit let no order through while the  *)
(* drawdown of the mode is over the limit.                                  *)
DrawdownHaltsEntries ==
  [][At("assess") /\ loop'.at = "place" =>
       100 * (baseline[mode] - Bankroll(mode)) <= DrawdownPct * baseline[mode]]_vars

(* The alert of a tripped breaker: "freqpred will not enter new positions   *)
(* until manually resumed".  With no command and no restart, the loop's     *)
(* breaker stays tripped.                                                   *)
TrippedUntilResumed == [][commands = 0 /\ tripped => tripped']_vars
=============================================================================
