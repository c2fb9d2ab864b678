# freqpred, modelled in TLA+

freqpred is a Python/asyncio program that trades event contracts on Kalshi: it
ingests news, asks an LLM for probabilities, sizes and submits entry orders,
keeps a ledger of positions in Postgres, watches prices, exits positions, and
afterwards judges its own signals and exits. One process runs a dozen tasks on
one event loop; they share one database and interleave at every `await`, while
orders fill, messages come late, calls fail and the process restarts. This
directory models that: the state each part keeps, every operation that changes
it, and what must hold of it.

Sections: [inventory](#inventory), [interactions](#how-the-components-interact),
[modules](#modules), [runs](#runs), [bounds](#bounds), [fairness](#fairness),
[proofs](#proofs), [divergences](#where-the-code-departs-from-its-words),
[not modelled](#what-is-not-modelled), [plan](#plan).

## Inventory

Sources are under `src/freqpred/`.

| Component | State it keeps | Operations | What makes it correct | Modules |
|---|---|---|---|---|
| Live orders, `trading/order_manager.py` | rows of `positions` | `submit`, `_submit_live`, `reconcile_pending_orders`, `apply_ws_event`, `force_exit` | a row never claims more than was filled; a resting order is followed; a cancel hides no fill | `OrderStatus`, `OrderTracking`, `OrderSync`, `LiveExits` |
| Ledger, `trading/ledger.py` | `PositionRow` | open, close, partial close, promote, P&L queries | counts and money agree with what was bought and sold; closed is final | `OrderStatus`, `ExitLadder`, `LiveExits` |
| Position monitor, `trading/position_monitor.py` | peak, excursion and deferral memory | `check_all_positions`, `evaluate_exit`, paper and live exits | held contracts stay tracked; an exit completes; excursions are remembered | `LiveExits`, `ExitLadder` |
| Position watcher, `markets/position_watcher.py` | socket, subscriptions, survey | connect, survey, events, ticks, closing of resolved markets | every position is watched; no survey overwrites newer knowledge with more than is held, or takes a sale for drift | `OrderSync`, `LiveExits`, `Resolution`, `AlgoExits` |
| Market watcher, `markets/watcher.py`, `repository.py` | `markets` rows | list, upsert, sweeps, re-fetch of results, closing | a result is kept; a settled market's positions settle | `Resolution` |
| Risk and entry gates, `trading/risk.py`, `strategy/base.py` | `run_state`, breakers | caps, breakers, gates, sizing | exposure under its caps, quiet after a pause | `TradingGate`, `EntryRules` |
| Strategies, `strategy/` | candles and their cache; saved settings | hooks, tick ingestion, loading, overrides | an answer rests on all complete candles; settings survive a restart | `EntryRules`, `AlgoExits`, `RuntimeConfig` |
| Signal pipeline, `signal/`, `rag/retriever.py` | cached and stored signals | `analyze`, cache tiers, clones, evidence hash | cooldowns hold; a quiet market settles | `SignalPipeline`, `SignalAnswer` |
| Evidence extraction, `signal/extractor.py` | stored extracts | concurrent calls, fallbacks, persistence | every document is extracted although one call fails | `Extraction` |
| LLM client, `llm/` | daily spend, failures in a row | check, call, audit row | concurrent callers overshoot the cap by at most a call each | `LLMClient` |
| Operator, `alerts/` | update offset, prompts, `run_state` | polling, confirmations, commands | a notice says what happened; an update takes effect once per process | `Operator` |
| Ingestion, `ingestion/` | catalyst runs, quotas, backoff rows, cursors, documents | both loops, fetchers, store, phrase counts | quota exact, backoff shared honestly, no post skipped, no silent outage | `Ingestion`, `Backoff`, `RealtimeFeed`, `Fetchers`, `Documents`, `PhraseCounts` |
| Candle store, `markets/candles.py` | candles, coverage cursors | daily refresh, backfill | a cursor claims only what is stored; history is complete before the exchange drops it | `Candles` |
| Telemetry, `runtime/telemetry.py` | heartbeats, alerts told | watchdog passes | one page per outage; a hang is paged | `Watchdog` |
| Daily chores, `metrics/scheduler.py`, `reporting.py`, `kalshi_changelog.py` | timers, one shared session | refresh jobs, digest, changelog check | one digest a day; a heartbeat means saved rows | `Upkeep` |
| Weekly review, `metrics/weekly_review.py` | none | gate analysis, sweeps, entry simulation | it argues from what trading would have done | `PositionReview`, `EntryRules` |
| Assessment, `metrics/assessment.py`, `calibration.py` | assessments, cells | judge, carry forward, skip | a size comes from a judgment of its own evidence | `Assessment`, `AssessorInputs` |
| Benchmark, `bench/` | answers on file | selection, paid calls, re-runs | no answer paid or counted twice | `Benchmark` |
| Replay, `replay/` | fixture files | record, bank, replay | a frozen fixture shows the past as it was | `Fixtures`, `EntryRules` |
| Dashboard API, `dashboard/api/` | none | force exit, manual analysis, run state, settings; queries | its writes meet the tasks' | `OrderSync`, `SignalPipeline`, `Operator`, `RuntimeConfig` |
| Wiring, `cli.py`, `db.py` | tasks | start-up, signal loop, shutdown | tasks end together, starts find what stops left | `TradingGate`, `RuntimeConfig`, `Restart` actions |

The hard behaviours of each are listed with their lines under `hazards` in
`PROJECT.json`, with the properties that would catch them.

## How the components interact

All tasks share one event loop and one database; no lock in memory protects a
row. What keeps the tasks apart is only:

* `SELECT ... FOR UPDATE SKIP LOCKED` in the reconcile passes and in
  `apply_ws_event`: a row a pass holds is skipped by the other pass, dropped by
  the event, and *blocks* the commit of every session that took no lock;
* the rank of `exchange_order_status`: a report of a lower rank does not replace it;
* SQLAlchemy's unit of work: a commit writes the *columns the session changed
  since it loaded the row*, over whatever others have committed meanwhile;
* one session for several jobs, or one job committing in several sessions: an early
  commit (`record_rate_limit`, the cursor) publishes what a later rollback should
  have taken back, and a failed statement takes its session's neighbours along;
* timers and clocks: cooldowns, offsets, backoff cycles, midnights, timeouts.

Three tasks run `check_all_positions` (`position_monitor.py:133`,
`position_watcher.py:432` on every ticker message, `cli.py:595`). Two reconcile
passes, the drift survey, `user_orders` events, force exits from Telegram and the
dashboard, and two watchers that settle resolved markets write the same rows. The
signal loop reads run state, positions and breakers once a cycle and acts on them
minutes later. Both ingestion loops share the backoff table and the documents.

## Modules

State machines, with what their variables stand for; a step ends where the code
awaits or commits.

**`OrderStatus`** has the row and its pure transformations (`map_order_to_status`, the
rank guard, `_apply_exchange_state`, the WHERE clauses, `close_position`, `Flush` =
the column-wise commit); it is extended by the two machines below.
**`OrderTracking`** is the abstract promise: two phases per order, the exchange's and
the ledger's; the view moves late, never ahead and never back.

**`OrderSync`**: entry orders from `place_order` to their end.

| Variable | Code |
|---|---|
| `exch` | the order on the exchange: status and fill count |
| `row`, `aged` | the committed `PositionRow`; older than the timeout |
| `sub` | `_submit_live` between `place_order` and `open_position` |
| `rec` | the two passes (`monitor`, `watcher`), per row, with the copy held under lock |
| `conn`, `drift`, `ws` | the watcher's connection by step, its survey, events queued |
| `fx` | `force_exit` on a pending row |
| `res` | the two closers of resolved markets: listed, read, closed |

`place_order` may be rejected, answered, or *accepted with its reply lost*;
`open_position` may fail and the orphan cancel after it too; `RecAbort` rolls a pass
back; `Restart` drops every task and keeps exchange and ledger. Each order has a
market of its own; prices and fees are left out; the exchange does not announce the
cancels of a resolving market (the worst case for the ledger).

**`LiveExits`**: exits of the rows of one market. `entry`, `sold`, `settled`, `late` are
the exchange; `row`, `exited` the ledger; `mon` the runs of `check_all_positions` with
their snapshots; `rec`, `fx`, `res` as above. A sale is `MonSells` or `MonLoses` (the
reply is lost), recorded by `MonReads` and `MonCommits`, a SELECT without lock and a
commit. `srv` is the drift survey (`_detect_external_drift`), run on each connect: it loads
the open rows (`SrvLoads`), awaits `get_positions` (`SrvNets`; an answer without any position
ends it), and gives the difference to the newest row (`SrvAdjusts`), leaves it
(`SrvLeaves`), or closes the rows of a market without a position, a session each
(`SrvLists`, `SrvReads`, `SrvCloses`). Which exit rule fires is a free choice; the exchange
nets sales through zero. `rested`, `wrote`, `miscounted` and `srv.over` are auxiliary: no
guard reads them.

**`ExitLadder`**: one position of either mode with prices in cents, from entry to close:
`book` and `result` are the market, `position` the row with accumulator, fees and
excursions, `peak`/`best`/`worst` the monitor's memory, `cash` what really changed
hands, `seen` the history. A pass is `PassHolds`, `PassDefers`, `PaperExit`,
`LiveExit` (of some of the contracts), `PaperFill` or `PaperCancel`, by
`EvaluateExit`, the ladder in its order: settlement, proxies of an empty
book, stop, trailing stop, the strategy's hooks.

**`AlgoExits`**: ticks gathered in candles (`buffer`), the answer kept per side (`cache`),
positions that come and go; `history` is what each side of the market saw.

**`TradingGate`**: the signal loop's cycle by step (`loop`), with the state, positions
and breakers it read at its beginning; `row`, `pnl`, `recent`, `lossy` are the
ledger; `state`, `baseline`, `flagged`, `clearing` the run-state row; two modes share
it. **`EntryRules`**: the entry gates and the sizing as operators on a log of
signals, beside the replay's, the benchmark's and the weekly review's versions.

**`Resolution`**: one market from trading to its disappearance from the live API:
`venue`, the row `row`, the events in `ws.inbox`, the watcher's cycle `poll`,
passes of the monitor with their snapshots.

**`SignalPipeline`**: the scheduled and the manual analysis of one market: `evidence`,
`price`, the current signal, the last scheduled one with its age, and per analyst what
it has read. **`SignalAnswer`**: what the parser makes of an answer's numbers.
**`LLMClient`**: a call by its awaits (check, send, charge); **`Extraction`** composes it
with batches of documents, a semaphore and the transaction that keeps the extracts.

**`Operator`**: updates at Telegram (`chan`, a function from update numbers to messages, as
the batch the process has fetched is), the offset in memory, the handler and what it
waits for, prompts and their registry, timers, the dashboard, stops.
**`RuntimeConfig`**: `table` of overrides by name, `ran` of the run state, `inForce` the
class attribute the tasks read, edits in progress, the start-up by step.

**`Ingestion`**: a cycle's phase 1 (catalyst runs in one session) and phase 2 (a session
per market, quota and backoff writes with early commits). **`Backoff`** is the abstract
table both loops promise to keep; `Ingestion` and `RealtimeFeed` implement it
(`BackoffKept`). **`RealtimeFeed`**: tick, fetch from the cursor, store, cursor, outcome in
one session. **`Fetchers`**: how each source's failures become heartbeat and backoff.
**`Documents`**: `upsert_document` in two sessions, with lookups, embedding, upsert,
waits on uncommitted rows, deadlock victims. **`PhraseCounts`**: the FactBase refresh.
**`Candles`**: chunked fetches under a budget, cursors, expiry at the exchange; the auxiliary
`cut` has the markets whose last fetch the budget ended short of what its cursor says.
**`Watchdog`**: rows, the feed's memory, judgement, page, event row, memory of pages.
**`Upkeep`**: refresh jobs of one session, digest and changelog timers over clock changes.

**`PositionReview`** extends `ExitLadder`: a position walks a quote path once in
production and once in each of the review's sweeps. **`Assessment`**: which verdict is
applied to which signal. **`AssessorInputs`**: cohorts, sampled histories, shared losses as
functions of a table. **`Benchmark`**: runs, stops, answers on file. **`Fixtures`**:
recordings, the bank, edits of the code's texts.

The MC modules instantiate them for TLC. `MCExits` (`LiveExits`, `ExitLadder`,
`AlgoExits`), `MCBackground` (seven loops behind trading), `MCReviews` (seven analyses)
and `MCOperator` (`Operator`, `RuntimeConfig`) check several modules in one run: a
variable `part` chooses one, the variables of the others stay put. The state spaces
add up and do not multiply, each part keeps its own specification and fairness, and
the properties of the run conjoin, or choose by `part`, the modules' own. They are no
claim about interaction between the parts; interaction is inside the modules. The parts'
constants are the MC module's own and get their values in its cfg, so that the proofs are
about the same specifications for every value.

The modules ending in `Proofs`, and `FiniteSums`, hold theorems: see [proofs](#proofs).

## Runs

| Run | Instance | Question |
|---|---|---|
| `order_sync` | 1 order of 2, both passes, survey, events, force exit, two closers, restarts | does the ledger follow the exchange, never claiming more, losing sight of nothing, and finishing? |
| `exits` | 1 live row of 3, two runs, one lost reply, survey, restart or resolution; one priced position with ladder, fees and partial exits; ticks in 4 candles | do lost updates stay on the safe side, do the books balance and the excursions remember, does an exit come about, and is an algorithmic exit decided on all complete candles? |
| `exits_sibling` | 2 rows of 2, one of which may still fill and be force-exited, the drift surveyed | is a row hurt by its sibling, do the rows together count what is held? |
| `trading_gate` | 3 rows, 1 market, 2 modes, 2 positions at most | do stale snapshots break the caps, the one-sided guard, the modes' separation, or a pause? |
| `extraction` | 2 analysts, 2 documents, another caller, cap 2 | how far is the budget overshot, and is every document extracted? |
| `signal_pipeline` | loop and desk, 2 documents, 2 prices, 2 tiers | do cooldowns hold and quiet markets settle? |
| `resolution` | 1 position, 1 pass, 1 failure | has every settlement a result, is a result kept, do positions settle? |
| `operator` | 3 updates, 2 commands, 1 stop; settings of 3 strategies, 2 fields | are notices true, updates handled and once per process, settings in force and kept? |
| `ingestion` | 1 market, metered and other fetcher, cap 2, one midnight, one failure | is the quota exact, the shared backoff table kept, and do waits end? |
| `background` | seven small instances; a market of one candle request and one of two, two requests a run | do cursors, caches and heartbeats say what is so, is the shared backoff table kept, is an outage paged once, and is what lasts answered? |
| `reviews` | all logs of 2 signals, all quote paths of 3 ticks; records under 3 runs, 4 calls | do the second implementations agree with the rules, and are the records sound? |
| `exits_oversold` | 1 row of 2, two runs | expected violation, below |

Every property of a passing run is paired in `PROJECT.json` with a mutant of the code (a
missing guard, a dropped merge, an off-by-one) that breaks it on the run's own instance.

Kept beside them and run by hand: `OrderSyncStale.cfg`, and `CandlesCut.cfg` (the instance of
`background`), violated as the section on
divergences says; and `OrderSyncPair.cfg` (two orders, symmetric, passes that lock one
row and skip another), which passes.

What the passing runs say together. *Statuses* are safe under every interleaving,
thanks to row locks, the rank guard and column-wise commits; the *counts* err on one
side only: an entry row never claims more than was filled, and a plain open row
never less than is left - unless a drift survey writes it. A survey that runs between an
exit's sale and its record takes the sale for drift and subtracts it from the row, and
the record subtracts it again: a row of 2, of which 1 was sold, is closed with 1 contract
held. `HeldIsTracked` says what is left of the claim: rows no survey or force exit has written
count what is left of them, and all rows together count what is held unless a survey fell
into a sale. Decisions taken on a stale snapshot stay within the caps because
rows are re-counted at submission. What is committed early in a shared session is
harmless in the quota and the cursors, because each is written with what it counts.

## Bounds

* `Size`: 3 where partial fills matter in exits, 2 where two orders or tasks multiply the
  states; fills are by one contract or to the end, so 2 has none, some and all.
* Nothing bounds `OrderSync`: an order changes finitely often and a connection carries
  one event per change. Restarts, passes and reconnects are unlimited.
* `MaxFailures`, `Failures`, `MaxTrouble`, `MaxStops`: faults in a behaviour. One fault is
  needed for each retry or recovery path, two where recovery from recovery differs.
  `MaxUpsets` is one bound for what happens around exits: a lost reply, a connect with its
  survey, a restart, the market's resolution.
* `Span`, `Budget`, `Retention`: the second market's candles take two requests; a refresh has
  two, and finds both markets closed and still retained, so that it is cut in the middle.
* `MaxCommands`, `MaxSent`, `MaxCloses`, `MaxSignals`, `MaxRuns`, `MaxCalls`, `MaxEdits`,
  `Log`, `Longest`, `Horizon`, `LastDay`, `Generations`, `MaxVersion`: lengths of a behaviour that
  has no other end. Each is at least what its hazard needs: two posts for a cursor to
  skip one, a third update for a re-delivered batch, three signals for a clone of a
  clone's evidence, four candles for one to be trimmed while the rule reads two.
* `Quotes`, `Estimates`, `Confidences`, `Ticks`: values on either side of each threshold, and at it.
* One row and two tasks suffice for a lost update; two rows for the share of a force
  exit; two sessions for a deadlock; rows do not interact otherwise.

`CHECK_DEADLOCK FALSE` where the system may come to rest: closed rows, used-up bounds,
or a part of an MC module that takes no step.

## Fairness

Weak fairness is stated for the loops that have no exit but the process's: the
reconcile passes, `MonLoad(Poll)`, `LoopStep`, `Cycle`, `Calls`, `Refresh`, `WatchdogStep`, `Watch`,
`LoopReads`; each catches what one cycle raises and sleeps. It is stated for a call
under way, because the HTTP clients have timeouts (`PassRow`, `RunRow`, `Record`, `Handler`,
`Step`, `Progress`), for timers, and for time itself (`RowAges`, `Tick`).

Strong fairness says that failures are transient: a pass's call and its commit
(`OrderSync`), a call for a document (`Extraction`), Telegram's poll (`Operator`); of
`MonSells` it is an assumption about market and strategy: a rule that keeps firing finds a
bid one day. Only the monitor's own run is fair: `ExitsEnd` needs no ticker and no survey. A stopped process is started again (`Starts`). Nothing is
assumed of the WebSocket, of ticker messages, of the operator, of backfills, or of failures.

## Proofs

The theorems hold for every value of the constants, under the modules' ASSUMEs, which
TLC evaluates in the runs, and under one hypothesis that is said below. Together they
state every safety property of the passing runs, for as many orders, rows, tasks, markets,
posts, quotes, services and strategies as one likes. The checked
properties are seldom inductive; what had to be added is, nearly each time, what a task
knows while it waits.

`OrderSyncProofs`. A reply in flight or a copy in a session may hide the error a later
step commits. `IInv` adds that every report in flight was true once (`Fresh`), that
exchange orders only advance (`Advance`), and that a row claims no more than its order
grants (`Sound`), for the ledger and for every working copy; and what each session knows
at its step: a pass holds the only lock of its row (`OneLock`), `force_exit`'s copy was
pending, a survey's net is no more than was filled. One lemma per action shows that it
keeps `IInv`. From it: `TypeCorrect`, `CancelIsHonest`, `NeverOverstated`,
`RestingIsTracked`, and `Refinement`, the step simulation into `OrderTracking`.

`LiveExitsProofs`, about the parts of `MCExits`.

* `ClosedForGood` rests on two facts: exits commit the status they loaded, which leaves
  the column alone, or "closed"; and the only writer that may change a status from its
  copy, the reconcile pass, holds the row as the ledger has it (`LockExcludes`).
* `RecordedSalesAreReal` and `HeldContractsAreTracked` need a number: what may be
  recorded of a row is what was sold, less what each run, and the force exit, still has to
  record (`Recordable`, a sum over the runs). It never falls. `Backed` bounds by it
  the recorded count, and every count a task has read in order to add to it: that is why
  updates lost between two runs err on one side only. `Tracked` says that a row no survey
  has written, and every copy a run is about to write of it, counts at least what is left
  when all that may be recorded is taken off. A survey breaks that row by row: the newest
  row pays for what its siblings count in excess. `Summed` keeps the sum: each row, with
  its copies, counts some base more than is left of it, the bases add up to zero or more
  (`Balanced`), and what a survey is about to take off the newest row is in excess
  elsewhere (`Spare`), because no sale came between its load and its answer (`Fresh`).
* `ExitsAreSound` is about one priced position and about candles. `Booked`: what an open
  row has cost is what its remaining contracts cost, less what earlier exits brought in
  above their share. `Remembered`: memory and row reach as far as the bids that were
  seen, and memory is what the row has or nothing. `TicksInv`: each side saw the last
  ticks of the buffer, NO upside down; taking the last candles commutes with a tick,
  with turning upside down and with leaving the last one out.

`TradingGateProofs`. The gates are asked an LLM call or an exchange call before the
row is added. `PositionsCapped` and `EntriesWithinCaps` follow from `RoomLeft`: what
the checks of submission found is still so when the row is inserted, because only the
signal loop adds rows and no step of another task raises an exposure (`NoNewRows`; a
sum over rows). `OneSidedOnPaper` follows from `SideHeld`: what the loop read of the
market's side covers the rows of now. `ModesApart` says what commands leave alone.

`RecordProofs`, about `Resolution`. The market is read by three tasks that wait between reading and
writing. `Justified` says of everything they carry across a wait (a list, an answer, the
positions about to be closed, messages not yet handled, a pass's snapshot) that if it
claims a result the exchange has one, and the exchange takes none back. From it
`SettledWithResult`; `ResultIsKept` looks at each write of the row.

`RecordProofs`, about `Fixtures` and `Benchmark` in `MCReviews`. `RecordsAreSound`: the round
trip of a frozen recording decides each part of its prompt (`FrozenInv`). Every answer on
file or counted is of a call of its own, and a run has used what was on file before it pays
(`CacheInv`, `RunInv`). What a run has paid, what its scenario still needs (`Due`) and what the
cache lacks for the later ones, a sum over scenarios, stay within the estimate: two
signals with one prompt only ever make the sum fall faster. `SpreadWithin` shows, by the
arithmetic of Python's `round`, that a sample is made of signals the market has.

`RecordProofs`, about `SignalAnswer`, `AssessorInputs` and `Assessment` in `MCReviews`.
`JudgedIsFair` has little to do with steps and much with data:

* an answer is understood because fractions and percentages above one percent do not
  overlap, and sides with its numbers because estimate and posterior end a point apart at
  most (`AnswerRight`);
* the cells of a cohort are disjoint subsets of it, so their counts, a sum over bands, add
  up to it at most (`CountedOnceHolds`); twelve parts of a loss are shared out whole, a
  double sum over signals and sources that `SumsAdd` takes apart (`LossSharedHolds`);
* a long history is sampled by buckets: their bounds are quotients that meet, each bucket
  counts the changes of side within it, and between two of them a change shows in the
  sides of their last points (`SampleFits`, `AllCovered`, `NothingHidden`);
* `JudgedInv`: each row of the assessment was neutral, judged on the evidence of its signal, or
  copied from a row that was (the last is why the rows of other signals are part of it).

`RecordProofs`, about `EntryRules` and `PositionReview` in `MCReviews`. `ReviewsDoAgree`: what
repeats a rule elsewhere in the code comes to what the rule did.

* `EntriesInv` says of the log, signal by signal, who cleared the gates and who was the first of
  its market; the rest is arithmetic on edges, mids and spreads, for a side and for its
  reflection (`GatesAgreeHolds`, `ReplayHolds`, `MirrorHolds`).
* A review starts from a closed row and candles. The monitor saw one quote at a time, and kept one
  number of what it saw. `LifeInv` is the history it threw away: of each quote a pass went
  over, why it did not end the position (`Quiet`); of the last, why it did; that the peak is
  the best bid until then (`Top`); and when the order filled, or that no ask came down to it.
  Each action keeps it, a lemma each (`LifeTick` to `LifeCancelled`). From it follow the
  sweeps: a candle of one quote at the stop or at the trailing level cannot precede the
  exit, and the exit's candle shows it (`SweepHolds`, `TrailHolds`); and the simulation, whose
  fill, exit and P&L are the position's (`SimulationHolds`).

`SignalPipelineProofs`. The property `CooldownKept` alone says nothing of the long await
inside an analysis; `Rested` does: while the loop asks the LLM, the last scheduled signal
is already as old as its tier demands. It is kept because ages only grow and only the
loop writes scheduled signals. `OvershootHolds` bounds the budget with the calls under
way: recorded spending passes the cap by no more than the callers whose call was checked
before (`ClientInv`; a caller has one call at a time).

`OperatorProofs`. `CommandsInv`: what the process has fetched lies below its offset, what
it has not handled was handled at most once by each process before it, a prompt whose
callbacks are registered has not run and was not answered. From it `OncePerProcess` and
`NoticesAreTrue`. `SettingsInv`: while no edit overlaps another or a start-up, the edit in
progress is the only one, and once it has read holds all that was saved; what is in
force beyond the defaults is saved. From it `SettingsSurvive` and, with the first,
`RepliesAreTrue`.

`BackgroundProofs`, about `Ingestion` and the parts of `MCBackground`.

* `QuotaHolds`: a cycle's own count is the committed one plus what its session has still
  to commit (`OwnCount`), so an early commit counts nothing twice.
* `KeepsBackoff` and `RealtimeKeepsBackoff`: both loops refine `Backoff`. The realtime
  loop's session holds the row of its feed, ticked if it has ticked (`RowInv`).
* `FeedsAreRight`, by an invariant for each part. Backoff: the row is what failures and
  ticks make it (`RowAfter`), by way of `DoubledEquation`: a recursive function on the
  naturals satisfies its equation. Posts: what was published by a time that a cursor
  holds, or may come to hold, is stored, missed, or in the answer (`PostsInv`).
  Candles: what is stored has no holes, a cursor claims only what is there unless its
  market is in `cut`, and a job's rows are, as far as it has asked, all there was when it
  began (`CandlesInv`). Documents: equal texts, committed or not, are
  explained; a page being embedded says what no row of its session says (`DocsInv`).
* `PagedOncePerOutage`: a service that was paged about and has neither made progress nor
  been excused is on the list of alerts or about to be recorded on it (`PagesInv`).
* `ChoresAreDone`: the hour plus the time to the next digest is the digest's hour, today
  or tomorrow (`DigestInv`); a success reported has its row saved, in the session, or its
  turn to come (`BeatInv`); age and wait of the changelog check stay within two days.

Induction. The library's induction theorems take an operator, which no prover here can
instantiate. Where a proof needs induction it argues from a minimal counterexample
instead: `FiniteSums` proves that a non-empty family of subsets of a finite set has a
minimal member (`MinimalSubset`, from the well-foundedness of strict inclusion), and with
it that `SumFunctionOnSet` adds up as one expects: one term changes, terms grow, terms
are bounded, sums add term by term. Lowest and highest of a set, and equations of
recursive functions, follow in the same way. Where a definition of a model is a sum, it is
written as one of these for the proofs' sake.

What the assumptions say. Sets of rows, tasks, positions and posts are finite; bounds are
naturals, except where zero is not one (`Size`, `Slots`, `MaxSkip`). `SettingsAssumption`
and `IngestionAssumption` keep names apart that the code keeps apart. `LadderAssumption`
puts quotes, stop and trail between 0 and 100 cents. The rest are worth a word:

* `OvershootHolds` has a hypothesis, `ExtractionAssumption`, which the run `extraction`
  evaluates.
* `BackgroundAssumption`: a wait of two cycles can happen (`LongestWait >= 2`; the code has
  8). The digest is sent at hour 2 to `Day - 2`, and clocks go forward (by the missing
  hour from 1 to 2) or stay: the default is 7. At 23 o'clock a clock that goes
  forward brings two digests on the day after, and a repeated hour repeats it anywhere.
* `ReviewsAssumption`: an order waits for a quote at least (`Timeout >= 1`; the code has hours),
  and `0 < Trail <= Stop`, which `StrategyConfig` does not demand and every strategy
  of the repository satisfies: with a distance of zero each new peak would be at its own
  trailing level. Ten points of a history are shown (`MaxPoints >= 3`: its ends and a bucket).
  Thresholds and fields are whole numbers, quotes lie within a dollar.
* The excursion part of `ExitsAreSound` excludes failing writes (`Faults`), as the run
  does: the section on divergences says what is forgotten with them.

Only model-checked:

* liveness, which the prover does not do: `SweepTerminates`, `ExitsEnd`, `QuietAfterPause`,
  `AllExtracted`, `Settles`, `PositionsSettle`, `OperatorHeard`, `WaitsEnd`, `LastingIsAnswered`;
* the claims of the next section, which are false.

No module declares a RECURSIVE operator.

## Where the code departs from its words

`exits_oversold` is a run: two runs of `check_all_positions` that loaded one row each
sell all of it. The claims below are definitions of the modules, each with the
sentence of code or document it restates; TLC violates each on a small instance.

| Claim | What the code does instead |
|---|---|
| `OrderSync!SettledRowCountsFills` (SPEC.md:281) | the rank guard covers the status, not the count: an old event takes contracts back from an executed row |
| `OrderSync!BookedWasFilled` (`ledger.py:83`) | closing a resolved market's rows books P&L on the requested count of a pending row |
| `OrderSync!DisjointScopes` (SPEC.md:268, 272) | partially filled rows are in the scope of sweep and survey |
| `LiveExits!SurveyKeepsCount` (`position_watcher.py:568`: siblings "keep their own fill-confirmed counts"; `order_manager.py:786`: no contracts untracked) | the survey compares rows and position read at different moments: it takes a sale not yet recorded for drift, and the sale is subtracted twice (`Rows = {1}`, `Size = 2`, one run, `MaxUpsets = 1`). A position sold through zero it reads as one held (`abs`, `kalshi.py:838`) |
| `LiveExits!RemainderTracked` (`order_manager.py:786`) | an exit closes a partially filled row; what its order fills afterwards is tracked by nobody |
| `Resolution!TerminalConfirmed` (`position_monitor.py`, step 6) | a chunk of `_get_markets_by_tickers_chunked` that fails is skipped (`kalshi.py:372`), `_sweep_closed_markets` takes its markets for gone and marks them `finalized`; paper positions close as `market_resolved` |
| `ExitLadder!PnlIsCash` (`ledger.py:83`) | a settlement after partial exits leaves the accumulator and the exit fees out of `pnl`; the portfolio's unrealized total leaves the accumulator out (`ledger.py:435`) |
| `ExitLadder!PeakSinceEntry`, `MaeWasQuoted` | the peak is lost by a restart and not updated by a deferred exit; an empty book's zero counts as an excursion |
| `AlgoExits!AnswersOwn` (`algo_base.py:146`) | the cache is keyed by market and side: a re-entry before the next candle gets the previous position's answer |
| `TradingGate!DrawdownHaltsEntries` (SPEC.md:1629) | the breaker is read once a cycle; positions that close during an assessment pass it |
| `TradingGate!TrippedUntilResumed` | the loop recomputes its breakers every cycle: a profitable close or midnight untrips one without a command |
| `SignalPipeline!ClonesCurrent` | a clone may copy a signal that the other task has replaced |
| `SignalAnswer!UnderstoodDownToOnePercent` (`llm.py:683`) | "1" is taken for certainty |
| `Extraction!PaidExtractsKept` | an exception that is no `LLMError`, raised by one call, leaves the `gather`: the answers the batch has already paid for are dropped and bought again |
| `RuntimeConfig!ShownInForce` (`strategy/models.py`) | overrides of a strategy loaded from a file are saved under its name and looked up by its path: the dashboard shows it without them |
| `RuntimeConfig!SwitchForgetsAll` (`cli.py:929`) | the same: a start under another strategy does not forget them |
| `RuntimeConfig!EditsMerge` (`routes.py:1872`) | of two overlapping edits one is lost; the strategy trades by it until the next restart |
| `Operator!LastWordHolds` (docs/COMMANDS.md:372) | a `/start` handled but not confirmed to Telegram is handled again after a restart, over a later pause on the dashboard |
| `Ingestion!DeactivatedNotFetched`, `HeldMarketsFed` (SPEC.md:909, 910, 1760) | only the latest active run is deactivated: an older one becomes the latest, and is fetched; a pending entry does not protect its market, which may be held without a run afterwards |
| `Fetchers!DeadSourceShows` (SPEC.md:1939) | a failure the fetcher catches is a success for its heartbeat |
| `Watchdog!FeedIsPaged` (SPEC.md:1867) | a feed that never connected since the start is "unknown" and never paged |
| `Upkeep!JobsIndependent`, `DigestOncePerDay` with `Changes = {"back"}` | a failed statement takes the session's other jobs along after their heartbeats; a repeated hour repeats the digest |
| `Candles!CoverageTrue` (`candles.py:31`, with `CandlesCut.cfg`) | `fetch_market_candles` leaves a market when the run's requests are spent (line 316) and records the whole of it as covered (line 368): its rest is never asked for again. It takes a market of more than 2500 candles: two days at one minute |
| `Documents!NoCopies`, `NewestKept` (`store.py:257`) | two loops store one text twice; the earlier fetch may be written last |
| `PhraseCounts!HaikuOnce` (`factbase.py:11`) | no terms found, a failure or a failed save asks again in each cycle |
| `PositionReview!MaeCountsStops`, `ReentriesWereOffered` | the pass that stops a position does not record its excursion; the walk compares re-entries with the side first held |
| `Benchmark!HitIsSameExperiment` (`eval_cache.py:5`) | tool schema and token limit are not in the key |
| `Fixtures!BankHidesOutcome`, `LiveHidesOutcome`, `UnbumpedEditsCaught` | the full body is vouched for by its head alone; `fixtures record` does not ask whether the market resolved; `--update` accepts an edit under the old version |
| `Assessment!OriginalCarried` (`assessment.py:945`) | a clone of a neutral original takes an older verdict, or is judged anew |
| `AssessorInputs!OneCohort`, `EveryBandIn` (`assessment.py:582, 585`) | the other direction chooses its own cohort; thin bands were never written |
| `EntryRules!ReplayMirrors`, `CurrentRowIsProduction` | the replay does not round a limit to ticks; a one-sided sweep drops the other edge of a band |

Read off the code, without a model of their own:

* `retriever.py:228` hashes the IDs of the documents: a text updated under its ID leaves the
  hash, and so the signal, as they are, although "same docs → same output" (SPEC.md:1520);
* `backoff.py:12`: rows are ticked at the start of a cycle, before they are read, so a trip
  skips one cycle less than its comment lists, and the first trip none;
* `calibration.py:421` takes any stored result: a scalar one is a miss for both sides;
* `order_manager.py:304`: the guard against both sides of a market on paper reads open rows; a
  resting limit order on one side does not keep an entry from the other (`PaperOneSided`
  speaks of market orders);
* `positions resolve` closes a cancelled row, with P&L on what was requested;
  `promote_pending_to_open` does not look at the status it replaces;
* `kalshi.py:148` ends exhausted retries of a 429 with a RuntimeError, which the candle run does
  not catch as it does `KalshiAPIError`;
* a `mark_error` that fails in the handler of the signal loop (`cli.py:636`) leaves the loop,
  and with it `gather` and the process;
* `kalshi_changelog.py:145` compares days: an entry published on the day of a review, after
  it, is never announced;
* `PositionMonitor._stoploss_order_levels` is kept and read by nothing but tests.

## What is not modelled

* Prompt texts, ranking and embedding of documents, parsing and signing of HTTP payloads,
  alert wording, React pages, migrations: data and layout.
* Most of `dashboard/api/routes.py`, `metrics/calibration.py` and the tables of
  `weekly_review.py`: read-only queries that aggregate rows. What the assessor and the review's
  arguments rest on is modelled.
* One-shot commands of `cli.py` and `scripts/`, apart from benchmark, fixtures, backfill and
  manual analysis: they run beside no task, or call what is modelled.
* The start-up check of the live balance; two benchmark processes at once; the deletion
  of paper rows while the monitor closes them.
* Infinite floats: prices are cents or half-cents, costs whole units; rounding is modelled
  where a property depends on it (ticks, contracts).

## Plan

Every component the plan named has its module, and every safety property that a run checks
has its theorem. What could come next, in order of worth:

1. the parts of the code that only aggregate rows (`calibration.py`, the tables of the weekly
   review), where a property of a report would have to be found first;
2. a run in which two of the modules meet that are checked apart: the realtime loop's
   documents and the signals that are made of them.
