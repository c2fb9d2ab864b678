------------------------------ MODULE Candles ------------------------------
(***************************************************************************)
(* The candle store (markets/candles.py): the daily refresh of closed      *)
(* markets and the operator's backfill fetch price histories by chunks     *)
(* under a request budget, and record in candle_fetch_cursors what is      *)
(* covered.  The exchange keeps a market's candles for a while after its   *)
(* close and answers 404 afterwards.  Time is counted in candle periods;   *)
(* every market has a series and was signalled within the lookback.        *)
(***************************************************************************)
EXTENDS Integers, FiniteSets, FiniteSetsExt

CONSTANTS
  Markets,
  Opens, Closes,   \* market -> its life, in candle periods
  Span,            \* MAX_CANDLES_PER_REQUEST
  Budget,          \* max_requests of one run
  Retention,       \* RETENTION_DAYS
  Horizon,         \* bound: the clock
  Failures         \* bound: requests that fail

CandleAssumption ==
  /\ Opens \in [Markets -> Nat] /\ Closes \in [Markets -> Nat]
  /\ \A m \in Markets : Opens[m] < Closes[m]
  /\ {Span, Budget, Retention, Horizon, Failures} \subseteq Nat
  /\ Span > 0 /\ Budget > 0

VARIABLES
  clock,
  have,            \* market -> the candles in market_candles
  cursor,          \* candle_fetch_cursors
  job,             \* the daily refresh and the CLI's backfill
  failures,        \* how many of Failures have happened
  cut              \* for the properties: the markets recorded for more than was asked

vars == <<clock, have, cursor, job, failures, cut>>

Jobs == {"refresh", "backfill"}
Periods == 0 .. Max({Closes[m] : m \in Markets} \cup {Horizon})
Life(m) == Opens[m] .. Closes[m] - 1
NoCursor == [from |-> 0, to |-> -1, expired |-> FALSE]
Idle == [pc |-> "idle", now |-> 0, todo |-> {}, known |-> cursor, market |-> {},
         at |-> 0, rows |-> {}, spent |-> 0]

TypeOK ==
  /\ clock \in 0 .. Horizon
  /\ have \in [Markets -> SUBSET Periods]
  /\ \A m \in Markets : have[m] \subseteq Life(m)
  /\ cursor \in [Markets -> [from : Periods, to : Periods \cup {-1}, expired : BOOLEAN]]
  /\ \A j \in Jobs :
       /\ job[j].pc \in {"idle", "next", "fetch"}
       /\ job[j].market \subseteq Markets /\ Cardinality(job[j].market) <= 1
       /\ job[j].spent \in 0 .. Budget
       /\ job[j].pc = "fetch" => job[j].market # {}
  /\ failures \in 0 .. Failures
  /\ cut \subseteq Markets

Init ==
  /\ clock = 0
  /\ have = [m \in Markets |-> {}]
  /\ cursor = [m \in Markets |-> NoCursor]
  /\ job = [j \in Jobs |-> Idle]
  /\ failures = 0
  /\ cut = {}

-----------------------------------------------------------------------------
Covers(c, m) == c # NoCursor /\ c.from <= Opens[m] /\ c.to >= Closes[m]

(* RequestBudget.                                                          *)
HasBudget(j) == job[j].spent < Budget

(* Settled so long ago that the exchange has dropped the candles.          *)
Gone(m, now) == Closes[m] < now - Retention

\* Mutant: what does not exist yet is covered as well.
CoveredToClose(m, now) == Closes[m]

(* _record_cursor: coverage only widens, and never past the time of the    *)
(* fetch.                                                                  *)
CoveredTo(m, now) == Max({Min({Closes[m], now}), Opens[m]})

Recorded(m, now, expired) ==
  [from    |-> IF cursor[m] = NoCursor THEN Opens[m] ELSE Min({cursor[m].from, Opens[m]}),
   to      |-> Max({cursor[m].to, CoveredTo(m, now)}),
   expired |-> expired]

-----------------------------------------------------------------------------
(* _REFRESH_TARGETS_SQL: closed, still retained, neither expired nor covered*)
StartRefresh ==
  /\ job["refresh"].pc = "idle"
  /\ job' = [job EXCEPT !["refresh"] = [Idle EXCEPT
       !.pc = "next", !.now = clock,
       !.todo = {m \in Markets : /\ Closes[m] < clock /\ ~Gone(m, clock)
                                 /\ ~cursor[m].expired /\ ~Covers(cursor[m], m)}]]
  /\ UNCHANGED <<clock, have, cursor, failures, cut>>

(* `candles backfill` takes every known market, closed or not, and reads   *)
(* the cursors once.                                                       *)
StartBackfill ==
  /\ job["backfill"].pc = "idle"
  /\ job' = [job EXCEPT !["backfill"] = [Idle EXCEPT
       !.pc = "next", !.now = clock,
       !.todo = {m \in Markets : Opens[m] <= clock}]]
  /\ UNCHANGED <<clock, have, cursor, failures, cut>>

(* The refresh takes the markets oldest first, the backfill newest first.  *)
IsNext(j, m) ==
  /\ m \in job[j].todo
  /\ \A o \in job[j].todo : IF j = "refresh" THEN Closes[m] <= Closes[o]
                                              ELSE Closes[m] >= Closes[o]

Drop(j, m) == [job EXCEPT ![j].todo = @ \ {m}, ![j].pc = "next", ![j].market = {},
                          ![j].rows = {}]

Take(j, m) ==
  /\ job[j].pc = "next" /\ IsNext(j, m) /\ HasBudget(j)
  /\ LET known == job[j].known[m]
         fetch == [job EXCEPT ![j].pc = "fetch", ![j].market = {m}, ![j].at = Opens[m]]
     IN IF j = "refresh" THEN job' = fetch /\ UNCHANGED cursor
        ELSE IF known.expired THEN job' = Drop(j, m) /\ UNCHANGED cursor
        ELSE IF Gone(m, job[j].now)
               THEN /\ cursor' = [cursor EXCEPT ![m] = Recorded(m, job[j].now, TRUE)]
                    /\ job' = Drop(j, m)
        ELSE /\ job' = IF Covers(known, m) THEN Drop(j, m) ELSE fetch
             /\ UNCHANGED cursor
  /\ UNCHANGED <<clock, have, failures, cut>>

(* The run is over: nothing is left, or the budget is.                     *)
Finish(j) ==
  /\ job[j].pc = "next" /\ (job[j].todo = {} \/ ~HasBudget(j))
  /\ job' = [job EXCEPT ![j] = Idle]
  /\ UNCHANGED <<clock, have, cursor, failures, cut>>

(* One request of the market's chunks.                                     *)
Requesting(j, m) ==
  job[j].pc = "fetch" /\ m \in job[j].market /\ job[j].at < Closes[m] /\ HasBudget(j)

Answer(j, m) ==
  LET end == Min({job[j].at + Span, Closes[m]})
  IN /\ Requesting(j, m) /\ ~Gone(m, clock)
     /\ job' = [job EXCEPT ![j].spent = @ + 1, ![j].at = end,
                           ![j].rows = @ \cup {t \in job[j].at .. end - 1 : t < clock}]
     /\ UNCHANGED <<clock, have, cursor, failures, cut>>

NotFound(j, m) ==
  /\ Requesting(j, m) /\ Gone(m, clock)
  /\ cursor' = [cursor EXCEPT ![m] = Recorded(m, job[j].now, TRUE)]
  /\ job' = [Drop(j, m) EXCEPT ![j].spent = @ + 1]
  /\ UNCHANGED <<clock, have, failures, cut>>

(* Any other HTTP error leaves the market as it was.                       *)
Error(j, m) ==
  /\ Requesting(j, m) /\ failures < Failures
  /\ job' = [Drop(j, m) EXCEPT ![j].spent = @ + 1]
  /\ failures' = failures + 1
  /\ UNCHANGED <<clock, have, cursor, cut>>

(* A transport error or a stubborn 429 is not a KalshiAPIError: it ends the *)
(* run, and with it what the market's session had not committed.            *)
Raise(j, m) ==
  /\ Requesting(j, m) /\ failures < Failures
  /\ job' = [job EXCEPT ![j] = Idle]
  /\ failures' = failures + 1
  /\ UNCHANGED <<clock, have, cursor, cut>>

(* The run's requests were spent before it had asked for all that the cursor*)
(* will say.                                                                *)
Short(j, m) == job[j].at < CoveredTo(m, job[j].now)

(* The chunks are through, or the budget is: the rows are stored, the cursor*)
(* recorded for the whole window either way, and both committed.  A later   *)
(* fetch that reaches as far as the cursor makes up for a short one.        *)
Store(j, m) ==
  /\ job[j].pc = "fetch" /\ m \in job[j].market
  /\ job[j].at >= Closes[m] \/ ~HasBudget(j)
  /\ have' = [have EXCEPT ![m] = @ \cup job[j].rows]
  /\ cursor' = [cursor EXCEPT ![m] = Recorded(m, job[j].now, FALSE)]
  /\ cut' = IF Short(j, m) THEN cut \cup {m}
            ELSE IF CoveredTo(m, job[j].now) >= cursor[m].to THEN cut \ {m} ELSE cut
  /\ job' = Drop(j, m)
  /\ UNCHANGED <<clock, failures>>

(* A run takes minutes: it sees at most one period end.                    *)
Pass ==
  /\ clock < Horizon
  /\ \A j \in Jobs : job[j].pc # "idle" => job[j].now = clock
  /\ clock' = clock + 1
  /\ UNCHANGED <<have, cursor, job, failures, cut>>

Refresh == \/ StartRefresh \/ Finish("refresh")
           \/ \E m \in Markets : \/ Take("refresh", m) \/ Answer("refresh", m)
                                 \/ NotFound("refresh", m) \/ Error("refresh", m)
                                 \/ Raise("refresh", m) \/ Store("refresh", m)

Backfill == \/ StartBackfill \/ Finish("backfill")
            \/ \E m \in Markets : \/ Take("backfill", m) \/ Answer("backfill", m)
                                  \/ NotFound("backfill", m) \/ Error("backfill", m)
                                  \/ Raise("backfill", m) \/ Store("backfill", m)

Next == Refresh \/ Backfill \/ Pass

Spec == Init /\ [][Next]_vars

(* The refresh runs every day; the backfill when an operator asks for it.   *)
FairSpec == Spec /\ WF_vars(Refresh)

-----------------------------------------------------------------------------
(* "cursors record what was covered": every period of a covered range that  *)
(* is not expired has its candle.  A fetch that the budget ended in the     *)
(* middle of a market breaks this; what holds is CoverageClaimed.           *)
CoverageTrue ==
  \A m \in Markets :
    cursor[m] # NoCursor /\ ~cursor[m].expired =>
      cursor[m].from .. cursor[m].to - 1 \subseteq have[m]

(* A cursor claims only what is there, unless the budget ended the fetch in *)
(* the middle of the market and no later fetch made up for it; and then what*)
(* is missing is the market's last candles: a history has no holes, however *)
(* the two jobs interleave, fail and are cut.                               *)
CoverageClaimed ==
  \A m \in Markets :
    /\ \E end \in Opens[m] .. Closes[m] : have[m] = Opens[m] .. end - 1
    /\ cursor[m] # NoCursor /\ ~cursor[m].expired /\ m \notin cut =>
         cursor[m].from .. cursor[m].to - 1 \subseteq have[m]

(* The history of a closed market is stored whole before the exchange drops *)
(* it, unless it is dropped first or a fetch was cut: no cursor of an earlier*)
(* run, of the other job or of a failed request hides the market from the   *)
(* refresh.                                                                 *)
HistoryKept ==
  \A m \in Markets :
    clock > Closes[m] ~> (have[m] = Life(m) \/ Gone(m, clock) \/ m \in cut)
=============================================================================
