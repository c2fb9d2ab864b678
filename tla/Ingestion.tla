----------------------------- MODULE Ingestion -----------------------------
(***************************************************************************)
(* The main ingestion loop (ingestion/scheduler.py run_cycle): phase 1     *)
(* keeps the catalyst runs of the markets in one session, phase 2 queries  *)
(* the rate-limited fetchers in one session per market.  What a session    *)
(* has written and not committed is kept in `main` (off, counted) and is   *)
(* lost when the cycle raises; record_rate_limit and record_success commit *)
(* it early.  The realtime loop's service is in the backoff table too and  *)
(* moves as module Backoff allows.                                         *)
(***************************************************************************)
EXTENDS Naturals, FiniteSets

CONSTANTS
  Markets,
  Metered,         \* the fetcher with a daily cap (tavily, guardian)
  Others,          \* the loop's other fetchers
  Feed,            \* the realtime loop's service
  MaxSkip,         \* _MAX_SKIP_CYCLES
  DailyCap,        \* tavily_daily_cap, guardian_daily_cap
  Queries,         \* catalyst queries per market
  Generations,     \* bound: catalyst runs of a market that are active at once
  LastDay,         \* bound: midnights seen
  Failures         \* bound: cycles and generations that raise

Mine == Others \cup {Metered}                \* _MAIN_SCHEDULER_SERVICES
Loops == {Mine, {Feed}}
Days == 0 .. LastDay

ASSUME IngestionAssumption ==
  /\ DailyCap \in Nat /\ Queries \in Nat \ {0}
  /\ Generations \in Nat /\ LastDay \in Nat /\ Failures \in Nat /\ MaxSkip \in Nat \ {0}
  /\ Metered \notin Others /\ Feed \notin Mine

VARIABLES
  active,          \* market -> how many of its catalyst runs are active
  fresh,           \* markets whose latest active run is less than a day old
  wanted,          \* markets for which is_market_interesting holds
  position,        \* market -> the status of its position
  rows,            \* fetcher_rate_limits
  count,           \* api_daily_counters of Metered, by day
  main,            \* the cycle and its session
  day,
  failures         \* how many of Failures have happened

vars == <<active, fresh, wanted, position, rows, count, main, day, failures>>
markets == <<wanted, position, day>>
catalysts == <<active, fresh>>

B == INSTANCE Backoff

Idle == [pc |-> "idle", day |-> 0, todo |-> {}, off |-> {}, left |-> {},
         limited |-> {}, succeeded |-> {}, due |-> FALSE, query |-> 0,
         daily |-> 0, counted |-> 0]

HasRun(m) == active[m] > 0

TypeOK ==
  /\ active \in [Markets -> 0 .. Generations]
  /\ fresh \subseteq {m \in Markets : HasRun(m)}
  /\ wanted \subseteq Markets
  /\ position \in [Markets -> {"none", "pending", "open"}]
  /\ rows \in [B!Services -> B!Row]
  /\ count \in [Days -> Nat]
  /\ main \in [pc : {"idle", "catalysts", "loop", "market"}, day : Days,
               todo : SUBSET Markets, off : SUBSET Markets,
               left : SUBSET Markets, limited : SUBSET Mine,
               succeeded : SUBSET Mine, due : BOOLEAN, query : 0 .. Queries,
               daily : Nat, counted : Nat]
  /\ day \in Days
  /\ failures \in 0 .. Failures

Init ==
  /\ active = [m \in Markets |-> 0] /\ fresh = {}
  /\ wanted \in SUBSET Markets
  /\ position = [m \in Markets |-> "none"]
  /\ B!Init
  /\ count = [d \in Days |-> 0]
  /\ main = Idle /\ day = 0 /\ failures = 0

-----------------------------------------------------------------------------
(* _ensure_catalysts: the latest active run of every market that is neither*)
(* wanted nor held is deactivated, uncommitted, and the wanted markets     *)
(* whose run is missing or a day old are listed.                           *)
BeginCycle ==
  /\ main.pc = "idle"
  /\ main' = [Idle EXCEPT
       !.pc = "catalysts", !.day = day,
       !.off = {m \in Markets : HasRun(m) /\ m \notin wanted /\ position[m] # "open"},
       !.todo = wanted \ fresh]
  /\ UNCHANGED <<catalysts, markets, rows, count, failures>>

Deactivate ==
  /\ active' = [m \in Markets |-> IF m \in main.off THEN active[m] - 1 ELSE active[m]]
  /\ fresh' = fresh \ main.off

(* generate_catalysts for one market: the run and its queries, on top of    *)
(* the older ones.  Its commit takes the deactivations along.               *)
Generated(m) ==
  /\ active[m] < Generations
  /\ active' = [x \in Markets |-> IF x \in main.off THEN active[x] - 1
                                 ELSE IF x = m THEN active[x] + 1
                                 ELSE active[x]]
  /\ fresh' = (fresh \ main.off) \cup {m}
  /\ main' = [main EXCEPT !.todo = @ \ {m}, !.off = {}]
  /\ UNCHANGED failures

(* The model fails, or no query can be parsed from its answer: the          *)
(* generator's own error, which leaves the session open.                    *)
NoQueries(m) ==
  /\ main' = [main EXCEPT !.todo = @ \ {m}]
  /\ UNCHANGED <<catalysts, failures>>

(* Any other error rolls the session back. *)
GenerationRaises(m) ==
  /\ failures < Failures /\ failures' = failures + 1
  /\ main' = [main EXCEPT !.todo = @ \ {m}, !.off = {}]
  /\ UNCHANGED catalysts

Generate(m) ==
  /\ main.pc = "catalysts" /\ m \in main.todo
  /\ Generated(m) \/ NoQueries(m) \/ GenerationRaises(m)
  /\ UNCHANGED <<markets, rows, count>>

(* The rest of phase 1, one commit: without an active run nothing is ticked *)
(* and the cycle is over; otherwise this loop's services are ticked and the *)
(* day's count is read.                                                     *)
ActiveRuns == {m \in Markets : active[m] > IF m \in main.off THEN 1 ELSE 0}

TickedAll == B!Tick(rows, B!Services)
TickedMetered == B!Tick(rows, {Metered})
Ticked == B!Tick(rows, Mine)

LoadCycle ==
  LET waiting == {s \in Mine : B!Waiting(Ticked[s])}
      used == IF Metered \in waiting THEN 0 ELSE count[main.day]
  IN /\ main.pc = "catalysts" /\ main.todo = {}
     /\ Deactivate
     /\ IF ActiveRuns = {}
          THEN main' = Idle /\ UNCHANGED rows
          ELSE /\ rows' = Ticked
               /\ main' = [main EXCEPT
                    !.pc = "loop", !.left = ActiveRuns, !.off = {}, !.daily = used,
                    !.limited = IF used >= DailyCap THEN waiting \cup {Metered}
                                                    ELSE waiting]
     /\ UNCHANGED <<markets, count, failures>>

(* A market's session.  Whether the fetch interval has passed since its     *)
(* cursor is left open: the interval adapts to the number of queries.       *)
OpenMarket(m) ==
  /\ main.pc = "loop" /\ m \in main.left
  /\ \E due \in BOOLEAN :
       main' = [main EXCEPT !.pc = "market", !.left = @ \ {m}, !.query = 0,
                            !.due = due /\ Metered \notin main.limited]
  /\ UNCHANGED <<catalysts, markets, rows, count, failures>>

(* One query: the fetchers that are not limited are asked together and      *)
(* their results handled in order, Metered's first.  A rate limit is        *)
(* recorded, a first success of the cycle clears the backoff; either commits*)
(* the session when it writes, and with it what was counted so far.  Any    *)
(* other error is only logged; most never leave the fetcher, which answers  *)
(* them with no documents, a success.                                       *)
Called == {s \in Mine : s \notin main.limited /\ (s = Metered => main.due)}

AtCapLate(daily) == daily > DailyCap
AtCap(daily) == daily >= DailyCap

Query ==
  /\ main.pc = "market" /\ main.query < Queries
  /\ \E result \in [Called -> {"answered", "limited", "failed"}] :
       LET With(r) == {s \in Called : result[s] = r}
           first == With("answered") \ main.succeeded
           spent == IF Metered \in With("answered") THEN 1 ELSE 0
           full == spent = 1 /\ AtCap(main.daily + 1)
           commits == \/ With("limited") # {}
                      \/ \E s \in first : rows[s] # B!Default
       IN /\ rows' = [s \in B!Services |->
                        IF s \in With("limited") THEN B!Trip(rows[s])
                        ELSE IF s \in first THEN B!Default
                        ELSE rows[s]]
          /\ count' = IF commits
                        THEN [count EXCEPT ![main.day] = @ + main.counted + spent]
                        ELSE count
          /\ main' = [main EXCEPT
                !.query = @ + 1, !.daily = @ + spent,
                !.counted = IF commits THEN 0 ELSE @ + spent,
                !.succeeded = @ \cup With("answered"),
                !.limited = @ \cup With("limited")
                              \cup IF full THEN {Metered} ELSE {}]
  /\ UNCHANGED <<catalysts, markets, failures>>

(* The market's session is committed; after the last market the cycle ends. *)
CloseMarket ==
  /\ main.pc = "market" /\ main.query = Queries
  /\ count' = [count EXCEPT ![main.day] = @ + main.counted]
  /\ main' = IF main.left = {} THEN Idle
             ELSE [main EXCEPT !.pc = "loop", !.counted = 0, !.query = 0]
  /\ UNCHANGED <<catalysts, markets, rows, failures>>

(* An exception outside the per-fetcher handlers, or a restart: the open    *)
(* session is rolled back and the loop starts over.                         *)
Fail ==
  /\ main.pc # "idle" /\ failures < Failures
  /\ main' = Idle
  /\ failures' = failures + 1
  /\ UNCHANGED <<catalysts, markets, rows, count>>

-----------------------------------------------------------------------------
(* The rest of the system: prices change a strategy's interest, a run grows *)
(* a day old, an entry rests, fills and ends, midnight passes.              *)
ChangeInterest(m) ==
  /\ wanted' = IF m \in wanted THEN wanted \ {m} ELSE wanted \cup {m}
  /\ UNCHANGED <<catalysts, position, rows, count, main, day, failures>>

RunAges(m) ==
  /\ m \in fresh
  /\ fresh' = fresh \ {m}
  /\ UNCHANGED <<active, markets, rows, count, main, failures>>

MovePosition(m) ==
  /\ \/ position[m] = "none" /\ m \in wanted /\ HasRun(m)
        /\ position' = [position EXCEPT ![m] = "pending"]
     \/ position[m] = "pending" /\ position' = [position EXCEPT ![m] = "open"]
     \/ position[m] = "open" /\ position' = [position EXCEPT ![m] = "none"]
  /\ UNCHANGED <<catalysts, wanted, rows, count, main, day, failures>>

NewDay ==
  /\ day < LastDay
  /\ day' = day + 1
  /\ UNCHANGED <<catalysts, wanted, position, rows, count, main, failures>>

RealtimeLoop ==
  /\ \/ B!TickLoop({Feed})
     \/ B!Outcome({Feed})
  /\ UNCHANGED <<catalysts, markets, count, main, failures>>

Cycle == \/ BeginCycle \/ LoadCycle \/ Query \/ CloseMarket
         \/ \E m \in Markets : Generate(m) \/ OpenMarket(m)

Environment == \/ NewDay \/ RealtimeLoop
               \/ \E m \in Markets : ChangeInterest(m) \/ RunAges(m) \/ MovePosition(m)

Next == Cycle \/ Fail \/ Environment

Spec == Init /\ [][Next]_vars

(* run_scheduler logs a cycle's exception and goes on; it never returns.    *)
FairSpec == Spec /\ WF_vars(Cycle)

-----------------------------------------------------------------------------
(* The counter of a day never passes the cap, and the cycle's own count of  *)
(* the day is the committed counter plus what its session has not committed *)
(* : early commits and rollbacks neither lose nor repeat a request the      *)
(* cycle still reckons with.                                                *)
QuotaKept ==
  /\ \A d \in Days : count[d] <= DailyCap
  /\ main.pc \in {"loop", "market"} /\ Metered \notin main.limited =>
       main.daily = count[main.day] + main.counted

(* Every change this loop makes to the backoff table is one the table's     *)
(* promise allows.                                                          *)
BackoffKept == B!Spec

(* A service that waits is asked again: cycles with something to fetch run  *)
(* its wait out, unless there is nothing to fetch.                          *)
NothingToFetch == main.pc = "catalysts" /\ main.todo = {} /\ ActiveRuns = {}

WaitsEnd ==
  \A s \in Mine : B!Waiting(rows[s]) ~> (~B!Waiting(rows[s]) \/ NothingToFetch)

(* "deactivates on market close/deselection" (SPEC.md): a cycle does not    *)
(* fetch for a market whose catalysts it has just deactivated.              *)
DeactivatedNotFetched ==
  [][main.pc = "catalysts" /\ main'.pc = "loop" => main.off \cap main'.left = {}]_vars

(* "Protect markets with open positions from catalyst deactivation": a held *)
(* market keeps an active run.                                              *)
HeldMarketsFed == \A m \in Markets : position[m] = "open" => HasRun(m)
=============================================================================
