---------------------------- MODULE Resolution ----------------------------
(***************************************************************************)
(* How the paper positions of one market are settled: the WebSocket's      *)
(* lifecycle events (markets/position_watcher.py), the REST sweeps of the  *)
(* market watcher (markets/watcher.py), and the exit passes of the         *)
(* position monitor, which its own loop, every tick and the signal loop    *)
(* start.  All of them read the market's row, wait, and write.             *)
(*                                                                         *)
(* The market has one result; the model keeps whether it is known.  "age"  *)
(* counts the poll intervals since last_fetched_at.                        *)
(***************************************************************************)
EXTENDS Naturals, FiniteSets

CONSTANTS
  Positions,
  Passes,          \* the tasks that run check_all_positions
  StaleAfter,      \* poll intervals after which a market is stale (3 in the code)
  Failures         \* bound: requests that fail

ASSUME ResolutionAssumption ==
  IsFiniteSet(Positions) /\ StaleAfter \in Nat \ {0} /\ Failures \in Nat

VARIABLES
  venue,       \* the market at the exchange
  due,         \* close_time has passed
  row,         \* its MarketRow
  pos,         \* the PositionRows: status, and what closed them
  loop,        \* the signal loop: what it does with the market
  ws,          \* the PositionWatcher's connection and what it handles
  subscribed,  \* the market is in _subscribed
  poll,        \* the MarketWatcher's cycle
  pass,        \* per pass of the monitor: the snapshot and what is left of it
  failures     \* how many of Failures have happened

vars == <<venue, due, row, pos, loop, ws, subscribed, poll, pass, failures>>

Known == {"determined", "finalized", "purged"}   \* the exchange has a result
Gone == {"purged", "removed"}                    \* GET /markets no longer finds it
Terminal == {"resolved", "settled", "finalized"}
Held == {"open", "pending"}

Active == {p \in Positions : pos[p].at \in Held}

RowType == [status : {"active", "closed", "determined", "settled", "finalized"},
            result : BOOLEAN, age : 0 .. StaleAfter]

NoPass == [on |-> FALSE, result |-> FALSE, terminal |-> FALSE, held |-> [p \in {} |-> "open"]]
NoPoll == [pc |-> "idle", got |-> "none", doomed |-> {}]
Offline == [pc |-> "down", found |-> FALSE, inbox |-> {}, doomed |-> {}]

TypeOK ==
  /\ venue \in {"active", "closed", "removed"} \cup Known
  /\ due \in BOOLEAN /\ row \in RowType /\ subscribed \in BOOLEAN
  /\ pos \in [Positions -> [at : Held \cup {"none", "closed"},
                            why : {"none", "stop", "terminal", "settled", "cancelled"}]]
  /\ \A p \in Positions : pos[p].at = "closed" => pos[p].why # "none"
  /\ loop \in {"idle", "loaded", "opened"}
  /\ ws.inbox \subseteq {"determined", "settled"} /\ ws.doomed \subseteq Positions
  /\ poll.doomed \subseteq Positions
  /\ failures \in 0 .. Failures

Init ==
  /\ venue = "active" /\ due = FALSE
  /\ row = [status |-> "active", result |-> FALSE, age |-> 0]
  /\ pos = [p \in Positions |-> [at |-> "none", why |-> "none"]]
  /\ loop = "idle" /\ subscribed = FALSE /\ failures = 0
  /\ ws = Offline /\ poll = NoPoll
  /\ pass = [a \in Passes |-> NoPass]

-----------------------------------------------------------------------------
(* What the functions of repository.py and ledger.py write.                *)

(* ON CONFLICT: the status and the fetch time are the new ones, a result is *)
(* never replaced by none.                                                  *)
\* Mutant: the result is the list's.
UpsertNullResult(status, result) ==
  row' = [status |-> status, result |-> result, age |-> 0]

Upsert(status, result) ==
  row' = [status |-> status, result |-> row.result \/ result, age |-> 0]

(* close_position does not look at the status it replaces.                 *)
Close(p, why) == pos' = [pos EXCEPT ![p] = [at |-> "closed", why |-> why]]

Fails == failures < Failures /\ failures' = failures + 1

-----------------------------------------------------------------------------
(* The exchange: trading may stop before close_time; the result comes, the *)
(* market is settled, and later purged or never resolved.                  *)
Event(e) ==
  ws' = [ws EXCEPT !.inbox = IF ws.pc \in {"down", "queried"} THEN @ ELSE @ \cup {e}]

StopTrading == venue = "active" /\ venue' = "closed" /\ UNCHANGED ws
Determine == venue = "closed" /\ venue' = "determined" /\ Event("determined")
Finalize == venue = "determined" /\ venue' = "finalized" /\ Event("settled")
Purge == \/ venue = "finalized" /\ venue' = "purged" /\ UNCHANGED ws
         \/ venue = "closed" /\ venue' = "removed" /\ UNCHANGED ws

Exchange ==
  /\ StopTrading \/ Determine \/ Finalize \/ Purge
  /\ UNCHANGED <<due, row, pos, loop, subscribed, poll, pass, failures>>

CloseTime ==
  /\ ~due /\ venue # "active" /\ due' = TRUE
  /\ UNCHANGED <<venue, row, pos, loop, ws, subscribed, poll, pass, failures>>

-----------------------------------------------------------------------------
(* The signal loop: the market is loaded while its row is active; the order*)
(* is submitted from that snapshot, and the watcher told after the alert.  *)
Load ==
  /\ loop = "idle" /\ row.status = "active" /\ loop' = "loaded"
  /\ UNCHANGED <<venue, due, row, pos, ws, subscribed, poll, pass, failures>>

Submit ==
  /\ loop = "loaded"
  /\ \/ \E p \in Positions, at \in Held :
          /\ pos[p].at = "none" /\ pos' = [pos EXCEPT ![p].at = at] /\ loop' = "opened"
     \/ loop' = "idle" /\ UNCHANGED pos
  /\ UNCHANGED <<venue, due, row, ws, subscribed, poll, pass, failures>>

Subscribe ==
  /\ loop = "opened" /\ loop' = "idle" /\ subscribed' = TRUE
  /\ UNCHANGED <<venue, due, row, pos, ws, poll, pass, failures>>

-----------------------------------------------------------------------------
(* The WebSocket.  The subscription set is rebuilt from the database after *)
(* every connect: what the query found replaces the set.                   *)
Connect ==
  /\ ws.pc = "down" /\ ws' = [ws EXCEPT !.pc = "queried", !.found = Active # {}]
  /\ UNCHANGED <<venue, due, row, pos, loop, subscribed, poll, pass, failures>>

Rebuild ==
  /\ ws.pc = "queried" /\ ws' = [ws EXCEPT !.pc = "listening", !.found = FALSE]
  /\ subscribed' = ws.found
  /\ UNCHANGED <<venue, due, row, pos, loop, poll, pass, failures>>

(* The messages of a connection that breaks are lost; a handler ends first. *)
Disconnect ==
  /\ ws.pc \in {"queried", "listening"} /\ ws' = Offline
  /\ UNCHANGED <<venue, due, row, pos, loop, subscribed, poll, pass, failures>>

(* A ticker message counts as a fetch; the exit pass it starts is one of   *)
(* Passes.                                                                 *)
Tick ==
  /\ ws.pc = "listening" /\ subscribed /\ venue \in {"active", "closed"}
  /\ row' = [row EXCEPT !.age = 0]
  /\ UNCHANGED <<venue, due, pos, loop, ws, subscribed, poll, pass, failures>>

(* _update_market_status writes for any market; positions are settled only *)
(* by "determined", and only of a subscribed market.                       *)
OnDetermined ==
  /\ ws.pc = "listening" /\ "determined" \in ws.inbox
  /\ row' = [row EXCEPT !.status = "determined", !.result = TRUE]
  /\ ws' = [ws EXCEPT !.inbox = @ \ {"determined"}, !.pc = IF subscribed THEN "settling" ELSE @]
  /\ UNCHANGED <<venue, due, pos, loop, subscribed, poll, pass, failures>>

LoadHeld ==
  /\ ws.pc = "settling" /\ ws' = [ws EXCEPT !.pc = "closing", !.doomed = Active]
  /\ UNCHANGED <<venue, due, row, pos, loop, subscribed, poll, pass, failures>>

CloseDetermined(p) ==
  /\ ws.pc = "closing" /\ p \in ws.doomed
  /\ Close(p, "settled") /\ ws' = [ws EXCEPT !.doomed = @ \ {p}]
  /\ UNCHANGED <<venue, due, row, loop, subscribed, poll, pass, failures>>

Unsubscribe ==
  /\ ws.pc = "closing" /\ ws.doomed = {}
  /\ ws' = [ws EXCEPT !.pc = "listening"] /\ subscribed' = FALSE
  /\ UNCHANGED <<venue, due, row, pos, loop, poll, pass, failures>>

OnSettled ==
  /\ ws.pc = "listening" /\ ws.inbox = {"settled"}
  /\ row' = [row EXCEPT !.status = "settled"]
  /\ ws' = [ws EXCEPT !.inbox = {}] /\ subscribed' = FALSE
  /\ UNCHANGED <<venue, due, pos, loop, poll, pass, failures>>

WebSocket ==
  \/ Connect \/ Rebuild \/ Disconnect \/ Tick \/ OnDetermined \/ LoadHeld
  \/ \E p \in Positions : CloseDetermined(p)
  \/ Unsubscribe \/ OnSettled
-----------------------------------------------------------------------------
(* One cycle of the MarketWatcher.                                         *)
Goto(pc) == poll' = [poll EXCEPT !.pc = pc, !.got = "none"]

(* list_markets; when it fails, so does the cycle.                         *)
List ==
  /\ poll.pc = "idle"
  /\ row' = [row EXCEPT !.age = IF @ < StaleAfter THEN @ + 1 ELSE @]
  /\ \/ poll' = [poll EXCEPT !.pc = "listed", !.got = venue] /\ UNCHANGED failures
     \/ Fails /\ UNCHANGED poll
  /\ UNCHANGED <<venue, due, pos, loop, ws, subscribed, pass>>

(* The snapshot is written; only markets open for trading are in it.       *)
StoreList ==
  /\ poll.pc = "listed" /\ Goto("sweep")
  /\ IF poll.got = "active" THEN Upsert("active", FALSE) ELSE UNCHANGED row
  /\ UNCHANGED <<venue, due, pos, loop, ws, subscribed, pass, failures>>

(* _sweep_closed_markets: is the market past its close, or stale?          *)
Select ==
  /\ poll.pc = "sweep"
  /\ Goto(IF row.status \notin {"resolved", "finalized"} /\ (due \/ row.age >= StaleAfter)
            THEN "fetch" ELSE "missing")
  /\ UNCHANGED <<venue, due, row, pos, loop, ws, subscribed, pass, failures>>

(* get_markets_by_tickers leaves out the markets of a chunk it could not   *)
(* fetch, as it does those that are gone; the settled list is asked next,  *)
(* and it also answers nothing for an error.                               *)
Fetch ==
  /\ poll.pc = "fetch"
  /\ \/ /\ poll' = [poll EXCEPT !.pc = "fetched",
                !.got = CASE venue = "purged" -> "finalized"
                          [] venue = "removed" -> "missing"
                          [] OTHER -> venue]
        /\ UNCHANGED failures
     \/ Fails /\ poll' = [poll EXCEPT !.pc = "fetched",
                !.got = IF venue \in {"finalized", "purged"} THEN "finalized" ELSE "missing"]
     \/ Fails /\ poll' = [poll EXCEPT !.pc = "fetched", !.got = "missing"]
  /\ UNCHANGED <<venue, due, row, pos, loop, ws, subscribed, pass>>

(* The settled lookup meets an exception that is no KalshiAPIError.        *)
Abort ==
  /\ poll.pc \in {"fetch", "missing"} /\ Fails /\ poll' = NoPoll
  /\ UNCHANGED <<venue, due, row, pos, loop, ws, subscribed, pass>>

(* A market reported final without its result waits for the next cycle; one*)
(* that was found nowhere is marked so that it is not asked for again.     *)
StoreSweep ==
  /\ poll.pc = "fetched" /\ Goto("missing")
  /\ CASE poll.got = "missing" -> row' = [row EXCEPT !.status = "finalized"]
       [] poll.got = "closed"  -> Upsert("closed", FALSE) \/ UNCHANGED row
       [] OTHER                -> Upsert(poll.got, poll.got \in Known)
  /\ UNCHANGED <<venue, due, pos, loop, ws, subscribed, pass, failures>>

(* _sweep_missing_results: final, without a result, and signalled once.    *)
MissingResult ==
  /\ poll.pc = "missing" /\ Goto("resolve")
  /\ IF row.status = "finalized" /\ ~row.result /\ venue \in {"finalized", "purged"}
       THEN \/ Upsert("finalized", TRUE) /\ UNCHANGED failures
            \/ Fails /\ UNCHANGED row
       ELSE UNCHANGED <<row, failures>>
  /\ UNCHANGED <<venue, due, pos, loop, ws, subscribed, pass>>

(* _resolve_settled_open_positions, first pass: the row has the result.    *)
\* Mutants: the result is not asked for; only "settled" counts as settled.
ResolvableByStatus == IF row.status \in Terminal THEN Active ELSE {}
ResolvableSettled == IF row.status = "settled" /\ row.result THEN Active ELSE {}

Resolvable == IF row.status \in Terminal /\ row.result THEN Active ELSE {}

ResolveKnown ==
  /\ poll.pc = "resolve"
  /\ poll' = [poll EXCEPT !.pc = "ask", !.doomed = Resolvable]
  /\ UNCHANGED <<venue, due, row, pos, loop, ws, subscribed, pass, failures>>

(* Second pass: past its close and without a result the market is asked    *)
(* for; for a purged one that raises, and the settled list is not reached. *)
AskResult ==
  /\ poll.pc = "ask"
  /\ IF due /\ ~row.result /\ Active # {}
       THEN /\ Goto("requery")
            /\ \/ /\ IF venue \in Known \ Gone THEN Upsert(venue, TRUE) ELSE UNCHANGED row
                  /\ UNCHANGED failures
               \/ Fails /\ UNCHANGED row
       ELSE Goto("close") /\ UNCHANGED <<row, failures>>
  /\ UNCHANGED <<venue, due, pos, loop, ws, subscribed, pass>>

Requery ==
  /\ poll.pc = "requery"
  /\ poll' = [poll EXCEPT !.pc = "close", !.doomed = @ \cup (IF row.result THEN Active ELSE {})]
  /\ UNCHANGED <<venue, due, row, pos, loop, ws, subscribed, pass, failures>>

CloseResolved(p) ==
  /\ poll.pc = "close" /\ p \in poll.doomed
  /\ Close(p, "settled") /\ poll' = [poll EXCEPT !.doomed = @ \ {p}]
  /\ UNCHANGED <<venue, due, row, loop, ws, subscribed, pass, failures>>

EndCycle ==
  /\ poll.pc = "close" /\ poll.doomed = {} /\ poll' = NoPoll
  /\ UNCHANGED <<venue, due, row, pos, loop, ws, subscribed, pass, failures>>

Watch ==
  \/ List \/ StoreList \/ Select \/ Fetch \/ Abort \/ StoreSweep \/ MissingResult
  \/ ResolveKnown \/ AskResult \/ Requery
  \/ \E p \in Positions : CloseResolved(p)
  \/ EndCycle

-----------------------------------------------------------------------------
(* check_all_positions: the positions and the row are loaded once, then    *)
(* each position is decided from the snapshot and written in a session of  *)
(* its own.                                                                *)
StartPass(a) ==
  /\ ~pass[a].on /\ Active # {}
  /\ pass' = [pass EXCEPT ![a] = 
       [on |-> TRUE, result |-> row.result, terminal |-> row.status \in Terminal,
        held |-> [p \in Active |-> pos[p].at]]]
  /\ UNCHANGED <<venue, due, row, pos, loop, ws, subscribed, poll, failures>>

Rest(a, p) == [q \in DOMAIN pass[a].held \ {p} |-> pass[a].held[q]]

Decided(a, p) ==
  /\ p \in DOMAIN pass[a].held
  /\ pass' = [pass EXCEPT ![a] = IF Rest(a, p) = <<>> THEN NoPass ELSE [@ EXCEPT !.held = Rest(a, p)]]
  /\ UNCHANGED <<venue, due, row, loop, ws, subscribed, poll, failures>>

(* A resting limit order is filled, cancelled after its timeout, or waits. *)
(* promote_pending_to_open sets the status of whatever the row is by now.  *)
Pending(a, p) ==
  /\ pass[a].held[p] = "pending"
  /\ \/ pos' = [pos EXCEPT ![p].at = "open"]
     \/ Close(p, "cancelled")
     \/ UNCHANGED pos

(* evaluate_exit: the result, then a stop or an exit signal, then a        *)
(* terminal status without a result.                                       *)
Exit(a, p) ==
  /\ pass[a].held[p] = "open"
  /\ \/ pass[a].result /\ Close(p, "settled")
     \/ ~pass[a].result /\ Close(p, "stop")
     \/ ~pass[a].result /\ pass[a].terminal /\ Close(p, "terminal")
     \/ ~pass[a].result /\ ~pass[a].terminal /\ UNCHANGED pos

Monitor(a) == \/ StartPass(a)
              \/ \E p \in Positions : Decided(a, p) /\ (Pending(a, p) \/ Exit(a, p))

-----------------------------------------------------------------------------
Next == \/ Exchange \/ CloseTime \/ Load \/ Submit \/ Subscribe \/ WebSocket \/ Watch
        \/ \E a \in Passes : Monitor(a)

Spec == Init /\ [][Next]_vars

(* The watcher's loop has no exit but the process's.  Nothing is assumed of *)
(* the WebSocket, and of the monitor's passes only that one which began ends.*)
FairSpec ==
  /\ Spec /\ WF_vars(Watch)
  /\ \A a \in Passes : WF_vars(pass[a].on /\ Monitor(a))

-----------------------------------------------------------------------------
(* A row that knows the market's result never forgets it: the lists, sweeps *)
(* and messages that write the row were read at different times.            *)
ResultKept == [][row.result => row'.result]_vars

(* A position is booked at the settlement payout only when the exchange has *)
(* a result, whatever the row's status says.                                *)
SettledHasResult == \A p \in Positions : pos[p].why = "settled" => venue \in Known

(* Once the exchange has settled it every position is closed, whatever the  *)
(* WebSocket missed and wherever the market left the live API meanwhile:    *)
(* "Handles resolutions missed by the WebSocket during reconnect windows".  *)
PositionsSettle ==
  \A p \in Positions : venue \in {"finalized", "purged"} /\ pos[p].at \in Held ~> pos[p].at = "closed"

(* "Market resolution - Kalshi has confirmed a terminal status."            *)
TerminalConfirmed ==
  \A p \in Positions : pos[p].why = "terminal" => venue \in Known \cup Gone
=============================================================================
