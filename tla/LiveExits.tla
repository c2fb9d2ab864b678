----------------------------- MODULE LiveExits -----------------------------
(***************************************************************************)
(* Exits of the live rows of one market and side.                          *)
(*                                                                         *)
(* PositionMonitor.check_all_positions runs in three tasks: the monitor's   *)
(* own loop, the handler of every ticker message, and the signal loop.  A   *)
(* run loads all open rows once, then sells them one at a time and records *)
(* each sale with ledger.partial_close_position.  Nothing keeps two runs    *)
(* apart.  Meanwhile the operator may force_exit a row, an entry order whose *)
(* row is already open may go on filling and be reconciled, a user_orders   *)
(* event may come late, the position watcher surveys the drift between the  *)
(* ledger and the exchange whenever its WebSocket connects, the market may  *)
(* resolve, the process may restart.                                        *)
(*                                                                         *)
(* The exchange keeps one net position for the market: what the entry      *)
(* orders of the rows filled, less what their exit orders sold.  It lets a  *)
(* sale go through zero.  Prices, fees and the exit rules are left out: any *)
(* run may decide to sell any row, or not.                                 *)
(***************************************************************************)
EXTENDS OrderStatus, FiniteSets, Functions

CONSTANTS
  Rows,          \* PositionRows of the market, all open at first: numbers, in order of entry
  Partial,       \* rows whose entry order may be partially filled at first, and still rest
  Forced,        \* rows the operator may force_exit
  Runs,          \* the tasks that run check_all_positions
  Poll,          \* the one that runs for ever: PositionMonitor.run
  MaxSold,       \* bound: contracts sold for a row whose entry order rested
  MaxUpsets      \* bound: replies and connections lost, restarts, the market's resolution

ASSUME ExitsAssumption ==
  /\ IsFiniteSet(Rows) /\ Rows \subseteq Nat \ {0}
  /\ IsFiniteSet(Runs)
  /\ Partial \subseteq Rows /\ Forced \subseteq Rows
  /\ Poll \in Runs
  /\ MaxSold \in Nat /\ MaxUpsets \in Nat

VARIABLES
  entry,     \* the entry order of each row, on the exchange
  sold,      \* contracts the exchange sold for each row
  row,       \* the committed PositionRow, the columns of OrderStatus
  exited,    \* its exit_filled_contracts
  settled,   \* the market has resolved
  late,      \* rows with a user_orders event still to be delivered
  mon,       \* the runs of check_all_positions
  rec,       \* the reconcile pass, per row: the copy it holds under lock
  fx,        \* force_exit, per row
  res,       \* the watcher that closes the rows of a resolved market, per row
  srv,       \* the drift survey
  upsets,    \* replies and connections lost, restarts and the resolution so far
  (* Auxiliary variables, for the properties. *)
  rested,    \* rows whose entry order rested at first
  wrote,     \* rows that a survey or force_exit has written
  miscounted \* one of them may have left contracts uncounted

exchange == <<entry, sold, settled, late>>
ledger   == <<row, exited>>
survey   == <<srv, rested, wrote, miscounted>>
vars     == <<exchange, ledger, mon, rec, fx, res, survey, upsets>>

LedgerRow == [status: RowStatus, contracts: Nat, xstatus: XStatus, booked: Nat]

Total(f) == SumFunctionOnSet(f, Rows)

(* get_positions: the contracts held in the market. *)
Left(r) == entry[r].filled - sold[r]
Held    == Total([r \in Rows |-> Left(r)])

IsOpen(r) == row[r].status = "open"
Count(r)  == IF IsOpen(r) THEN row[r].contracts ELSE 0
Locked(r) == rec[r].on
OffHand   == [on |-> FALSE, loaded |-> NoRow]

Nothing == [r \in Rows |-> 0]
IdleRun == [step |-> "idle", snap |-> Nothing, at |-> 0,
            got |-> 0, loaded |-> NoRow, was |-> 0]
IdleRes == [step |-> "idle", loaded |-> NoRow]
IdleSrv == [step |-> "idle", counts |-> Nothing, net |-> 0, at |-> 0,
            loaded |-> NoRow, over |-> FALSE]
IdleFx  == [step |-> "idle", loaded |-> NoRow, was |-> 0, net |-> 0, known |-> FALSE]

Report(x) == [status |-> IF x.status = "resting" THEN "partial" ELSE x.status,
              filled |-> x.filled]

(* Entry orders filled at once, but for those that rested. *)
Init ==
  /\ rested \in SUBSET Partial
  /\ entry \in {e \in [Rows -> [status: {"resting", "executed"}, filled: 1..Size]] :
                  \A r \in Rows : /\ e[r].status = "resting" <=> r \in rested
                                  /\ e[r].filled = Size <=> r \notin rested}
  /\ sold = Nothing
  /\ row = [r \in Rows |-> [status |-> "open", contracts |-> entry[r].filled,
                            xstatus |-> Report(entry[r]).status, booked |-> 0]]
  /\ exited = Nothing
  /\ settled = FALSE
  /\ late \in SUBSET Rows
  /\ mon = [t \in Runs |-> IdleRun]
  /\ rec = [r \in Rows |-> OffHand]
  /\ fx = [r \in Rows |-> IdleFx]
  /\ res = [r \in Rows |-> IdleRes]
  /\ srv = IdleSrv
  /\ upsets = 0
  /\ wrote = {} /\ miscounted = FALSE

-----------------------------------------------------------------------------
(* Entry orders and their reports.                                         *)

EntryFills(r) ==
  /\ entry[r].status = "resting" /\ ~settled
  /\ LET n == entry[r].filled + 1 IN
     entry' = [entry EXCEPT ![r] = [status |-> IF n = Size THEN "executed" ELSE "resting",
                                    filled |-> n]]
  /\ late' = late \cup {r}
  /\ UNCHANGED <<sold, settled, ledger, mon, rec, fx, res, upsets, survey>>

MarketResolves ==
  /\ ~settled /\ upsets < MaxUpsets
  /\ settled' = TRUE /\ upsets' = upsets + 1
  /\ entry' = [r \in Rows |-> [entry[r] EXCEPT !.status = IF @ = "resting" THEN "canceled" ELSE @]]
  /\ UNCHANGED <<sold, late, ledger, mon, rec, fx, res, survey>>

(* apply_ws_event: what an event of a row that rested says may be out of date. *)
LateEvent(r) ==
  /\ r \in late /\ ~Locked(r)
  /\ late' = late \ {r}
  /\ \E n \in 1..entry[r].filled :
       /\ r \notin rested => n = Size
       /\ row' = IF Active(row[r])
                 THEN [row EXCEPT ![r] = ApplyExchangeState(@,
                        [status |-> IF n = Size THEN "executed" ELSE "partial", filled |-> n])]
                 ELSE row
  /\ UNCHANGED <<entry, sold, settled, exited, mon, rec, fx, res, upsets, survey>>

(* reconcile_pending_orders: lock and load, then write what get_order said, *)
(* after a cancel if the order rested too long.                            *)
RecLock(r) ==
  /\ Reconcilable(row[r]) /\ ~Locked(r)
  /\ rec' = [rec EXCEPT ![r] = [on |-> TRUE, loaded |-> row[r]]]
  /\ UNCHANGED <<exchange, ledger, mon, fx, res, upsets, survey>>

RecWrite(r) ==
  /\ rec[r].on
  /\ \/ UNCHANGED entry
     \/ /\ entry[r].status = "resting"
        /\ entry' = [entry EXCEPT ![r].status = "canceled"]
  /\ row' = [row EXCEPT ![r] =
               Flush(@, rec[r].loaded, ApplyExchangeState(rec[r].loaded, Report(entry'[r])))]
  /\ rec' = [rec EXCEPT ![r] = OffHand]
  /\ UNCHANGED <<sold, settled, late, exited, mon, fx, res, upsets, survey>>

-----------------------------------------------------------------------------
(* ledger.partial_close_position, on a row as read with its exit count.    *)

\* Mutant: whatever was sold, the row is closed.
PartialCloseAtOnce(r, was, n) ==
  [status |-> "closed", contracts |-> 0, xstatus |-> r.xstatus, booked |-> was + n]

\* Mutant: a row that keeps contracts is written as open.
PartialCloseReopens(r, was, n) ==
  IF r.contracts > n
  THEN [status |-> "open", contracts |-> r.contracts - n, xstatus |-> r.xstatus,
        booked |-> r.booked]
  ELSE [status |-> "closed", contracts |-> 0, xstatus |-> r.xstatus, booked |-> was + n]

PartialClose(r, was, n) ==
  IF r.contracts > n
  THEN [status |-> r.status, contracts |-> r.contracts - n, xstatus |-> r.xstatus,
        booked |-> r.booked]
  ELSE [status |-> "closed", contracts |-> 0, xstatus |-> r.xstatus, booked |-> was + n]

-----------------------------------------------------------------------------
(* check_all_positions.                                                    *)

(* The rows left to look at; the run is over when there are none. *)
Resume(snap) ==
  IF \E r \in Rows : snap[r] > 0 THEN [IdleRun EXCEPT !.step = "pass", !.snap = snap]
  ELSE IdleRun

Without(t, r) == [mon[t].snap EXCEPT ![r] = 0]

MonLoad(t) ==
  /\ mon[t].step = "idle" /\ \E r \in Rows : IsOpen(r)
  /\ mon' = [mon EXCEPT ![t] =
               Resume([r \in Rows |-> Count(r)])]
  /\ UNCHANGED <<exchange, ledger, rec, fx, res, upsets, survey>>

Considers(t, r) == mon[t].step = "pass" /\ mon[t].snap[r] > 0

(* No exit rule fires, or it is deferred, finds no bid, is refused or sells none. *)
MonHolds(t, r) ==
  /\ Considers(t, r)
  /\ mon' = [mon EXCEPT ![t] = Resume(Without(t, r))]
  /\ UNCHANGED <<exchange, ledger, rec, fx, res, upsets, survey>>

\* Mutant: the requested count is recorded, whatever the order filled.
RecordedRequested(asked, n) == asked

Recorded(asked, n) == n

CanSell(r) == ~settled /\ (r \in rested => sold[r] < MaxSold)

(* The IOC order sells some of the contracts of the snapshot. *)
MonSells(t, r) ==
  /\ Considers(t, r) /\ CanSell(r)
  /\ \E n \in 1..mon[t].snap[r] :
       /\ sold' = [sold EXCEPT ![r] = @ + n]
       /\ mon' = [mon EXCEPT ![t] =
            [IdleRun EXCEPT !.step = "filled", !.at = r, !.snap = Without(t, r),
                            !.got = Recorded(mon[t].snap[r], n)]]
  /\ srv' = [srv EXCEPT !.over = @ \/ srv.step = "loaded"]
  /\ UNCHANGED <<entry, settled, late, ledger, rec, fx, res, upsets,
                 rested, wrote, miscounted>>

(* It sells, and polling times out; or a transport error ends the run. *)
MonLoses(t, r) ==
  /\ Considers(t, r) /\ CanSell(r) /\ upsets < MaxUpsets
  /\ \E n \in 1..mon[t].snap[r] : sold' = [sold EXCEPT ![r] = @ + n]
  /\ \/ mon' = [mon EXCEPT ![t] = Resume(Without(t, r))]
     \/ mon' = [mon EXCEPT ![t] = IdleRun]
  /\ upsets' = upsets + 1
  /\ UNCHANGED <<entry, settled, late, ledger, rec, fx, res, survey>>

(* partial_close_position: the SELECT, then the commit. *)
MonReads(t) ==
  /\ mon[t].step = "filled"
  /\ mon' = [mon EXCEPT ![t].step = "read", ![t].loaded = row[mon[t].at],
                        ![t].was = exited[mon[t].at]]
  /\ UNCHANGED <<exchange, ledger, rec, fx, res, upsets, survey>>

MonCommits(t) ==
  LET m == mon[t] IN
  /\ m.step = "read" /\ ~Locked(m.at)
  /\ row' = [row EXCEPT ![m.at] = Flush(@, m.loaded, PartialClose(m.loaded, m.was, m.got))]
  /\ exited' = [exited EXCEPT ![m.at] = m.was + m.got]
  /\ mon' = [mon EXCEPT ![t] = Resume(m.snap)]
  /\ UNCHANGED <<exchange, rec, fx, res, upsets, survey>>

-----------------------------------------------------------------------------
(* OrderManager.force_exit on an open row.                                 *)

FxLoads(r) ==
  /\ r \in Forced /\ fx[r].step = "idle" /\ IsOpen(r)
  /\ \E known \in {FALSE, settled} :
       fx' = [fx EXCEPT ![r] = [IdleFx EXCEPT !.step = "net", !.loaded = row[r],
                                              !.was = exited[r], !.known = known]]
  /\ UNCHANGED <<exchange, ledger, mon, rec, res, upsets, survey>>

(* get_positions: without a position, force_exit raises. *)
FxNet(r) ==
  /\ fx[r].step = "net"
  /\ fx' = [fx EXCEPT ![r] = IF Held > 0 THEN [@ EXCEPT !.step = "share", !.net = Held]
                             ELSE IdleFx]
  /\ UNCHANGED <<exchange, ledger, mon, rec, res, upsets, survey>>

Siblings(r) == Total([q \in Rows |-> IF q # r THEN Count(q) ELSE 0])

(* The row's share of the net is what it will sell; net holds it from here. *)
FxShare(r) ==
  /\ fx[r].step = "share"
  /\ LET share == fx[r].net - Siblings(r) IN
     fx' = [fx EXCEPT ![r] = IF share > 0
              THEN [@ EXCEPT !.step = IF fx[r].known THEN "settle" ELSE "place",
                             !.net = share]
              ELSE IdleFx]
  /\ UNCHANGED <<exchange, ledger, mon, rec, res, upsets, survey>>

(* The FOK order sells the share and the sale is recorded; or it sells and the  *)
(* reply is lost; or there is no bid, the order is refused, or a call fails.    *)
FxSells(r) ==
  /\ fx[r].step = "place" /\ CanSell(r)
  /\ sold' = [sold EXCEPT ![r] = @ + fx[r].net]
  /\ \/ fx' = [fx EXCEPT ![r].step = "commit"] /\ UNCHANGED upsets
     \/ /\ upsets < MaxUpsets
        /\ upsets' = upsets + 1
        /\ fx' = [fx EXCEPT ![r] = IdleFx]
  /\ UNCHANGED <<entry, settled, late, ledger, mon, rec, res, survey>>

FxGivesUp(r) ==
  /\ fx[r].step \in {"net", "share", "place"}
  /\ fx' = [fx EXCEPT ![r] = IdleFx]
  /\ UNCHANGED <<exchange, ledger, mon, rec, res, upsets, survey>>

Shared(r) == SetContracts(fx[r].loaded, fx[r].net)

\* Mutant: the sale is recorded with the row's count, not with its share.
FxFilledHeld(r) == fx[r].loaded.contracts

FxFilled(r) == fx[r].net

(* Its session still holds the row it loaded: nothing is read again. *)
FxCommits(r) ==
  /\ fx[r].step \in {"commit", "settle"} /\ ~Locked(r)
  /\ \/ /\ fx[r].step = "commit"
        /\ row' = [row EXCEPT ![r] =
             Flush(@, fx[r].loaded, PartialClose(Shared(r), fx[r].was, FxFilled(r)))]
        /\ exited' = [exited EXCEPT ![r] = fx[r].was + FxFilled(r)]
     \/ /\ fx[r].step = "settle"
        /\ row' = [row EXCEPT ![r] = Flush(@, fx[r].loaded, ClosePosition(Shared(r)))]
        /\ UNCHANGED exited
  /\ fx' = [fx EXCEPT ![r] = IdleFx]
  /\ wrote' = wrote \cup {r} /\ miscounted' = TRUE
  /\ UNCHANGED <<exchange, mon, rec, res, srv, upsets, rested>>

-----------------------------------------------------------------------------
(* The rows of a resolved market are closed, one session each.             *)

ResLists(r) ==
  /\ settled /\ res[r].step = "idle" /\ Active(row[r])
  /\ res' = [res EXCEPT ![r].step = "listed"]
  /\ UNCHANGED <<exchange, ledger, mon, rec, fx, upsets, survey>>

(* The row is read again, and may have been closed since it was listed. *)
ResReads(r) ==
  /\ res[r].step = "listed"
  /\ res' = [res EXCEPT ![r] = [step |-> "read", loaded |-> row[r]]]
  /\ UNCHANGED <<exchange, ledger, mon, rec, fx, upsets, survey>>

ResCloses(r) ==
  /\ res[r].step = "read" /\ ~Locked(r)
  /\ row' = [row EXCEPT ![r] = Flush(@, res[r].loaded, ClosePosition(res[r].loaded))]
  /\ res' = [res EXCEPT ![r] = IdleRes]
  /\ UNCHANGED <<exchange, exited, mon, rec, fx, upsets, survey>>

-----------------------------------------------------------------------------
(* PositionWatcher's drift survey, run when its WebSocket has connected.   *)

(* The open rows are loaded.  over, which the survey does not know, says that a *)
(* sale is still to be recorded, or is made before the exchange answers.        *)
SrvLoads ==
  /\ srv.step = "idle" /\ upsets < MaxUpsets /\ \E r \in Rows : Count(r) > 0
  /\ srv' = [IdleSrv EXCEPT !.step = "loaded",
                            !.counts = [r \in Rows |-> Count(r)],
                            !.over = \E t \in Runs : mon[t].step \in {"filled", "read"}]
  /\ upsets' = upsets + 1
  /\ UNCHANGED <<exchange, ledger, mon, rec, fx, res, rested, wrote, miscounted>>

Magnitude(n) == IF n < 0 THEN -n ELSE n

\* Mutant: an answer that lists no position at all is believed.
AnswersUnguarded == {Magnitude(Held), 0}

(* get_positions drops the sign, and leaves out a market that was paid out. *)
Answers == {Magnitude(Held)} \cup (IF settled THEN {0} ELSE {})

(* When the call fails, or lists no position at all, the survey is over. *)
SrvNets ==
  /\ srv.step = "loaded"
  /\ \/ \E net \in Answers : srv' = [srv EXCEPT !.step = "netted", !.net = net]
     \/ srv' = IdleSrv
  /\ UNCHANGED <<exchange, ledger, mon, rec, fx, res, upsets, rested, wrote, miscounted>>

Listed   == {r \in Rows : srv.counts[r] > 0}
Counted  == Total(srv.counts)
Newest   == CHOOSE r \in Listed : \A q \in Listed : q <= r
Oldest   == CHOOSE r \in Listed : \A q \in Listed : r <= q

Adjusted == srv.counts[Newest] + srv.net - Counted

(* The newest row takes the difference, unless nothing would be left of it. *)
SrvAdjusts ==
  /\ srv.step = "netted" /\ srv.net \notin {0, Counted} /\ Adjusted > 0
  /\ ~Locked(Newest)
  /\ row' = [row EXCEPT ![Newest] = SetContracts(@, Adjusted)]
  /\ srv' = IdleSrv
  /\ wrote' = wrote \cup {Newest}
  /\ miscounted' = (miscounted \/ srv.over)
  /\ UNCHANGED <<exchange, exited, mon, rec, fx, res, upsets, rested>>

SrvLeaves ==
  /\ srv.step = "netted" /\ srv.net # 0
  /\ srv.net = Counted \/ Adjusted <= 0
  /\ srv' = IdleSrv
  /\ UNCHANGED <<exchange, ledger, mon, rec, fx, res, upsets, rested, wrote, miscounted>>

(* Nothing is held: the rows are closed, oldest first, in sessions of their own. *)
SrvLists ==
  /\ srv.step = "netted" /\ srv.net = 0
  /\ srv' = [srv EXCEPT !.step = "closing"]
  /\ UNCHANGED <<exchange, ledger, mon, rec, fx, res, upsets, rested, wrote, miscounted>>

SrvReads ==
  /\ srv.step = "closing"
  /\ srv' = [srv EXCEPT !.step = "read", !.at = Oldest, !.loaded = row[Oldest]]
  /\ UNCHANGED <<exchange, ledger, mon, rec, fx, res, upsets, rested, wrote, miscounted>>

SrvCloses ==
  /\ srv.step = "read" /\ ~Locked(srv.at)
  /\ row' = [row EXCEPT ![srv.at] = Flush(@, srv.loaded, ClosePosition(srv.loaded))]
  /\ wrote' = wrote \cup {srv.at}
  /\ srv' = IF Listed = {srv.at} THEN IdleSrv
            ELSE [srv EXCEPT !.step = "closing", !.counts[srv.at] = 0]
  /\ UNCHANGED <<exchange, exited, mon, rec, fx, res, upsets, rested, miscounted>>

Survey == SrvLoads \/ SrvNets \/ SrvAdjusts \/ SrvLeaves \/ SrvLists \/ SrvReads \/ SrvCloses

-----------------------------------------------------------------------------
Restart ==
  /\ upsets < MaxUpsets
  /\ upsets' = upsets + 1
  /\ late' = {}
  /\ mon' = [t \in Runs |-> IdleRun]
  /\ rec' = [r \in Rows |-> OffHand]
  /\ fx' = [r \in Rows |-> IdleFx]
  /\ res' = [r \in Rows |-> IdleRes]
  /\ srv' = IdleSrv
  /\ UNCHANGED <<entry, sold, settled, ledger, rested, wrote, miscounted>>

Entry(r)     == EntryFills(r) \/ LateEvent(r) \/ RecLock(r) \/ RecWrite(r)
RunRow(t, r) == MonHolds(t, r) \/ MonSells(t, r) \/ MonLoses(t, r)
Record(t)    == MonReads(t) \/ MonCommits(t)
ForceExit(r) == FxLoads(r) \/ FxNet(r) \/ FxShare(r) \/ FxSells(r) \/ FxGivesUp(r) \/ FxCommits(r)
Settle(r)    == ResLists(r) \/ ResReads(r) \/ ResCloses(r)

Next ==
  \/ MarketResolves \/ Restart \/ Survey
  \/ \E r \in Rows : Entry(r) \/ ForceExit(r) \/ Settle(r)
  \/ \E t \in Runs : MonLoad(t) \/ Record(t) \/ \E r \in Rows : RunRow(t, r)

Spec == Init /\ [][Next]_vars

(* The monitor's loop runs for ever, whatever becomes of the runs of others; and *)
(* an exit rule that keeps firing finds a bid, and its reply, one day.           *)
Fairness ==
  /\ WF_vars(MonLoad(Poll)) /\ WF_vars(Record(Poll))
  /\ \A r \in Rows : WF_vars(RunRow(Poll, r)) /\ SF_vars(MonSells(Poll, r))

FairSpec == Spec /\ Fairness
-----------------------------------------------------------------------------
(* Properties.                                                             *)

RunState == [step: {"idle", "pass", "filled", "read"}, snap: [Rows -> Nat],
             at: Rows \cup {0}, got: Nat, loaded: LedgerRow, was: Nat]
FxState  == [step: {"idle", "net", "share", "place", "settle", "commit"},
             loaded: LedgerRow, was: Nat, net: Nat, known: BOOLEAN]
SrvState == [step: {"idle", "loaded", "netted", "closing", "read"},
             counts: [Rows -> Nat], net: Nat, at: Rows \cup {0},
             loaded: LedgerRow, over: BOOLEAN]

TypeOK ==
  /\ entry \in [Rows -> [status: XStatus, filled: 1..Size]]
  /\ sold \in [Rows -> Nat] /\ exited \in [Rows -> Nat]
  /\ row \in [Rows -> LedgerRow]
  /\ settled \in BOOLEAN /\ late \subseteq Rows
  /\ mon \in [Runs -> RunState]
  /\ rec \in [Rows -> [on: BOOLEAN, loaded: LedgerRow]]
  /\ res \in [Rows -> [step: {"idle", "listed", "read"}, loaded: LedgerRow]]
  /\ fx \in [Rows -> FxState]
  /\ srv \in SrvState
  /\ upsets \in 0..MaxUpsets
  /\ rested \subseteq Partial /\ wrote \subseteq Rows /\ miscounted \in BOOLEAN

(* No P&L on a sale that was not made: the ledger never counts more contracts *)
(* as exited than the exchange sold for the row, whichever updates are lost.   *)
RecordedWasSold == \A r \in Rows : exited[r] <= sold[r]

(* Concurrent runs, late events and lost updates never make the ledger forget a *)
(* contract, until the market resolves.  A row whose entry filled at once, that  *)
(* nobody force-exits and no survey has written, counts at least what is left of *)
(* it, and a closed one has nothing left.  A survey shifts counts to the newest  *)
(* row; the rows together still count what is held, if no survey has recounted   *)
(* one while a sale was made before the exchange answered, or was unrecorded     *)
(* when the rows were loaded.                                                    *)
HeldIsTracked ==
  ~settled =>
    /\ \A r \in Rows \ (rested \cup wrote) : Left(r) <= Count(r)
    /\ rested = {} /\ ~miscounted => Held <= Total([r \in Rows |-> Count(r)])

(* A closed row is never made open again, by a session that read it open. *)
ClosedIsFinal ==
  [][\A r \in Rows : row[r].status = "closed" => row'[r].status = "closed"]_vars

(* A row whose exit rule keeps firing is closed one day, partial fill by partial *)
(* fill.                                                                         *)
ExitCompletes ==
  \A r \in Rows : r \notin rested /\ IsOpen(r) ~> (~IsOpen(r) \/ settled)

(* position_monitor.py: the next tick sells "the residual"; order_manager.py: no *)
(* exit may "oversell".  No exit order takes the net position of the market       *)
(* through zero.                                                                 *)
NeverOversold == Held >= 0

(* position_watcher.py: the newest row is adjusted "so sibling rows keep their   *)
(* own fill-confirmed counts".  No survey makes the rows count less than is held. *)
SurveyKeepsCount ==
  ~settled /\ rested = {} /\ Forced = {} => Held <= Total([r \in Rows |-> Count(r)])

(* order_manager.py on partially filled rows: no "live exchange position with   *)
(* fewer contracts tracked in the DB than actually held", once no session is at  *)
(* work on the row and no order of it rests.                                     *)
RemainderTracked ==
  \A r \in Rows :
    /\ ~settled /\ row[r].status = "closed" /\ entry[r].status # "resting"
    /\ ~rec[r].on /\ fx[r].step = "idle" /\ r \notin late
    /\ \A t \in Runs : mon[t].step = "idle"
    => entry[r].filled <= sold[r]
=============================================================================
