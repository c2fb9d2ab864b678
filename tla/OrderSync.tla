----------------------------- MODULE OrderSync -----------------------------
(***************************************************************************)
(* Live entry orders and the ledger rows that track them.                  *)
(*                                                                         *)
(* An order is placed by OrderManager._submit_live, lives on the exchange, *)
(* and is followed in the ledger by callers that run as tasks of one event *)
(* loop and interleave at every await: the periodic reconcile pass of      *)
(* PositionMonitor; PositionWatcher, which on every connect runs a pass and *)
(* a drift survey and then handles user_orders events; force_exit on a     *)
(* pending row; and the two watchers that close the rows of a resolved     *)
(* market.  The process may be restarted between any two steps.            *)
(*                                                                         *)
(* Each order is on a market of its own, the markets belong to one event and *)
(* resolve together, and only freqpred trades on the account: the net      *)
(* position of a market is what its order has filled.  Exit orders of open *)
(* rows are out of this module.                                            *)
(*                                                                         *)
(* A step ends where the code awaits a reply or a commit.  A session that  *)
(* holds SELECT ... FOR UPDATE locks blocks the commits of the others.     *)
(***************************************************************************)
EXTENDS OrderStatus, Sequences

CONSTANTS
  Orders,         \* the entry orders submitted, one ledger row each
  PartialLabel    \* how the exchange labels a resting order with fills

ASSUME PartialLabelAssumption == PartialLabel \in {"resting", "partial"}

VARIABLES
  exch,     \* the exchange: status and fill count of each order
  row,      \* the committed PositionRow of each order
  aged,     \* orders whose row is older than pending_order_timeout_seconds
  settled,  \* the markets have resolved
  sub,      \* _submit_live, per order: where it is and the reply it holds
  rec,      \* the two reconcile passes: per row, progress and working copy
  conn,     \* PositionWatcher's connection, by the step it has reached
  drift,    \* its drift survey: the rows it loaded and the nets it was told
  ws,       \* user_orders events sent and not yet handled
  fx,       \* force_exit on a pending row: progress, loaded row, working copy
  res       \* the two watchers that close the rows of a resolved market

ledgerVars == <<row, aged>>
taskVars   == <<sub, rec, fx, res>>
wsVars     == <<conn, drift, ws>>
vars       == <<exch, ledgerVars, settled, wsVars, taskVars>>

Passes  == {"monitor", "watcher"}
Closers == {"markets", "positions"}   \* MarketWatcher, PositionWatcher

Blank  == [status |-> "resting", filled |-> 0]
IdleR  == [step |-> "idle", work |-> NoRow]
IdleF  == [step |-> "idle", loaded |-> NoRow, work |-> NoRow]
IdleW  == [step |-> "idle", loaded |-> NoRow]
IdleD  == [on |-> FALSE, loaded |-> NoRow, net |-> 0]

ExchOrder == [status: XStatus \ {"partial"}, filled: 0..Size]
SubState  == [step: {"new", "replied", "orphan", "done", "rejected", "lost"},
              reply: Snapshot]
RecState  == [step: {"idle", "get", "cancel", "done", "skipped"}, work: Row]
FxState   == [step: {"idle", "cancel", "commit", "close"}, loaded: Row, work: Row]
ResState  == [step: {"idle", "listed", "read"}, loaded: Row]
ConnState == {"down", "syncing", "synced", "reading", "netted", "surveyed", "up"}
DriftRow  == [on: BOOLEAN, loaded: Row, net: 0..Size]
WsEvent   == [order: Orders, report: Snapshot]

(* What get_order, or a user_orders event, says of an order. *)
Report(x) == [status |-> IF x.status = "resting" /\ x.filled > 0
                         THEN PartialLabel ELSE x.status,
              filled |-> x.filled]

Locked(o) == \E p \in Passes : rec[p][o].step # "idle"

Init ==
  /\ exch    = [o \in Orders |-> [status |-> "none", filled |-> 0]]
  /\ row     = [o \in Orders |-> NoRow]
  /\ aged    = [o \in Orders |-> FALSE]
  /\ settled = FALSE
  /\ sub     = [o \in Orders |-> [step |-> "new", reply |-> Blank]]
  /\ rec     = [p \in Passes |-> [o \in Orders |-> IdleR]]
  /\ conn    = "down"
  /\ drift   = [o \in Orders |-> IdleD]
  /\ ws      = << >>
  /\ fx      = [o \in Orders |-> IdleF]
  /\ res     = [c \in Closers |-> [o \in Orders |-> IdleW]]

-----------------------------------------------------------------------------
(* The exchange.                                                           *)

(* Every change of an order is announced on user_orders, if anyone listens. *)
Announce(o) ==
  ws' = IF conn = "up" THEN Append(ws, [order |-> o, report |-> Report(exch'[o])]) ELSE ws

(* The resting remainder of an order fills by one contract or to the end. *)
Fill(o) ==
  /\ exch[o].status = "resting"
  /\ \E n \in {exch[o].filled + 1, Size} :
       exch' = [exch EXCEPT ![o] =
                  [status |-> IF n = Size THEN "executed" ELSE "resting", filled |-> n]]
  /\ Announce(o)
  /\ UNCHANGED <<ledgerVars, settled, conn, drift, taskVars>>

(* The market resolves: resting orders are cancelled by the exchange. *)
MarketResolves ==
  /\ ~settled
  /\ settled' = TRUE
  /\ exch' = [o \in Orders |-> IF exch[o].status = "resting"
                               THEN [exch[o] EXCEPT !.status = "canceled"] ELSE exch[o]]
  /\ UNCHANGED <<ledgerVars, wsVars, taskVars>>

CancelOnExchange(o) ==
  exch' = [exch EXCEPT ![o].status = IF @ = "resting" THEN "canceled" ELSE @]

-----------------------------------------------------------------------------
(* OrderManager._submit_live.                                              *)

(* place_order: rejected; accepted, with fills already; or accepted while   *)
(* the reply is lost to a transport error, which _submit_live propagates.   *)
PlaceOrder(o) ==
  /\ sub[o].step = "new" /\ ~settled
  /\ \/ /\ sub' = [sub EXCEPT ![o].step = "rejected"]
        /\ UNCHANGED exch
     \/ \E n \in 0..Size :
          /\ exch' = [exch EXCEPT ![o] =
                        [status |-> IF n = Size THEN "executed" ELSE "resting", filled |-> n]]
          /\ \/ sub' = [sub EXCEPT ![o] = [step |-> "replied", reply |-> exch'[o]]]
             \/ sub' = [sub EXCEPT ![o].step = "lost"]
  /\ UNCHANGED <<ledgerVars, settled, rec, wsVars, fx, res>>

\* Mutant: the fills endpoint's count is added to the reply's.
InsertedRowAdds(s, n) ==
  LET m == MapOrderToStatus(s) IN
  [status    |-> m.dbStatus,
   contracts |-> IF m.dbStatus = "pending" THEN Size ELSE n + m.contracts,
   xstatus   |-> s.status,
   booked    |-> 0]

(* The row open_position inserts: the count is corrected upwards by the fills *)
(* endpoint, which may lag (n) or fail (0); the status is not looked at again. *)
InsertedRow(s, n) ==
  LET m == MapOrderToStatus(s) IN
  [status    |-> m.dbStatus,
   contracts |-> IF m.dbStatus = "pending" THEN Size
                 ELSE IF n > m.contracts THEN n ELSE m.contracts,
   xstatus   |-> s.status,
   booked    |-> 0]

InsertRow(o) ==
  /\ sub[o].step = "replied"
  /\ \/ /\ \E n \in 0..exch[o].filled :
             row' = [row EXCEPT ![o] = InsertedRow(sub[o].reply, n)]
        /\ sub' = [sub EXCEPT ![o] = [step |-> "done", reply |-> Blank]]
     \/ /\ sub' = [sub EXCEPT ![o] = [step |-> "orphan", reply |-> Blank]]
        /\ UNCHANGED row
  /\ UNCHANGED <<exch, aged, settled, rec, wsVars, fx, res>>

(* The insert failed: best-effort cancel, whose own failure is swallowed. *)
CancelOrphan(o) ==
  /\ sub[o].step = "orphan"
  /\ \/ /\ exch[o].status = "resting"
        /\ CancelOnExchange(o)
        /\ sub' = [sub EXCEPT ![o].step = "done"]
     \/ /\ sub' = [sub EXCEPT ![o].step = "lost"]
        /\ UNCHANGED exch
  /\ UNCHANGED <<ledgerVars, settled, rec, wsVars, fx, res>>

RowAges(o) ==
  /\ row[o].status # "none" /\ ~aged[o]
  /\ aged' = [aged EXCEPT ![o] = TRUE]
  /\ UNCHANGED <<exch, row, settled, wsVars, taskVars>>

-----------------------------------------------------------------------------
(* OrderManager.reconcile_pending_orders, in two tasks.                    *)

PassIdle(p) == \A o \in Orders : rec[p][o].step = "idle"

Selected(p) == {o \in Orders : Reconcilable(row[o]) /\ ~Locked(o)}

(* SELECT ... FOR UPDATE SKIP LOCKED.  The watcher's pass runs on connect. *)
RecSelect(p) ==
  /\ PassIdle(p) /\ Selected(p) # {}
  /\ p = "watcher" => conn = "syncing"
  /\ rec' = [rec EXCEPT ![p] = [o \in Orders |->
               IF o \in Selected(p) THEN [step |-> "get", work |-> row[o]] ELSE IdleR]]
  /\ UNCHANGED <<exch, ledgerVars, settled, sub, wsVars, fx, res>>

\* Mutant: the timeout cancels pending orders only, never a partial fill's rest.
TimedOutPendingOnly(o, r) == r.status = "pending" /\ aged[o]

(* get_order answered: apply it, and cancel what has been resting too long. *)
TimedOut(o, r) == Reconcilable(r) /\ aged[o]

RecGet(p, o) ==
  /\ rec[p][o].step = "get"
  /\ LET r == ApplyExchangeState(rec[p][o].work, Report(exch[o])) IN
     rec' = [rec EXCEPT ![p][o] =
               [step |-> IF TimedOut(o, r) THEN "cancel" ELSE "done", work |-> r]]
  /\ UNCHANGED <<exch, ledgerVars, settled, sub, wsVars, fx, res>>

(* get_order failed with an API error: this row is left for the next pass. *)
RecGetFails(p, o) ==
  /\ rec[p][o].step = "get"
  /\ rec' = [rec EXCEPT ![p][o] = [step |-> "skipped", work |-> @.work]]
  /\ UNCHANGED <<exch, ledgerVars, settled, sub, wsVars, fx, res>>

(* cancel_order: the DELETE takes effect and the GET after it is applied. *)
RecCancel(p, o) ==
  /\ rec[p][o].step = "cancel"
  /\ exch[o].status = "resting"
  /\ CancelOnExchange(o)
  /\ Announce(o)
  /\ rec' = [rec EXCEPT ![p][o] =
               [step |-> "done", work |-> ApplyExchangeState(@.work, Report(exch'[o]))]]
  /\ UNCHANGED <<ledgerVars, settled, sub, conn, drift, fx, res>>

(* cancel_order raises: the DELETE is refused (the order is terminal, or the *)
(* API fails), or it took effect and the GET after it failed.                *)
RecCancelFails(p, o) ==
  /\ rec[p][o].step = "cancel"
  /\ \/ UNCHANGED <<exch, ws>>
     \/ exch[o].status = "resting" /\ CancelOnExchange(o) /\ Announce(o)
  /\ rec' = [rec EXCEPT ![p][o] = [step |-> "skipped", work |-> @.work]]
  /\ UNCHANGED <<ledgerVars, settled, sub, conn, drift, fx, res>>

(* All rows processed: one commit writes them and releases the locks. *)
RecCommit(p) ==
  /\ ~PassIdle(p)
  /\ \A o \in Orders : rec[p][o].step \notin {"get", "cancel"}
  /\ row' = [o \in Orders |-> IF rec[p][o].step = "idle" THEN row[o] ELSE rec[p][o].work]
  /\ rec' = [rec EXCEPT ![p] = [o \in Orders |-> IdleR]]
  /\ conn' = IF p = "watcher" THEN "synced" ELSE conn
  /\ UNCHANGED <<exch, aged, settled, sub, drift, ws, fx, res>>

(* A transport error is not a KalshiAPIError: it ends the pass and rolls the *)
(* session back, with what earlier rows had been told.  On connect it also    *)
(* ends the connection.                                                       *)
RecAbort(p) ==
  /\ ~PassIdle(p)
  /\ rec' = [rec EXCEPT ![p] = [o \in Orders |-> IdleR]]
  /\ conn' = IF p = "watcher" THEN "down" ELSE conn
  /\ UNCHANGED <<exch, ledgerVars, settled, sub, drift, ws, fx, res>>

-----------------------------------------------------------------------------
(* PositionWatcher's connection and apply_ws_event.                        *)

WsConnect ==
  /\ conn = "down"
  /\ conn' = "syncing"
  /\ UNCHANGED <<exch, ledgerVars, settled, drift, ws, taskVars>>

(* _detect_external_drift, once the pass is over or found no row: load the *)
(* open rows ...                                                          *)
DriftRead ==
  /\ \/ conn = "synced"
     \/ conn = "syncing" /\ PassIdle("watcher") /\ Selected("watcher") = {}
  /\ conn' = "reading"
  /\ drift' = [o \in Orders |-> IF row[o].status = "open"
                                THEN [on |-> TRUE, loaded |-> row[o], net |-> 0] ELSE IdleD]
  /\ UNCHANGED <<exch, ledgerVars, settled, ws, taskVars>>

(* ... ask get_positions for the nets, where a resolved market is paid out one *)
(* day; an empty answer is taken for an error of the API and ends the survey   *)
DriftNets ==
  /\ conn = "reading"
  /\ conn' = "netted"
  /\ \/ \E paid \in SUBSET Orders :
          /\ paid # {} => settled
          /\ drift' = [o \in Orders |->
               IF drift[o].on
               THEN [on |-> TRUE, loaded |-> drift[o].loaded,
                     net |-> IF o \in paid THEN 0 ELSE exch[o].filled]
               ELSE IdleD]
     \/ drift' = [o \in Orders |-> IdleD]
  /\ UNCHANGED <<exch, ledgerVars, settled, ws, taskVars>>

(* ... write the nets that differ, and go on to close the rows whose net is 0. *)
Drifted(o) == drift[o].on /\ drift[o].net \notin {0, drift[o].loaded.contracts}

DriftCommit ==
  /\ conn = "netted"
  /\ \A o \in Orders : Drifted(o) => ~Locked(o)
  /\ conn' = "surveyed"
  /\ row' = [o \in Orders |-> IF Drifted(o) THEN SetContracts(row[o], drift[o].net) ELSE row[o]]
  /\ res' = [res EXCEPT !["positions"] = [o \in Orders |->
               IF drift[o].on /\ drift[o].net = 0
               THEN [step |-> "listed", loaded |-> NoRow] ELSE IdleW]]
  /\ drift' = [o \in Orders |-> IdleD]
  /\ UNCHANGED <<exch, aged, settled, ws, sub, rec, fx>>

CloserIdle(c) == \A o \in Orders : res[c][o].step = "idle"

WsSubscribe ==
  /\ conn = "surveyed" /\ CloserIdle("positions")
  /\ conn' = "up"
  /\ UNCHANGED <<exch, ledgerVars, settled, drift, ws, taskVars>>

(* The socket closes, or a call of the task fails: run() logs it and reconnects. *)
WsDisconnect ==
  /\ conn # "down" /\ PassIdle("watcher")
  /\ conn' = "down"
  /\ ws' = << >>
  /\ drift' = [o \in Orders |-> IdleD]
  /\ res' = [res EXCEPT !["positions"] = [o \in Orders |-> IdleW]]
  /\ UNCHANGED <<exch, ledgerVars, settled, sub, rec, fx>>

(* One event: its row is locked (skipped), out of scope or absent (dropped), *)
(* or takes the reported state, unless the session fails, which is logged and *)
(* swallowed.  Fill-channel payloads carry neither status nor fill_count,     *)
(* parse as a resting order without fills, and change nothing.                *)
WsDeliver ==
  /\ conn = "up" /\ ws # << >> /\ CloserIdle("positions")
  /\ ws' = Tail(ws)
  /\ LET e == Head(ws) IN
     \/ UNCHANGED row
     \/ /\ Active(row[e.order]) /\ ~Locked(e.order)
        /\ row' = [row EXCEPT ![e.order] = ApplyExchangeState(@, e.report)]
  /\ UNCHANGED <<exch, aged, settled, conn, drift, taskVars>>

-----------------------------------------------------------------------------
(* OrderManager.force_exit on a pending row: it takes no lock.             *)

FxLoad(o) ==
  /\ fx[o].step = "idle" /\ row[o].status = "pending"
  /\ fx' = [fx EXCEPT ![o] = [step |-> "cancel", loaded |-> row[o], work |-> row[o]]]
  /\ UNCHANGED <<exch, ledgerVars, settled, sub, rec, wsVars, res>>

(* cancel_order, applied to the row as it was loaded; its errors propagate. *)
FxCancel(o) ==
  /\ fx[o].step = "cancel"
  /\ \/ /\ exch[o].status = "resting"
        /\ CancelOnExchange(o)
        /\ Announce(o)
        /\ fx' = [fx EXCEPT ![o].step = "commit",
                            ![o].work = ApplyExchangeState(@, Report(exch'[o]))]
     \/ /\ \/ UNCHANGED <<exch, ws>>
           \/ exch[o].status = "resting" /\ CancelOnExchange(o) /\ Announce(o)
        /\ fx' = [fx EXCEPT ![o] = IdleF]
  /\ UNCHANGED <<ledgerVars, settled, sub, rec, conn, drift, res>>

(* The commit; a cancel that raced a fill left the row open, to be closed. *)
FxCommit(o) ==
  /\ fx[o].step = "commit" /\ ~Locked(o)
  /\ row' = [row EXCEPT ![o] = Flush(@, fx[o].loaded, fx[o].work)]
  /\ fx' = [fx EXCEPT ![o] = IF fx[o].work.status = "open"
                             THEN [step |-> "close", loaded |-> @.loaded, work |-> @.work]
                             ELSE IdleF]
  /\ UNCHANGED <<exch, aged, settled, sub, rec, wsVars, res>>

(* ledger.close_position in the same session: the identity map returns the *)
(* row the session already holds, so nothing is read again.                *)
FxClose(o) ==
  /\ fx[o].step = "close" /\ ~Locked(o)
  /\ row' = [row EXCEPT ![o] = Flush(@, fx[o].work, ClosePosition(fx[o].work))]
  /\ fx' = [fx EXCEPT ![o] = IdleF]
  /\ UNCHANGED <<exch, aged, settled, sub, rec, wsVars, res>>

-----------------------------------------------------------------------------
(* A watcher closes the positions of the resolved market: MarketWatcher on  *)
(* its poll, PositionWatcher on a lifecycle message.  It lists the open and   *)
(* pending rows, then closes them one by one in sessions of their own.        *)

ResList(c) ==
  /\ settled /\ CloserIdle(c)
  /\ c = "positions" => conn = "up"
  /\ \E o \in Orders : Active(row[o])
  /\ res' = [res EXCEPT ![c] = [o \in Orders |->
               IF Active(row[o]) THEN [step |-> "listed", loaded |-> NoRow] ELSE IdleW]]
  /\ UNCHANGED <<exch, ledgerVars, settled, sub, rec, wsVars, fx>>

ResRead(c, o) ==
  /\ res[c][o].step = "listed"
  /\ \A q \in Orders : res[c][q].step # "read"
  /\ res' = [res EXCEPT ![c][o] = [step |-> "read", loaded |-> row[o]]]
  /\ UNCHANGED <<exch, ledgerVars, settled, sub, rec, wsVars, fx>>

ResClose(c, o) ==
  /\ res[c][o].step = "read" /\ ~Locked(o)
  /\ row' = [row EXCEPT ![o] = Flush(@, res[c][o].loaded, ClosePosition(res[c][o].loaded))]
  /\ res' = [res EXCEPT ![c][o] = IdleW]
  /\ UNCHANGED <<exch, aged, settled, sub, rec, wsVars, fx>>

-----------------------------------------------------------------------------
(* The process dies and starts again: tasks, sessions and sockets are gone.  *)
(* An order whose row was not yet inserted has nobody left to insert it.     *)
Restart ==
  /\ sub' = [o \in Orders |-> IF sub[o].step \in {"replied", "orphan"}
                              THEN [step |-> "lost", reply |-> Blank] ELSE sub[o]]
  /\ rec' = [p \in Passes |-> [o \in Orders |-> IdleR]]
  /\ fx'  = [o \in Orders |-> IdleF]
  /\ res' = [c \in Closers |-> [o \in Orders |-> IdleW]]
  /\ conn' = "down"
  /\ drift' = [o \in Orders |-> IdleD]
  /\ ws' = << >>
  /\ UNCHANGED <<exch, ledgerVars, settled>>

Submit(o)    == PlaceOrder(o) \/ InsertRow(o) \/ CancelOrphan(o)
Pass(p)      == RecSelect(p) \/ RecCommit(p) \/ RecAbort(p)
PassRow(p, o) == RecGet(p, o) \/ RecGetFails(p, o) \/ RecCancel(p, o) \/ RecCancelFails(p, o)
Survey       == DriftRead \/ DriftNets \/ DriftCommit
Socket       == WsConnect \/ WsSubscribe \/ WsDisconnect \/ WsDeliver
ForceExit(o) == FxLoad(o) \/ FxCancel(o) \/ FxCommit(o) \/ FxClose(o)
Resolve(c, o) == ResRead(c, o) \/ ResClose(c, o)

Next ==
  \/ MarketResolves \/ Restart \/ Socket \/ Survey
  \/ \E o \in Orders : Fill(o) \/ Submit(o) \/ RowAges(o) \/ ForceExit(o)
  \/ \E p \in Passes : Pass(p) \/ \E o \in Orders : PassRow(p, o)
  \/ \E c \in Closers : ResList(c) \/ \E o \in Orders : Resolve(c, o)

Spec == Init /\ [][Next]_vars

(* The loops of PositionMonitor and PositionWatcher keep starting passes and a *)
(* call always ends (the HTTP client has a timeout).  Failures are transient:  *)
(* a call made for ever is answered one day, and what a pass is told for ever  *)
(* reaches its commit one day, restarts and transport errors notwithstanding.  *)
Fairness ==
  /\ \A o \in Orders : WF_vars(RowAges(o))
  /\ \A p \in Passes : SF_vars(RecSelect(p)) /\ WF_vars(RecCommit(p))
  /\ \A p \in Passes, o \in Orders :
       /\ WF_vars(PassRow(p, o)) /\ SF_vars(RecGet(p, o)) /\ SF_vars(RecCancel(p, o))
       /\ SF_vars(RecCommit(p) /\ rec[p][o].step = "done")

FairSpec == Spec /\ Fairness
-----------------------------------------------------------------------------
(* Properties.                                                             *)

TypeOK ==
  /\ exch \in [Orders -> ExchOrder]
  /\ row \in [Orders -> Row]
  /\ aged \in [Orders -> BOOLEAN]
  /\ settled \in BOOLEAN
  /\ sub \in [Orders -> SubState]
  /\ rec \in [Passes -> [Orders -> RecState]]
  /\ conn \in ConnState
  /\ drift \in [Orders -> DriftRow]
  /\ ws \in Seq(WsEvent)
  /\ fx \in [Orders -> FxState]
  /\ res \in [Closers -> [Orders -> ResState]]

(* A row is cancelled only if the exchange order is dead without a fill: no  *)
(* race of a cancel with a fill leaves contracts on the exchange behind a row *)
(* nobody looks at again.                                                     *)
CancelledHidesNoFill ==
  \A o \in Orders : row[o].status = "cancelled" =>
    exch[o] = [status |-> "canceled", filled |-> 0]

(* The ledger never believes in more contracts than the exchange has filled. *)
OpenNeverOverstated ==
  \A o \in Orders : row[o].status = "open" => row[o].contracts \in 1..exch[o].filled

(* An order that can still fill is one the reconcile sweep will ask about,   *)
(* unless its submitter has yet to insert the row, or died (or lost the reply, *)
(* or failed to cancel) before it could.                                      *)
NoUntrackedResting ==
  \A o \in Orders : exch[o].status = "resting" =>
    sub[o].step \in {"replied", "orphan", "lost"} \/ Reconcilable(row[o])

(* Every row the sweep follows is settled one day: filled, cancelled or closed. *)
SweepTerminates ==
  \A o \in Orders : Reconcilable(row[o]) ~> ~Reconcilable(row[o])

(* What OrderTracking promises, with the rank of a status as its phase. *)
Phase(x) == CASE x = "none" -> 0 [] x \in {"resting", "partial"} -> 1 [] OTHER -> 2

Tracking == INSTANCE OrderTracking WITH
  order <- [o \in Orders |-> Phase(exch[o].status)],
  view  <- [o \in Orders |-> Phase(row[o].xstatus)]

TracksExchange == Tracking!Spec

(* SPEC.md's table of order outcomes: the open row of an order the ledger knows *)
(* to be executed or canceled holds its fill count, when no pass is running, the *)
(* connection is up and no event is on its way.                                  *)
SettledRowCountsFills ==
  \A o \in Orders :
    /\ row[o].status = "open" /\ row[o].xstatus \in Terminal
    /\ conn = "up" /\ ws = << >> /\ \A p \in Passes : PassIdle(p)
    => row[o].contracts = exch[o].filled

(* SPEC.md's "disjoint row scopes": a row the drift survey has loaded is not one *)
(* a reconcile pass is working on.                                               *)
DisjointScopes ==
  \A o \in Orders : drift[o].on => ~Locked(o)

(* "Close all open positions": P&L is booked on contracts that were bought. *)
BookedWasFilled ==
  \A o \in Orders : row[o].status = "closed" => row[o].booked <= exch[o].filled
=============================================================================
