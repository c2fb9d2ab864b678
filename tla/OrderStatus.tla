---------------------------- MODULE OrderStatus ----------------------------
(***************************************************************************)
(* What freqpred's ledger knows of one live entry order, and how a report  *)
(* of the exchange changes it.  Pure operators: the modules that interleave *)
(* the callers (reconcile passes, WebSocket events, force exits, watchers)  *)
(* take the row transformations from here.                                 *)
(*                                                                         *)
(* A row keeps the columns of PositionRow the order logic reads or writes: *)
(*   status     pending / open / closed / cancelled ("none": no row yet)   *)
(*   contracts  contracts the ledger believes it holds (or asked for)      *)
(*   xstatus    exchange_order_status, the last exchange status accepted   *)
(*   booked     contracts the realised P&L was computed on (0: none was)   *)
(* requested_contracts is Size in every row: order_manager.py:697 writes it *)
(* at insertion and nothing changes it.  Prices and fees are abstracted.   *)
(***************************************************************************)
EXTENDS Integers

CONSTANT Size            \* contracts requested by an entry order

ASSUME SizeAssumption == Size \in Nat \ {0}

RowStatus  == {"none", "pending", "open", "closed", "cancelled"}
XStatus    == {"none", "resting", "partial", "executed", "canceled"}
Terminal   == {"executed", "canceled"}

Row      == [status: RowStatus, contracts: 0..Size, xstatus: XStatus, booked: 0..Size]
Snapshot == [status: XStatus \ {"none"}, filled: 0..Size]

NoRow == [status |-> "none", contracts |-> 0, xstatus |-> "none", booked |-> 0]

\* Mutant: a cancelled order is read as cancelled, whatever had filled before.
MapOrderIgnoringCancelledFills(s) ==
  IF s.status = "canceled" THEN [dbStatus |-> "cancelled", contracts |-> 0]
  ELSE IF s.filled > 0 \/ s.status = "executed"
       THEN [dbStatus |-> "open", contracts |-> IF s.filled > 0 THEN s.filled ELSE Size]
       ELSE [dbStatus |-> "pending", contracts |-> 0]

\* Mutant: an open row takes the requested count, not the filled one.
MapOrderToRequested(s) ==
  IF s.filled > 0 \/ s.status = "executed"
  THEN [dbStatus |-> "open", contracts |-> Size]
  ELSE [dbStatus |-> IF s.status = "canceled" THEN "cancelled" ELSE "pending",
        contracts |-> 0]

(* map_order_to_status: the row status and the contracts a report implies. *)
MapOrderToStatus(s) ==
  IF s.filled > 0 \/ s.status = "executed"
  THEN [dbStatus |-> "open", contracts |-> IF s.filled > 0 THEN s.filled ELSE Size]
  ELSE [dbStatus |-> IF s.status = "canceled" THEN "cancelled" ELSE "pending",
        contracts |-> 0]

(* _status_rank: a report of a lower rank never replaces exchange_order_status. *)
StatusRank == [x \in XStatus |->
  CASE x = "none" -> -1 [] x = "resting" -> 0 [] x = "partial" -> 1 [] OTHER -> 2]

\* Mutant: the rank guard is missing, the last report to arrive wins.
AcceptStatusUnranked(current, incoming) == incoming

AcceptStatus(current, incoming) ==
  IF StatusRank[incoming] >= StatusRank[current] THEN incoming ELSE current

(* _apply_exchange_state: every path that reads exchange order state ends here. *)
ApplyExchangeState(r, s) ==
  LET m == MapOrderToStatus(s) IN
  [status    |-> IF m.dbStatus = "pending" THEN r.status ELSE m.dbStatus,
   contracts |-> IF m.dbStatus = "open" THEN m.contracts ELSE r.contracts,
   xstatus   |-> AcceptStatus(r.xstatus, s.status),
   booked    |-> r.booked]

\* Mutant: the sweep looks at pending rows only, as it did before case (b).
ReconcilePendingOnly(r) == r.status = "pending"

(* reconcile_pending_orders: the WHERE clause of the sweep. *)
Reconcilable(r) ==
  \/ r.status = "pending"
  \/ r.status = "open" /\ r.xstatus \in {"resting", "partial"}

(* Rows that are neither closed nor cancelled: the WHERE clause of the WebSocket *)
(* path and of the watchers that settle a resolved market.                      *)
Active(r) == r.status \in {"pending", "open"}

(* close_position: P&L is taken on the contracts of the row, whatever its status. *)
ClosePosition(r) == [status |-> "closed", contracts |-> r.contracts,
                     xstatus |-> r.xstatus, booked |-> r.contracts]

(* The drift survey: it overwrites the count of one row, and nothing else. *)
SetContracts(r, n) == [status |-> r.status, contracts |-> n,
                       xstatus |-> r.xstatus, booked |-> r.booked]

(* The commit of a session (SQLAlchemy's unit of work): it writes the columns *)
(* the session changed since it loaded the row, and leaves the others alone.  *)
Column(db, loaded, work) == IF work # loaded THEN work ELSE db

Flush(db, loaded, work) ==
  [status    |-> Column(db.status, loaded.status, work.status),
   contracts |-> Column(db.contracts, loaded.contracts, work.contracts),
   xstatus   |-> Column(db.xstatus, loaded.xstatus, work.xstatus),
   booked    |-> Column(db.booked, loaded.booked, work.booked)]
=============================================================================
