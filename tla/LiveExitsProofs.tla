-------------------------- MODULE LiveExitsProofs --------------------------
(***************************************************************************)
(* Proofs about exits: LiveExits for every set of rows and tasks,          *)
(* ExitLadder for every set of prices, sizes and fees, AlgoExits for every *)
(* set of ticks.                                                           *)
(*                                                                         *)
(* LiveExits.  A closed row could come back to life in one way only: a     *)
(* session that loaded it open commits its status over the closing.  Exits *)
(* commit the status they loaded, so Flush leaves the column alone, or     *)
(* "closed".  The reconcile pass may write "open" over what it loaded, and *)
(* is safe because of its lock: what it holds is what the ledger holds     *)
(* (ExclusiveCopy).  What was sold is summed over the tasks that sell; what*)
(* is held and counted, over the rows, because a drift survey moves counts *)
(* from one row to another.                                                *)
(*                                                                         *)
(* ExitLadder.  What an open row has cost is what its remaining contracts  *)
(* cost, less what earlier exits brought in above their share (Booked);    *)
(* memory and row reach as far as the bids that were seen (Remembered).    *)
(*                                                                         *)
(* AlgoExits.  Each side saw the last ticks of the buffer, NO upside down  *)
(* (TicksInv): taking the last candles commutes with a tick, with turning  *)
(* upside down, and with leaving the last one out.                         *)
(***************************************************************************)
EXTENDS MCExits, FiniteSums, SequenceTheorems

(* The copy a reconcile pass holds under its lock is the committed row. *)
ExclusiveCopy == \A r \in Rows :
  rec[r].on => Active(row[r]) /\ rec[r].loaded = row[r]

Columns ==
  /\ row = [r \in Rows |-> row[r]]
  /\ rec = [r \in Rows |-> rec[r]]

IInv == Columns /\ ExclusiveCopy

(* One step never gives a closed row a new status. *)
StaysClosed == \A r \in Rows : row[r].status = "closed" => row'[r].status = "closed"

-----------------------------------------------------------------------------
(* Recording an exit never invents a status. *)
LEMMA PartialCloseStatus ==
  ASSUME NEW r, NEW was, NEW n
  PROVE  PartialClose(r, was, n).status \in {r.status, "closed"}
BY DEF PartialClose

(* Committing an unchanged status, or "closed", leaves a closed row closed. *)
LEMMA FlushKeepsClosed ==
  ASSUME NEW db, NEW loaded, NEW work,
         work.status \in {loaded.status, "closed"}, db.status = "closed"
  PROVE  Flush(db, loaded, work).status = "closed"
BY DEF Flush, Column

(* A write to one row that nobody holds keeps the invariant. *)
LEMMA UnlockedWrite ==
  ASSUME IInv, NEW q \in Rows, ~Locked(q), NEW w,
         row' = [row EXCEPT ![q] = w], UNCHANGED rec,
         row[q].status = "closed" => w.status = "closed"
  PROVE  IInv' /\ StaysClosed
<1>1. Columns'
  BY DEF IInv, Columns
<1>2. \A r \in Rows : row'[r] = IF r = q THEN w ELSE row[r]
  BY DEF IInv, Columns
<1>3. ExclusiveCopy'
  BY <1>2 DEF IInv, ExclusiveCopy, Locked, Active
<1>4. StaysClosed
  BY <1>2 DEF StaysClosed
<1> QED BY <1>1, <1>3, <1>4 DEF IInv

(* A step that leaves the ledger and the locks alone. *)
LEMMA NoWrite ==
  ASSUME IInv, UNCHANGED <<row, rec>>
  PROVE  IInv' /\ StaysClosed
BY DEF IInv, Columns, ExclusiveCopy, Active, StaysClosed

-----------------------------------------------------------------------------
(* One lemma per action that writes the ledger or takes a lock. *)

LEMMA LateEventStep ==
  ASSUME IInv, NEW r \in Rows, LateEvent(r)
  PROVE  IInv' /\ StaysClosed
<1>1. ~Locked(r) /\ UNCHANGED rec
  BY DEF LateEvent
<1>2. PICK n : row' = IF Active(row[r])
                      THEN [row EXCEPT ![r] = ApplyExchangeState(@,
                             [status |-> IF n = Size THEN "executed" ELSE "partial", filled |-> n])]
                      ELSE row
  BY DEF LateEvent
<1>3. CASE Active(row[r])
  <2> DEFINE w == ApplyExchangeState(row[r],
                    [status |-> IF n = Size THEN "executed" ELSE "partial", filled |-> n])
  <2>1. row' = [row EXCEPT ![r] = w]
    BY <1>2, <1>3
  <2>2. row[r].status # "closed"
    BY <1>3 DEF Active
  <2> HIDE DEF w
  <2> QED BY <1>1, <2>1, <2>2, UnlockedWrite
<1>4. CASE ~Active(row[r])
  BY <1>1, <1>2, <1>4, NoWrite
<1> QED BY <1>3, <1>4

LEMMA RecLockStep ==
  ASSUME IInv, NEW r \in Rows, RecLock(r)
  PROVE  IInv' /\ StaysClosed
<1>1. UNCHANGED row /\ rec' = [rec EXCEPT ![r] = [on |-> TRUE, loaded |-> row[r]]]
  BY DEF RecLock, ledger
<1>2. Active(row[r])
  BY DEF RecLock, Reconcilable, Active
<1>3. Columns'
  BY <1>1 DEF IInv, Columns
<1>4. \A q \in Rows : rec'[q] = IF q = r THEN [on |-> TRUE, loaded |-> row[r]] ELSE rec[q]
  BY <1>1 DEF IInv, Columns
<1>5. ExclusiveCopy'
  BY <1>1, <1>2, <1>4 DEF IInv, ExclusiveCopy, Active
<1> QED BY <1>1, <1>3, <1>5 DEF IInv, StaysClosed

(* The one write that may change a status from the copy: its lock holds. *)
LEMMA RecWriteStep ==
  ASSUME IInv, NEW r \in Rows, RecWrite(r)
  PROVE  IInv' /\ StaysClosed
<1> DEFINE w == Flush(row[r], rec[r].loaded,
                      ApplyExchangeState(rec[r].loaded, Report(entry'[r])))
<1>1. row' = [row EXCEPT ![r] = w] /\ rec' = [rec EXCEPT ![r] = OffHand]
  BY DEF RecWrite
<1>2. row[r].status # "closed"
  BY DEF RecWrite, IInv, ExclusiveCopy, Active
<1> HIDE DEF w
<1>3. Columns'
  BY <1>1 DEF IInv, Columns
<1>4. \A q \in Rows : /\ rec'[q] = IF q = r THEN OffHand ELSE rec[q]
                      /\ row'[q] = IF q = r THEN w ELSE row[q]
  BY <1>1 DEF IInv, Columns
<1>5. ExclusiveCopy'
  BY <1>4 DEF IInv, ExclusiveCopy, Active, OffHand
<1>6. StaysClosed
  BY <1>2, <1>4 DEF StaysClosed
<1> QED BY <1>3, <1>5, <1>6 DEF IInv

(* A run may have read a row another run has closed since. *)
LEMMA MonCommitsStep ==
  ASSUME IInv, NEW t \in Runs, MonCommits(t)
  PROVE  IInv' /\ StaysClosed
<1> DEFINE q == mon[t].at
           w == Flush(row[q], mon[t].loaded,
                      PartialClose(mon[t].loaded, mon[t].was, mon[t].got))
<1>1. row' = [row EXCEPT ![q] = w] /\ ~Locked(q) /\ UNCHANGED rec
  BY DEF MonCommits
<1>2. CASE q \in Rows
  <2>1. row[q].status = "closed" => w.status = "closed"
    BY PartialCloseStatus, FlushKeepsClosed
  <2> HIDE DEF w, q
  <2> QED BY <1>1, <1>2, <2>1, UnlockedWrite
<1>3. CASE q \notin Rows
  <2> HIDE DEF w, q
  <2>1. row' = row
    BY <1>1, <1>3 DEF IInv, Columns
  <2> QED BY <1>1, <2>1, NoWrite
<1> QED BY <1>2, <1>3

(* force_exit commits the status it loaded, or "closed". *)
LEMMA FxCommitsStep ==
  ASSUME IInv, NEW r \in Rows, FxCommits(r)
  PROVE  IInv' /\ StaysClosed
<1>1. ~Locked(r) /\ UNCHANGED rec
  BY DEF FxCommits
<1>2. Shared(r).status = fx[r].loaded.status
  BY DEF Shared, SetContracts
<1>3. CASE row' = [row EXCEPT ![r] =
             Flush(@, fx[r].loaded, PartialClose(Shared(r), fx[r].was, FxFilled(r)))]
  <2> DEFINE w == Flush(row[r], fx[r].loaded,
                        PartialClose(Shared(r), fx[r].was, FxFilled(r)))
  <2>1. row' = [row EXCEPT ![r] = w]
    BY <1>3
  <2>2. PartialClose(Shared(r), fx[r].was, FxFilled(r)).status
          \in {fx[r].loaded.status, "closed"}
    BY <1>2, PartialCloseStatus
  <2>3. row[r].status = "closed" => w.status = "closed"
    BY <2>2, FlushKeepsClosed
  <2> HIDE DEF w
  <2> QED BY <1>1, <2>1, <2>3, UnlockedWrite
<1>4. CASE row' = [row EXCEPT ![r] = Flush(@, fx[r].loaded, ClosePosition(Shared(r)))]
  <2> DEFINE w == Flush(row[r], fx[r].loaded, ClosePosition(Shared(r)))
  <2>1. row' = [row EXCEPT ![r] = w]
    BY <1>4
  <2>2. ClosePosition(Shared(r)).status = "closed"
    BY DEF ClosePosition
  <2>3. row[r].status = "closed" => w.status = "closed"
    BY <2>2, FlushKeepsClosed
  <2> HIDE DEF w
  <2> QED BY <1>1, <2>1, <2>3, UnlockedWrite
<1> QED BY <1>3, <1>4 DEF FxCommits

LEMMA ResClosesStep ==
  ASSUME IInv, NEW r \in Rows, ResCloses(r)
  PROVE  IInv' /\ StaysClosed
<1> DEFINE w == Flush(row[r], res[r].loaded, ClosePosition(res[r].loaded))
<1>1. row' = [row EXCEPT ![r] = w] /\ ~Locked(r) /\ UNCHANGED rec
  BY DEF ResCloses
<1>2. row[r].status = "closed" => w.status = "closed"
  <2>1. ClosePosition(res[r].loaded).status = "closed"
    BY DEF ClosePosition
  <2> QED BY <2>1, FlushKeepsClosed
<1> HIDE DEF w
<1> QED BY <1>1, <1>2, UnlockedWrite

(* The survey writes the count of a row, or "closed". *)
LEMMA SurveyStep ==
  ASSUME IInv, Survey
  PROVE  IInv' /\ StaysClosed
<1>1. UNCHANGED rec
  BY DEF Survey, SrvLoads, SrvNets, SrvAdjusts, SrvLeaves, SrvLists, SrvReads, SrvCloses
<1>2. ASSUME NEW q, NEW w, row' = [row EXCEPT ![q] = w], ~Locked(q),
             w.status \in {row[q].status, "closed"}
      PROVE  IInv' /\ StaysClosed
  <2>1. CASE q \in Rows
    BY <1>1, <1>2, <2>1, UnlockedWrite
  <2>2. CASE q \notin Rows
    BY <1>1, <1>2, <2>2, NoWrite DEF IInv, Columns
  <2> QED BY <2>1, <2>2
<1>3. CASE SrvAdjusts
  <2>1. SetContracts(row[Newest], Adjusted).status = row[Newest].status
    BY DEF SetContracts
  <2> QED BY <1>2, <1>3, <2>1 DEF SrvAdjusts
<1>4. CASE SrvCloses
  <2>1. Flush(row[srv.at], srv.loaded, ClosePosition(srv.loaded)).status
          \in {row[srv.at].status, "closed"}
    BY DEF Flush, Column, ClosePosition
  <2> QED BY <1>2, <1>4, <2>1 DEF SrvCloses
<1>5. CASE SrvLoads \/ SrvNets \/ SrvLeaves \/ SrvLists \/ SrvReads
  BY <1>1, <1>5, NoWrite DEF SrvLoads, SrvNets, SrvLeaves, SrvLists, SrvReads, ledger
<1> QED BY <1>3, <1>4, <1>5 DEF Survey

LEMMA RestartStep ==
  ASSUME IInv, Restart
  PROVE  IInv' /\ StaysClosed
<1>1. UNCHANGED row /\ rec' = [r \in Rows |-> OffHand]
  BY DEF Restart, ledger
<1> QED BY <1>1 DEF IInv, Columns, ExclusiveCopy, OffHand, StaysClosed, Active

-----------------------------------------------------------------------------
(* The invariant holds at first and every step keeps it. *)

LEMMA InitIInv == Init => IInv
BY DEF Init, IInv, Columns, ExclusiveCopy, OffHand

LEMMA NextIInv ==
  ASSUME IInv, [Next]_vars
  PROVE  IInv' /\ StaysClosed
<1>1. CASE UNCHANGED vars
  BY <1>1, NoWrite DEF vars, ledger
<1>2. CASE MarketResolves
  BY <1>2, NoWrite DEF MarketResolves, ledger
<1>3. CASE Restart
  BY <1>3, RestartStep
<1>4. ASSUME NEW r \in Rows, Entry(r)
      PROVE  IInv' /\ StaysClosed
  <2>1. CASE EntryFills(r)
    BY <2>1, NoWrite DEF EntryFills, ledger
  <2> QED BY <1>4, <2>1, LateEventStep, RecLockStep, RecWriteStep DEF Entry
<1>5. ASSUME NEW r \in Rows, ForceExit(r)
      PROVE  IInv' /\ StaysClosed
  <2>1. CASE FxLoads(r) \/ FxNet(r) \/ FxShare(r)
    BY <2>1, NoWrite DEF FxLoads, FxNet, FxShare, ledger
  <2>2. CASE FxSells(r) \/ FxGivesUp(r)
    BY <2>2, NoWrite DEF FxSells, FxGivesUp, ledger
  <2> QED BY <1>5, <2>1, <2>2, FxCommitsStep DEF ForceExit
<1>6. ASSUME NEW r \in Rows, Settle(r)
      PROVE  IInv' /\ StaysClosed
  <2>1. CASE ResLists(r) \/ ResReads(r)
    BY <2>1, NoWrite DEF ResLists, ResReads, ledger
  <2> QED BY <1>6, <2>1, ResClosesStep DEF Settle
<1>7. ASSUME NEW t \in Runs, MonLoad(t) \/ Record(t)
      PROVE  IInv' /\ StaysClosed
  <2>1. CASE MonLoad(t)
    BY <2>1, NoWrite DEF MonLoad, ledger
  <2>2. CASE MonReads(t)
    BY <2>2, NoWrite DEF MonReads, ledger
  <2> QED BY <1>7, <2>1, <2>2, MonCommitsStep DEF Record
<1>8. ASSUME NEW t \in Runs, NEW r \in Rows, RunRow(t, r)
      PROVE  IInv' /\ StaysClosed
  <2>1. CASE MonHolds(t, r)
    BY <2>1, NoWrite DEF MonHolds, ledger
  <2>2. CASE MonSells(t, r)
    BY <2>2, NoWrite DEF MonSells, ledger
  <2>3. CASE MonLoses(t, r)
    BY <2>3, NoWrite DEF MonLoses, ledger
  <2> QED BY <1>8, <2>1, <2>2, <2>3 DEF RunRow
<1>9. CASE Survey
  BY <1>9, SurveyStep
<1> QED BY <1>1, <1>2, <1>3, <1>4, <1>5, <1>6, <1>7, <1>8, <1>9 DEF Next

(* What a reconcile pass of a partially filled row is about to overwrite is  *)
(* what it read: no exit, event or settlement commits in between.             *)
THEOREM LockExcludes == Spec => []ExclusiveCopy
<1>1. IInv /\ [Next]_vars => IInv'
  BY NextIInv
<1>2. IInv => ExclusiveCopy
  BY DEF IInv
<1> QED BY InitIInv, <1>1, <1>2, PTL DEF Spec

(* However many runs, force exits and settlements work on copies of a row that *)
(* they read open, a closed row stays closed: it is never sold or settled again *)
(* by a later load.                                                            *)
THEOREM ClosedForGood == Spec => ClosedIsFinal
<1>1. IInv /\ [Next]_vars => IInv'
  BY NextIInv
<1>2. IInv /\ [Next]_vars =>
        [\A r \in Rows : row[r].status = "closed" => row'[r].status = "closed"]_vars
  BY NextIInv DEF StaysClosed
<1> QED BY InitIInv, <1>1, <1>2, PTL DEF Spec, ClosedIsFinal
-----------------------------------------------------------------------------
(* The counts.                                                             *)
(***************************************************************************)
(* A lost update may forget a sale, never invent one, and never makes the   *)
(* ledger forget contracts that are still held: what each session is about  *)
(* to write is bounded by what was sold, less the sales other sessions have *)
(* yet to record (Backed), and bounded below by what is left: row by row    *)
(* while no survey has written it (Tracked), and for the rows together as    *)
(* long as no survey took a sale for drift that a run was still to record   *)
(* (Summed).                                                               *)
(***************************************************************************)

(* An order that rests has contracts left to fill; a sale that is being       *)
(* recorded is of a row; a survey that is on has rows to look at.            *)
Typed ==
  /\ TypeOK
  /\ \A r \in Rows : entry[r].status = "resting" => entry[r].filled < Size
  /\ \A t \in Runs : mon[t].step \in {"filled", "read"} => mon[t].at \in Rows
  /\ srv.step # "idle" => Listed # {}
  /\ srv.step = "read" => srv.at \in Listed

(* The contracts of row r that one run has sold and not yet recorded, and     *)
(* those of all runs together.                                               *)
Unrecorded(m, r) == IF m.step \in {"filled", "read"} /\ m.at = r THEN m.got ELSE 0
Work(ms, r)      == SumFunctionOnSet([t \in Runs |-> Unrecorded(ms[t], r)], Runs)
Owed(f)          == IF f.step = "commit" THEN f.net ELSE 0

(* What the ledger may already have recorded of row r: all that was sold, less *)
(* what somebody has yet to record.  It never falls.                          *)
Recordable(s, ms, fs, r) == s[r] - Work(ms, r) - Owed(fs[r])

(* RecordedWasSold, strengthened: exit counts that were read in order to be    *)
(* added to count no sale that is still to be recorded.                       *)
Backed ==
  \A r \in Rows : LET n == Recordable(sold, mon, fx, r) IN
    /\ exited[r] <= n
    /\ \A t \in Runs : mon[t].step = "read" /\ mon[t].at = r => mon[t].was <= n
    /\ fx[r].step # "idle" => fx[r].was <= n

-----------------------------------------------------------------------------
(* The types.                                                              *)

LEMMA RowOperatorTypes ==
  ASSUME NEW r \in LedgerRow, NEW db \in LedgerRow, NEW w \in LedgerRow, NEW was \in Nat,
         NEW n \in Nat, NEW s \in [status: XStatus, filled: Nat]
  PROVE  /\ PartialClose(r, was, n) \in LedgerRow
         /\ ClosePosition(r) \in LedgerRow
         /\ SetContracts(r, n) \in LedgerRow
         /\ ApplyExchangeState(r, s) \in LedgerRow
         /\ Flush(db, r, w) \in LedgerRow
<1>1. PartialClose(r, was, n) \in LedgerRow
  BY DEF PartialClose, LedgerRow, RowStatus
<1>2. ClosePosition(r) \in LedgerRow /\ SetContracts(r, n) \in LedgerRow
  BY DEF ClosePosition, SetContracts, LedgerRow, RowStatus
<1>3. ApplyExchangeState(r, s) \in LedgerRow
  <2>1. AcceptStatus(r.xstatus, s.status) \in XStatus
    BY DEF AcceptStatus, LedgerRow
  <2>2. Size \in Nat
    BY SizeAssumption DEF SizeAssumption
  <2>3. MapOrderToStatus(s).contracts \in Nat
          /\ MapOrderToStatus(s).dbStatus \in {"open", "cancelled", "pending"}
    BY <2>2 DEF MapOrderToStatus
  <2> QED BY <2>1, <2>3 DEF ApplyExchangeState, LedgerRow, RowStatus
<1>4. Flush(db, r, w) \in LedgerRow
  BY DEF Flush, Column, LedgerRow
<1> QED BY <1>1, <1>2, <1>3, <1>4

LEMMA TotalType ==
  ASSUME NEW f \in [Rows -> Int] PROVE Total(f) \in Int
BY SumInt, ExitsAssumption DEF Total, ExitsAssumption

LEMMA HeldType ==
  ASSUME Typed PROVE Held \in Int
<1>1. [q \in Rows |-> Left(q)] \in [Rows -> Int]
  BY DEF Typed, TypeOK, Left
<1> QED BY <1>1, TotalType DEF Held

LEMMA NoRowType == NoRow \in LedgerRow
BY DEF NoRow, LedgerRow, RowStatus, XStatus

LEMMA IdleTypes ==
  /\ IdleSrv \in SrvState /\ IdleSrv.step = "idle"
  /\ IdleRun \in RunState /\ IdleRun.step = "idle"
  /\ IdleFx \in FxState /\ IdleFx.step = "idle"
  /\ IdleRes \in [step: {"idle", "listed", "read"}, loaded: LedgerRow]
  /\ OffHand \in [on: BOOLEAN, loaded: LedgerRow]
BY NoRowType DEF IdleRun, IdleFx, IdleRes, IdleSrv, OffHand, RunState, FxState, SrvState, Nothing

LEMMA ResumeType ==
  ASSUME NEW snap \in [Rows -> Nat]
  PROVE  /\ Resume(snap) \in RunState
         /\ Resume(snap).step \in {"idle", "pass"}
BY IdleTypes DEF Resume, RunState, IdleRun

LEMMA WithoutType ==
  ASSUME Typed, NEW t \in Runs, NEW r \in Rows
  PROVE  Without(t, r) \in [Rows -> Nat]
BY DEF Typed, TypeOK, RunState, Without

LEMMA InitTyped == Init => Typed
<1> SUFFICES ASSUME Init PROVE Typed
  OBVIOUS
<1>1. Size \in Nat \ {0}
  BY SizeAssumption DEF SizeAssumption
<1>2. /\ entry \in [Rows -> [status: XStatus, filled: 1..Size]]
      /\ \A r \in Rows : entry[r].status = "resting" => entry[r].filled < Size
      /\ \A r \in Rows : entry[r].status \in {"resting", "executed"}
  <2>1. /\ entry \in [Rows -> [status: {"resting", "executed"}, filled: 1..Size]]
        /\ \A r \in Rows : /\ entry[r].status = "resting" <=> r \in rested
                           /\ entry[r].filled = Size <=> r \notin rested
    BY DEF Init
  <2>2. entry \in [Rows -> [status: XStatus, filled: 1..Size]]
    BY <2>1 DEF XStatus
  <2>3. ASSUME NEW r \in Rows, entry[r].status = "resting" PROVE entry[r].filled < Size
    BY <1>1, <2>1, <2>3
  <2> QED BY <2>1, <2>2, <2>3
<1>3. row \in [Rows -> LedgerRow]
  BY <1>1, <1>2 DEF Init, LedgerRow, RowStatus, XStatus, Report
<1>4. mon \in [Runs -> RunState] /\ \A t \in Runs : mon[t].step = "idle"
  BY IdleTypes DEF Init
<1>5. /\ rec \in [Rows -> [on: BOOLEAN, loaded: LedgerRow]]
      /\ res \in [Rows -> [step: {"idle", "listed", "read"}, loaded: LedgerRow]]
      /\ fx \in [Rows -> FxState]
  BY IdleTypes DEF Init
<1>6. upsets \in 0..MaxUpsets
  BY ExitsAssumption DEF Init, ExitsAssumption
<1>7. srv \in SrvState /\ srv.step = "idle" /\ rested \subseteq Partial /\ wrote = {}
        /\ miscounted = FALSE
  BY IdleTypes DEF Init
<1> QED BY <1>2, <1>3, <1>4, <1>5, <1>6, <1>7 DEF Init, Typed, TypeOK, Nothing

(* What a step leaves of the survey. *)
LEMMA SurveyTyped ==
  ASSUME Typed, UNCHANGED <<rested, wrote, miscounted>>,
         srv' = srv \/ srv' = IdleSrv \/ srv' = [srv EXCEPT !.over = @ \/ srv.step = "loaded"]
  PROVE  /\ srv' \in SrvState /\ rested' \subseteq Partial /\ wrote' \subseteq Rows
         /\ miscounted' \in BOOLEAN
         /\ srv'.step # "idle" => Listed' # {}
         /\ srv'.step = "read" => srv'.at \in Listed'
<1>1. srv \in SrvState
  BY DEF Typed, TypeOK
<1>2. /\ srv' \in SrvState
      /\ srv'.step = "idle" \/ (srv'.step = srv.step /\ srv'.at = srv.at /\ srv'.counts = srv.counts)
  BY <1>1, IdleTypes DEF SrvState
<1> QED BY <1>2 DEF Typed, TypeOK, Listed

LEMMA EntryTyped ==
  ASSUME Typed, NEW r \in Rows, Entry(r)
  PROVE  Typed'
<1> USE SizeAssumption DEF SizeAssumption
<1>0. UNCHANGED <<sold, settled, exited, mon, fx, res, upsets, srv, rested, wrote, miscounted>>
  BY DEF Entry, EntryFills, LateEvent, RecLock, RecWrite, exchange, ledger, survey
<1>1. /\ UNCHANGED <<sold, settled, exited, mon, fx, res, upsets>>
      /\ srv' \in SrvState /\ rested' \subseteq Partial /\ wrote' \subseteq Rows
      /\ miscounted' \in BOOLEAN
      /\ srv'.step # "idle" => Listed' # {}
      /\ srv'.step = "read" => srv'.at \in Listed'
  BY <1>0, SurveyTyped
<1>2. CASE EntryFills(r)
  <2>1. entry[r].filled + 1 \in 1..Size
    BY <1>2 DEF EntryFills, Typed, TypeOK
  <2>2. entry' \in [Rows -> [status: XStatus, filled: 1..Size]]
          /\ \A q \in Rows : entry'[q].status = "resting" => entry'[q].filled < Size
    BY <1>2, <2>1 DEF EntryFills, Typed, TypeOK, XStatus
  <2> QED BY <1>1, <1>2, <2>2 DEF EntryFills, ledger, Typed, TypeOK
<1>3. CASE LateEvent(r)
  <2>1. \/ row' = row
        \/ \E n \in 1..entry[r].filled :
             row' = [row EXCEPT ![r] = ApplyExchangeState(row[r],
                      [status |-> IF n = Size THEN "executed" ELSE "partial", filled |-> n])]
    BY <1>3 DEF LateEvent
  <2>2. row' \in [Rows -> LedgerRow]
    <3>1. ASSUME NEW n \in 1..entry[r].filled,
                 row' = [row EXCEPT ![r] = ApplyExchangeState(row[r],
                      [status |-> IF n = Size THEN "executed" ELSE "partial", filled |-> n])]
          PROVE  row' \in [Rows -> LedgerRow]
      <4>1. [status |-> IF n = Size THEN "executed" ELSE "partial", filled |-> n]
              \in [status: XStatus, filled: Nat]
        BY DEF XStatus, Typed, TypeOK
      <4>2. row[r] \in LedgerRow
        BY DEF Typed, TypeOK
      <4>3. ApplyExchangeState(row[r],
              [status |-> IF n = Size THEN "executed" ELSE "partial", filled |-> n])
              \in LedgerRow
        BY <4>1, <4>2, RowOperatorTypes
      <4> QED BY <3>1, <4>3 DEF Typed, TypeOK
    <3> QED BY <2>1, <3>1 DEF Typed, TypeOK
  <2> QED BY <1>1, <1>3, <2>2 DEF LateEvent, Typed, TypeOK
<1>4. CASE RecLock(r)
  <2>1. rec' \in [Rows -> [on: BOOLEAN, loaded: LedgerRow]]
    BY <1>4 DEF RecLock, Typed, TypeOK
  <2> QED BY <1>1, <1>4, <2>1 DEF RecLock, exchange, ledger, Typed, TypeOK
<1>5. CASE RecWrite(r)
  <2>1. entry' \in [Rows -> [status: XStatus, filled: 1..Size]]
          /\ \A q \in Rows : entry'[q].status = "resting" => entry'[q].filled < Size
    <3>1. entry' = entry \/ entry' = [entry EXCEPT ![r].status = "canceled"]
      BY <1>5 DEF RecWrite
    <3>2. CASE entry' = entry
      BY <3>2 DEF Typed, TypeOK
    <3>3. CASE entry' = [entry EXCEPT ![r].status = "canceled"]
      BY <3>3 DEF Typed, TypeOK, XStatus
    <3> QED BY <3>1, <3>2, <3>3
  <2>2. Report(entry'[r]) \in [status: XStatus, filled: Nat]
    BY <2>1 DEF Report, XStatus
  <2>3. row[r] \in LedgerRow /\ rec[r].loaded \in LedgerRow
    BY DEF Typed, TypeOK
  <2>4. Flush(row[r], rec[r].loaded, ApplyExchangeState(rec[r].loaded, Report(entry'[r])))
          \in LedgerRow
    BY <2>2, <2>3, RowOperatorTypes
  <2>5. row' \in [Rows -> LedgerRow]
    BY <1>5, <2>4 DEF RecWrite, Typed, TypeOK
  <2>6. rec' \in [Rows -> [on: BOOLEAN, loaded: LedgerRow]]
    BY <1>5, IdleTypes DEF RecWrite, Typed, TypeOK
  <2> QED BY <1>1, <1>5, <2>1, <2>5, <2>6 DEF RecWrite, Typed, TypeOK
<1> QED BY <1>2, <1>3, <1>4, <1>5 DEF Entry

LEMMA RunsTyped ==
  ASSUME Typed, NEW t \in Runs,
         MonLoad(t) \/ Record(t) \/ \E r \in Rows : RunRow(t, r)
  PROVE  Typed'
<1>0. /\ UNCHANGED <<entry, settled, late, rec, fx, res, rested, wrote, miscounted>>
      /\ srv' = srv \/ srv' = [srv EXCEPT !.over = @ \/ srv.step = "loaded"]
  BY DEF MonLoad, Record, MonReads, MonCommits, RunRow, MonHolds, MonSells, MonLoses, exchange,
         survey
<1>1. /\ UNCHANGED <<entry, settled, late, rec, fx, res>>
      /\ srv' \in SrvState /\ rested' \subseteq Partial /\ wrote' \subseteq Rows
      /\ miscounted' \in BOOLEAN
      /\ srv'.step # "idle" => Listed' # {}
      /\ srv'.step = "read" => srv'.at \in Listed'
  BY <1>0, SurveyTyped
<1>2. ASSUME NEW w \in RunState, w.step \in {"filled", "read"} => w.at \in Rows,
             mon' = [mon EXCEPT ![t] = w]
      PROVE  /\ mon' \in [Runs -> RunState]
             /\ \A x \in Runs : mon'[x].step \in {"filled", "read"} => mon'[x].at \in Rows
  BY <1>2 DEF Typed, TypeOK
<1>3. CASE MonLoad(t)
  <2> DEFINE snap == [r \in Rows |-> Count(r)]
  <2>1. snap \in [Rows -> Nat]
    BY DEF Typed, TypeOK, LedgerRow, Count
  <2>2. mon' = [mon EXCEPT ![t] = Resume(snap)]
    BY <1>3 DEF MonLoad
  <2> HIDE DEF snap
  <2>3. UNCHANGED <<sold, exited, row, upsets>>
    BY <1>3 DEF MonLoad, exchange, ledger
  <2>4. Resume(snap) \in RunState /\ Resume(snap).step \in {"idle", "pass"}
    BY <2>1, ResumeType
  <2> QED BY <1>1, <1>2, <2>2, <2>3, <2>4 DEF Typed, TypeOK
<1>4. CASE MonReads(t)
  <2>1. mon[t].at \in Rows /\ UNCHANGED <<sold, exited, row, upsets>>
    BY <1>4 DEF MonReads, exchange, ledger, Typed
  <2> DEFINE w == [mon[t] EXCEPT !.step = "read", !.loaded = row[mon[t].at],
                                 !.was = exited[mon[t].at]]
  <2>2. w \in RunState /\ w.at \in Rows
    BY <2>1 DEF Typed, TypeOK, RunState
  <2>3. mon' = [mon EXCEPT ![t] = w]
    BY <1>4 DEF MonReads, Typed, TypeOK
  <2> HIDE DEF w
  <2> QED BY <1>1, <1>2, <2>1, <2>2, <2>3 DEF Typed, TypeOK
<1>5. CASE MonCommits(t)
  <2>1. mon[t].at \in Rows /\ UNCHANGED <<sold, upsets>> /\ mon[t] \in RunState
    BY <1>5 DEF MonCommits, exchange, Typed, TypeOK
  <2>2. /\ mon[t].loaded \in LedgerRow /\ row[mon[t].at] \in LedgerRow
        /\ mon[t].was \in Nat /\ mon[t].got \in Nat /\ mon[t].snap \in [Rows -> Nat]
    BY <2>1 DEF Typed, TypeOK, RunState
  <2>3. PartialClose(mon[t].loaded, mon[t].was, mon[t].got) \in LedgerRow
    BY <2>2 DEF PartialClose, LedgerRow, RowStatus
  <2>4. Flush(row[mon[t].at], mon[t].loaded, PartialClose(mon[t].loaded, mon[t].was, mon[t].got))
          \in LedgerRow
    BY <2>2, <2>3 DEF Flush, Column, LedgerRow
  <2>5. row' \in [Rows -> LedgerRow] /\ exited' \in [Rows -> Nat]
    BY <1>5, <2>2, <2>4 DEF MonCommits, Typed, TypeOK
  <2>6. Resume(mon[t].snap) \in RunState /\ Resume(mon[t].snap).step \in {"idle", "pass"}
    BY <2>2, ResumeType
  <2>7. mon' = [mon EXCEPT ![t] = Resume(mon[t].snap)]
    BY <1>5 DEF MonCommits
  <2> QED BY <1>1, <1>2, <2>1, <2>5, <2>6, <2>7 DEF Typed, TypeOK
<1>6. ASSUME NEW r \in Rows, RunRow(t, r)
      PROVE  Typed'
  <2>1. Without(t, r) \in [Rows -> Nat]
    BY WithoutType
  <2>2. Resume(Without(t, r)) \in RunState /\ Resume(Without(t, r)).step \in {"idle", "pass"}
    BY <2>1, ResumeType
  <2>3. CASE MonHolds(t, r)
    <3>1. mon' = [mon EXCEPT ![t] = Resume(Without(t, r))]
            /\ UNCHANGED <<sold, exited, row, upsets>>
      BY <2>3 DEF MonHolds, exchange, ledger
    <3> QED BY <1>1, <1>2, <2>2, <3>1 DEF Typed, TypeOK
  <2>4. CASE MonSells(t, r)
    <3>1. PICK n \in 1..mon[t].snap[r] :
            /\ sold' = [sold EXCEPT ![r] = @ + n]
            /\ mon' = [mon EXCEPT ![t] =
                 [IdleRun EXCEPT !.step = "filled", !.at = r, !.snap = Without(t, r),
                                 !.got = Recorded(mon[t].snap[r], n)]]
      BY <2>4 DEF MonSells
    <3>2. n \in Nat
      BY DEF Typed, TypeOK, RunState
    <3> DEFINE w == [IdleRun EXCEPT !.step = "filled", !.at = r, !.snap = Without(t, r),
                                    !.got = Recorded(mon[t].snap[r], n)]
    <3>3. w \in RunState /\ w.at \in Rows
      BY <2>1, <3>2, NoRowType DEF IdleRun, RunState, Recorded
    <3>4. UNCHANGED <<exited, row, upsets>>
      BY <2>4 DEF MonSells, ledger
    <3>5. sold' \in [Rows -> Nat]
      BY <3>1, <3>2 DEF Typed, TypeOK
    <3>6. mon' = [mon EXCEPT ![t] = w]
      BY <3>1
    <3> HIDE DEF w
    <3> QED BY <1>1, <1>2, <3>3, <3>4, <3>5, <3>6 DEF Typed, TypeOK
  <2>5. CASE MonLoses(t, r)
    <3>1. PICK n \in 1..mon[t].snap[r] : sold' = [sold EXCEPT ![r] = @ + n]
      BY <2>5 DEF MonLoses
    <3>2. sold' \in [Rows -> Nat]
      BY <3>1 DEF Typed, TypeOK, RunState
    <3>3. UNCHANGED <<exited, row>> /\ upsets' \in 0..MaxUpsets
      BY <2>5, ExitsAssumption DEF MonLoses, ledger, ExitsAssumption, Typed, TypeOK
    <3>4. /\ mon' \in [Runs -> RunState]
          /\ \A x \in Runs : mon'[x].step \in {"filled", "read"} => mon'[x].at \in Rows
      <4>1. CASE mon' = [mon EXCEPT ![t] = Resume(Without(t, r))]
        BY <1>2, <2>2, <4>1
      <4>2. CASE mon' = [mon EXCEPT ![t] = IdleRun]
        BY <1>2, <4>2, IdleTypes
      <4> QED BY <2>5, <4>1, <4>2 DEF MonLoses
    <3> QED BY <1>1, <3>2, <3>3, <3>4 DEF Typed, TypeOK
  <2> QED BY <1>6, <2>3, <2>4, <2>5 DEF RunRow
<1> QED BY <1>3, <1>4, <1>5, <1>6 DEF Record

LEMMA ForceTyped ==
  ASSUME Typed, NEW r \in Rows, ForceExit(r)
  PROVE  Typed'
<1>1. /\ UNCHANGED <<entry, settled, late, mon, rec, res, srv, rested>>
      /\ wrote' \subseteq Rows /\ miscounted' \in BOOLEAN
      /\ srv.step # "idle" => Listed' # {}
      /\ srv.step = "read" => srv.at \in Listed'
  BY DEF ForceExit, FxLoads, FxNet, FxShare, FxSells, FxGivesUp, FxCommits, exchange, survey,
         Typed, TypeOK, Listed
<1>2. ASSUME NEW w \in FxState, fx' = [fx EXCEPT ![r] = w], UNCHANGED <<sold, row, exited, upsets>>
      PROVE  Typed'
  BY <1>1, <1>2 DEF Typed, TypeOK
<1>3. fx[r] \in FxState /\ row[r] \in LedgerRow /\ exited[r] \in Nat
  BY DEF Typed, TypeOK
<1>4. CASE FxLoads(r)
  <2>1. PICK known \in {FALSE, settled} :
          fx' = [fx EXCEPT ![r] = [IdleFx EXCEPT !.step = "net", !.loaded = row[r],
                                                 !.was = exited[r], !.known = known]]
    BY <1>4 DEF FxLoads
  <2>2. [IdleFx EXCEPT !.step = "net", !.loaded = row[r], !.was = exited[r], !.known = known]
          \in FxState
    BY <1>3 DEF IdleFx, FxState, Typed, TypeOK
  <2>3. UNCHANGED <<sold, row, exited, upsets>>
    BY <1>4 DEF FxLoads, exchange, ledger
  <2> QED BY <1>2, <2>1, <2>2, <2>3
<1>5. CASE FxNet(r)
  <2>1. Held \in Int
    BY HeldType
  <2> DEFINE w == IF Held > 0 THEN [fx[r] EXCEPT !.step = "share", !.net = Held] ELSE IdleFx
  <2>2. w \in FxState
    <3>1. Held > 0 => [fx[r] EXCEPT !.step = "share", !.net = Held] \in FxState
      <4>1. Held > 0 => Held \in Nat
        BY <2>1
      <4>2. \A n \in Nat : [fx[r] EXCEPT !.step = "share", !.net = n] \in FxState
        BY <1>3 DEF FxState
      <4> QED BY <4>1, <4>2
    <3> QED BY <3>1, IdleTypes
  <2>3. fx' = [fx EXCEPT ![r] = w] /\ UNCHANGED <<sold, row, exited, upsets>>
    BY <1>5 DEF FxNet, exchange, ledger
  <2> HIDE DEF w
  <2> QED BY <1>2, <2>2, <2>3
<1>6. CASE FxShare(r)
  <2> DEFINE share == fx[r].net - Siblings(r)
             w == IF share > 0
                  THEN [fx[r] EXCEPT !.step = IF fx[r].known THEN "settle" ELSE "place",
                                     !.net = share]
                  ELSE IdleFx
  <2>1. share \in Int
    <3>1. [q \in Rows |-> IF q # r THEN Count(q) ELSE 0] \in [Rows -> Int]
      BY DEF Typed, TypeOK, LedgerRow, Count
    <3>2. Siblings(r) \in Int
      BY <3>1, TotalType DEF Siblings
    <3> QED BY <1>3, <3>2 DEF FxState
  <2>2. fx' = [fx EXCEPT ![r] = w] /\ UNCHANGED <<sold, row, exited, upsets>>
    BY <1>6 DEF FxShare, exchange, ledger
  <2> HIDE DEF share
  <2>3. w \in FxState
    <3>1. share > 0 =>
            /\ [fx[r] EXCEPT !.step = "settle", !.net = share] \in FxState
            /\ [fx[r] EXCEPT !.step = "place", !.net = share] \in FxState
      <4>1. share > 0 => share \in Nat
        BY <2>1
      <4>2. \A n \in Nat : /\ [fx[r] EXCEPT !.step = "settle", !.net = n] \in FxState
                          /\ [fx[r] EXCEPT !.step = "place", !.net = n] \in FxState
        BY <1>3 DEF FxState
      <4> QED BY <4>1, <4>2
    <3> QED BY <3>1, IdleTypes
  <2> HIDE DEF w
  <2> QED BY <1>2, <2>2, <2>3
<1>7. CASE FxSells(r)
  <2>1. sold' \in [Rows -> Nat]
    BY <1>3, <1>7 DEF FxSells, FxState, Typed, TypeOK
  <2>2. fx' \in [Rows -> FxState]
    <3>1. fx' = [fx EXCEPT ![r].step = "commit"] \/ fx' = [fx EXCEPT ![r] = IdleFx]
      BY <1>7 DEF FxSells
    <3>2. [fx[r] EXCEPT !.step = "commit"] \in FxState
      BY <1>3 DEF FxState
    <3>3. CASE fx' = [fx EXCEPT ![r].step = "commit"]
      BY <3>2, <3>3 DEF Typed, TypeOK
    <3>4. CASE fx' = [fx EXCEPT ![r] = IdleFx]
      BY <3>4, IdleTypes DEF Typed, TypeOK
    <3> QED BY <3>1, <3>3, <3>4
  <2>3. upsets' \in 0..MaxUpsets /\ UNCHANGED <<row, exited>>
    BY <1>7, ExitsAssumption DEF FxSells, ledger, ExitsAssumption, Typed, TypeOK
  <2> QED BY <1>1, <2>1, <2>2, <2>3 DEF Typed, TypeOK
<1>8. CASE FxGivesUp(r)
  BY <1>2, <1>8, IdleTypes DEF FxGivesUp, exchange, ledger
<1>9. CASE FxCommits(r)
  <2>1. Shared(r) \in LedgerRow /\ FxFilled(r) \in Nat /\ fx[r].was \in Nat
          /\ fx[r].loaded \in LedgerRow
    BY <1>3 DEF Shared, SetContracts, FxFilled, FxState, LedgerRow
  <2>2. PartialClose(Shared(r), fx[r].was, FxFilled(r)) \in LedgerRow
          /\ ClosePosition(Shared(r)) \in LedgerRow
    BY <2>1 DEF PartialClose, ClosePosition, LedgerRow, RowStatus
  <2>3. /\ Flush(row[r], fx[r].loaded, PartialClose(Shared(r), fx[r].was, FxFilled(r)))
             \in LedgerRow
        /\ Flush(row[r], fx[r].loaded, ClosePosition(Shared(r))) \in LedgerRow
    BY <1>3, <2>1, <2>2 DEF Flush, Column, LedgerRow
  <2>4. row' \in [Rows -> LedgerRow]
    BY <1>9, <2>3 DEF FxCommits, Typed, TypeOK
  <2>5. exited' \in [Rows -> Nat]
    BY <1>9, <2>1 DEF FxCommits, Typed, TypeOK
  <2>6. fx' \in [Rows -> FxState] /\ UNCHANGED <<sold, upsets>>
    BY <1>9, IdleTypes DEF FxCommits, exchange, Typed, TypeOK
  <2> QED BY <1>1, <2>4, <2>5, <2>6 DEF Typed, TypeOK
<1> QED BY <1>4, <1>5, <1>6, <1>7, <1>8, <1>9 DEF ForceExit

LEMMA SettleTyped ==
  ASSUME Typed, NEW r \in Rows, Settle(r)
  PROVE  Typed'
<1>1. UNCHANGED <<exchange, exited, mon, rec, fx, upsets, srv, rested, wrote, miscounted>>
  BY DEF Settle, ResLists, ResReads, ResCloses, ledger, survey
<1>2. row[r] \in LedgerRow /\ res[r].loaded \in LedgerRow
  BY DEF Typed, TypeOK
<1>3. res' \in [Rows -> [step: {"idle", "listed", "read"}, loaded: LedgerRow]]
  <2>1. CASE ResLists(r)
    BY <2>1 DEF ResLists, Typed, TypeOK
  <2>2. CASE ResReads(r)
    BY <1>2, <2>2 DEF ResReads, Typed, TypeOK
  <2>3. CASE ResCloses(r)
    BY <2>3, IdleTypes DEF ResCloses, Typed, TypeOK
  <2> QED BY <2>1, <2>2, <2>3 DEF Settle
<1>4. Flush(row[r], res[r].loaded, ClosePosition(res[r].loaded)) \in LedgerRow
  BY <1>2 DEF Flush, Column, ClosePosition, LedgerRow, RowStatus
<1>5. row' \in [Rows -> LedgerRow]
  BY <1>4 DEF Settle, ResLists, ResReads, ResCloses, ledger, Typed, TypeOK
<1> QED BY <1>1, <1>3, <1>5, SurveyTyped DEF exchange, Typed, TypeOK

(* The newest of the rows that a survey lists, and the oldest. *)
LEMMA EndsOfList ==
  ASSUME Listed # {}
  PROVE  /\ Newest \in Listed /\ \A q \in Listed : q <= Newest
         /\ Oldest \in Listed /\ \A q \in Listed : Oldest <= q
<1>1. IsFiniteSet(Listed) /\ Listed \subseteq Int
  <2>1. Listed \subseteq Rows
    BY DEF Listed
  <2>2. Rows \subseteq Int /\ IsFiniteSet(Rows)
    BY ExitsAssumption DEF ExitsAssumption
  <2>3. IsFiniteSet(Listed)
    BY <2>1, <2>2, FS_Subset
  <2> QED BY <2>1, <2>2, <2>3
<1>2. \E r \in Listed : \A q \in Listed : r >= q
  BY <1>1, Highest
<1>3. \E r \in Listed : \A q \in Listed : r <= q
  BY <1>1, Lowest
<1>4. \E r \in Listed : \A q \in Listed : q <= r
  BY <1>1, <1>2
<1> QED BY <1>3, <1>4 DEF Newest, Oldest

LEMMA CountedType ==
  ASSUME Typed PROVE Counted \in Int
<1>1. srv.counts \in [Rows -> Int]
  BY DEF Typed, TypeOK, SrvState
<1> QED BY <1>1, TotalType DEF Counted

LEMMA SurveysTyped ==
  ASSUME Typed, Survey
  PROVE  Typed'
<1>1. UNCHANGED <<exchange, exited, mon, rec, fx, res, rested>>
  BY DEF Survey, SrvLoads, SrvNets, SrvAdjusts, SrvLeaves, SrvLists, SrvReads, SrvCloses, ledger
<1>2. ASSUME srv' \in SrvState, srv'.step # "idle" => Listed' # {},
             srv'.step = "read" => srv'.at \in Listed',
             row' \in [Rows -> LedgerRow], upsets' \in 0..MaxUpsets,
             wrote' \subseteq Rows, miscounted' \in BOOLEAN
      PROVE  Typed'
  BY <1>1, <1>2 DEF exchange, Typed, TypeOK
<1>3. /\ srv \in SrvState /\ row \in [Rows -> LedgerRow] /\ upsets \in 0..MaxUpsets
      /\ wrote \subseteq Rows /\ miscounted \in BOOLEAN /\ srv.over \in BOOLEAN
  BY DEF Typed, TypeOK, SrvState
<1>4. CASE SrvLoads
  <2> DEFINE counts == [r \in Rows |-> Count(r)]
             over == \E t \in Runs : mon[t].step \in {"filled", "read"}
  <2>1. counts \in [Rows -> Nat]
    BY <1>3 DEF Count, LedgerRow
  <2>2. PICK q \in Rows : counts[q] > 0
    BY <1>4 DEF SrvLoads
  <2> HIDE DEF counts
  <2>3. srv' = [IdleSrv EXCEPT !.step = "loaded", !.counts = counts, !.over = over]
    BY <1>4 DEF SrvLoads, counts
  <2> HIDE DEF over
  <2>4. over \in BOOLEAN
    BY DEF over
  <2>5. srv' \in SrvState /\ srv'.step = "loaded" /\ srv'.counts = counts
    BY <2>1, <2>3, <2>4, IdleTypes DEF SrvState
  <2>6. q \in Listed'
    BY <2>2, <2>5 DEF Listed
  <2>7. upsets' \in 0..MaxUpsets
    BY <1>3, <1>4, ExitsAssumption DEF SrvLoads, ExitsAssumption
  <2> QED BY <1>2, <1>3, <1>4, <2>5, <2>6, <2>7 DEF SrvLoads, ledger
<1>5. CASE SrvNets
  <2>1. Answers \subseteq Nat
    BY HeldType DEF Answers, Magnitude
  <2>2. /\ srv' \in SrvState
        /\ srv'.step = "idle" \/ (srv'.step = "netted" /\ srv'.counts = srv.counts)
    BY <1>3, <1>5, <2>1, IdleTypes DEF SrvNets, SrvState
  <2>3. srv'.step # "idle" => Listed' # {}
    BY <1>5, <2>2 DEF SrvNets, Typed, Listed
  <2> QED BY <1>2, <1>3, <1>5, <2>2, <2>3 DEF SrvNets, ledger
<1>6. CASE SrvAdjusts
  <2>1. Newest \in Rows
    BY <1>6, EndsOfList DEF SrvAdjusts, Typed, Listed
  <2>2. Adjusted \in Nat
    <3>1. Adjusted \in Int
      BY <1>3, <2>1, CountedType DEF Adjusted, SrvState
    <3> QED BY <1>6, <3>1 DEF SrvAdjusts
  <2>3. SetContracts(row[Newest], Adjusted) \in LedgerRow
    BY <1>3, <2>1, <2>2 DEF SetContracts, LedgerRow
  <2>4. row' \in [Rows -> LedgerRow] /\ wrote' \subseteq Rows /\ miscounted' \in BOOLEAN
    BY <1>3, <1>6, <2>1, <2>3 DEF SrvAdjusts
  <2> QED BY <1>2, <1>3, <1>6, <2>4, IdleTypes DEF SrvAdjusts
<1>7. CASE SrvLeaves
  BY <1>2, <1>3, <1>7, IdleTypes DEF SrvLeaves, ledger
<1>8. CASE SrvLists
  <2>1. srv' \in SrvState /\ srv'.step = "closing" /\ srv'.counts = srv.counts
    BY <1>3, <1>8 DEF SrvLists, SrvState
  <2>2. Listed' # {}
    BY <1>8, <2>1 DEF SrvLists, Typed, Listed
  <2> QED BY <1>2, <1>3, <1>8, <2>1, <2>2 DEF SrvLists, ledger
<1>9. CASE SrvReads
  <2>1. Oldest \in Listed /\ Oldest \in Rows
    BY <1>9, EndsOfList DEF SrvReads, Typed, Listed
  <2>2. srv' \in SrvState /\ srv'.step = "read" /\ srv'.at = Oldest /\ srv'.counts = srv.counts
    BY <1>3, <1>9, <2>1 DEF SrvReads, SrvState
  <2>3. Oldest \in Listed'
    BY <2>1, <2>2 DEF Listed
  <2> QED BY <1>2, <1>3, <1>9, <2>2, <2>3 DEF SrvReads, ledger
<1>10. CASE SrvCloses
  <2>1. srv.at \in Listed /\ srv.at \in Rows
    BY <1>10 DEF SrvCloses, Typed, Listed
  <2>2. Flush(row[srv.at], srv.loaded, ClosePosition(srv.loaded)) \in LedgerRow
    BY <1>3, <2>1 DEF Flush, Column, ClosePosition, LedgerRow, RowStatus, SrvState
  <2>3. row' \in [Rows -> LedgerRow] /\ wrote' \subseteq Rows
    BY <1>3, <1>10, <2>1, <2>2 DEF SrvCloses
  <2>4. CASE Listed = {srv.at}
    BY <1>2, <1>3, <1>10, <2>3, <2>4, IdleTypes DEF SrvCloses
  <2>5. CASE Listed # {srv.at}
    <3>1. PICK q \in Listed : q # srv.at
      BY <2>1, <2>5
    <3>2. srv' = [srv EXCEPT !.step = "closing", !.counts[srv.at] = 0]
      BY <1>10, <2>5 DEF SrvCloses
    <3>3. /\ srv' \in SrvState /\ srv'.step = "closing"
          /\ srv'.counts = [srv.counts EXCEPT ![srv.at] = 0]
      BY <1>3, <2>1, <3>2 DEF SrvState
    <3>4. q \in Listed'
      BY <1>3, <2>1, <3>1, <3>3 DEF Listed, SrvState
    <3> QED BY <1>2, <1>3, <1>10, <2>3, <3>3, <3>4 DEF SrvCloses
  <2> QED BY <2>4, <2>5
<1> QED BY <1>4, <1>5, <1>6, <1>7, <1>8, <1>9, <1>10 DEF Survey

LEMMA NextTyped ==
  ASSUME Typed, [Next]_vars
  PROVE  Typed'
<1>1. CASE UNCHANGED vars
  BY <1>1, SurveyTyped DEF vars, exchange, ledger, survey, Typed, TypeOK
<1>2. CASE MarketResolves
  <2>1. /\ entry' \in [Rows -> [status: XStatus, filled: 1..Size]]
        /\ \A r \in Rows : entry'[r].status # "resting"
    BY <1>2 DEF MarketResolves, Typed, TypeOK, XStatus
  <2>2. upsets' \in 0..MaxUpsets
    BY <1>2, ExitsAssumption DEF MarketResolves, ExitsAssumption, Typed, TypeOK
  <2> QED BY <1>2, <2>1, <2>2, SurveyTyped DEF MarketResolves, ledger, survey, Typed, TypeOK
<1>3. CASE Restart
  <2>1. upsets' \in 0..MaxUpsets
    BY <1>3, ExitsAssumption DEF Restart, ExitsAssumption, Typed, TypeOK
  <2>2. /\ mon' \in [Runs -> RunState] /\ \A t \in Runs : mon'[t].step = "idle"
        /\ rec' \in [Rows -> [on: BOOLEAN, loaded: LedgerRow]]
        /\ fx' \in [Rows -> FxState]
        /\ res' \in [Rows -> [step: {"idle", "listed", "read"}, loaded: LedgerRow]]
    BY <1>3, IdleTypes DEF Restart
  <2> QED BY <1>3, <2>1, <2>2, SurveyTyped DEF Restart, ledger, Typed, TypeOK
<1> QED BY <1>1, <1>2, <1>3, EntryTyped, RunsTyped, ForceTyped, SettleTyped, SurveysTyped DEF Next


(* A copy of a row counts all the contracts but n of those its entry bought. *)
Covers(copy, n) == Size - n <= IF copy.status = "open" THEN copy.contracts ELSE 0

(* The row, and every copy of it that a run is about to write, count at least k  *)
(* contracts more than are left when all the recorded sales are off.  A full row *)
(* does.                                                                         *)
Backs(rows, s, ms, k, r) == LET n == s[r] - Work(ms, r) - k IN
  /\ 0 <= n
  /\ Covers(rows[r], n)
  /\ \A t \in Runs : ms[t].step = "read" /\ ms[t].at = r => Covers(ms[t].loaded, n)

(* Only a resolved market is settled; entries that never rested are full. *)
Static ==
  /\ \A r \in Rows : res[r].step # "idle" => settled
  /\ \A r \in Rows \ rested : entry[r].filled = Size /\ entry[r].status = "executed"

(* HeldIsTracked of each row, strengthened. *)
Tracked ==
  ~settled => \A r \in Rows \ (rested \cup wrote) : Backs(row, sold, mon, 0, r)

(* HeldIsTracked of the rows together, strengthened.  What a survey takes from    *)
(* the newest row, the others count in excess: base says how much each counts.   *)
Bounded == \A r \in Rows :
  /\ row[r].contracts <= Size
  /\ \A t \in Runs : mon[t].step = "read" => mon[t].loaded.contracts <= Size

Balanced == \E base \in [Rows -> Int] :
  Total(base) >= 0 /\ \A r \in Rows : Backs(row, sold, mon, base[r], r)

(* A survey has loaded the rows, and no sale has come between. *)
Fresh ==
  /\ \A t \in Runs : mon[t].step \in {"idle", "pass"}
  /\ \A r \in Rows : srv.counts[r] <= Count(r)
  /\ Held <= Counted

(* It knows the net position: what it is to take off the newest row is spare. *)
Spare ==
  /\ srv.net <= Counted
  /\ \E ref \in [Rows -> Int] :
       /\ Total(ref) = Counted - srv.net
       /\ \A r \in Rows : /\ Backs(row, sold, mon, ref[r], r)
                          /\ Size - sold[r] + Work(mon, r) + ref[r] <= srv.counts[r]

Summed ==
  rested = {} /\ ~settled /\ ~miscounted /\ Held > 0 =>
    /\ Bounded /\ Balanced
    /\ srv.step \in {"idle", "loaded", "netted"}
    /\ srv.step = "netted" => srv.net # 0
    /\ srv.step # "idle" => \A r \in Rows : srv.counts[r] <= Size
    /\ srv.step = "loaded" /\ ~srv.over => Fresh
    /\ srv.step = "netted" /\ ~srv.over => Spare
-----------------------------------------------------------------------------
(* What a step does to the counts.                                         *)

LEMMA UnrecordedType ==
  ASSUME NEW m \in RunState, NEW r
  PROVE  Unrecorded(m, r) \in Nat
BY DEF Unrecorded, RunState

LEMMA WorkType ==
  ASSUME NEW ms \in [Runs -> RunState], NEW r
  PROVE  Work(ms, r) \in Nat
<1>1. \A t \in Runs : [x \in Runs |-> Unrecorded(ms[x], r)][t] \in Nat
  BY UnrecordedType
<1> QED BY <1>1, SumNat, ExitsAssumption DEF Work, ExitsAssumption

LEMMA WorkMoved ==
  ASSUME NEW ms \in [Runs -> RunState], NEW r, NEW t \in Runs, NEW w \in RunState
  PROVE  Work([ms EXCEPT ![t] = w], r) = Work(ms, r) - Unrecorded(ms[t], r) + Unrecorded(w, r)
<1> DEFINE ns == [ms EXCEPT ![t] = w]
           f == [x \in Runs |-> Unrecorded(ms[x], r)]
           h == [x \in Runs |-> Unrecorded(ns[x], r)]
<1>1. ns \in [Runs -> RunState] /\ ns[t] = w /\ \A x \in Runs \ {t} : ns[x] = ms[x]
  OBVIOUS
<1> HIDE DEF ns
<1>2. \A x \in Runs : f[x] \in Int /\ h[x] \in Int
  BY <1>1, UnrecordedType
<1>3. \A x \in Runs \ {t} : f[x] = h[x]
  BY <1>1
<1>4. f[t] = Unrecorded(ms[t], r) /\ h[t] = Unrecorded(w, r)
  BY <1>1
<1> HIDE DEF f, h
<1>5. SumFunctionOnSet(h, Runs) = SumFunctionOnSet(f, Runs) - f[t] + h[t]
  BY <1>2, <1>3, SumChanged, ExitsAssumption DEF ExitsAssumption
<1> QED BY <1>4, <1>5 DEF Work, f, h, ns

LEMMA NoWork ==
  ASSUME NEW ms, \A t \in Runs : ms[t].step = "idle", NEW r
  PROVE  Work(ms, r) = 0
<1>1. \A t \in Runs : [x \in Runs |-> Unrecorded(ms[x], r)][t] = 0
  BY DEF Unrecorded
<1> QED BY <1>1, SumZero, ExitsAssumption DEF Work, ExitsAssumption

LEMMA RecordableType ==
  ASSUME Typed, NEW r \in Rows
  PROVE  Recordable(sold, mon, fx, r) \in Int
<1>1. Work(mon, r) \in Nat
  BY WorkType DEF Typed, TypeOK
<1> QED BY <1>1 DEF Typed, TypeOK, FxState, Owed, Recordable

LEMMA RecordableNext ==
  ASSUME Typed', NEW r \in Rows
  PROVE  Recordable(sold', mon', fx', r) \in Int
<1>1. Work(mon', r) \in Nat
  BY WorkType DEF Typed, TypeOK
<1> QED BY <1>1 DEF Typed, TypeOK, FxState, Owed, Recordable

(* It never falls, and nor does it without what force exits are to record. *)
Growth ==
  \A r \in Rows : Recordable(sold, mon, fx, r) <= Recordable(sold', mon', fx', r)

SalesGrow ==
  \A r \in Rows : sold[r] - Work(mon, r) <= sold'[r] - Work(mon', r)

LEMMA GrowthOfSales ==
  ASSUME Typed, Typed', Growth, UNCHANGED fx
  PROVE  SalesGrow
<1> SUFFICES ASSUME NEW r \in Rows
             PROVE  sold[r] - Work(mon, r) <= sold'[r] - Work(mon', r)
  BY DEF SalesGrow
<1>1. /\ Work(mon, r) \in Nat /\ Work(mon', r) \in Nat
      /\ sold[r] \in Nat /\ sold'[r] \in Nat /\ Owed(fx[r]) \in Nat
  BY WorkType DEF Typed, TypeOK, Owed, FxState
<1>2. sold[r] - Work(mon, r) - Owed(fx[r]) <= sold'[r] - Work(mon', r) - Owed(fx[r])
  BY DEF Growth, Recordable
<1> DEFINE a == Work(mon, r)
           b == Work(mon', r)
           e == Owed(fx[r])
<1> HIDE DEF a, b, e
<1>3. a \in Nat /\ b \in Nat /\ e \in Nat /\ sold[r] - a - e <= sold'[r] - b - e
  BY <1>1, <1>2 DEF a, b, e
<1>4. sold[r] - a <= sold'[r] - b
  BY <1>1, <1>3
<1> QED BY <1>4 DEF a, b

LEMMA BackedKept ==
  ASSUME Typed, Typed', Backed, Growth,
         \A r \in Rows : \/ exited'[r] = exited[r]
                         \/ exited'[r] <= Recordable(sold', mon', fx', r),
         \A t \in Runs : mon'[t].step = "read" =>
            \/ /\ mon[t].step = "read" /\ mon'[t].at = mon[t].at /\ mon'[t].was = mon[t].was
            \/ mon'[t].was = exited[mon'[t].at],
         \A r \in Rows : fx'[r].step # "idle" =>
            \/ fx[r].step # "idle" /\ fx'[r].was = fx[r].was
            \/ fx'[r].was = exited[r]
  PROVE  Backed'
<1> SUFFICES ASSUME NEW r \in Rows
             PROVE  /\ exited'[r] <= Recordable(sold', mon', fx', r)
                    /\ \A t \in Runs : mon'[t].step = "read" /\ mon'[t].at = r =>
                         mon'[t].was <= Recordable(sold', mon', fx', r)
                    /\ fx'[r].step # "idle" => fx'[r].was <= Recordable(sold', mon', fx', r)
  BY DEF Backed
<1> DEFINE n == Recordable(sold, mon, fx, r)
           new == Recordable(sold', mon', fx', r)
<1>1. n \in Int /\ new \in Int /\ n <= new
  BY RecordableType, RecordableNext DEF Growth
<1>2. /\ exited[r] <= n
      /\ \A t \in Runs : mon[t].step = "read" /\ mon[t].at = r => mon[t].was <= n
      /\ fx[r].step # "idle" => fx[r].was <= n
  BY DEF Backed
<1>3. /\ exited[r] \in Int /\ exited'[r] \in Int
      /\ fx[r].was \in Int /\ fx'[r].was \in Int
      /\ \A t \in Runs : mon[t].was \in Int /\ mon'[t].was \in Int
  BY DEF Typed, TypeOK, FxState, RunState
<1> HIDE DEF n
<1>4. exited'[r] <= new
  BY <1>1, <1>2, <1>3
<1> HIDE DEF new
<1>5. ASSUME NEW t \in Runs, mon'[t].step = "read", mon'[t].at = r
      PROVE  mon'[t].was <= new
  BY <1>1, <1>2, <1>3, <1>5
<1>6. ASSUME fx'[r].step # "idle"
      PROVE  fx'[r].was <= new
  BY <1>1, <1>2, <1>3, <1>6
<1> QED BY <1>4, <1>5, <1>6 DEF new

LEMMA CoversMore ==
  ASSUME NEW copy \in LedgerRow, NEW a \in Int, NEW b \in Int, a <= b, Covers(copy, a)
  PROVE  Covers(copy, b)
BY SizeAssumption DEF SizeAssumption, Covers, LedgerRow

(* What backs the rows of S still does. *)
Keeps(S) == \A r \in S : \A k \in Int :
  Backs(row, sold, mon, k, r) => Backs(row', sold', mon', k, r)

LEMMA CopiesKept ==
  ASSUME Typed, Typed', SalesGrow, NEW r \in Rows, NEW k \in Int,
         Backs(row, sold, mon, k, r),
         \/ row'[r] = row[r]
         \/ Covers(row'[r], sold'[r] - Work(mon', r) - k),
         \A t \in Runs : mon'[t].step = "read" /\ mon'[t].at = r =>
            \/ /\ mon[t].step = "read" /\ mon[t].at = r
               /\ mon'[t].loaded = mon[t].loaded
            \/ mon'[t].loaded = row[r]
  PROVE  Backs(row', sold', mon', k, r)
<1> DEFINE n == sold[r] - Work(mon, r) - k
           new == sold'[r] - Work(mon', r) - k
<1>1. n \in Int /\ new \in Int /\ n <= new
  <2>1. /\ Work(mon, r) \in Nat /\ Work(mon', r) \in Nat
        /\ sold[r] \in Nat /\ sold'[r] \in Nat
        /\ sold[r] - Work(mon, r) <= sold'[r] - Work(mon', r)
    BY WorkType DEF Typed, TypeOK, SalesGrow
  <2> DEFINE a == Work(mon, r)
             b == Work(mon', r)
  <2> HIDE DEF a, b
  <2>2. /\ a \in Nat /\ b \in Nat /\ sold[r] \in Nat /\ sold'[r] \in Nat
        /\ sold[r] - a <= sold'[r] - b
    BY <2>1 DEF a, b
  <2>3. /\ sold[r] - a - k \in Int /\ sold'[r] - b - k \in Int
        /\ sold[r] - a - k <= sold'[r] - b - k
    BY <2>2
  <2> QED BY <2>3 DEF a, b
<1>2. /\ 0 <= n /\ Covers(row[r], n)
      /\ \A t \in Runs : mon[t].step = "read" /\ mon[t].at = r => Covers(mon[t].loaded, n)
  BY DEF Backs
<1>3. row'[r] = row[r] \/ Covers(row'[r], new)
  OBVIOUS
<1> HIDE DEF n
<1>4. \A copy \in LedgerRow : Covers(copy, n) => Covers(copy, new)
  BY <1>1, CoversMore
<1>5. /\ row[r] \in LedgerRow /\ \A t \in Runs : mon[t].loaded \in LedgerRow
  BY DEF Typed, TypeOK, RunState
<1>6. 0 <= new /\ Covers(row'[r], new)
  BY <1>1, <1>2, <1>3, <1>4, <1>5
<1> HIDE DEF new
<1>7. ASSUME NEW t \in Runs, mon'[t].step = "read", mon'[t].at = r
      PROVE  Covers(mon'[t].loaded, new)
  BY <1>2, <1>4, <1>5, <1>7
<1> QED BY <1>6, <1>7 DEF Backs, new

LEMMA TrackedKept ==
  ASSUME Tracked, UNCHANGED rested, wrote \subseteq wrote', settled => settled',
         ~settled' => Keeps(Rows \ (rested \cup wrote'))
  PROVE  Tracked'
BY DEF Tracked, Keeps

(* The net position falls, when no entry order rests. *)
LEMMA HeldFalls ==
  ASSUME Typed, Typed', Static, Static', rested = {}, rested' = {},
         \A r \in Rows : sold[r] <= sold'[r]
  PROVE  Held' <= Held
<1> DEFINE f == [r \in Rows |-> entry[r].filled - sold[r]]
           h == [r \in Rows |-> entry'[r].filled - sold'[r]]
<1>1. ASSUME NEW r \in Rows
      PROVE  f[r] \in Int /\ h[r] \in Int /\ h[r] <= f[r]
  <2>1. sold[r] \in Nat /\ sold'[r] \in Nat /\ sold[r] <= sold'[r]
    BY DEF Typed, TypeOK
  <2>2. entry[r].filled = Size /\ entry'[r].filled = Size
    BY DEF Static
  <2> QED BY <2>1, <2>2, SizeAssumption DEF SizeAssumption
<1>2. Held = SumFunctionOnSet(f, Rows) /\ Held' = SumFunctionOnSet(h, Rows)
  BY DEF Held, Total, Left
<1> HIDE DEF f, h
<1> QED BY <1>1, <1>2, SumMonotone, ExitsAssumption DEF ExitsAssumption

(* What a step of somebody else than the survey does to the rows together. *)
Orderly ==
  /\ UNCHANGED rested /\ (settled => settled') /\ (miscounted => miscounted')
  /\ SalesGrow /\ \A r \in Rows : sold[r] <= sold'[r]
  /\ ~settled' /\ ~miscounted' => /\ Keeps(Rows \ rested)
                                  /\ (rested = {} /\ Bounded => Bounded')
  /\ \/ srv' = srv \/ srv' = IdleSrv
     \/ srv' = [srv EXCEPT !.over = @ \/ srv.step = "loaded"]
  /\ /\ ~settled' /\ ~miscounted' /\ srv'.step = "loaded" /\ ~srv'.over
     /\ \A t \in Runs : mon[t].step \in {"idle", "pass"}
     => /\ \A t \in Runs : mon'[t].step \in {"idle", "pass"}
        /\ \A r \in Rows \ rested : \/ row'[r] = row[r]
                                    \/ row'[r].status = "open" /\ row'[r].contracts = Size

LEMMA SummedKept ==
  ASSUME Typed, Typed', Static, Static', Summed, Orderly
  PROVE  Summed'
<1> SUFFICES ASSUME rested' = {}, ~settled', ~miscounted', Held' > 0
             PROVE  /\ Bounded' /\ Balanced'
                    /\ srv'.step \in {"idle", "loaded", "netted"}
                    /\ srv'.step = "netted" => srv'.net # 0
                    /\ srv'.step # "idle" => \A r \in Rows : srv'.counts[r] <= Size
                    /\ srv'.step = "loaded" /\ ~srv'.over => Fresh'
                    /\ srv'.step = "netted" /\ ~srv'.over => Spare'
  BY DEF Summed
<1>1. rested = {} /\ ~settled /\ ~miscounted /\ Held' <= Held
  BY HeldFalls DEF Orderly
<1>2. Held \in Int /\ Held' \in Int /\ Held > 0
  <2>1. Held \in Int
    BY HeldType
  <2>2. Held' \in Int
    <3>1. [q \in Rows |-> Left(q)]' \in [Rows -> Int]
      BY DEF Typed, TypeOK, Left
    <3> QED BY <3>1, TotalType DEF Held
  <2> QED BY <1>1, <2>1, <2>2
<1>3. /\ Bounded /\ Balanced
      /\ srv.step \in {"idle", "loaded", "netted"}
      /\ srv.step = "netted" => srv.net # 0
      /\ srv.step # "idle" => \A r \in Rows : srv.counts[r] <= Size
      /\ srv.step = "loaded" /\ ~srv.over => Fresh
      /\ srv.step = "netted" /\ ~srv.over => Spare
  BY <1>1, <1>2 DEF Summed
<1>4. Bounded' /\ Keeps(Rows)
  <2>1. Keeps(Rows \ rested) /\ (rested = {} /\ Bounded => Bounded')
    BY DEF Orderly
  <2>2. Keeps(Rows)
    BY <1>1, <2>1 DEF Keeps
  <2> QED BY <1>1, <1>3, <2>1, <2>2
<1>5. Balanced'
  <2>1. PICK base \in [Rows -> Int] :
          Total(base) >= 0 /\ \A r \in Rows : Backs(row, sold, mon, base[r], r)
    BY <1>3 DEF Balanced
  <2>2. \A r \in Rows : Backs(row', sold', mon', base[r], r)
    BY <1>4, <2>1 DEF Keeps
  <2> QED BY <2>1, <2>2 DEF Balanced, Total
<1>6. /\ srv \in SrvState
      /\ \/ srv'.step = "idle"
         \/ /\ srv'.step = srv.step /\ srv'.counts = srv.counts /\ srv'.net = srv.net
            /\ ~srv'.over => ~srv.over
  <2>1. srv \in SrvState
    BY DEF Typed, TypeOK
  <2> QED BY <2>1, IdleTypes DEF Orderly, SrvState
<1>7. ASSUME srv'.step = "loaded", ~srv'.over
      PROVE  Fresh'
  <2>1. Fresh /\ srv'.counts = srv.counts
    BY <1>3, <1>6, <1>7
  <2>2. \A t \in Runs : mon'[t].step \in {"idle", "pass"}
    BY <1>7, <2>1 DEF Orderly, Fresh
  <2>3. ASSUME NEW r \in Rows
        PROVE  srv'.counts[r] <= IF row'[r].status = "open" THEN row'[r].contracts ELSE 0
    <3>1. row'[r] = row[r] \/ (row'[r].status = "open" /\ row'[r].contracts = Size)
      BY <1>1, <1>7, <2>1 DEF Orderly, Fresh
    <3>2. srv.counts[r] <= IF row[r].status = "open" THEN row[r].contracts ELSE 0
      BY <2>1 DEF Fresh, Count, IsOpen
    <3>3. srv.counts[r] <= Size
      BY <1>3, <1>6, <1>7
    <3> QED BY <2>1, <3>1, <3>2, <3>3
  <2>4. Held' <= Counted'
    <3>1. Counted' = Counted /\ Held <= Counted
      BY <2>1 DEF Counted, Total, Fresh
    <3> QED BY <1>1, <1>2, <3>1, CountedType
  <2> QED BY <2>2, <2>3, <2>4 DEF Fresh, Count, IsOpen
<1>8. ASSUME srv'.step = "netted", ~srv'.over
      PROVE  Spare'
  <2>1. Spare /\ srv'.counts = srv.counts /\ srv'.net = srv.net
    BY <1>3, <1>6, <1>8
  <2>2. Counted' = Counted
    BY <2>1 DEF Counted, Total
  <2>3. PICK ref \in [Rows -> Int] :
       /\ Total(ref) = Counted - srv.net
       /\ \A r \in Rows : /\ Backs(row, sold, mon, ref[r], r)
                          /\ Size - sold[r] + Work(mon, r) + ref[r] <= srv.counts[r]
    BY <2>1 DEF Spare
  <2>4. ASSUME NEW r \in Rows
        PROVE  /\ Backs(row', sold', mon', ref[r], r)
               /\ Size - sold'[r] + Work(mon', r) + ref[r] <= srv'.counts[r]
    <3>1. Backs(row', sold', mon', ref[r], r)
      BY <1>4, <2>3 DEF Keeps
    <3>2. /\ Work(mon, r) \in Nat /\ Work(mon', r) \in Nat /\ ref[r] \in Int
          /\ sold[r] \in Nat /\ sold'[r] \in Nat /\ srv.counts[r] \in Nat
          /\ sold[r] - Work(mon, r) <= sold'[r] - Work(mon', r)
          /\ Size - sold[r] + Work(mon, r) + ref[r] <= srv.counts[r]
      BY <1>6, <2>3, WorkType DEF Typed, TypeOK, Orderly, SalesGrow, SrvState
    <3> DEFINE a == Work(mon, r)
               b == Work(mon', r)
    <3> HIDE DEF a, b
    <3>3. /\ a \in Nat /\ b \in Nat /\ sold[r] - a <= sold'[r] - b
          /\ Size - sold[r] + a + ref[r] <= srv.counts[r]
      BY <3>2 DEF a, b
    <3>4. Size - sold'[r] + b + ref[r] <= srv.counts[r]
      BY <3>2, <3>3, SizeAssumption DEF SizeAssumption
    <3> QED BY <2>1, <3>1, <3>4 DEF b
  <2>5. srv'.net <= Counted'
    BY <2>1, <2>2 DEF Spare
  <2>6. Total(ref) = Counted' - srv'.net
    BY <2>1, <2>2, <2>3
  <2> QED BY <2>4, <2>5, <2>6 DEF Spare, Total
<1> QED BY <1>3, <1>4, <1>5, <1>6, <1>7, <1>8


(* A run that records nothing, and had nothing to record, moves nothing; what a *)
(* run sells is added on both sides until it is recorded.                       *)
LEMMA RunMoves ==
  ASSUME Typed, Typed', NEW t \in Runs, NEW w \in RunState, NEW r \in Rows,
         mon' = [mon EXCEPT ![t] = w], UNCHANGED fx
  PROVE  Recordable(sold', mon', fx', r)
           = Recordable(sold, mon, fx, r) + (sold'[r] - sold[r])
               + Unrecorded(mon[t], r) - Unrecorded(w, r)
<1>1. Work(mon', r) = Work(mon, r) - Unrecorded(mon[t], r) + Unrecorded(w, r)
  <2>1. mon \in [Runs -> RunState]
    BY DEF Typed, TypeOK
  <2>2. Work([mon EXCEPT ![t] = w], r) = Work(mon, r) - Unrecorded(mon[t], r) + Unrecorded(w, r)
    BY <2>1, WorkMoved
  <2> QED BY <2>2
<1>2. Work(mon, r) \in Nat /\ Unrecorded(mon[t], r) \in Nat /\ Unrecorded(w, r) \in Nat
  BY WorkType, UnrecordedType DEF Typed, TypeOK
<1>3. sold[r] \in Nat /\ sold'[r] \in Nat /\ Owed(fx[r]) \in Nat
  BY DEF Typed, TypeOK, Owed, FxState
<1> DEFINE a == Work(mon, r)
           b == Work(mon', r)
           c == Unrecorded(mon[t], r)
           d == Unrecorded(w, r)
           e == Owed(fx[r])
<1> HIDE DEF a, b, c, d, e
<1>4. Recordable(sold, mon, fx, r) = sold[r] - a - e
        /\ Recordable(sold', mon', fx', r) = sold'[r] - b - e
  BY DEF Recordable, a, b, e
<1>5. b = a - c + d /\ a \in Nat /\ c \in Nat /\ d \in Nat /\ e \in Nat
  BY <1>1, <1>2, <1>3 DEF a, b, c, d, e
<1>6. Recordable(sold', mon', fx', r) = Recordable(sold, mon, fx, r) + (sold'[r] - sold[r]) + c - d
  BY <1>3, <1>4, <1>5
<1> QED BY <1>6 DEF c, d

(* A force exit's step. *)
LEMMA ForceMoves ==
  ASSUME Typed, Typed', NEW r \in Rows, UNCHANGED mon
  PROVE  Recordable(sold', mon', fx', r)
           = Recordable(sold, mon, fx, r) + (sold'[r] - sold[r]) + Owed(fx[r]) - Owed(fx'[r])
<1>1. Work(mon, r) \in Nat /\ Work(mon', r) = Work(mon, r)
  BY WorkType DEF Typed, TypeOK
<1>2. sold[r] \in Nat /\ sold'[r] \in Nat /\ Owed(fx[r]) \in Nat /\ Owed(fx'[r]) \in Nat
  BY DEF Typed, TypeOK, Owed, FxState
<1> DEFINE a == Work(mon, r)
           b == Work(mon', r)
           e == Owed(fx[r])
           f == Owed(fx'[r])
<1> HIDE DEF a, b, e, f
<1>4. Recordable(sold, mon, fx, r) = sold[r] - a - e
        /\ Recordable(sold', mon', fx', r) = sold'[r] - b - f
  BY DEF Recordable, a, b, e, f
<1>5. b = a /\ a \in Nat /\ e \in Nat /\ f \in Nat
  BY <1>1, <1>2 DEF a, b, e, f
<1>6. Recordable(sold', mon', fx', r) = Recordable(sold, mon, fx, r) + (sold'[r] - sold[r]) + e - f
  BY <1>2, <1>4, <1>5
<1> QED BY <1>6 DEF e, f


-----------------------------------------------------------------------------
(* One lemma per kind of step.                                             *)

Counts == Typed /\ IInv /\ Backed /\ Static /\ Tracked /\ Summed

LEMMA StepKept ==
  ASSUME Counts, Typed', Static', Orderly, UNCHANGED wrote,
         ~settled' => Keeps(Rows \ rested)
  PROVE  Tracked' /\ Summed'
<1>1. Keeps(Rows \ rested) => Keeps(Rows \ (rested \cup wrote'))
  BY DEF Keeps
<1>2. Tracked'
  BY <1>1, TrackedKept DEF Counts, Orderly
<1>3. Summed'
  BY SummedKept DEF Counts
<1> QED BY <1>2, <1>3

LEMMA QuietStep ==
  ASSUME Counts, Typed', UNCHANGED <<sold, mon, fx, exited, srv, rested, wrote, miscounted>>,
         UNCHANGED settled \/ settled',
         \A r \in Rows : res'[r].step # "idle" => settled' \/ res[r].step # "idle",
         \A r \in Rows \ rested : entry'[r] = entry[r],
         ~settled' => \A r \in Rows \ rested :
            \/ row'[r] = row[r]
            \/ row'[r].status = "open" /\ row'[r].contracts = Size
  PROVE  Backed' /\ Static' /\ Tracked' /\ Summed'
<1>1. Typed /\ Backed /\ Static /\ (settled => settled')
  BY DEF Counts
<1>2. Growth
  <2> SUFFICES ASSUME NEW r \in Rows
               PROVE  Recordable(sold, mon, fx, r) <= Recordable(sold', mon', fx', r)
    BY DEF Growth
  <2>1. Recordable(sold', mon', fx', r) = Recordable(sold, mon, fx, r)
    OBVIOUS
  <2> QED BY <1>1, <2>1, RecordableType
<1>3. Backed'
  BY <1>1, <1>2, BackedKept
<1>4. Static'
  BY <1>1 DEF Static
<1>5. SalesGrow /\ \A r \in Rows : sold[r] <= sold'[r]
  BY <1>1, <1>2, GrowthOfSales DEF Typed, TypeOK
<1>6. ASSUME ~settled'
      PROVE  Keeps(Rows \ rested)
  <2> SUFFICES ASSUME NEW r \in Rows \ rested, NEW k \in Int, Backs(row, sold, mon, k, r)
               PROVE  Backs(row', sold', mon', k, r)
    BY DEF Keeps
  <2>1. ASSUME row'[r].status = "open", row'[r].contracts = Size
        PROVE  Covers(row'[r], sold'[r] - Work(mon', r) - k)
    <3>0. Work(mon, r) \in Nat /\ sold[r] \in Nat
      BY <1>1, WorkType DEF Typed, TypeOK
    <3>1. 0 <= sold[r] - Work(mon, r) - k /\ sold[r] - Work(mon, r) - k \in Int
      BY <3>0 DEF Backs
    <3> DEFINE n == sold[r] - Work(mon, r) - k
    <3> HIDE DEF n
    <3>2. 0 <= n /\ n \in Int
      BY <3>1 DEF n
    <3>3. Covers(row'[r], n)
      BY <2>1, <3>2, SizeAssumption DEF Covers, SizeAssumption
    <3> QED BY <3>3 DEF n
  <2> QED BY <1>1, <1>5, <1>6, <2>1, CopiesKept
<1>7. ~settled' /\ rested = {} /\ Bounded => Bounded'
  BY SizeAssumption DEF Bounded, SizeAssumption
<1>8. Orderly
  BY <1>1, <1>5, <1>6, <1>7 DEF Orderly
<1> QED BY <1>3, <1>4, <1>6, <1>8, StepKept

LEMMA EntryCounts ==
  ASSUME Counts, Typed', NEW r \in Rows, Entry(r)
  PROVE  Backed' /\ Static' /\ Tracked' /\ Summed'
<1>1. UNCHANGED <<sold, mon, fx, exited, settled, res, srv, rested, wrote, miscounted>>
  BY DEF Entry, EntryFills, LateEvent, RecLock, RecWrite, exchange, ledger, survey
<1>2. entry \in [Rows -> [status: XStatus, filled: 1..Size]] /\ row \in [Rows -> LedgerRow]
  BY DEF Counts, Typed, TypeOK
<1>3. \A q \in Rows \ rested : entry[q].filled = Size /\ entry[q].status = "executed"
  BY DEF Counts, Static
<1>4. \A q \in Rows \ rested : entry'[q] = entry[q]
  <2>1. CASE EntryFills(r)
    BY <1>2, <1>3, <2>1 DEF EntryFills
  <2>2. CASE RecWrite(r)
    BY <1>2, <1>3, <2>2 DEF RecWrite
  <2>3. CASE LateEvent(r) \/ RecLock(r)
    BY <2>3 DEF LateEvent, RecLock, exchange
  <2> QED BY <2>1, <2>2, <2>3 DEF Entry
<1>5. \A s : s.status = "executed" /\ s.filled = Size =>
        \A copy : /\ ApplyExchangeState(copy, s).status = "open"
                  /\ ApplyExchangeState(copy, s).contracts = Size
  BY SizeAssumption DEF SizeAssumption, ApplyExchangeState, MapOrderToStatus
<1>6. ASSUME NEW q \in Rows \ rested
      PROVE  row'[q] = row[q] \/ (row'[q].status = "open" /\ row'[q].contracts = Size)
  <2>1. q \in Rows \ rested
    OBVIOUS
  <2>2. CASE EntryFills(r) \/ RecLock(r)
    BY <2>2 DEF EntryFills, RecLock, ledger
  <2>3. CASE LateEvent(r)
    <3>1. PICK n \in 1..entry[r].filled :
            /\ r \notin rested => n = Size
            /\ row' = IF Active(row[r])
                      THEN [row EXCEPT ![r] = ApplyExchangeState(@,
                             [status |-> IF n = Size THEN "executed" ELSE "partial",
                              filled |-> n])]
                      ELSE row
      BY <2>3 DEF LateEvent
    <3>2. CASE q = r
      BY <1>2, <1>5, <2>1, <3>1, <3>2
    <3>3. CASE q # r
      BY <1>2, <3>1, <3>3
    <3> QED BY <3>2, <3>3
  <2>4. CASE RecWrite(r)
    <3> DEFINE w == ApplyExchangeState(rec[r].loaded, Report(entry'[r]))
    <3>1. row' = [row EXCEPT ![r] = Flush(row[r], rec[r].loaded, w)] /\ rec[r].on
      BY <2>4 DEF RecWrite
    <3>2. rec[r].loaded = row[r]
      BY <3>1 DEF Counts, IInv, ExclusiveCopy
    <3>3. q = r => w.status = "open" /\ w.contracts = Size
      <4>1. q = r => entry'[r].status = "executed" /\ entry'[r].filled = Size
        BY <1>3, <1>4, <2>1
      <4>2. q = r => Report(entry'[r]).status = "executed" /\ Report(entry'[r]).filled = Size
        BY <4>1 DEF Report
      <4> QED BY <1>5, <4>2
    <3> HIDE DEF w
    <3>4. /\ Flush(row[r], row[r], w).status = w.status
          /\ Flush(row[r], row[r], w).contracts = w.contracts
      BY DEF Flush, Column
    <3> QED BY <1>2, <2>1, <3>1, <3>2, <3>3, <3>4
  <2> QED BY <2>2, <2>3, <2>4 DEF Entry
<1> QED BY <1>1, <1>4, <1>6, QuietStep

LEMMA ResolvesCounts ==
  ASSUME Counts, Typed', MarketResolves
  PROVE  Backed' /\ Static' /\ Tracked' /\ Summed'
<1>1. UNCHANGED <<sold, mon, fx, exited, res, srv, rested, wrote, miscounted>> /\ settled'
  BY DEF MarketResolves, ledger, survey
<1>2. \A r \in Rows \ rested : entry'[r] = entry[r]
  BY DEF MarketResolves, Counts, Static, Typed, TypeOK
<1> QED BY <1>1, <1>2, QuietStep

LEMMA SettleCounts ==
  ASSUME Counts, Typed', NEW r \in Rows, Settle(r)
  PROVE  Backed' /\ Static' /\ Tracked' /\ Summed'
<1>1. UNCHANGED <<entry, sold, settled, mon, fx, exited, srv, rested, wrote, miscounted>>
  BY DEF Settle, ResLists, ResReads, ResCloses, exchange, ledger, survey
<1>2. settled
  BY DEF Settle, ResLists, ResReads, ResCloses, Counts, Static
<1> QED BY <1>1, <1>2, QuietStep

(* A run that does not record, on rows that nobody writes. *)
LEMMA RowsStay ==
  ASSUME Counts, Typed', Growth, UNCHANGED <<entry, settled, row, fx, res, rested, wrote,
                                             miscounted>>,
         \A r \in Rows : sold[r] <= sold'[r],
         \A t \in Runs : mon'[t].step = "read" =>
            \/ mon'[t] = mon[t]
            \/ mon[t].step = "filled" /\ mon'[t].loaded = row[mon'[t].at],
         \/ srv' = srv \/ srv' = IdleSrv
         \/ srv' = [srv EXCEPT !.over = @ \/ srv.step = "loaded"],
         \/ srv'.step # "loaded" \/ srv'.over
         \/ \E t \in Runs : mon[t].step = "filled"
         \/ \A t \in Runs : mon[t].step \in {"idle", "pass"} => mon'[t].step \in {"idle", "pass"}
  PROVE  Static' /\ Tracked' /\ Summed'
<1>1. Typed /\ Static
  BY DEF Counts
<1>2. Static'
  BY <1>1 DEF Static
<1>3. SalesGrow
  BY <1>1, GrowthOfSales
<1>4. Keeps(Rows)
  <2> SUFFICES ASSUME NEW r \in Rows, NEW k \in Int, Backs(row, sold, mon, k, r)
               PROVE  Backs(row', sold', mon', k, r)
    BY DEF Keeps
  <2>1. \A t \in Runs : mon'[t].step = "read" /\ mon'[t].at = r =>
            \/ /\ mon[t].step = "read" /\ mon[t].at = r
               /\ mon'[t].loaded = mon[t].loaded
            \/ mon'[t].loaded = row[r]
    OBVIOUS
  <2> QED BY <1>1, <1>3, <2>1, CopiesKept
<1>5. Keeps(Rows \ rested)
  BY <1>4 DEF Keeps
<1>6. Bounded => Bounded'
  <2> SUFFICES ASSUME Bounded, NEW t \in Runs, mon'[t].step = "read"
               PROVE  mon'[t].loaded.contracts <= Size
    BY DEF Bounded
  <2>1. CASE mon'[t] = mon[t]
    <3>1. \E r \in Rows : TRUE
      BY <1>1, <2>1 DEF Typed
    <3> QED BY <2>1, <3>1 DEF Bounded
  <2>2. CASE mon'[t].loaded = row[mon'[t].at]
    BY <2>2 DEF Bounded, Typed
  <2> QED BY <2>1, <2>2
<1>7. Orderly
  BY <1>1, <1>3, <1>5, <1>6 DEF Orderly
<1> QED BY <1>2, <1>5, <1>7, StepKept

(* A run that moves on without having sold or recorded anything. *)
LEMMA IdleMoves ==
  ASSUME Counts, Typed', NEW t \in Runs, NEW w \in RunState, w.step \in {"idle", "pass"},
         mon[t].step \in {"idle", "pass"}, mon' = [mon EXCEPT ![t] = w],
         UNCHANGED <<entry, settled, row, exited, fx, res, srv, rested, wrote, miscounted>>,
         \A r \in Rows : sold[r] <= sold'[r]
  PROVE  Backed' /\ Static' /\ Tracked' /\ Summed'
<1>1. Typed /\ Backed
  BY DEF Counts
<1>2. Growth
  <2> SUFFICES ASSUME NEW r \in Rows
               PROVE  Recordable(sold, mon, fx, r) <= Recordable(sold', mon', fx', r)
    BY DEF Growth
  <2>1. Unrecorded(mon[t], r) = 0 /\ Unrecorded(w, r) = 0
    BY DEF Unrecorded
  <2>2. Recordable(sold', mon', fx', r)
          = Recordable(sold, mon, fx, r) + (sold'[r] - sold[r]) + 0 - 0
    BY <1>1, <2>1, RunMoves
  <2>3. sold[r] \in Int /\ sold'[r] \in Int /\ Recordable(sold, mon, fx, r) \in Int
    BY <1>1, RecordableType DEF Typed, TypeOK
  <2> DEFINE n == Recordable(sold, mon, fx, r)
  <2> HIDE DEF n
  <2>4. n <= n + (sold'[r] - sold[r]) + 0 - 0
    BY <2>3 DEF n
  <2> QED BY <2>2, <2>4 DEF n
<1>3. \A x \in Runs : mon'[x].step = "read" => mon'[x] = mon[x]
  BY <1>1 DEF Typed, TypeOK
<1>4. Backed'
  BY <1>1, <1>2, <1>3, BackedKept
<1>5. \A x \in Runs :
        mon[x].step \in {"idle", "pass"} => mon'[x].step \in {"idle", "pass"}
  BY <1>1 DEF Typed, TypeOK
<1>6. Static' /\ Tracked' /\ Summed'
  BY <1>2, <1>3, <1>5, RowsStay
<1> QED BY <1>4, <1>6

LEMMA SellsCounts ==
  ASSUME Counts, Typed', NEW t \in Runs, NEW q \in Rows, MonSells(t, q)
  PROVE  Backed' /\ Static' /\ Tracked' /\ Summed'
<1>1. Typed /\ Backed
  BY DEF Counts
<1>2. PICK n \in 1..mon[t].snap[q] :
        /\ sold' = [sold EXCEPT ![q] = @ + n]
        /\ mon' = [mon EXCEPT ![t] =
             [IdleRun EXCEPT !.step = "filled", !.at = q, !.snap = Without(t, q), !.got = n]]
  BY DEF MonSells, Recorded
<1> DEFINE w == [IdleRun EXCEPT !.step = "filled", !.at = q, !.snap = Without(t, q), !.got = n]
<1>3. n \in Nat /\ w \in RunState /\ w.step = "filled" /\ w.at = q /\ w.got = n
  <2>1. Without(t, q) \in [Rows -> Nat] /\ mon[t].snap \in [Rows -> Nat]
    BY <1>1, WithoutType DEF Typed, TypeOK, RunState
  <2>2. n \in Nat
    BY <2>1
  <2> QED BY <2>1, <2>2, NoRowType DEF IdleRun, RunState
<1>4. mon' = [mon EXCEPT ![t] = w]
  BY <1>2
<1> HIDE DEF w
<1>5. /\ mon[t].step = "pass"
      /\ UNCHANGED <<entry, settled, row, exited, fx, res, rested, wrote, miscounted>>
      /\ srv' = [srv EXCEPT !.over = @ \/ srv.step = "loaded"]
  BY DEF MonSells, Considers, ledger
<1>6. Growth
  <2> SUFFICES ASSUME NEW r \in Rows
               PROVE  Recordable(sold, mon, fx, r) <= Recordable(sold', mon', fx', r)
    BY DEF Growth
  <2>1. Unrecorded(mon[t], r) = 0 /\ Unrecorded(w, r) = IF r = q THEN n ELSE 0
    BY <1>3, <1>5 DEF Unrecorded
  <2>2. sold[r] \in Int /\ sold'[r] = sold[r] + IF r = q THEN n ELSE 0
    BY <1>1, <1>2, <1>3 DEF Typed, TypeOK
  <2>3. Recordable(sold, mon, fx, r) \in Int
    BY <1>1, RecordableType
  <2>4. Recordable(sold', mon', fx', r)
          = Recordable(sold, mon, fx, r) + (sold'[r] - sold[r]) + 0 - (IF r = q THEN n ELSE 0)
    BY <1>1, <1>3, <1>4, <1>5, <2>1, RunMoves
  <2> DEFINE a == Recordable(sold, mon, fx, r)
             b == Recordable(sold', mon', fx', r)
  <2> HIDE DEF a, b
  <2>5. a \in Int /\ b = a + (sold'[r] - sold[r]) + 0 - (IF r = q THEN n ELSE 0)
    BY <2>3, <2>4 DEF a, b
  <2>6. a <= b
    BY <1>3, <2>2, <2>5
  <2> QED BY <2>6 DEF a, b
<1>7. \A x \in Runs : mon'[x].step = "read" => mon'[x] = mon[x]
  BY <1>1, <1>3, <1>4 DEF Typed, TypeOK
<1>8. Backed'
  BY <1>1, <1>5, <1>6, <1>7, BackedKept
<1>9. srv'.step # "loaded" \/ srv'.over
  <2>1. srv \in SrvState
    BY <1>1 DEF Typed, TypeOK
  <2> QED BY <1>5, <2>1 DEF SrvState
<1>10. \A r \in Rows : sold[r] <= sold'[r]
  BY <1>1, <1>2, <1>3 DEF Typed, TypeOK
<1>11. Static' /\ Tracked' /\ Summed'
  BY <1>5, <1>6, <1>7, <1>9, <1>10, RowsStay
<1> QED BY <1>8, <1>11

LEMMA ReadsCounts ==
  ASSUME Counts, Typed', NEW t \in Runs, MonReads(t)
  PROVE  Backed' /\ Static' /\ Tracked' /\ Summed'
<1>1. Typed /\ Backed
  BY DEF Counts
<1> DEFINE w == [mon[t] EXCEPT !.step = "read", !.loaded = row[mon[t].at],
                               !.was = exited[mon[t].at]]
<1>2. mon[t].step = "filled" /\ mon[t].at \in Rows
        /\ UNCHANGED <<entry, sold, settled, row, exited, fx, res, srv, rested, wrote, miscounted>>
  BY <1>1 DEF MonReads, exchange, ledger, survey, Typed
<1>3. mon' = [mon EXCEPT ![t] = w] /\ mon' \in [Runs -> RunState]
  BY <1>1 DEF MonReads, Typed, TypeOK
<1>4. /\ w \in RunState /\ w.step = "read" /\ w.at = mon[t].at /\ w.got = mon[t].got
      /\ w.was = exited[mon[t].at] /\ w.loaded = row[mon[t].at]
  <2>1. mon[t] \in RunState /\ row[mon[t].at] \in LedgerRow /\ exited[mon[t].at] \in Nat
    BY <1>1, <1>2 DEF Typed, TypeOK
  <2> QED BY <2>1 DEF RunState
<1> HIDE DEF w
<1>5. Growth
  <2> SUFFICES ASSUME NEW r \in Rows
               PROVE  Recordable(sold, mon, fx, r) <= Recordable(sold', mon', fx', r)
    BY DEF Growth
  <2>1. Unrecorded(w, r) = Unrecorded(mon[t], r) /\ Unrecorded(w, r) \in Nat
    BY <1>2, <1>4, UnrecordedType DEF Unrecorded
  <2>2. sold'[r] = sold[r] /\ sold[r] \in Int /\ Recordable(sold, mon, fx, r) \in Int
    BY <1>1, <1>2, RecordableType DEF Typed, TypeOK
  <2>3. Recordable(sold', mon', fx', r)
          = Recordable(sold, mon, fx, r) + (sold'[r] - sold[r])
              + Unrecorded(mon[t], r) - Unrecorded(w, r)
    BY <1>1, <1>2, <1>3, <1>4, RunMoves
  <2> DEFINE a == Recordable(sold, mon, fx, r)
             b == Recordable(sold', mon', fx', r)
             c == Unrecorded(w, r)
  <2> HIDE DEF a, b, c
  <2>4. a \in Int /\ c \in Nat /\ b = a + (sold'[r] - sold[r]) + c - c
    BY <2>1, <2>2, <2>3 DEF a, b, c
  <2>5. a <= b
    BY <2>2, <2>4
  <2> QED BY <2>5 DEF a, b
<1>6. \A x \in Runs : mon'[x] = IF x = t THEN w ELSE mon[x]
  BY <1>1, <1>3 DEF Typed, TypeOK
<1>7. Backed'
  BY <1>1, <1>2, <1>4, <1>5, <1>6, BackedKept
<1>8. \A r \in Rows : sold[r] <= sold'[r]
  BY <1>1, <1>2 DEF Typed, TypeOK
<1>9. Static' /\ Tracked' /\ Summed'
  BY <1>2, <1>4, <1>5, <1>6, <1>8, RowsStay
<1> QED BY <1>7, <1>9

(* Recording a sale takes it off the row, and off the copy it was read from. *)
LEMMA FlushCovers ==
  ASSUME NEW db \in LedgerRow, NEW loaded \in LedgerRow, NEW was \in Nat, NEW got \in Nat,
         NEW n \in Int, Covers(db, n), Covers(loaded, n)
  PROVE  Covers(Flush(db, loaded, PartialClose(loaded, was, got)), n + got)
<1> USE SizeAssumption DEF SizeAssumption, LedgerRow
<1> DEFINE w == PartialClose(loaded, was, got)
           new == Flush(db, loaded, w)
<1>1. /\ new.status = IF w.status # loaded.status THEN w.status ELSE db.status
      /\ new.contracts = IF w.contracts # loaded.contracts THEN w.contracts ELSE db.contracts
  BY DEF Flush, Column
<1>2. /\ db.contracts \in Nat /\ loaded.contracts \in Nat
      /\ Size - n <= IF db.status = "open" THEN db.contracts ELSE 0
      /\ Size - n <= IF loaded.status = "open" THEN loaded.contracts ELSE 0
  BY DEF Covers
<1>3. CASE loaded.contracts > got
  <2>1. w.status = loaded.status /\ w.contracts = loaded.contracts - got
    BY <1>3 DEF PartialClose
  <2> HIDE DEF w
  <2>2. \/ new.contracts = loaded.contracts - got
        \/ got = 0 /\ new.contracts = db.contracts
    BY <1>1, <1>2, <1>3, <2>1
  <2>3. new.status = db.status
    BY <1>1, <2>1
  <2> HIDE DEF new
  <2>4. Size - (n + got) <= IF new.status = "open" THEN new.contracts ELSE 0
    BY <1>2, <2>2, <2>3
  <2> QED BY <2>4 DEF Covers, new, w
<1>4. CASE ~(loaded.contracts > got)
  <2>1. w.status = "closed" /\ w.contracts = 0
    BY <1>4 DEF PartialClose
  <2> HIDE DEF w
  <2>2. /\ new.contracts = 0 \/ new.contracts = db.contracts
        /\ new.status = "closed" \/ (new.status = db.status /\ loaded.status = "closed")
    BY <1>1, <2>1
  <2>3. Size - (n + got) <= 0
    BY <1>2, <1>4
  <2> HIDE DEF new
  <2>4. Size - (n + got) <= IF new.status = "open" THEN new.contracts ELSE 0
    BY <1>2, <2>2, <2>3
  <2> QED BY <2>4 DEF Covers, new, w
<1> QED BY <1>3, <1>4

LEMMA CommitsCounts ==
  ASSUME Counts, Typed', NEW t \in Runs, MonCommits(t)
  PROVE  Backed' /\ Static' /\ Tracked' /\ Summed'
<1>1. Typed /\ Backed
  BY DEF Counts
<1> DEFINE q == mon[t].at
           w == Resume(mon[t].snap)
<1>2. /\ mon[t].step = "read" /\ q \in Rows /\ mon' = [mon EXCEPT ![t] = w]
      /\ UNCHANGED <<entry, sold, settled, fx, res, srv, rested, wrote, miscounted>>
  BY <1>1 DEF MonCommits, exchange, survey, Typed
<1>3. /\ mon[t].snap \in [Rows -> Nat] /\ mon[t].got \in Nat /\ mon[t].was \in Nat
      /\ mon[t].loaded \in LedgerRow /\ row \in [Rows -> LedgerRow]
      /\ exited \in [Rows -> Nat] /\ mon \in [Runs -> RunState]
  BY <1>1 DEF Typed, TypeOK, RunState
<1>4. w \in RunState /\ w.step \in {"idle", "pass"}
  BY <1>3, ResumeType
<1>5. /\ exited' = [exited EXCEPT ![q] = mon[t].was + mon[t].got]
      /\ row' = [row EXCEPT ![q] = Flush(row[q], mon[t].loaded,
                                         PartialClose(mon[t].loaded, mon[t].was, mon[t].got))]
  BY DEF MonCommits
<1> HIDE DEF w
<1>6. ASSUME NEW r \in Rows
      PROVE  /\ Recordable(sold, mon, fx, r) \in Int
             /\ Recordable(sold', mon', fx', r)
                  = Recordable(sold, mon, fx, r) + (IF r = q THEN mon[t].got ELSE 0)
  <2>1. Unrecorded(mon[t], r) = (IF r = q THEN mon[t].got ELSE 0) /\ Unrecorded(w, r) = 0
    BY <1>2, <1>4 DEF Unrecorded
  <2>2. sold'[r] = sold[r] /\ sold[r] \in Int /\ Recordable(sold, mon, fx, r) \in Int
    BY <1>1, <1>2, RecordableType DEF Typed, TypeOK
  <2>3. Recordable(sold', mon', fx', r)
          = Recordable(sold, mon, fx, r) + (sold'[r] - sold[r])
              + (IF r = q THEN mon[t].got ELSE 0) - 0
    BY <1>1, <1>2, <1>4, <2>1, RunMoves
  <2> DEFINE a == Recordable(sold, mon, fx, r)
             b == Recordable(sold', mon', fx', r)
  <2> HIDE DEF a, b
  <2>4. a \in Int /\ b = a + (sold'[r] - sold[r]) + (IF r = q THEN mon[t].got ELSE 0) - 0
    BY <2>2, <2>3 DEF a, b
  <2>5. b = a + (IF r = q THEN mon[t].got ELSE 0)
    BY <1>3, <2>2, <2>4
  <2> QED BY <2>2, <2>5 DEF a, b
<1>7. Growth
  BY <1>3, <1>6 DEF Growth
<1>8. \A x \in Runs : mon'[x].step = "read" => mon'[x] = mon[x]
  BY <1>2, <1>3, <1>4
<1>9. \A r \in Rows : exited'[r] = exited[r] \/ exited'[r] <= Recordable(sold', mon', fx', r)
  <2>1. mon[t].was <= Recordable(sold, mon, fx, q)
    BY <1>1, <1>2 DEF Backed
  <2>2. exited'[q] = mon[t].was + mon[t].got
    BY <1>2, <1>3, <1>5
  <2>3. exited'[q] <= Recordable(sold', mon', fx', q)
    <3>1. Recordable(sold, mon, fx, q) \in Int
            /\ Recordable(sold', mon', fx', q) = Recordable(sold, mon, fx, q) + mon[t].got
      BY <1>2, <1>6
    <3> DEFINE a == Recordable(sold, mon, fx, q)
               b == Recordable(sold', mon', fx', q)
    <3> HIDE DEF a, b
    <3>2. a \in Int /\ b = a + mon[t].got /\ mon[t].was <= a
      BY <2>1, <3>1 DEF a, b
    <3>3. exited'[q] <= b
      BY <1>3, <2>2, <3>2
    <3> QED BY <3>3 DEF b
  <2> QED BY <1>3, <1>5, <2>3
<1>10. Backed'
  BY <1>1, <1>2, <1>7, <1>8, <1>9, BackedKept
<1>11. SalesGrow /\ \A r \in Rows : sold[r] <= sold'[r]
  BY <1>1, <1>2, <1>7, GrowthOfSales DEF Typed, TypeOK
<1>12. Keeps(Rows)
  <2> SUFFICES ASSUME NEW r \in Rows, NEW k \in Int, Backs(row, sold, mon, k, r)
               PROVE  Backs(row', sold', mon', k, r)
    BY DEF Keeps
  <2>1. \A x \in Runs : mon'[x].step = "read" /\ mon'[x].at = r =>
            \/ /\ mon[x].step = "read" /\ mon[x].at = r
               /\ mon'[x].loaded = mon[x].loaded
            \/ mon'[x].loaded = row[r]
    BY <1>8
  <2>2. CASE r # q
    <3>1. row'[r] = row[r]
      BY <1>3, <1>5, <2>2
    <3> QED BY <1>1, <1>11, <2>1, <3>1, CopiesKept
  <2>3. CASE r = q
    <3> DEFINE a == Work(mon, r)
               b == Work(mon', r)
               n == sold[r] - a - k
    <3>1. Covers(row[q], n) /\ Covers(mon[t].loaded, n)
      BY <1>2, <2>3 DEF Backs
    <3>2. b = a - mon[t].got /\ a \in Nat /\ sold[r] \in Nat /\ sold'[r] = sold[r]
      <4>1. Work(mon', r) = Work(mon, r) - Unrecorded(mon[t], r) + Unrecorded(w, r)
        <5>1. Work([mon EXCEPT ![t] = w], r)
                = Work(mon, r) - Unrecorded(mon[t], r) + Unrecorded(w, r)
          BY <1>3, <1>4, WorkMoved
        <5> QED BY <1>2, <5>1
      <4>2. Unrecorded(mon[t], r) = mon[t].got /\ Unrecorded(w, r) = 0
        BY <1>2, <1>4, <2>3 DEF Unrecorded
      <4>3. Work(mon, r) \in Nat /\ sold[r] \in Nat /\ sold'[r] = sold[r]
        BY <1>1, <1>2, <1>3, WorkType DEF Typed, TypeOK
      <4> HIDE DEF w
      <4>4. a - mon[t].got + 0 = a - mon[t].got
        BY <1>3, <4>3
      <4> QED BY <4>1, <4>2, <4>3, <4>4
    <3> HIDE DEF a, b
    <3>3. n \in Int /\ n + mon[t].got = sold'[r] - b - k
      BY <1>3, <3>2
    <3> HIDE DEF n
    <3>4. Covers(row'[q], n + mon[t].got)
      BY <1>2, <1>3, <1>5, <3>1, <3>3, FlushCovers
    <3>5. Covers(row'[r], sold'[r] - Work(mon', r) - k)
      BY <2>3, <3>3, <3>4 DEF b
    <3> QED BY <1>1, <1>11, <2>1, <3>5, CopiesKept
  <2> QED BY <2>2, <2>3
<1>13. Keeps(Rows \ rested)
  BY <1>12 DEF Keeps
<1>14. Bounded => Bounded'
  <2> DEFINE new == Flush(row[q], mon[t].loaded,
                          PartialClose(mon[t].loaded, mon[t].was, mon[t].got))
  <2>1. ASSUME Bounded
        PROVE  new.contracts <= Size
    <3>1. row[q].contracts <= Size /\ mon[t].loaded.contracts <= Size
      BY <1>2, <2>1 DEF Bounded
    <3>2. \/ new.contracts = row[q].contracts \/ new.contracts = 0
          \/ new.contracts = mon[t].loaded.contracts - mon[t].got
      BY DEF Flush, Column, PartialClose
    <3>3. mon[t].loaded.contracts \in Nat
      BY <1>3 DEF LedgerRow
    <3> HIDE DEF new
    <3> QED BY <1>3, <3>1, <3>2, <3>3, SizeAssumption DEF SizeAssumption
  <2>2. row' = [row EXCEPT ![q] = new]
    BY <1>5
  <2> HIDE DEF new
  <2> QED BY <1>2, <1>3, <1>8, <2>1, <2>2 DEF Bounded
<1>15. Static'
  BY <1>2 DEF Counts, Static
<1>16. Orderly
  BY <1>1, <1>2, <1>11, <1>13, <1>14 DEF Orderly
<1>17. Tracked' /\ Summed'
  BY <1>2, <1>13, <1>15, <1>16, StepKept
<1> QED BY <1>10, <1>15, <1>17

LEMMA RunCounts ==
  ASSUME Counts, Typed', NEW t \in Runs,
         MonLoad(t) \/ Record(t) \/ \E r \in Rows : RunRow(t, r)
  PROVE  Backed' /\ Static' /\ Tracked' /\ Summed'
<1>1. Typed /\ sold \in [Rows -> Nat] /\ sold' \in [Rows -> Nat]
  BY DEF Counts, Typed, TypeOK
<1>2. CASE MonLoad(t)
  <2> DEFINE snap == [r \in Rows |-> Count(r)]
  <2>1. snap \in [Rows -> Nat]
    BY <1>1 DEF Typed, TypeOK, LedgerRow, Count
  <2>2. mon' = [mon EXCEPT ![t] = Resume(snap)] /\ mon[t].step = "idle"
          /\ UNCHANGED <<entry, sold, settled, row, exited, fx, res, srv, rested, wrote,
                        miscounted>>
    BY <1>2 DEF MonLoad, exchange, ledger, survey
  <2> HIDE DEF snap
  <2>3. Resume(snap) \in RunState /\ Resume(snap).step \in {"idle", "pass"}
    BY <2>1, ResumeType
  <2>4. \A r \in Rows : sold[r] <= sold'[r]
    BY <1>1, <2>2
  <2> QED BY <2>2, <2>3, <2>4, IdleMoves
<1>3. CASE Record(t)
  BY <1>3, ReadsCounts, CommitsCounts DEF Record
<1>4. ASSUME NEW r \in Rows, MonHolds(t, r) \/ MonLoses(t, r)
      PROVE  Backed' /\ Static' /\ Tracked' /\ Summed'
  <2>1. /\ Resume(Without(t, r)) \in RunState
        /\ Resume(Without(t, r)).step \in {"idle", "pass"}
    BY <1>1, WithoutType, ResumeType
  <2>2. mon[t].step = "pass" /\ UNCHANGED <<entry, settled, row, exited, fx, res, srv, rested, wrote,
                                    miscounted>>
    BY <1>4 DEF MonHolds, MonLoses, Considers, exchange, ledger, survey
  <2>3. \A x \in Rows : sold[x] <= sold'[x]
    <3>1. CASE MonHolds(t, r)
      BY <1>1, <3>1 DEF MonHolds, exchange
    <3>2. CASE MonLoses(t, r)
      <4>1. PICK n \in 1..mon[t].snap[r] : sold' = [sold EXCEPT ![r] = @ + n]
        BY <3>2 DEF MonLoses
      <4> QED BY <1>1, <4>1
    <3> QED BY <1>4, <3>1, <3>2
  <2>4. CASE mon' = [mon EXCEPT ![t] = Resume(Without(t, r))]
    BY <2>1, <2>2, <2>3, <2>4, IdleMoves
  <2>5. CASE mon' = [mon EXCEPT ![t] = IdleRun]
    BY <2>2, <2>3, <2>5, IdleTypes, IdleMoves
  <2> QED BY <1>4, <2>4, <2>5 DEF MonHolds, MonLoses
<1> QED BY <1>2, <1>3, <1>4, SellsCounts DEF RunRow

LEMMA ForceCounts ==
  ASSUME Counts, Typed', NEW q \in Rows, ForceExit(q)
  PROVE  Backed' /\ Static' /\ Tracked' /\ Summed'
<1>1. Typed /\ Backed
  BY DEF Counts
<1>2. UNCHANGED <<entry, settled, mon, res, srv, rested>>
  BY DEF ForceExit, FxLoads, FxNet, FxShare, FxSells, FxGivesUp, FxCommits, exchange, survey
<1>3. /\ fx \in [Rows -> FxState] /\ fx' \in [Rows -> FxState]
      /\ sold \in [Rows -> Nat] /\ sold' \in [Rows -> Nat]
      /\ exited \in [Rows -> Nat] /\ row \in [Rows -> LedgerRow]
  BY <1>1 DEF Typed, TypeOK
<1>6. \A r \in Rows \ {q} : /\ fx'[r] = fx[r] /\ sold'[r] = sold[r]
                            /\ exited'[r] = exited[r] /\ row'[r] = row[r]
  BY <1>3 DEF ForceExit, FxLoads, FxNet, FxShare, FxSells, FxGivesUp, FxCommits, exchange, ledger
<1> DEFINE got == sold'[q] - sold[q]
           a == Recordable(sold, mon, fx, q)
           b == Recordable(sold', mon', fx', q)
<1>7. a \in Int /\ b = a + got + Owed(fx[q]) - Owed(fx'[q])
  BY <1>1, <1>2, ForceMoves, RecordableType
<1>8. a <= fx[q].was \/ fx[q].was <= a
  BY <1>3, <1>7 DEF FxState
<1>9. /\ a <= b
      /\ exited'[q] = exited[q] \/ exited'[q] <= b
      /\ fx'[q].step # "idle" =>
           \/ fx[q].step # "idle" /\ fx'[q].was = fx[q].was
           \/ fx'[q].was = exited[q]
  <2> HIDE DEF a, b
  <2>1. fx[q] \in FxState /\ sold[q] \in Nat /\ exited[q] \in Nat
    BY <1>3
  <2>2. CASE FxLoads(q)
    <3>1. PICK known \in {FALSE, settled} :
            fx' = [fx EXCEPT ![q] = [IdleFx EXCEPT !.step = "net", !.loaded = row[q],
                                                   !.was = exited[q], !.known = known]]
      BY <2>2 DEF FxLoads
    <3>2. fx'[q].step = "net" /\ fx'[q].was = exited[q]
      BY <1>3, <3>1 DEF IdleFx
    <3>3. sold' = sold /\ exited' = exited /\ fx[q].step = "idle"
      BY <2>2 DEF FxLoads, exchange, ledger
    <3> QED BY <1>7, <2>1, <3>2, <3>3 DEF Owed
  <2>3. CASE FxNet(q) \/ FxShare(q) \/ FxGivesUp(q)
    <3>1. sold' = sold /\ exited' = exited /\ fx[q].step \in {"net", "share", "place"}
      BY <2>3 DEF FxNet, FxShare, FxGivesUp, exchange, ledger
    <3>2. fx'[q].step # "commit" /\ (fx'[q].step # "idle" => fx'[q].was = fx[q].was)
      <4>1. CASE FxNet(q)
        BY <1>3, <2>1, <4>1, IdleTypes DEF FxNet, FxState
      <4>2. CASE FxShare(q)
        <5> DEFINE share == fx[q].net - Siblings(q)
        <5>1. \/ fx'[q] = IdleFx
              \/ fx'[q] = [fx[q] EXCEPT !.step = IF fx[q].known THEN "settle" ELSE "place",
                                        !.net = share]
          BY <1>3, <4>2 DEF FxShare
        <5> HIDE DEF share
        <5> QED BY <2>1, <5>1, IdleTypes DEF FxState
      <4>3. CASE FxGivesUp(q)
        BY <1>3, <4>3, IdleTypes DEF FxGivesUp
      <4> QED BY <2>3, <4>1, <4>2, <4>3
    <3> QED BY <1>7, <2>1, <3>1, <3>2 DEF Owed
  <2>4. CASE FxSells(q)
    <3>1. sold'[q] = sold[q] + fx[q].net /\ exited' = exited /\ fx[q].step = "place"
      BY <1>3, <2>4 DEF FxSells, ledger
    <3>2. \/ fx'[q] = IdleFx
          \/ fx'[q] = [fx[q] EXCEPT !.step = "commit"]
      BY <1>3, <2>4 DEF FxSells
    <3>3. /\ fx'[q].step = "idle" \/ fx'[q].step = "commit"
          /\ fx'[q].step = "commit" => fx'[q].net = fx[q].net /\ fx'[q].was = fx[q].was
          /\ fx[q].net \in Nat
      BY <2>1, <3>2, IdleTypes DEF FxState
    <3> QED BY <1>7, <2>1, <3>1, <3>3 DEF Owed
  <2>5. CASE FxCommits(q)
    <3>1. sold' = sold /\ fx'[q].step = "idle" /\ fx[q].step \in {"commit", "settle"}
      BY <1>3, <2>5, IdleTypes DEF FxCommits, exchange
    <3>2. fx[q].was <= a
      BY <1>1, <3>1 DEF Backed, a
    <3>3. \/ exited'[q] = exited[q]
          \/ fx[q].step = "commit" /\ exited'[q] = fx[q].was + fx[q].net
      BY <1>3, <2>5 DEF FxCommits, FxFilled
    <3>4. fx[q].net \in Nat /\ fx[q].was \in Nat
      BY <2>1 DEF FxState
    <3> QED BY <1>7, <2>1, <3>1, <3>2, <3>3, <3>4 DEF Owed
  <2> QED BY <2>2, <2>3, <2>4, <2>5 DEF ForceExit
<1>10. Growth
  <2>1. ASSUME NEW r \in Rows, r # q
        PROVE  Recordable(sold, mon, fx, r) <= Recordable(sold', mon', fx', r)
    <3>1. Recordable(sold, mon, fx, r) = Recordable(sold', mon', fx', r)
      BY <1>2, <1>6, <2>1 DEF Recordable
    <3> QED BY <1>1, <3>1, RecordableType
  <2> QED BY <1>9, <2>1 DEF Growth
<1>11. Backed'
  <2>1. \A r \in Rows : exited'[r] = exited[r] \/ exited'[r] <= Recordable(sold', mon', fx', r)
    BY <1>6, <1>9
  <2>2. \A r \in Rows : fx'[r].step # "idle" =>
          \/ fx[r].step # "idle" /\ fx'[r].was = fx[r].was
          \/ fx'[r].was = exited[r]
    BY <1>6, <1>9
  <2> QED BY <1>1, <1>2, <1>10, <2>1, <2>2, BackedKept
<1>12. SalesGrow /\ \A r \in Rows : sold[r] <= sold'[r]
  <2> SUFFICES ASSUME NEW r \in Rows
               PROVE  sold[r] <= sold'[r] /\ sold[r] - Work(mon, r) <= sold'[r] - Work(mon', r)
    BY DEF SalesGrow
  <2>1. sold[r] <= sold'[r]
    <3>1. CASE FxSells(q)
      <4>1. fx[q].net \in Nat /\ sold' = [sold EXCEPT ![q] = @ + fx[q].net]
        BY <1>3, <3>1 DEF FxSells, FxState
      <4> QED BY <1>3, <4>1
    <3>2. CASE ~FxSells(q)
      <4>1. sold' = sold
        BY <3>2 DEF ForceExit, FxLoads, FxNet, FxShare, FxGivesUp, FxCommits, exchange
      <4> QED BY <1>3, <4>1
    <3> QED BY <3>1, <3>2
  <2> DEFINE w == Work(mon, r)
  <2>2. w \in Nat /\ Work(mon', r) = w
    BY <1>1, <1>2, WorkType DEF Typed, TypeOK
  <2> HIDE DEF w
  <2>3. sold[r] - w <= sold'[r] - w
    BY <1>3, <2>1, <2>2
  <2> QED BY <2>1, <2>2, <2>3 DEF w
<1>13. Static'
  BY <1>2 DEF Counts, Static
<1>14. /\ wrote \subseteq wrote' /\ (miscounted => miscounted')
       /\ \/ q \in wrote' /\ miscounted'
          \/ row' = row
  BY DEF ForceExit, FxLoads, FxNet, FxShare, FxSells, FxGivesUp, FxCommits, survey, ledger
<1>15. ASSUME NEW S \in SUBSET Rows, \A r \in S : row'[r] = row[r]
       PROVE  Keeps(S)
  <2> SUFFICES ASSUME NEW r \in S, NEW k \in Int, Backs(row, sold, mon, k, r)
               PROVE  Backs(row', sold', mon', k, r)
    BY DEF Keeps
  <2> QED BY <1>1, <1>2, <1>12, <1>15, CopiesKept
<1>16. Tracked'
  <2>1. \A r \in Rows \ (rested \cup wrote') : row'[r] = row[r]
    BY <1>6, <1>14
  <2>2. Keeps(Rows \ (rested \cup wrote'))
    BY <1>15, <2>1
  <2> QED BY <1>2, <1>14, <2>2, TrackedKept DEF Counts
<1>17. Orderly
  <2>1. ~miscounted' => row' = row
    BY <1>14
  <2>2. ~miscounted' => Keeps(Rows \ rested)
    BY <1>15, <2>1
  <2>3. ~miscounted' /\ Bounded => Bounded'
    BY <1>2, <2>1 DEF Bounded
  <2> QED BY <1>2, <1>12, <1>14, <2>1, <2>2, <2>3 DEF Orderly
<1>18. Summed'
  BY <1>13, <1>17, SummedKept DEF Counts
<1> QED BY <1>11, <1>13, <1>16, <1>18

(* A restart forgets the sales that were still to be recorded. *)
LEMMA RestartCounts ==
  ASSUME Counts, Typed', Restart
  PROVE  Backed' /\ Static' /\ Tracked' /\ Summed'
<1>1. Typed /\ Backed
  BY DEF Counts
<1>2. /\ UNCHANGED <<entry, sold, settled, row, exited, rested, wrote, miscounted>>
      /\ srv' = IdleSrv
      /\ \A t \in Runs : mon'[t].step = "idle"
      /\ \A r \in Rows : fx'[r].step = "idle" /\ res'[r].step = "idle"
  BY IdleTypes DEF Restart, ledger, IdleRes
<1>3. Growth
  <2> SUFFICES ASSUME NEW r \in Rows
               PROVE  Recordable(sold, mon, fx, r) <= Recordable(sold', mon', fx', r)
    BY DEF Growth
  <2>1. Work(mon', r) = 0 /\ Owed(fx'[r]) = 0
    BY <1>2, NoWork DEF Owed
  <2>2. Work(mon, r) \in Nat /\ Owed(fx[r]) \in Nat /\ sold[r] \in Nat
    BY <1>1, WorkType DEF Typed, TypeOK, Owed, FxState
  <2> DEFINE a == Work(mon, r)
             e == Owed(fx[r])
  <2>3. Recordable(sold, mon, fx, r) = sold[r] - a - e
          /\ Recordable(sold', mon', fx', r) = sold[r] - 0 - 0
    BY <1>2, <2>1 DEF Recordable
  <2> HIDE DEF a, e
  <2>4. a \in Nat /\ e \in Nat
    BY <2>2 DEF a, e
  <2> QED BY <2>2, <2>3, <2>4
<1>4. Backed'
  BY <1>1, <1>2, <1>3, BackedKept
<1>5. SalesGrow /\ \A r \in Rows : sold[r] <= sold'[r]
  <2> SUFFICES ASSUME NEW r \in Rows
               PROVE  sold[r] <= sold'[r] /\ sold[r] - Work(mon, r) <= sold'[r] - Work(mon', r)
    BY DEF SalesGrow
  <2> DEFINE a == Work(mon, r)
  <2>1. a \in Nat /\ Work(mon', r) = 0 /\ sold[r] \in Nat /\ sold'[r] = sold[r]
    BY <1>1, <1>2, WorkType, NoWork DEF Typed, TypeOK
  <2> HIDE DEF a
  <2>2. sold[r] - a <= sold'[r] - 0
    BY <2>1
  <2> QED BY <2>1, <2>2 DEF a
<1>6. Static'
  BY <1>2 DEF Counts, Static
<1>7. Keeps(Rows \ rested)
  <2> SUFFICES ASSUME NEW r \in Rows \ rested, NEW k \in Int, Backs(row, sold, mon, k, r)
               PROVE  Backs(row', sold', mon', k, r)
    BY DEF Keeps
  <2> QED BY <1>1, <1>2, <1>5, CopiesKept
<1>8. Bounded => Bounded'
  BY <1>2 DEF Bounded
<1>9. Orderly
  BY <1>2, <1>5, <1>7, <1>8, IdleTypes DEF Orderly
<1>10. Tracked' /\ Summed'
  BY <1>2, <1>6, <1>7, <1>9, StepKept
<1> QED BY <1>4, <1>6, <1>10

-----------------------------------------------------------------------------
(* The drift survey.                                                       *)

LEMMA CountType ==
  ASSUME Typed
  PROVE  /\ \A r \in Rows : Count(r) \in Nat
         /\ Total([r \in Rows |-> Count(r)]) \in Nat
<1>1. \A r \in Rows : Count(r) \in Nat
  BY DEF Typed, TypeOK, LedgerRow, Count
<1>2. \A r \in Rows : [q \in Rows |-> Count(q)][r] \in Nat
  BY <1>1
<1>3. Total([r \in Rows |-> Count(r)]) \in Nat
  BY <1>2, SumNat, ExitsAssumption DEF Total, ExitsAssumption
<1> QED BY <1>1, <1>3

(* What is held is what was bought, less what was sold. *)
LEMMA HeldIsLeft ==
  ASSUME Typed, Static, rested = {}
  PROVE  /\ Held = SumFunctionOnSet([r \in Rows |-> Size - sold[r]], Rows)
         /\ \A r \in Rows : Size - sold[r] \in Int
<1> DEFINE f == [r \in Rows |-> Left(r)]
           h == [r \in Rows |-> Size - sold[r]]
<1>1. \A r \in Rows : f[r] = h[r] /\ h[r] \in Int
  BY SizeAssumption DEF Left, Static, Typed, TypeOK, SizeAssumption
<1>2. Held = SumFunctionOnSet(f, Rows)
  BY DEF Held, Total
<1>3. \A r \in Rows : h[r] = Size - sold[r]
  OBVIOUS
<1>4. f = h
  BY <1>1
<1> HIDE DEF f, h
<1>5. Held = SumFunctionOnSet(h, Rows)
  BY <1>2, <1>4
<1> QED BY <1>1, <1>3, <1>5 DEF h

LEMMA HeldCovered ==
  ASSUME Typed, Static, rested = {}, Balanced
  PROVE  Held <= Total([r \in Rows |-> Count(r)])
<1>1. PICK base \in [Rows -> Int] :
        Total(base) >= 0 /\ \A r \in Rows : Backs(row, sold, mon, base[r], r)
  BY DEF Balanced
<1> DEFINE f == [r \in Rows |-> Size - sold[r]]
           g == [r \in Rows |-> Count(r)]
           h == [r \in Rows |-> Size - sold[r] + base[r]]
<1>2. Held = SumFunctionOnSet(f, Rows) /\ \A r \in Rows : Size - sold[r] \in Int
  BY HeldIsLeft
<1>3. ASSUME NEW r \in Rows
      PROVE  /\ f[r] \in Int /\ g[r] \in Int /\ base[r] \in Int
             /\ h[r] = f[r] + base[r] /\ h[r] \in Int /\ h[r] <= g[r]
  <2>1. /\ Work(mon, r) \in Nat /\ sold[r] \in Nat /\ Count(r) \in Nat /\ base[r] \in Int
    BY WorkType, CountType DEF Typed, TypeOK
  <2>2. Size - (sold[r] - Work(mon, r) - base[r]) <= Count(r)
    BY <1>1 DEF Backs, Covers, Count, IsOpen
  <2> DEFINE a == Work(mon, r)
             c == Count(r)
  <2> HIDE DEF a, c
  <2>3. a \in Nat /\ c \in Nat /\ Size - (sold[r] - a - base[r]) <= c
    BY <2>1, <2>2 DEF a, c
  <2>4. Size - sold[r] + base[r] <= c
    BY <2>1, <2>3, SizeAssumption DEF SizeAssumption
  <2> QED BY <2>1, <2>3, <2>4, SizeAssumption DEF SizeAssumption, c
<1>4. Total([r \in Rows |-> Count(r)]) = SumFunctionOnSet(g, Rows)
  BY DEF Total
<1> HIDE DEF f, g, h
<1>5. SumFunctionOnSet(h, Rows) = SumFunctionOnSet(f, Rows) + SumFunctionOnSet(base, Rows)
  <2>1. \A r \in Rows : f[r] \in Int /\ base[r] \in Int /\ h[r] = f[r] + base[r]
    BY <1>3
  <2>2. IsFiniteSet(Rows)
    BY ExitsAssumption DEF ExitsAssumption
  <2> QED BY <2>1, <2>2, SumsAdd
<1>6. SumFunctionOnSet(h, Rows) <= SumFunctionOnSet(g, Rows)
  BY <1>3, SumMonotone, ExitsAssumption DEF ExitsAssumption
<1>7. /\ SumFunctionOnSet(h, Rows) \in Int /\ SumFunctionOnSet(g, Rows) \in Int
      /\ SumFunctionOnSet(f, Rows) \in Int /\ SumFunctionOnSet(base, Rows) \in Int
  BY <1>3, SumInt, ExitsAssumption DEF ExitsAssumption
<1>8. SumFunctionOnSet(base, Rows) >= 0
  BY <1>1 DEF Total
<1>9. SumFunctionOnSet(f, Rows) <= SumFunctionOnSet(g, Rows)
  BY <1>5, <1>6, <1>7, <1>8
<1> QED BY <1>2, <1>4, <1>9

(* Steps of the survey that write no row. *)
LEMMA LooksCount ==
  ASSUME Counts, Typed', SrvLoads \/ SrvNets \/ SrvLeaves \/ SrvLists \/ SrvReads
  PROVE  Backed' /\ Static' /\ Tracked' /\ Summed'
<1>1. UNCHANGED <<entry, sold, settled, row, exited, mon, fx, res, rested, wrote, miscounted>>
  BY DEF SrvLoads, SrvNets, SrvLeaves, SrvLists, SrvReads, exchange, ledger
<1>2. Backed' /\ Static' /\ Tracked'
  BY <1>1 DEF Counts, Backed, Static, Tracked
<1>3. Held' = Held
  BY <1>1 DEF Held, Total, Left
<1>4. Typed /\ Static /\ srv \in SrvState
  BY DEF Counts, Typed, TypeOK
<1>5. Summed'
  <2> SUFFICES ASSUME rested = {}, ~settled, ~miscounted, Held > 0
               PROVE  /\ Bounded' /\ Balanced'
                      /\ srv'.step \in {"idle", "loaded", "netted"}
                      /\ srv'.step = "netted" => srv'.net # 0
                      /\ srv'.step # "idle" => \A r \in Rows : srv'.counts[r] <= Size
                      /\ srv'.step = "loaded" /\ ~srv'.over => Fresh'
                      /\ srv'.step = "netted" /\ ~srv'.over => Spare'
    BY <1>1, <1>3 DEF Summed
  <2>1. /\ Bounded /\ Balanced
        /\ srv.step \in {"idle", "loaded", "netted"}
        /\ srv.step = "netted" => srv.net # 0
        /\ srv.step # "idle" => \A r \in Rows : srv.counts[r] <= Size
        /\ srv.step = "loaded" /\ ~srv.over => Fresh
    BY DEF Counts, Summed
  <2>2. Bounded'
    BY <1>1, <2>1 DEF Bounded
  <2>3. Balanced'
    BY <1>1, <2>1 DEF Balanced, Total
  <2>4. CASE SrvLoads
    <3> DEFINE counts == [r \in Rows |-> Count(r)]
               over == \E t \in Runs : mon[t].step \in {"filled", "read"}
    <3>1. srv' = [IdleSrv EXCEPT !.step = "loaded", !.counts = counts, !.over = over]
      BY <2>4 DEF SrvLoads
    <3> HIDE DEF counts, over
    <3>2. srv'.step = "loaded" /\ srv'.counts = counts /\ srv'.over = over
      BY <3>1 DEF IdleSrv
    <3>3. \A r \in Rows : counts[r] = Count(r) /\ counts[r] <= Size
      BY <1>4, <2>1, SizeAssumption DEF counts, Count, Bounded, SizeAssumption
    <3>4. ASSUME ~over
          PROVE  Fresh'
      <4>1. \A t \in Runs : mon'[t].step \in {"idle", "pass"}
        BY <1>1, <1>4, <3>4 DEF over, Typed, TypeOK, RunState
      <4>2. \A r \in Rows : srv'.counts[r] <= IF row'[r].status = "open"
                                              THEN row'[r].contracts ELSE 0
        BY <1>1, <1>4, <3>2, <3>3, CountType DEF Count, IsOpen
      <4>3. Held <= Total(counts)
        BY <1>4, <2>1, HeldCovered DEF counts
      <4>4. Counted' = Total(counts)
        BY <3>2 DEF Counted, Total
      <4> QED BY <1>3, <4>1, <4>2, <4>3, <4>4 DEF Fresh, Count, IsOpen
    <3> QED BY <2>2, <2>3, <3>2, <3>3, <3>4
  <2>5. CASE SrvNets
    <3>1. CASE srv' = IdleSrv
      BY <2>2, <2>3, <3>1, IdleTypes
    <3>2. ASSUME NEW net \in Answers, srv' = [srv EXCEPT !.step = "netted", !.net = net]
          PROVE  /\ srv'.step = "netted" /\ srv'.net = Held /\ Held # 0
                 /\ srv'.counts = srv.counts /\ srv'.over = srv.over
      <4>1. net = Held /\ Held # 0
        BY <1>4, HeldType DEF Answers, Magnitude
      <4> QED BY <1>4, <3>2, <4>1 DEF SrvState
    <3>3. ASSUME srv'.counts = srv.counts, srv'.net = Held, ~srv.over
          PROVE  Spare'
      <4> DEFINE ref == [r \in Rows |-> srv.counts[r] - (Size - sold[r])]
                 f == [r \in Rows |-> Size - sold[r]]
      <4>1. /\ \A t \in Runs : mon[t].step \in {"idle", "pass"}
            /\ \A r \in Rows : srv.counts[r] <= Count(r)
            /\ Held <= Counted
        BY <2>1, <2>5, <3>3 DEF SrvNets, Fresh
      <4>2. Counted' = Counted
        BY <3>3 DEF Counted, Total
      <4>3. /\ Held = SumFunctionOnSet(f, Rows)
            /\ \A r \in Rows : Size - sold[r] \in Int
        BY <1>4, HeldIsLeft
      <4>4. \A r \in Rows : /\ srv.counts[r] \in Int /\ f[r] \in Int /\ ref[r] \in Int
                            /\ srv.counts[r] = f[r] + ref[r]
                            /\ ref[r] = srv.counts[r] - (Size - sold[r])
        BY <1>4, <4>3 DEF SrvState
      <4>5. ref \in [Rows -> Int]
        BY <4>4
      <4> HIDE DEF ref, f
      <4>6. Counted = SumFunctionOnSet(f, Rows) + SumFunctionOnSet(ref, Rows)
        BY <4>4, SumsAdd, ExitsAssumption DEF Counted, Total, ExitsAssumption
      <4>7. Total(ref) = Counted - Held
        <5>1. SumFunctionOnSet(f, Rows) \in Int /\ SumFunctionOnSet(ref, Rows) \in Int
          BY <4>4, SumInt, ExitsAssumption DEF ExitsAssumption
        <5> QED BY <4>3, <4>6, <5>1 DEF Total
      <4>8. ASSUME NEW r \in Rows
            PROVE  /\ Backs(row, sold, mon, ref[r], r)
                   /\ Size - sold[r] + Work(mon, r) + ref[r] <= srv.counts[r]
        <5>1. Work(mon, r) = 0
          <6>1. \A t \in Runs : [x \in Runs |-> Unrecorded(mon[x], r)][t] = 0
            BY <4>1 DEF Unrecorded
          <6> QED BY <6>1, SumZero, ExitsAssumption DEF Work, ExitsAssumption
        <5>2. /\ sold[r] \in Nat /\ srv.counts[r] \in Nat /\ srv.counts[r] <= Size
              /\ Size \in Nat
          BY <1>4, <2>1, <2>5, SizeAssumption
             DEF Typed, TypeOK, SrvState, SrvNets, SizeAssumption
        <5>3. sold[r] - Work(mon, r) - ref[r] = Size - srv.counts[r]
          BY <4>4, <5>1, <5>2
        <5>4. 0 <= sold[r] - Work(mon, r) - ref[r]
          BY <5>2, <5>3
        <5>5. Covers(row[r], sold[r] - Work(mon, r) - ref[r])
          <6>1. srv.counts[r] <= IF row[r].status = "open" THEN row[r].contracts ELSE 0
            BY <4>1 DEF Count, IsOpen
          <6>2. Size - (Size - srv.counts[r]) = srv.counts[r]
            BY <5>2
          <6> QED BY <5>3, <6>1, <6>2 DEF Covers
        <5>6. Backs(row, sold, mon, ref[r], r)
          BY <4>1, <5>4, <5>5 DEF Backs
        <5>7. Size - sold[r] + Work(mon, r) + ref[r] <= srv.counts[r]
          BY <4>4, <5>1, <5>2
        <5> QED BY <5>6, <5>7
      <4>9. \A r \in Rows : /\ Backs(row', sold', mon', ref[r], r)
                            /\ Size - sold'[r] + Work(mon', r) + ref[r] <= srv'.counts[r]
        BY <1>1, <3>3, <4>8
      <4>10. srv'.net <= Counted' /\ Total(ref) = Counted' - srv'.net
        BY <3>3, <4>1, <4>2, <4>7
      <4> QED BY <4>5, <4>9, <4>10 DEF Spare, Total
    <3> QED BY <2>1, <2>2, <2>3, <2>5, <3>1, <3>2, <3>3 DEF SrvNets
  <2>6. CASE SrvLeaves
    BY <2>2, <2>3, <2>6, IdleTypes DEF SrvLeaves
  <2>7. ~SrvLists /\ ~SrvReads
    BY <2>1 DEF SrvLists, SrvReads
  <2> QED BY <2>4, <2>5, <2>6, <2>7
<1> QED BY <1>2, <1>5

(* The newest row takes the difference, out of what it can spare. *)
LEMMA AdjustsCounts ==
  ASSUME Counts, Typed', SrvAdjusts
  PROVE  Backed' /\ Static' /\ Tracked' /\ Summed'
<1>1. /\ UNCHANGED <<entry, sold, settled, exited, mon, fx, res, rested>>
      /\ row' = [row EXCEPT ![Newest] = SetContracts(row[Newest], Adjusted)]
      /\ srv' = IdleSrv /\ wrote' = wrote \cup {Newest}
      /\ miscounted' = (miscounted \/ srv.over)
      /\ srv.step = "netted" /\ Adjusted > 0
  BY DEF SrvAdjusts, exchange
<1>2. /\ Typed /\ Static /\ srv \in SrvState /\ row \in [Rows -> LedgerRow]
      /\ row' \in [Rows -> LedgerRow] /\ Newest \in Rows
  BY <1>1, EndsOfList DEF Counts, Typed, TypeOK, Listed
<1>3. /\ \A r \in Rows \ {Newest} : row'[r] = row[r]
      /\ row'[Newest].status = row[Newest].status /\ row'[Newest].contracts = Adjusted
  BY <1>1, <1>2 DEF SetContracts, LedgerRow
<1>4. Backed' /\ Static'
  BY <1>1 DEF Counts, Backed, Static
<1>5. Tracked'
  BY <1>1, <1>3 DEF Counts, Tracked, Backs
<1>6. Held' = Held
  BY <1>1 DEF Held, Total, Left
<1>7. Summed'
  <2> SUFFICES ASSUME rested = {}, ~settled, ~miscounted', Held > 0
               PROVE  Bounded' /\ Balanced'
    BY <1>1, <1>6, IdleTypes DEF Summed
  <2>1. /\ Bounded /\ Spare
        /\ \A r \in Rows : srv.counts[r] <= Size
    BY <1>1 DEF Counts, Summed
  <2>2. PICK ref \in [Rows -> Int] :
       /\ Total(ref) = Counted - srv.net
       /\ \A r \in Rows : /\ Backs(row, sold, mon, ref[r], r)
                          /\ Size - sold[r] + Work(mon, r) + ref[r] <= srv.counts[r]
    BY <2>1 DEF Spare
  <2> DEFINE d == Counted - srv.net
             base == [ref EXCEPT ![Newest] = ref[Newest] - d]
  <2>3. d \in Nat /\ Adjusted = srv.counts[Newest] - d /\ srv.counts[Newest] \in Nat
    <3>1. Counted \in Int /\ srv.net \in Nat /\ srv.counts[Newest] \in Nat /\ srv.net <= Counted
      BY <1>2, <2>1, CountedType DEF SrvState, Spare
    <3> QED BY <3>1 DEF Adjusted
  <2> HIDE DEF d
  <2>4. Bounded'
    <3>1. Adjusted <= Size /\ Size \in Nat
      BY <1>2, <2>1, <2>3, SizeAssumption DEF SizeAssumption
    <3> QED BY <1>1, <1>3, <2>1, <3>1 DEF Bounded
  <2>5. base \in [Rows -> Int] /\ Total(base) = 0
    <3>1. /\ base \in [Rows -> Int] /\ base[Newest] = ref[Newest] - d
          /\ \A r \in Rows \ {Newest} : ref[r] = base[r]
          /\ \A r \in Rows : ref[r] \in Int /\ base[r] \in Int
      BY <1>2, <2>3
    <3> HIDE DEF base
    <3>2. SumFunctionOnSet(base, Rows)
            = SumFunctionOnSet(ref, Rows) - ref[Newest] + base[Newest]
      <4>1. \A r \in Rows : ref[r] \in Int /\ base[r] \in Int
        BY <3>1
      <4>2. \A r \in Rows \ {Newest} : ref[r] = base[r]
        BY <3>1
      <4>3. IsFiniteSet(Rows)
        BY ExitsAssumption DEF ExitsAssumption
      <4> QED BY <1>2, <4>1, <4>2, <4>3, SumChanged
    <3>3. SumFunctionOnSet(ref, Rows) = d
      BY <2>2 DEF Total, d
    <3> QED BY <1>2, <2>3, <3>1, <3>2, <3>3 DEF Total
  <2>6. ASSUME NEW r \in Rows
        PROVE  Backs(row', sold', mon', base[r], r)
    <3> DEFINE a == Work(mon, r)
               n == sold[r] - a - ref[r]
    <3>0. a \in Nat /\ sold[r] \in Nat /\ ref[r] \in Int
      BY <1>2, WorkType DEF Typed, TypeOK
    <3>1. /\ 0 <= n /\ Covers(row[r], n)
          /\ \A t \in Runs : mon[t].step = "read" /\ mon[t].at = r => Covers(mon[t].loaded, n)
          /\ Size - sold[r] + a + ref[r] <= srv.counts[r]
      BY <2>2 DEF Backs
    <3>2. CASE r # Newest
      <4>1. row'[r] = row[r] /\ base[r] = ref[r]
        BY <1>2, <1>3, <3>2
      <4> QED BY <1>1, <3>1, <4>1 DEF Backs
    <3>3. CASE r = Newest
      <4>1. base[r] = ref[r] - d
        BY <1>2, <3>3
      <4> HIDE DEF a, base
      <4>2. sold[r] - a - base[r] = n + d /\ n \in Int
        BY <2>3, <3>0, <4>1
      <4>3. Size - (n + d) <= Adjusted
        BY <2>3, <3>0, <3>1, <3>3, <4>2, SizeAssumption DEF SizeAssumption
      <4> HIDE DEF n
      <4>4. 0 <= n + d
        BY <2>3, <3>1, <4>2
      <4>5. \A copy \in LedgerRow : Covers(copy, n) => Covers(copy, n + d)
        BY <2>3, <4>2, CoversMore
      <4>6. Covers(row'[r], n + d)
        <5>1. CASE row[r].status = "open"
          BY <1>3, <3>3, <4>3, <5>1 DEF Covers
        <5>2. CASE row[r].status # "open"
          <6>1. Covers(row[r], n + d)
            BY <1>2, <3>1, <4>5
          <6> QED BY <1>3, <3>3, <5>2, <6>1 DEF Covers
        <5> QED BY <5>1, <5>2
      <4>7. \A t \in Runs : mon[t].step = "read" /\ mon[t].at = r => Covers(mon[t].loaded, n + d)
        BY <1>2, <3>1, <4>5 DEF Typed, TypeOK, RunState
      <4>8. sold[r] - Work(mon, r) - base[r] = n + d
        BY <4>2 DEF a
      <4> QED BY <1>1, <4>4, <4>6, <4>7, <4>8 DEF Backs
    <3> QED BY <3>2, <3>3
  <2> HIDE DEF base
  <2>7. Balanced'
    BY <2>5, <2>6 DEF Balanced, Total
  <2> QED BY <2>4, <2>7
<1> QED BY <1>4, <1>5, <1>7

(* While something is held, the survey closes no row. *)
LEMMA ClosesCounts ==
  ASSUME Counts, Typed', SrvCloses
  PROVE  Backed' /\ Static' /\ Tracked' /\ Summed'
<1>1. /\ UNCHANGED <<entry, sold, settled, exited, mon, fx, res, rested, miscounted>>
      /\ row' = [row EXCEPT ![srv.at] = Flush(row[srv.at], srv.loaded, ClosePosition(srv.loaded))]
      /\ wrote' = wrote \cup {srv.at}
      /\ srv.step = "read"
  BY DEF SrvCloses, exchange
<1>2. row \in [Rows -> LedgerRow]
  BY DEF Counts, Typed, TypeOK
<1>3. \A r \in Rows \ {srv.at} : row'[r] = row[r]
  BY <1>1, <1>2
<1>4. Backed' /\ Static'
  BY <1>1 DEF Counts, Backed, Static
<1>5. Tracked'
  BY <1>1, <1>3 DEF Counts, Tracked, Backs
<1>6. Held' = Held
  BY <1>1 DEF Held, Total, Left
<1>7. ~(rested = {} /\ ~settled /\ ~miscounted /\ Held > 0)
  BY <1>1 DEF Counts, Summed
<1>8. Summed'
  BY <1>1, <1>6, <1>7 DEF Summed
<1> QED BY <1>4, <1>5, <1>8

-----------------------------------------------------------------------------
(* The counts hold at first and every step keeps them.                     *)

LEMMA InitCounts == Init => Counts
<1> SUFFICES ASSUME Init PROVE Counts
  OBVIOUS
<1>1. Typed /\ IInv
  BY InitTyped, InitIInv
<1>2. /\ \A t \in Runs : mon[t].step = "idle"
      /\ \A r \in Rows : /\ fx[r].step = "idle" /\ res[r].step = "idle"
                         /\ sold[r] = 0 /\ exited[r] = 0
      /\ srv.step = "idle"
  BY IdleTypes DEF Init, IdleRes, Nothing
<1>3. \A r \in Rows : Work(mon, r) = 0
  BY <1>2, NoWork
<1>4. Backed
  <2>1. \A r \in Rows : Recordable(sold, mon, fx, r) = 0
    <3> SUFFICES ASSUME NEW r \in Rows PROVE Recordable(sold, mon, fx, r) = 0
      OBVIOUS
    <3>1. Work(mon, r) = 0 /\ Owed(fx[r]) = 0 /\ sold[r] = 0
      BY <1>2, <1>3 DEF Owed
    <3> QED BY <3>1 DEF Recordable
  <2> QED BY <1>2, <2>1 DEF Backed
<1>5. Static
  <2>1. /\ entry \in [Rows -> [status: {"resting", "executed"}, filled: 1..Size]]
        /\ \A r \in Rows : /\ entry[r].status = "resting" <=> r \in rested
                           /\ entry[r].filled = Size <=> r \notin rested
    BY DEF Init
  <2> QED BY <1>2, <2>1 DEF Static
<1>6. \A r \in Rows : row[r].status = "open" /\ row[r].contracts = entry[r].filled
  BY DEF Init
<1>7. \A r \in Rows \ rested : Backs(row, sold, mon, 0, r)
  <2> SUFFICES ASSUME NEW r \in Rows \ rested PROVE Backs(row, sold, mon, 0, r)
    OBVIOUS
  <2>1. sold[r] - Work(mon, r) - 0 = 0
    BY <1>2, <1>3
  <2>2. Covers(row[r], 0)
    BY <1>5, <1>6, SizeAssumption DEF Covers, Static, SizeAssumption
  <2> QED BY <1>2, <2>1, <2>2 DEF Backs
<1>8. Tracked
  BY <1>7 DEF Tracked
<1>9. Bounded
  <2>1. \A r \in Rows : entry[r].filled <= Size
    BY <1>1, SizeAssumption DEF Typed, TypeOK, SizeAssumption
  <2> QED BY <1>2, <1>6, <2>1 DEF Bounded
<1>10. rested = {} => Balanced
  <2> DEFINE base == [r \in Rows |-> 0]
  <2>1. base \in [Rows -> Int] /\ \A r \in Rows : base[r] = 0
    OBVIOUS
  <2>2. rested = {} => \A r \in Rows : Backs(row, sold, mon, base[r], r)
    BY <1>7
  <2> HIDE DEF base
  <2>3. Total(base) = 0
    BY <2>1, SumZero, ExitsAssumption DEF Total, ExitsAssumption
  <2> QED BY <2>1, <2>2, <2>3 DEF Balanced
<1>11. Summed
  BY <1>2, <1>9, <1>10 DEF Summed
<1> QED BY <1>1, <1>4, <1>5, <1>8, <1>11 DEF Counts

LEMMA NextCounts ==
  ASSUME Counts, [Next]_vars
  PROVE  Counts'
<1>1. Typed' /\ IInv'
  BY NextTyped, NextIInv DEF Counts
<1>2. CASE UNCHANGED vars
  <2>1. UNCHANGED <<entry, sold, settled, row, exited, mon, fx, res, srv, rested, wrote, miscounted>>
    BY <1>2 DEF vars, exchange, ledger, survey
  <2> QED BY <1>1, <2>1, QuietStep DEF Counts
<1>3. CASE Survey
  <2>1. Backed' /\ Static' /\ Tracked' /\ Summed'
    BY <1>1, <1>3, LooksCount, AdjustsCounts, ClosesCounts DEF Survey
  <2> QED BY <1>1, <2>1 DEF Counts
<1>4. CASE Next /\ ~Survey
  <2>1. Backed' /\ Static' /\ Tracked' /\ Summed'
    BY <1>1, <1>4, ResolvesCounts, RestartCounts, EntryCounts, ForceCounts, SettleCounts,
       RunCounts DEF Next
  <2> QED BY <1>1, <2>1 DEF Counts
<1> QED BY <1>2, <1>3, <1>4

(* Every variable keeps its type: a share of the net position, an exit count *)
(* and the contracts of a row are never negative.                            *)
THEOREM ExitTypes == Spec => []TypeOK
<1>1. Counts /\ [Next]_vars => Counts'
  BY NextCounts
<1>2. Counts => TypeOK
  BY DEF Counts, Typed
<1> QED BY InitCounts, <1>1, <1>2, PTL DEF Spec

(* However many runs, force exits, restarts and lost replies there are, the  *)
(* ledger never counts more contracts as exited than the exchange sold for   *)
(* the row: updates may be lost between sessions, and are never made twice.  *)
THEOREM RecordedSalesAreReal == Spec => []RecordedWasSold
<1>1. Counts /\ [Next]_vars => Counts'
  BY NextCounts
<1>2. Counts => RecordedWasSold
  <2> SUFFICES ASSUME Counts, NEW r \in Rows PROVE exited[r] <= sold[r]
    BY DEF RecordedWasSold
  <2>1. exited[r] <= Recordable(sold, mon, fx, r)
    BY DEF Counts, Backed
  <2>2. Work(mon, r) \in Nat /\ Owed(fx[r]) \in Nat /\ sold[r] \in Nat /\ exited[r] \in Nat
    BY WorkType DEF Counts, Typed, TypeOK, Owed, FxState
  <2> QED BY <2>1, <2>2 DEF Recordable
<1> QED BY InitCounts, <1>1, <1>2, PTL DEF Spec

(* Until the market resolves, however runs of check_all_positions, late      *)
(* events, force exits, drift surveys and restarts write over each other: a   *)
(* row whose entry filled at once, that neither a survey nor a force exit has *)
(* written, counts at least what is left of it; and the rows together count  *)
(* what is held, shifted as their counts may be, unless a survey recounted   *)
(* them across a sale, or a force exit was recorded.                         *)
THEOREM HeldContractsAreTracked == Spec => []HeldIsTracked
<1>1. Counts /\ [Next]_vars => Counts'
  BY NextCounts
<1>2. Counts => HeldIsTracked
  <2> SUFFICES ASSUME Counts, ~settled PROVE HeldIsTracked
    BY DEF HeldIsTracked
  <2>1. ASSUME NEW r \in Rows \ (rested \cup wrote)
        PROVE  Left(r) <= Count(r)
    <3> DEFINE a == Work(mon, r)
               c == Count(r)
    <3>1. a \in Nat /\ sold[r] \in Nat /\ c \in Nat /\ entry[r].filled = Size
      BY WorkType, CountType DEF Counts, Static, Typed, TypeOK
    <3>2. Size - (sold[r] - a - 0) <= c
      BY DEF Counts, Tracked, Backs, Covers, Count, IsOpen
    <3> HIDE DEF a, c
    <3>3. Size - sold[r] <= c
      BY <3>1, <3>2, SizeAssumption DEF SizeAssumption
    <3> QED BY <3>1, <3>3 DEF Left, c
  <2>2. ASSUME rested = {}, ~miscounted
        PROVE  Held <= Total([r \in Rows |-> Count(r)])
    <3>1. Held \in Int /\ Total([r \in Rows |-> Count(r)]) \in Nat
      BY HeldType, CountType DEF Counts
    <3>2. Held > 0 => Held <= Total([r \in Rows |-> Count(r)])
      BY <2>2, HeldCovered DEF Counts, Summed
    <3> QED BY <3>1, <3>2
  <2> QED BY <2>1, <2>2 DEF HeldIsTracked
<1> QED BY InitCounts, <1>1, <1>2, PTL DEF Spec

-----------------------------------------------------------------------------
(* ExitLadder: what one position costs, is paid and remembers. *)

(* The priced position.                                                    *)
Deltas == -L!Dollar .. L!Dollar \cup {L!None}
Reasons == {"none", "market_resolved", "stoploss", "trailing_stop", "cancelled"}
             \cup L!Discretionary
PositionType ==
  [status : {"pending", "open", "closed"}, entry : L!Cents, contracts : Nat, acc : Int,
   fees : Nat, filled : Nat, mae : Deltas, mfe : Deltas, exit : Int, reason : Reasons, pnl : Int]
SeenType == [high : L!Cents, peak : Int, low : L!Cents]

LadderTyped ==
  /\ side \in {"YES", "NO"} /\ mode \in {"paper", "live"}
  /\ book \in L!Books /\ result \in L!Cents \cup {L!None} /\ terminal \in BOOLEAN
  /\ position \in PositionType /\ seen \in SeenType
  /\ peak \in Int /\ best \in Deltas /\ worst \in Deltas /\ cash \in Int

(* What an open row has cost is what its remaining contracts cost, less    *)
(* what the exits so far brought in above their share of it.               *)
Booked ==
  /\ position.contracts + position.filled = Contracts
  /\ position.filled = 0 => position.acc = 0 /\ position.fees = 0
  /\ position.status = "pending" => mode = "paper" /\ cash = 0 /\ position.filled = 0
  /\ position.status = "open" =>
       /\ position.contracts > 0
       /\ cash = position.acc - position.fees - L!PaidFee - position.entry * position.contracts
  /\ L!BooksBalance

(* The row has what the monitor remembers, and the monitor may remember    *)
(* nothing; both reach as far as the bids of the passes.                   *)
Remembered ==
  /\ best = L!None <=> worst = L!None
  /\ position.status = "pending" =>
       position.mae = L!None /\ position.mfe = L!None /\ best = L!None
  /\ position.status = "open" =>
       /\ position.mae = L!None <=> position.mfe = L!None
       /\ position.mae = L!None => best = L!None /\ seen.high = 0 /\ seen.low = L!Dollar
       /\ position.mae # L!None =>
            /\ position.mfe >= seen.high - position.entry
            /\ position.mae <= seen.low - position.entry
       /\ best # L!None => best = position.mfe /\ worst = position.mae

LadderInv == LadderTyped /\ Booked /\ Remembered

-----------------------------------------------------------------------------
LEMMA LadderConstants ==
  /\ Quotes \subseteq L!Cents /\ Contracts \in Nat \ {0} /\ EntryFee \in Nat /\ ExitFee \in Nat
  /\ Stop \in L!Cents /\ ArmAt \in L!Cents /\ Trail \in L!Cents
  /\ Modes \subseteq {"paper", "live"} /\ Trailing \in BOOLEAN /\ OnExchange \in BOOLEAN
  /\ LimitExit \in BOOLEAN
BY LadderAssumption DEF L!QuotesAssumption, L!SizeAssumption, L!StopAssumption,
   L!FeeAssumption, L!FlagAssumption, L!ModeAssumption

LEMMA MaxOfTwo ==
  ASSUME NEW a \in Int, NEW b \in Int
  PROVE  L!Max({a, b}) = IF a >= b THEN a ELSE b
<1>1. PICK m \in {a, b} : \A y \in {a, b} : m >= y
  OBVIOUS
<1> QED BY <1>1 DEF L!Max

LEMMA MinOfTwo ==
  ASSUME NEW a \in Int, NEW b \in Int
  PROVE  L!Min({a, b}) = IF a <= b THEN a ELSE b
<1>1. PICK m \in {a, b} : \A y \in {a, b} : m <= y
  OBVIOUS
<1> QED BY <1>1 DEF L!Min

LEMMA Times ==
  ASSUME NEW a \in Int, NEW b \in Int, NEW n \in Int, NEW k \in Int
  PROVE  /\ a * n \in Int /\ (a - b) * n = a * n - b * n /\ b * (k - n) = b * k - b * n
         /\ a * 0 = 0 /\ (a - a) * n = 0
OBVIOUS

LEMMA PricesTyped ==
  ASSUME LadderTyped
  PROVE  /\ L!CurrentPrice \in L!Cents /\ L!CurrentAsk \in L!Cents /\ L!PaidFee \in Nat
         /\ L!EffectivePrice \in L!Cents /\ L!OfSide(book.last) \in L!Cents
         /\ result # L!None => L!OfSide(result) \in L!Cents
         /\ L!PeakPrice \in Int /\ L!StopLevel(L!PeakPrice) \in Int /\ L!ExchangeStopPrice \in Int
<1> USE DEF L!Cents, L!Dollar, L!None
<1>1. /\ book.bid \in 0 .. 100 /\ book.ask \in 0 .. 100 /\ book.last \in 0 .. 100
      /\ position.entry \in 0 .. 100
  BY LadderConstants DEF LadderTyped, L!Books, PositionType
<1>2. L!CurrentPrice \in 0 .. 100 /\ L!CurrentAsk \in 0 .. 100 /\ L!OfSide(book.last) \in 0 .. 100
  BY <1>1 DEF L!CurrentPrice, L!CurrentAsk, L!OfSide
<1>3. L!EffectivePrice \in 0 .. 100 /\ (result # L!None => L!OfSide(result) \in 0 .. 100)
  BY <1>2 DEF L!EffectivePrice, L!OfSide, LadderTyped
<1>4. L!PeakPrice \in Int /\ L!StopLevel(L!PeakPrice) \in Int /\ L!PaidFee \in Nat
  BY <1>1, LadderConstants DEF LadderTyped, L!PeakPrice, L!StopLevel, L!TrailDistance, L!PaidFee
<1>5. L!ExchangeStopPrice \in Int
  <2>1. ((position.entry - Stop) * 99) \div 100 \in Int
    BY <1>1, LadderConstants
  <2> QED BY <2>1, MaxOfTwo DEF L!ExchangeStopPrice
<1> QED BY <1>2, <1>3, <1>4, <1>5

(* Every exit has a reason and a price.                                    *)
LEMMA ExitTyped ==
  ASSUME LadderTyped, NEW wish \in L!Wishes, L!EvaluateExit(wish) # L!Hold
  PROVE  L!EvaluateExit(wish).price \in Int /\ L!EvaluateExit(wish).reason \in Reasons
<1> DEFINE e == L!EvaluateExit(wish)
<1>1. \/ result # L!None /\ e = L!Exit("market_resolved", L!OfSide(result))
      \/ \E p \in {L!ExchangeStopPrice, L!EffectivePrice} : e = L!Exit("stoploss", p)
      \/ \E p \in {L!StopLevel(L!PeakPrice), L!EffectivePrice} : e = L!Exit("trailing_stop", p)
      \/ wish # "none" /\ e = L!Exit(wish, L!EffectivePrice)
      \/ e = L!Exit("market_resolved", L!EffectivePrice)
  BY DEF L!EvaluateExit
<1>2. wish # "none" => wish \in L!Discretionary
  BY DEF L!Wishes
<1> HIDE DEF e
<1>3. e.price \in Int /\ e.reason \in Reasons
  BY <1>1, <1>2, PricesTyped DEF L!Exit, Reasons, L!Cents, L!Dollar
<1> QED BY <1>3 DEF e

(* The higher of two deltas covers the higher of two prices, the lower the *)
(* lower.                                                                  *)
LEMMA Covering ==
  ASSUME NEW p \in Int, NEW now \in 0 .. 100, NEW e \in Int, NEW h \in Int
  PROVE  /\ p >= h - e \/ (h = 0 /\ p = now - e) =>
              (IF p >= now - e THEN p ELSE now - e) >= (IF h >= now THEN h ELSE now) - e
         /\ p <= h - e \/ (h = 100 /\ p = now - e) =>
              (IF p <= now - e THEN p ELSE now - e) <= (IF h <= now THEN h ELSE now) - e
OBVIOUS

(* A pass that leaves r open: memory, row and history move together.       *)
LEMMA PassTracked ==
  ASSUME LadderTyped, Remembered, position.status = "open",
         NEW r \in PositionType, r.status = "open", r.entry = position.entry,
         r.mae = position.mae, r.mfe = position.mfe, L!Tracked(r)
  PROVE  /\ Remembered'
         /\ position' \in PositionType /\ seen' \in SeenType
         /\ peak' \in Int /\ best' \in Deltas /\ worst' \in Deltas
         /\ \E a, f \in Deltas : position' = [r EXCEPT !.mae = a, !.mfe = f]
<1> USE DEF L!Cents, L!Dollar, L!None
<1> DEFINE now == L!CurrentPrice
           d == now - position.entry
<1>1. /\ now \in 0 .. 100 /\ d \in -100 .. 100 /\ position.entry \in 0 .. 100
      /\ d = now - position.entry
  BY PricesTyped DEF LadderTyped, PositionType
<1>2. /\ seen.high \in 0 .. 100 /\ seen.low \in 0 .. 100 /\ seen.peak \in Int
      /\ position.mae \in Deltas /\ position.mfe \in Deltas
  BY DEF LadderTyped, SeenType, PositionType
<1>0. /\ L!PrevBest = IF best # L!None THEN best ELSE IF position.mfe # L!None THEN position.mfe ELSE d
      /\ L!PrevWorst = IF worst # L!None THEN worst ELSE IF position.mae # L!None THEN position.mae ELSE d
      /\ L!NewBest = L!Max({L!PrevBest, d}) /\ L!NewWorst = L!Min({L!PrevWorst, d})
      /\ peak' = L!PeakAfter(now)
      /\ seen' = [high |-> L!Max({seen.high, now}), peak |-> L!Max({seen.peak, now}),
                 low  |-> L!Min({seen.low, now})]
  BY DEF L!PrevBest, L!PrevWorst, L!NewBest, L!NewWorst, L!Tracked
<1> HIDE DEF now, d
<1>3. /\ best' = (IF L!PrevBest >= d THEN L!PrevBest ELSE d)
      /\ worst' = (IF L!PrevWorst <= d THEN L!PrevWorst ELSE d)
      /\ L!PrevBest \in -100 .. 100 /\ L!PrevWorst \in -100 .. 100
      /\ L!NewBest = best' /\ L!NewWorst = worst'
  <2>1. L!PrevBest \in -100 .. 100 /\ L!PrevWorst \in -100 .. 100
    BY <1>0, <1>1, <1>2 DEF Deltas, LadderTyped, Remembered
  <2>3. /\ L!NewBest = (IF L!PrevBest >= d THEN L!PrevBest ELSE d)
        /\ L!NewWorst = (IF L!PrevWorst <= d THEN L!PrevWorst ELSE d)
    <3>1. d \in Int /\ L!PrevBest \in Int /\ L!PrevWorst \in Int
      BY <1>1, <2>1
    <3>2. L!Max({L!PrevBest, d}) = (IF L!PrevBest >= d THEN L!PrevBest ELSE d)
      BY <3>1, MaxOfTwo
    <3>3. L!Min({L!PrevWorst, d}) = (IF L!PrevWorst <= d THEN L!PrevWorst ELSE d)
      BY <3>1, MinOfTwo
    <3> QED BY <1>0, <3>2, <3>3
  <2> QED BY <2>1, <2>3 DEF L!Tracked
<1>4. best' \in -100 .. 100 /\ worst' \in -100 .. 100
  BY <1>1, <1>3
<1>5. /\ seen'.high = (IF seen.high >= now THEN seen.high ELSE now)
      /\ seen'.low = (IF seen.low <= now THEN seen.low ELSE now)
      /\ seen' \in SeenType
  <2>1. now \in Int /\ seen.high \in Int /\ seen.low \in Int /\ seen.peak \in Int
    BY <1>1, <1>2
  <2>2. L!Max({seen.high, now}) = (IF seen.high >= now THEN seen.high ELSE now)
    BY <2>1, MaxOfTwo
  <2>3. L!Max({seen.peak, now}) = (IF seen.peak >= now THEN seen.peak ELSE now)
    BY <2>1, MaxOfTwo
  <2>4. L!Min({seen.low, now}) = (IF seen.low <= now THEN seen.low ELSE now)
    BY <2>1, MinOfTwo
  <2> QED BY <1>0, <1>1, <1>2, <2>2, <2>3, <2>4 DEF SeenType
<1>6. peak' \in Int
  BY <1>0, <1>1 DEF L!PeakAfter, LadderTyped
<1>7. position' = IF L!NewExtreme THEN [r EXCEPT !.mae = worst', !.mfe = best'] ELSE r
  BY <1>3 DEF L!Tracked
<1>8. position' \in PositionType /\ \E a, f \in Deltas : position' = [r EXCEPT !.mae = a, !.mfe = f]
  <2>1. CASE L!NewExtreme
    <3>1. best' \in Deltas /\ worst' \in Deltas
      BY <1>4 DEF Deltas
    <3> QED BY <1>7, <2>1, <3>1 DEF PositionType
  <2>2. CASE ~L!NewExtreme
    <3>1. position' = [r EXCEPT !.mae = r.mae, !.mfe = r.mfe]
      BY <1>7, <2>2 DEF PositionType
    <3> QED BY <1>2, <1>7, <2>2, <3>1
  <2> QED BY <2>1, <2>2
<1>9. position'.mae = worst' /\ position'.mfe = best'
  <2>1. CASE L!NewExtreme
    BY <1>7, <2>1 DEF PositionType
  <2>2. CASE ~L!NewExtreme
    <3>1. position' = r /\ best' = L!PrevBest /\ worst' = L!PrevWorst
      <4>1. ~(best' > L!PrevBest) /\ ~(worst' < L!PrevWorst) /\ position' = r
        BY <1>3, <1>7, <2>2 DEF L!NewExtreme
      <4> QED BY <1>1, <1>3, <4>1
    <3>2. best # L!None \/ position.mae # L!None
      BY <2>2 DEF L!NewExtreme
    <3> QED BY <1>0, <1>7, <2>2, <3>1, <3>2 DEF Remembered
  <2> QED BY <2>1, <2>2
<1>10. best' >= seen'.high - position.entry /\ worst' <= seen'.low - position.entry
  <2>1. /\ position.mfe # L!None => position.mfe >= seen.high - position.entry
        /\ position.mae # L!None => position.mae <= seen.low - position.entry
        /\ position.mfe = L!None => seen.high = 0 /\ best = L!None
        /\ position.mae = L!None => seen.low = 100 /\ worst = L!None
        /\ best # L!None => best = position.mfe
        /\ worst # L!None => worst = position.mae
    BY DEF Remembered
  <2>2. L!PrevBest >= seen.high - position.entry \/ (seen.high = 0 /\ L!PrevBest = d)
    BY <1>0, <2>1
  <2>3. L!PrevWorst <= seen.low - position.entry \/ (seen.low = 100 /\ L!PrevWorst = d)
    BY <1>0, <2>1
  <2>4. best' >= seen'.high - position.entry
    <3>1. L!PrevBest \in Int /\ now \in 0 .. 100 /\ position.entry \in Int /\ seen.high \in Int
      BY <1>1, <1>2, <1>3
    <3> QED BY <3>1, <1>1, <1>3, <1>5, <2>2, Covering
  <2>5. worst' <= seen'.low - position.entry
    <3>1. L!PrevWorst \in Int /\ now \in 0 .. 100 /\ position.entry \in Int /\ seen.low \in Int
      BY <1>1, <1>2, <1>3
    <3> QED BY <3>1, <1>1, <1>3, <1>5, <2>3, Covering
  <2> QED BY <2>4, <2>5
<1>11. position'.status = "open" /\ position'.entry = position.entry
  BY <1>7 DEF PositionType
<1>12. best' # L!None /\ worst' # L!None /\ best' \in Deltas /\ worst' \in Deltas
  BY <1>4 DEF Deltas
<1>13. Remembered'
  BY <1>9, <1>10, <1>11, <1>12 DEF Remembered
<1> QED BY <1>5, <1>6, <1>8, <1>12, <1>13

-----------------------------------------------------------------------------
(* The actions of the ladder.                                              *)
LEMMA HoldsKept ==
  ASSUME LadderInv, NEW wish \in L!Wishes, L!PassHolds(wish) PROVE LadderInv'
<1>1. /\ position.status = "open" /\ L!Tracked(position)
      /\ UNCHANGED <<side, mode, book, result, terminal, cash>> /\ position \in PositionType
  BY DEF L!PassHolds, L!IsOpen, LadderInv, LadderTyped
<1>2. /\ Remembered' /\ position' \in PositionType /\ seen' \in SeenType
      /\ peak' \in Int /\ best' \in Deltas /\ worst' \in Deltas
      /\ \E a, f \in Deltas : position' = [position EXCEPT !.mae = a, !.mfe = f]
  BY <1>1, PassTracked DEF LadderInv
<1>3. LadderTyped'
  BY <1>1, <1>2 DEF LadderInv, LadderTyped, L!Books
<1>4. Booked'
  BY <1>1, <1>2 DEF LadderInv, Booked, L!BooksBalance, L!PaidFee, PositionType
<1> QED BY <1>2, <1>3, <1>4 DEF LadderInv

(* close_position: what is left is sold at the price, or cancelled.        *)
LEMMA ClosedKept ==
  ASSUME LadderInv, NEW price \in Int, NEW reason \in Reasons,
         position' = L!Closed(price, reason),
         \/ position.status = "open" /\ cash' = cash + price * position.contracts
         \/ position.status = "pending" /\ price = position.entry /\ cash' = cash,
         peak' \in Int, best' \in Deltas, worst' \in Deltas,
         best' = L!None <=> worst' = L!None,
         UNCHANGED <<side, mode, book, result, terminal, seen>>
  PROVE  LadderInv'
<1> DEFINE e == position.entry
           c == position.contracts
<1>1. position' = [position EXCEPT !.status = "closed", !.reason = reason, !.exit = price,
                                   !.pnl = (price - e) * c - L!PaidFee]
  BY DEF L!Closed
<1>2. e \in Int /\ c \in Nat /\ L!PaidFee \in Nat /\ position.acc \in Int /\ position.fees \in Nat
      /\ position.filled \in Nat /\ cash \in Int /\ position \in PositionType
      /\ Contracts \in Nat \ {0} /\ L!PaidFee' = L!PaidFee
  BY PricesTyped, LadderConstants
     DEF LadderInv, LadderTyped, PositionType, L!Cents, L!Dollar, L!PaidFee
<1>3. (price - e) * c = price * c - e * c /\ price * c \in Int /\ e * c \in Int
  BY <1>2, Times
<1>4. position' \in PositionType /\ cash' \in Int
  <2>1. (price - e) * c - L!PaidFee \in Int
    BY <1>2, <1>3
  <2>2. position' \in PositionType
    BY <1>1, <1>2, <2>1 DEF PositionType
  <2> QED BY <1>2, <1>3, <2>2
<1>5. LadderTyped'
  BY <1>4 DEF LadderInv, LadderTyped, L!Books
<1>6. /\ position'.status = "closed" /\ position'.contracts = c /\ position'.filled = position.filled
      /\ position'.acc = position.acc /\ position'.fees = position.fees
      /\ position'.pnl = (price - e) * c - L!PaidFee
  BY <1>1, <1>2 DEF PositionType
<1>7. cash' = position'.pnl + IF position'.filled \in 1 .. (Contracts - 1)
                             THEN position'.acc - position'.fees ELSE 0
  <2> HIDE DEF e, c
  <2>1. CASE position.status = "open" /\ cash' = cash + price * position.contracts
    <3>1. /\ c > 0 /\ c + position.filled = Contracts
          /\ cash = position.acc - position.fees - L!PaidFee - e * c
          /\ position.filled = 0 => position.acc = 0 /\ position.fees = 0
          /\ cash' = cash + price * c
      BY <2>1 DEF LadderInv, Booked, e, c
    <3>2. position.filled = 0 \/ position.filled \in 1 .. (Contracts - 1)
      BY <1>2, <3>1
    <3>3. cash' = price * c - e * c - L!PaidFee + (position.acc - position.fees)
      BY <1>2, <1>3, <3>1
    <3> QED BY <1>2, <1>3, <1>6, <3>1, <3>2, <3>3
  <2>2. CASE position.status = "pending" /\ price = position.entry /\ cash' = cash
    <3>1. position.filled = 0 /\ cash = 0 /\ L!PaidFee = 0 /\ price = e
      BY <2>2 DEF LadderInv, Booked, L!PaidFee, e
    <3>2. (price - e) * c = 0
      BY <1>2, <3>1, Times
    <3> QED BY <1>6, <2>2, <3>1, <3>2
  <2> QED BY <2>1, <2>2
<1>8. Booked'
  BY <1>2, <1>6, <1>7 DEF LadderInv, Booked, L!BooksBalance, L!Unbooked
<1>9. Remembered'
  BY <1>6 DEF Remembered
<1> QED BY <1>5, <1>8, <1>9 DEF LadderInv

LEMMA PaperExitKept ==
  ASSUME LadderInv, NEW wish \in L!Wishes, L!PaperExit(wish) PROVE LadderInv'
<1>1. L!EvaluateExit(wish).price \in Int /\ L!EvaluateExit(wish).reason \in Reasons
  BY ExitTyped DEF L!PaperExit, LadderInv
<1> QED BY <1>1, ClosedKept DEF L!PaperExit, L!IsOpen, L!Forgotten, L!None, Deltas

LEMMA SettleElsewhereKept == ASSUME LadderInv, L!SettleElsewhere PROVE LadderInv'
<1>1. L!OfSide(result) \in Int /\ "market_resolved" \in Reasons
  BY PricesTyped DEF L!SettleElsewhere, LadderInv, L!Cents, L!Dollar, Reasons
<1> QED BY <1>1, ClosedKept DEF L!SettleElsewhere, L!IsOpen, LadderInv, LadderTyped, Remembered

LEMMA PaperCancelKept == ASSUME LadderInv, L!PaperCancel PROVE LadderInv'
<1>1. position.entry \in Int /\ "cancelled" \in Reasons
  BY DEF LadderInv, LadderTyped, PositionType, L!Cents, L!Dollar, Reasons
<1> QED BY <1>1, ClosedKept DEF L!PaperCancel, LadderInv, LadderTyped, Remembered

(* partial_close_position: n contracts are sold at the bid.                *)
LEMMA SoldKept ==
  ASSUME LadderInv, position.status = "open", NEW n \in 1 .. position.contracts,
         NEW price \in Int, NEW reason \in Reasons,
         cash' = cash + price * n - ExitFee,
         IF L!Sold(n, price, reason).status = "closed"
         THEN position' = L!Sold(n, price, reason) /\ L!Forgotten
         ELSE L!Tracked(L!Sold(n, price, reason)),
         UNCHANGED <<side, mode, book, result, terminal>>
  PROVE  LadderInv'
<1> DEFINE e == position.entry
           c == position.contracts
           acc == position.acc + (price - e) * n
           fees == position.fees + ExitFee
           part1 == [position EXCEPT !.acc = acc, !.fees = fees, !.filled = @ + n,
                                     !.contracts = @ - n]
           pnl == acc - L!PaidFee - fees
           gone == [part1 EXCEPT !.status = "closed", !.reason = reason, !.exit = price,
                                 !.pnl = pnl]
<1>1. /\ e \in Int /\ c \in Nat /\ n \in 1 .. c /\ L!PaidFee \in Nat /\ position.acc \in Int
      /\ position.fees \in Nat /\ position.filled \in Nat /\ cash \in Int
      /\ position \in PositionType /\ Contracts \in Nat \ {0} /\ ExitFee \in Nat
      /\ L!PaidFee' = L!PaidFee
  BY PricesTyped, LadderConstants
     DEF LadderInv, LadderTyped, PositionType, L!Cents, L!Dollar, L!PaidFee
<1>2. /\ c + position.filled = Contracts
      /\ cash = position.acc - position.fees - L!PaidFee - e * c
  BY DEF LadderInv, Booked
<1>3. /\ (price - e) * n = price * n - e * n /\ price * n \in Int /\ e * n \in Int
      /\ e * c \in Int /\ e * (c - n) = e * c - e * n /\ e * 0 = 0
  BY <1>1, Times
<1>4. acc \in Int /\ fees \in Nat /\ position.filled + n \in Nat \ {0} /\ c - n \in Nat
      /\ pnl \in Int
  BY <1>1, <1>3
<1>5. part1 \in PositionType /\ gone \in PositionType
  <2> HIDE DEF acc, fees, pnl
  <2> QED BY <1>1, <1>4 DEF PositionType
<1>6. cash' \in Int /\ cash' = acc - fees - L!PaidFee - e * (c - n)
  BY <1>1, <1>2, <1>3
<1>7. L!Sold(n, price, reason) = IF n < c THEN part1 ELSE gone
  BY DEF L!Sold
<1>8. /\ part1.entry = e /\ part1.mae = position.mae /\ part1.mfe = position.mfe
      /\ part1.status = "open" /\ part1.contracts = c - n /\ part1.filled = position.filled + n
      /\ part1.acc = acc /\ part1.fees = fees
      /\ gone.status = "closed" /\ gone.contracts = c - n /\ gone.filled = position.filled + n
      /\ gone.acc = acc /\ gone.fees = fees /\ gone.pnl = pnl
  <2> HIDE DEF acc, fees, pnl
  <2> QED BY <1>1 DEF PositionType
<1> HIDE DEF acc, fees, part1, gone, e, c
<1>9. CASE n < c
  <2>1. L!Tracked(part1)
    BY <1>7, <1>8, <1>9
  <2>2. /\ Remembered' /\ position' \in PositionType /\ seen' \in SeenType
        /\ peak' \in Int /\ best' \in Deltas /\ worst' \in Deltas
        /\ \E a, f \in Deltas : position' = [part1 EXCEPT !.mae = a, !.mfe = f]
    <3>1. part1.entry = position.entry
      BY <1>8 DEF e
    <3> QED BY <1>5, <1>8, <2>1, <3>1, PassTracked DEF LadderInv
  <2>3. LadderTyped'
    BY <1>6, <2>2 DEF LadderInv, LadderTyped, L!Books
  <2>4. /\ position'.status = "open" /\ position'.entry = e /\ position'.contracts = c - n
        /\ position'.filled = position.filled + n /\ position'.acc = acc /\ position'.fees = fees
    BY <1>5, <1>8, <2>2 DEF PositionType
  <2>5. Booked'
    BY <1>1, <1>2, <1>4, <1>6, <1>9, <2>4 DEF Booked, L!BooksBalance
  <2> QED BY <2>2, <2>3, <2>5 DEF LadderInv
<1>10. CASE ~(n < c)
  <2>1. position' = gone /\ L!Forgotten /\ n = c /\ c - n = 0
    <3>1. n = c
      BY <1>1, <1>10
    <3> QED BY <1>1, <1>7, <1>8, <1>10, <3>1
  <2>2. LadderTyped' /\ best' = L!None /\ worst' = L!None
    BY <1>5, <1>6, <2>1 DEF LadderInv, LadderTyped, L!Books, L!Forgotten, L!None, Deltas
  <2>3. position'.filled \notin 1 .. (Contracts - 1) /\ position'.filled = Contracts
    BY <1>1, <1>2, <1>8, <2>1
  <2>4. cash' = position'.pnl
    BY <1>1, <1>3, <1>4, <1>6, <1>8, <2>1 DEF pnl
  <2>5. Booked'
    BY <1>1, <1>4, <1>8, <2>1, <2>3, <2>4 DEF Booked, L!BooksBalance, L!Unbooked
  <2>6. Remembered'
    BY <1>8, <2>1, <2>2 DEF Remembered
  <2> QED BY <2>2, <2>5, <2>6 DEF LadderInv
<1> QED BY <1>9, <1>10

LEMMA LiveExitKept ==
  ASSUME LadderInv, NEW wish \in L!Wishes, L!LiveExit(wish) PROVE LadderInv'
<1>1. L!EvaluateExit(wish).reason \in Reasons /\ L!CurrentPrice \in Int
  BY ExitTyped, PricesTyped DEF L!LiveExit, LadderInv, L!Cents, L!Dollar
<1> QED BY <1>1, SoldKept DEF L!LiveExit, L!IsOpen

(* A resting paper order fills at the better of two prices.                *)
LEMMA PaperFillKept == ASSUME LadderInv, L!PaperFill PROVE LadderInv'
<1> DEFINE price == L!Min({L!CurrentAsk, position.entry})
<1>1. price \in L!Cents
  <2>1. L!CurrentAsk \in 0 .. 100 /\ position.entry \in 0 .. 100
    BY PricesTyped DEF LadderInv, LadderTyped, PositionType, L!Cents, L!Dollar
  <2>2. L!CurrentAsk \in Int /\ position.entry \in Int
    BY <2>1
  <2>3. price = IF L!CurrentAsk <= position.entry THEN L!CurrentAsk ELSE position.entry
    BY ONLY <2>2, MinOfTwo
  <2> HIDE DEF price
  <2> QED BY <2>1, <2>3 DEF L!Cents, L!Dollar
<1> HIDE DEF price
<1>2. /\ position' = [position EXCEPT !.status = "open", !.entry = price]
      /\ cash' = -(position'.entry * Contracts)
      /\ seen' = [high |-> 0, peak |-> position'.entry, low |-> L!Dollar]
      /\ position.status = "pending"
      /\ UNCHANGED <<side, mode, book, result, terminal, peak, best, worst>>
  BY DEF L!PaperFill, price
<1>3. /\ position' \in PositionType /\ position'.entry = price /\ position'.status = "open"
      /\ position'.contracts = position.contracts /\ position'.filled = position.filled
      /\ position'.acc = position.acc /\ position'.fees = position.fees
      /\ position'.mae = position.mae /\ position'.mfe = position.mfe
  BY <1>1, <1>2 DEF LadderInv, LadderTyped, PositionType
<1>4. /\ position.filled = 0 /\ position.contracts = Contracts /\ L!PaidFee' = 0
      /\ position.acc = 0 /\ position.fees = 0
  BY <1>2, LadderConstants DEF LadderInv, LadderTyped, PositionType, Booked, L!PaidFee
<1>5. price * Contracts \in Int /\ Contracts > 0
  BY <1>1, LadderConstants, Times DEF L!Cents, L!Dollar
<1>6. LadderTyped'
  BY <1>1, <1>2, <1>3, <1>5 DEF LadderInv, LadderTyped, L!Books, SeenType, L!Cents, L!Dollar
<1>7. Booked'
  BY <1>2, <1>3, <1>4, <1>5 DEF LadderInv, Booked, L!BooksBalance
<1>8. Remembered'
  BY <1>2, <1>3 DEF LadderInv, Remembered
<1> QED BY <1>6, <1>7, <1>8 DEF LadderInv

LEMMA MarketKept ==
  ASSUME LadderInv,
         L!Restart \/ L!Quote \/ L!Settle \/ L!Finalize \/ UNCHANGED L!vars
  PROVE  LadderInv'
<1>1. /\ UNCHANGED <<side, mode, position, cash>> /\ seen'.high = seen.high /\ seen'.low = seen.low
      /\ \/ UNCHANGED <<best, worst>>
         \/ best' = L!None /\ worst' = L!None
  BY DEF L!Restart, L!Quote, L!Settle, L!Finalize, L!vars, LadderInv, LadderTyped, SeenType
<1>2. /\ book' \in L!Books /\ result' \in L!Cents \cup {L!None} /\ terminal' \in BOOLEAN
      /\ seen' \in SeenType /\ peak' \in Int /\ best' \in Deltas /\ worst' \in Deltas
  <2>1. L!None \in Deltas /\ L!None \in Int /\ position.entry \in Int
    BY DEF Deltas, L!None, LadderInv, LadderTyped, PositionType, L!Cents, L!Dollar
  <2>2. CASE L!Restart
    BY <2>1, <2>2 DEF L!Restart, LadderInv, LadderTyped, SeenType, L!Books
  <2>3. CASE L!Quote
    BY <2>3 DEF L!Quote, LadderInv, LadderTyped, L!Books
  <2>4. CASE L!Settle
    BY <2>4, LadderConstants DEF L!Settle, LadderInv, LadderTyped, L!Books
  <2>5. CASE L!Finalize \/ UNCHANGED L!vars
    BY <2>5 DEF L!Finalize, L!vars, LadderInv, LadderTyped, L!Books
  <2> QED BY <2>2, <2>3, <2>4, <2>5
<1>3. LadderTyped'
  BY <1>1, <1>2 DEF LadderInv, LadderTyped, L!Books
<1>4. Booked'
  BY <1>1 DEF LadderInv, Booked, L!BooksBalance, L!Unbooked, L!PaidFee
<1>5. Remembered'
  BY <1>1 DEF LadderInv, Remembered
<1> QED BY <1>3, <1>4, <1>5 DEF LadderInv

LEMMA LadderStep == ASSUME LadderInv, [L!Next]_L!vars PROVE LadderInv'
<1>1. ASSUME NEW wish \in L!Wishes,
             L!PassHolds(wish) \/ L!PassDefers(wish) \/ L!PaperExit(wish) \/ L!LiveExit(wish)
      PROVE  LadderInv'
  BY <1>1, HoldsKept, PaperExitKept, LiveExitKept, MarketKept DEF L!PassDefers
<1> QED BY <1>1, PaperFillKept, PaperCancelKept, SettleElsewhereKept, MarketKept DEF L!Next, L!Pass

LEMMA LadderStart == ASSUME L!Init PROVE LadderInv
<1>1. /\ side \in {"YES", "NO"} /\ mode \in {"paper", "live"} /\ book \in L!Books
      /\ result = L!None /\ terminal = FALSE /\ peak = L!None /\ best = L!None /\ worst = L!None
      /\ seen = [high |-> 0, peak |-> position.entry, low |-> L!Dollar]
  BY LadderConstants DEF L!Init
<1>2. L!CurrentAsk \in L!Cents /\ L!PaidFee \in Nat
  <2>1. book.bid \in 0 .. 100 /\ book.ask \in 0 .. 100
    BY <1>1, LadderConstants DEF L!Books, L!Cents, L!Dollar
  <2>2. L!CurrentAsk \in 0 .. 100
    BY <2>1 DEF L!CurrentAsk, L!Dollar
  <2> QED BY <2>2, LadderConstants DEF L!PaidFee, L!Cents, L!Dollar
<1>3. \E p \in L!Cents :
        \/ position = L!Entered(p, "open") /\ cash = -(p * Contracts) - L!PaidFee
        \/ mode = "paper" /\ position = L!Entered(p, "pending") /\ cash = 0
  BY <1>2, LadderConstants DEF L!Init
<1>4. PICK p \in L!Cents :
        \/ position = L!Entered(p, "open") /\ cash = -(p * Contracts) - L!PaidFee
        \/ mode = "paper" /\ position = L!Entered(p, "pending") /\ cash = 0
  BY <1>3
<1>5. p \in Int /\ p * Contracts \in Int /\ Contracts \in Nat \ {0}
  BY LadderConstants, Times DEF L!Cents, L!Dollar
<1>6. LadderTyped
  <2>1. position \in PositionType
    BY <1>4, <1>5 DEF L!Entered, PositionType, Deltas, L!None, Reasons
  <2>2. cash \in Int /\ position.entry \in Int
    BY <1>2, <1>4, <1>5, <2>1 DEF PositionType, L!Cents, L!Dollar
  <2>3. L!None \in Deltas /\ L!None \in Int /\ seen \in SeenType
    BY <1>1, <2>2 DEF Deltas, L!None, SeenType, L!Cents, L!Dollar
  <2> QED BY <1>1, <2>1, <2>2, <2>3 DEF LadderTyped
<1>7. Booked
  BY <1>2, <1>4, <1>5 DEF Booked, L!Entered, L!BooksBalance
<1>8. Remembered
  BY <1>1, <1>4 DEF Remembered, L!Entered
<1> QED BY <1>6, <1>7, <1>8 DEF LadderInv

(* The invariant has what is claimed of a position.                        *)
LEMMA LadderHolds ==
  ASSUME LadderInv PROVE L!BooksBalance /\ L!WorthShown /\ L!ExcursionsRemember
<1>1. L!BooksBalance
  BY DEF LadderInv, Booked
<1>2. L!WorthShown
  <2> DEFINE p == L!OfSide(book.last)
             c == position.contracts
             e == position.entry
  <2>1. p \in Int /\ c \in Int /\ e \in Int /\ L!PaidFee \in Int /\ position.acc \in Int
        /\ position.fees \in Int
    BY PricesTyped DEF LadderInv, LadderTyped, PositionType, L!Cents, L!Dollar
  <2>2. ASSUME position.status = "open"
        PROVE  cash + c * p = c * (p - e) - L!PaidFee + position.acc - position.fees
    <3>1. cash = position.acc - position.fees - L!PaidFee - e * c
      BY <2>2 DEF LadderInv, Booked
    <3>2. c * (p - e) = c * p - e * c /\ c * p \in Int /\ e * c \in Int
      BY <2>1
    <3> QED BY <2>1, <3>1, <3>2
  <2> QED BY <2>2 DEF L!WorthShown, L!Unrealized
<1>3. L!ExcursionsRemember
  <2>1. ASSUME position.status = "open", seen.low <= seen.high PROVE position.mae # L!None
    BY <2>1 DEF LadderInv, Remembered, L!Dollar
  <2> QED BY <2>1 DEF L!ExcursionsRemember, LadderInv, Remembered
<1> QED BY <1>1, <1>2, <1>3

-----------------------------------------------------------------------------
(* AlgoExits: candles, and what is worked out from them. *)

Candle == [open : Int, high : Int, low : Int, close : Int, tight : BOOLEAN]

(* Each side saw the last of the ticks, NO upside down.                    *)
TicksInv ==
  /\ buffer \in Seq(Candle)
  /\ history = [YES |-> A!Lately(buffer), NO |-> A!Own("NO", A!Lately(buffer))]
  /\ cache = [s \in A!Sides |-> cache[s]]
  /\ held = A!None \/ held.side \in A!Sides
  /\ A!AnswersCurrent

-----------------------------------------------------------------------------
LEMMA TicksConstants == Keep \in Nat /\ \A t \in Ticks : t[1] \in Int /\ t[2] \in BOOLEAN
<1>1. \A x \in L!Cents \X BOOLEAN : x[1] \in Int /\ x[2] \in BOOLEAN
  BY DEF L!Cents, L!Dollar
<1> QED BY <1>1, TicksAssumption

LEMMA HighOfTwo ==
  ASSUME NEW a \in Int, NEW b \in Int PROVE A!Max({a, b}) = IF a >= b THEN a ELSE b
<1>1. PICK m \in {a, b} : \A y \in {a, b} : m >= y
  OBVIOUS
<1> QED BY <1>1 DEF A!Max

LEMMA LowOfTwo ==
  ASSUME NEW a \in Int, NEW b \in Int PROVE A!Min({a, b}) = IF a <= b THEN a ELSE b
<1>1. PICK m \in {a, b} : \A y \in {a, b} : m <= y
  OBVIOUS
<1> QED BY <1>1 DEF A!Min

(* Candles before the last Keep + 1 are not looked at.                     *)
Passed(n) == IF n - 1 > Keep THEN n - 1 - Keep ELSE 0

LEMMA PassedBounds ==
  ASSUME NEW n \in Nat
  PROVE  /\ Passed(n) \in Nat /\ n - Passed(n) \in Nat /\ n - Passed(n) <= Keep + 1
         /\ Passed(n) > 0 => Passed(n) = n - 1 - Keep
         /\ n = 0 => Passed(n) = 0
         /\ n > 0 => Passed(n) < n
         /\ Passed(n - Passed(n)) = 0
BY TicksConstants DEF Passed

LEMMA LatelyShape ==
  ASSUME NEW b \in Seq(Candle)
  PROVE  /\ A!Lately(b) \in Seq(Candle)
         /\ Len(A!Lately(b)) = Len(b) - Passed(Len(b))
         /\ \A i \in 1 .. Len(b) - Passed(Len(b)) : A!Lately(b)[i] = b[i + Passed(Len(b))]
<1> DEFINE n == Len(b)
           m == Passed(n) + 1
<1>1. n \in Nat /\ Keep \in Nat /\ Passed(n) \in Nat /\ m \in 1 .. n + 1
  <2>1. n \in Nat /\ Keep \in Nat
    BY LenProperties, TicksConstants
  <2>2. Passed(n) \in Nat /\ n - Passed(n) \in Nat
    BY ONLY <2>1, PassedBounds
  <2> QED BY ONLY <2>1, <2>2
<1>2. A!Lately(b) = SubSeq(b, m, n)
  <2>1. A!Max({1, n - Keep}) = IF 1 >= n - Keep THEN 1 ELSE n - Keep
    <3>1. 1 \in Int /\ n - Keep \in Int
      BY <1>1
    <3> QED BY ONLY <3>1, HighOfTwo
  <2>2. A!Max({1, n - Keep}) = m
    BY <1>1, <2>1 DEF Passed
  <2> QED BY <2>2 DEF A!Lately
<1>3. \A i \in m .. n : b[i] \in Candle
  BY <1>1, ElementOfSeq
<1>4. /\ SubSeq(b, m, n) \in Seq(Candle)
      /\ Len(SubSeq(b, m, n)) = IF m <= n THEN n - m + 1 ELSE 0
      /\ \A i \in 1 .. n - m + 1 : SubSeq(b, m, n)[i] = b[m + i - 1]
  <2>1. m \in Int /\ n \in Int
    BY <1>1
  <2> HIDE DEF m, n
  <2> QED BY <2>1, <1>3, SubSeqProperties
<1>5. n - m + 1 = n - Passed(n) /\ \A i \in Int : m + i - 1 = i + Passed(n)
  BY <1>1
<1>6. Len(SubSeq(b, m, n)) = n - Passed(n)
  BY <1>1, <1>4
<1>7. ASSUME NEW i \in 1 .. n - Passed(n) PROVE SubSeq(b, m, n)[i] = b[i + Passed(n)]
  <2>1. i \in 1 .. n - m + 1 /\ m + i - 1 = i + Passed(n)
    BY <1>5
  <2> HIDE DEF m, n
  <2> QED BY <2>1, <1>4
<1> QED BY <1>2, <1>4, <1>6, <1>7

LEMMA CompleteShape ==
  ASSUME NEW b \in Seq(Candle)
  PROVE  /\ A!Complete(b) \in Seq(Candle)
         /\ Len(b) = 0 => Len(A!Complete(b)) = 0
         /\ Len(b) > 0 => Len(A!Complete(b)) = Len(b) - 1 - Passed(Len(b))
         /\ \A i \in 1 .. Len(b) - 1 - Passed(Len(b)) : A!Complete(b)[i] = b[i + Passed(Len(b))]
<1> DEFINE n == Len(b)
           done == SubSeq(b, 1, n - 1)
           k == Len(done)
           m == A!Max({1, k - Keep + 1})
<1>1. n \in Nat /\ Keep \in Nat /\ \A i \in 1 .. n : b[i] \in Candle
  BY LenProperties, TicksConstants, ElementOfSeq
<1>2. /\ done \in Seq(Candle)
      /\ k = (IF 1 <= n - 1 THEN n - 1 ELSE 0) /\ k \in Nat /\ (n > 0 => k = n - 1)
      /\ \A i \in 1 .. n - 1 : done[i] = b[i]
  <2>1. 1 \in Int /\ n - 1 \in Int /\ \A i \in 1 .. n - 1 : b[i] \in Candle
    BY <1>1
  <2>2. /\ done \in Seq(Candle)
        /\ Len(done) = IF 1 <= n - 1 THEN n - 1 - 1 + 1 ELSE 0
        /\ \A i \in 1 .. n - 1 - 1 + 1 : done[i] = b[1 + i - 1]
    <3> HIDE DEF n
    <3> QED BY <2>1, SubSeqProperties
  <2> HIDE DEF done
  <2>3. /\ Len(done) = (IF 1 <= n - 1 THEN n - 1 ELSE 0) /\ Len(done) \in Nat
        /\ n > 0 => Len(done) = n - 1
    <3> HIDE DEF n
    <3> QED BY <1>1, <2>2
  <2>4. ASSUME NEW i \in 1 .. n - 1 PROVE done[i] = b[i]
    <3>1. i \in 1 .. n - 1 - 1 + 1 /\ 1 + i - 1 = i
      BY <1>1
    <3> QED BY <2>2, <3>1
  <2> QED BY <2>2, <2>3, <2>4
<1>3. k \in Nat /\ m = (IF k > Keep THEN k - Keep + 1 ELSE 1)
  <2>1. k \in Nat /\ 1 \in Int /\ k - Keep + 1 \in Int
    BY <1>1, <1>2
  <2>2. m = IF 1 >= k - Keep + 1 THEN 1 ELSE k - Keep + 1
    BY ONLY <2>1, HighOfTwo
  <2> HIDE DEF m, k
  <2> QED BY <1>1, <2>1, <2>2
<1>4. A!Complete(b) = SubSeq(done, m, k)
  BY DEF A!Complete
<1> HIDE DEF m, k, done
<1>5. /\ SubSeq(done, m, k) \in Seq(Candle)
      /\ Len(SubSeq(done, m, k)) = IF m <= k THEN k - m + 1 ELSE 0
      /\ \A i \in 1 .. k - m + 1 : SubSeq(done, m, k)[i] = done[m + i - 1]
  <2>1. m \in Int /\ k \in Int /\ \A i \in m .. k : done[i] \in Candle
    BY <1>1, <1>2, <1>3
  <2> QED BY <2>1, SubSeqProperties
<1>6. CASE n = 0
  BY <1>1, <1>2, <1>3, <1>4, <1>5, <1>6 DEF Passed
<1>7. CASE n > 0
  <2>1. /\ k = n - 1 /\ m = Passed(n) + 1 /\ Passed(n) \in Nat /\ Passed(n) < n
        /\ k - m + 1 = n - 1 - Passed(n)
    <3>1. k = n - 1
      BY <1>2, <1>7
    <3>2. Passed(n) \in Nat /\ Passed(n) < n
      BY <1>1, <1>7, PassedBounds
    <3>3. m = Passed(n) + 1
      BY <1>1, <1>3, <3>1 DEF Passed
    <3> QED BY <1>1, <3>1, <3>2, <3>3
  <2>2. Len(SubSeq(done, m, k)) = n - 1 - Passed(n)
    BY <1>1, <1>5, <2>1
  <2>3. ASSUME NEW i \in 1 .. n - 1 - Passed(n)
        PROVE  SubSeq(done, m, k)[i] = b[i + Passed(n)]
    <3>1. m + i - 1 = i + Passed(n) /\ i + Passed(n) \in 1 .. n - 1
      BY <1>1, <2>1
    <3> QED BY <1>2, <1>5, <2>1, <3>1
  <2> QED BY <1>4, <1>5, <1>7, <2>2, <2>3
<1> QED BY <1>1, <1>6, <1>7

(* A tick makes a candle, or changes the last one.                         *)
Candled(b, p, tight, new) == IF new \/ b = <<>> THEN A!Fresh(p, tight) ELSE A!Grown(b[Len(b)], p, tight)
Longer(b, new) == IF new \/ b = <<>> THEN Len(b) + 1 ELSE Len(b)

LEMMA GrownIs ==
  ASSUME NEW p \in Int, NEW tight \in BOOLEAN, NEW c \in Candle
  PROVE  /\ A!Grown(c, p, tight) = [open |-> c.open, high |-> A!Max({c.high, p}),
                                    low |-> A!Min({c.low, p}), close |-> p, tight |-> tight]
         /\ A!Fresh(p, tight) \in Candle /\ A!Grown(c, p, tight) \in Candle
<1> DEFINE high == A!Max({c.high, p})
           low == A!Min({c.low, p})
<1>1. c.high \in Int /\ c.low \in Int /\ c.open \in Int
  BY DEF Candle
<1>2. /\ high = IF c.high >= p THEN c.high ELSE p
      /\ low = IF c.low <= p THEN c.low ELSE p
  BY ONLY <1>1, p \in Int, HighOfTwo, LowOfTwo
<1>3. A!Grown(c, p, tight) = [c EXCEPT !.high = high, !.low = low, !.close = p, !.tight = tight]
  BY DEF A!Grown
<1> HIDE DEF high, low
<1>4. A!Grown(c, p, tight) = [open |-> c.open, high |-> high, low |-> low, close |-> p, tight |-> tight]
  BY <1>3 DEF Candle
<1>5. high \in Int /\ low \in Int
  BY <1>1, <1>2
<1> QED BY <1>1, <1>4, <1>5 DEF A!Fresh, Candle, high, low

LEMMA InvertedIs ==
  ASSUME NEW c \in Candle
  PROVE  /\ A!Inverted(c) = [open |-> 100 - c.open, high |-> 100 - c.low, low |-> 100 - c.high,
                             close |-> 100 - c.close, tight |-> c.tight]
         /\ A!Inverted(c) \in Candle
<1> DEFINE open == 100 - c.open
           high == 100 - c.low
           low == 100 - c.high
           close == 100 - c.close
<1>1. A!Inverted(c) = [c EXCEPT !.open = open, !.close = close, !.high = high, !.low = low]
  BY DEF A!Inverted, A!Dollar
<1>2. open \in Int /\ high \in Int /\ low \in Int /\ close \in Int /\ c.tight \in BOOLEAN
  BY DEF Candle
<1> HIDE DEF open, high, low, close
<1>3. A!Inverted(c) = [open |-> open, high |-> high, low |-> low, close |-> close, tight |-> c.tight]
  BY <1>1 DEF Candle
<1>4. A!Inverted(c) \in Candle
  BY <1>2, <1>3 DEF Candle
<1> QED BY <1>3, <1>4 DEF open, high, low, close

LEMMA ExtendedShape ==
  ASSUME NEW b \in Seq(Candle), NEW p \in Int, NEW tight \in BOOLEAN, NEW new \in BOOLEAN
  PROVE  /\ A!Extended(b, p, tight, new) \in Seq(Candle)
         /\ Len(A!Extended(b, p, tight, new)) = Longer(b, new)
         /\ \A i \in 1 .. Longer(b, new) - 1 : A!Extended(b, p, tight, new)[i] = b[i]
         /\ A!Extended(b, p, tight, new)[Longer(b, new)] = Candled(b, p, tight, new)
<1> DEFINE e == A!Extended(b, p, tight, new)
<1>1. CASE new \/ b = <<>>
  <2>1. e = Append(b, A!Fresh(p, tight)) /\ Longer(b, new) = Len(b) + 1
        /\ Candled(b, p, tight, new) = A!Fresh(p, tight)
    BY <1>1 DEF A!Extended, Longer, Candled
  <2>2. A!Fresh(p, tight) \in Candle
    BY DEF A!Fresh, Candle
  <2>3. Len(b) \in Nat
    BY LenProperties
  <2> HIDE DEF e
  <2>4. /\ e \in Seq(Candle) /\ Len(e) = Len(b) + 1
        /\ \A i \in 1 .. Len(b) : e[i] = b[i]
        /\ e[Len(b) + 1] = A!Fresh(p, tight)
    BY <2>1, <2>2, AppendProperties
  <2>5. Longer(b, new) - 1 = Len(b)
    BY <2>1, <2>3
  <2> QED BY <2>1, <2>4, <2>5 DEF e
<1>2. CASE ~(new \/ b = <<>>)
  <2>1. Len(b) \in 1 .. Len(b) /\ Len(b) \in Nat
    <3>1. b # <<>> /\ Len(b) \in Nat
      BY <1>2, LenProperties
    <3>2. Len(b) # 0
      BY <3>1, EmptySeq, SeqEqual
    <3> QED BY <3>1, <3>2
  <2>2. e = [b EXCEPT ![Len(b)] = A!Grown(b[Len(b)], p, tight)] /\ Longer(b, new) = Len(b)
        /\ Candled(b, p, tight, new) = A!Grown(b[Len(b)], p, tight)
    BY <1>2 DEF A!Extended, Longer, Candled
  <2>3. A!Grown(b[Len(b)], p, tight) \in Candle
    BY <2>1, ElementOfSeq, GrownIs
  <2> HIDE DEF e
  <2>4. /\ e \in Seq(Candle) /\ Len(e) = Len(b)
        /\ \A j \in 1 .. Len(b) : e[j] = IF j = Len(b) THEN A!Grown(b[Len(b)], p, tight) ELSE b[j]
    BY <2>1, <2>2, <2>3, ExceptSeq
  <2> QED BY <2>1, <2>2, <2>4 DEF e
<1> QED BY <1>1, <1>2

(* What NO sees is the market upside down, candle by candle.               *)
LEMMA OwnShape ==
  ASSUME NEW b \in Seq(Candle)
  PROVE  /\ A!Own("NO", b) \in Seq(Candle) /\ Len(A!Own("NO", b)) = Len(b)
         /\ \A i \in 1 .. Len(b) : A!Own("NO", b)[i] = A!Inverted(b[i])
         /\ A!Own("YES", b) = b
<1>1. DOMAIN b = 1 .. Len(b) /\ Len(b) \in Nat /\ \A i \in 1 .. Len(b) : b[i] \in Candle
  BY LenProperties, ElementOfSeq
<1>2. \A c \in Candle : A!Inverted(c) \in Candle
  BY InvertedIs
<1>3. A!Own("NO", b) = [i \in 1 .. Len(b) |-> A!Inverted(b[i])]
  BY <1>1 DEF A!Own
<1>4. [i \in 1 .. Len(b) |-> A!Inverted(b[i])] \in Seq(Candle)
  BY <1>1, <1>2
<1> QED BY <1>1, <1>3, <1>4 DEF A!Own

LEMMA InvertedCandles ==
  ASSUME NEW p \in Int, NEW tight \in BOOLEAN, NEW c \in Candle
  PROVE  /\ A!Inverted(A!Fresh(p, tight)) = A!Fresh(100 - p, tight)
         /\ A!Inverted(A!Grown(c, p, tight)) = A!Grown(A!Inverted(c), 100 - p, tight)
<1>1. c.high \in Int /\ c.low \in Int /\ 100 - p \in Int /\ 100 - c.low \in Int /\ 100 - c.high \in Int
  BY DEF Candle
<1>2. /\ A!Max({c.high, p}) = IF c.high >= p THEN c.high ELSE p
      /\ A!Min({c.low, p}) = IF c.low <= p THEN c.low ELSE p
      /\ A!Max({100 - c.low, 100 - p}) = IF 100 - c.low >= 100 - p THEN 100 - c.low ELSE 100 - p
      /\ A!Min({100 - c.high, 100 - p}) = IF 100 - c.high <= 100 - p THEN 100 - c.high ELSE 100 - p
  BY ONLY <1>1, p \in Int, HighOfTwo, LowOfTwo
<1>3. /\ A!Max({100 - c.low, 100 - p}) = 100 - A!Min({c.low, p})
      /\ A!Min({100 - c.high, 100 - p}) = 100 - A!Max({c.high, p})
  BY <1>1, <1>2
<1>4. A!Grown(c, p, tight) = [open |-> c.open, high |-> A!Max({c.high, p}),
                              low |-> A!Min({c.low, p}), close |-> p, tight |-> tight]
      /\ A!Grown(c, p, tight) \in Candle /\ A!Fresh(p, tight) \in Candle
  BY GrownIs
<1>5. A!Inverted(c) \in Candle
      /\ A!Inverted(c) = [open |-> 100 - c.open, high |-> 100 - c.low, low |-> 100 - c.high,
                          close |-> 100 - c.close, tight |-> c.tight]
  BY InvertedIs
<1>6. A!Grown(A!Inverted(c), 100 - p, tight)
        = [open |-> 100 - c.open, high |-> A!Max({100 - c.low, 100 - p}),
           low |-> A!Min({100 - c.high, 100 - p}), close |-> 100 - p, tight |-> tight]
  <2>1. A!Grown(A!Inverted(c), 100 - p, tight)
          = [open |-> A!Inverted(c).open, high |-> A!Max({A!Inverted(c).high, 100 - p}),
             low |-> A!Min({A!Inverted(c).low, 100 - p}), close |-> 100 - p, tight |-> tight]
    <3> DEFINE d == A!Inverted(c)
               q == 100 - p
    <3>1. d \in Candle /\ q \in Int
      BY <1>1, <1>5
    <3> HIDE DEF d, q
    <3>2. A!Grown(d, q, tight) = [open |-> d.open, high |-> A!Max({d.high, q}),
                                  low |-> A!Min({d.low, q}), close |-> q, tight |-> tight]
      BY <3>1, GrownIs
    <3> QED BY <3>2 DEF d, q
  <2>2. A!Inverted(c).open = 100 - c.open /\ A!Inverted(c).high = 100 - c.low
        /\ A!Inverted(c).low = 100 - c.high
    BY <1>5
  <2> QED BY <2>1, <2>2
<1>7. A!Inverted(A!Grown(c, p, tight))
        = [open |-> 100 - c.open, high |-> 100 - A!Min({c.low, p}),
           low |-> 100 - A!Max({c.high, p}), close |-> 100 - p, tight |-> tight]
  BY <1>4, InvertedIs
<1>8. A!Inverted(A!Fresh(p, tight)) = A!Fresh(100 - p, tight)
  <2>1. A!Fresh(p, tight) = [open |-> p, high |-> p, low |-> p, close |-> p, tight |-> tight]
    BY DEF A!Fresh
  <2>2. A!Inverted(A!Fresh(p, tight))
          = [open |-> 100 - p, high |-> 100 - p, low |-> 100 - p, close |-> 100 - p, tight |-> tight]
    BY <1>4, <2>1, InvertedIs
  <2> QED BY <2>2 DEF A!Fresh
<1> QED BY <1>3, <1>6, <1>7, <1>8
-----------------------------------------------------------------------------
(* What these operators keep of one another.                               *)
LEMMA Nonempty == ASSUME NEW b \in Seq(Candle) PROVE Len(b) \in Nat /\ (b = <<>> <=> Len(b) = 0)
BY LenProperties, EmptySeq, SeqEqual

LEMMA LatelyTwice == ASSUME NEW b \in Seq(Candle) PROVE A!Lately(A!Lately(b)) = A!Lately(b)
<1> DEFINE h == A!Lately(b)
<1>1. h \in Seq(Candle) /\ Len(h) \in Nat /\ Passed(Len(h)) = 0
  <2>1. h \in Seq(Candle) /\ Len(h) = Len(b) - Passed(Len(b)) /\ Len(b) \in Nat
    BY LatelyShape, LenProperties
  <2> HIDE DEF h
  <2> QED BY <2>1, LenProperties, PassedBounds
<1> HIDE DEF h
<1>2. /\ A!Lately(h) \in Seq(Candle) /\ Len(A!Lately(h)) = Len(h)
      /\ \A i \in 1 .. Len(h) : A!Lately(h)[i] = h[i]
  BY <1>1, LatelyShape
<1> QED BY <1>1, <1>2, SeqEqual DEF h

LEMMA CompleteLately == ASSUME NEW b \in Seq(Candle) PROVE A!Complete(A!Lately(b)) = A!Complete(b)
<1> DEFINE h == A!Lately(b)
           n == Len(b)
           d == Passed(n)
<1>1. /\ h \in Seq(Candle) /\ Len(h) = n - d /\ \A i \in 1 .. n - d : h[i] = b[i + d]
      /\ n \in Nat /\ d \in Nat /\ Passed(n - d) = 0 /\ (n = 0 => d = 0) /\ (n > 0 => d < n)
  BY LatelyShape, LenProperties, PassedBounds
<1>2. /\ A!Complete(b) \in Seq(Candle) /\ (n = 0 => Len(A!Complete(b)) = 0)
      /\ n > 0 => Len(A!Complete(b)) = n - 1 - d
      /\ \A i \in 1 .. n - 1 - d : A!Complete(b)[i] = b[i + d]
  BY CompleteShape
<1> HIDE DEF h, n, d
<1>3. /\ A!Complete(h) \in Seq(Candle) /\ (n - d = 0 => Len(A!Complete(h)) = 0)
      /\ n - d > 0 => Len(A!Complete(h)) = n - d - 1
      /\ \A i \in 1 .. n - d - 1 : A!Complete(h)[i] = h[i]
  <2>1. /\ A!Complete(h) \in Seq(Candle) /\ (Len(h) = 0 => Len(A!Complete(h)) = 0)
        /\ Len(h) > 0 => Len(A!Complete(h)) = Len(h) - 1 - Passed(Len(h))
        /\ \A i \in 1 .. Len(h) - 1 - Passed(Len(h)) : A!Complete(h)[i] = h[i + Passed(Len(h))]
    BY <1>1, CompleteShape
  <2>2. Len(h) = n - d /\ Passed(Len(h)) = 0
    BY <1>1
  <2>3. n - d - 1 - 0 = n - d - 1 /\ \A i \in 1 .. n - d - 1 : i + 0 = i
    BY <1>1
  <2> QED BY <1>1, <2>1, <2>2, <2>3
<1>4. Len(A!Complete(h)) = Len(A!Complete(b)) /\ (n > 0 => Len(A!Complete(h)) = n - 1 - d)
      /\ (n = 0 => Len(A!Complete(h)) = 0)
  BY <1>1, <1>2, <1>3
<1>5. ASSUME NEW i \in 1 .. Len(A!Complete(h)) PROVE A!Complete(h)[i] = A!Complete(b)[i]
  <2>1. i \in 1 .. n - d - 1 /\ i \in 1 .. n - 1 - d /\ i \in 1 .. n - d
    BY <1>1, <1>4
  <2> QED BY <1>1, <1>2, <1>3, <2>1
<1>6. A!Complete(h) = A!Complete(b)
  BY <1>2, <1>3, <1>4, <1>5, SeqEqual
<1> QED BY <1>6 DEF h

LEMMA LatelyExtended ==
  ASSUME NEW b \in Seq(Candle), NEW p \in Int, NEW tight \in BOOLEAN, NEW new \in BOOLEAN
  PROVE  A!Lately(A!Extended(A!Lately(b), p, tight, new)) = A!Lately(A!Extended(b, p, tight, new))
<1> DEFINE h == A!Lately(b)
           n == Len(b)
           d == Passed(n)
           e == A!Extended(b, p, tight, new)
           f == A!Extended(h, p, tight, new)
           m == Longer(b, new)
<1>1. /\ h \in Seq(Candle) /\ Len(h) = n - d /\ \A i \in 1 .. n - d : h[i] = b[i + d]
      /\ n \in Nat /\ d \in Nat /\ (n = 0 => d = 0) /\ (n > 0 => d < n)
      /\ (d > 0 => d = n - 1 - Keep)
  BY LatelyShape, LenProperties, PassedBounds
<1>2. (b = <<>> <=> n = 0) /\ (h = <<>> <=> n - d = 0)
  <2> HIDE DEF h, d
  <2> QED BY <1>1, Nonempty
<1>3. /\ e \in Seq(Candle) /\ Len(e) = m /\ \A i \in 1 .. m - 1 : e[i] = b[i]
      /\ e[m] = Candled(b, p, tight, new)
  BY ExtendedShape
<1>4. Longer(h, new) = m - d /\ m \in {n, n + 1} /\ m \in Nat /\ m > 0 /\ d < m
  <2> HIDE DEF h, d, n
  <2>1. Len(b) = n
    BY DEF n
  <2> QED BY <1>1, <1>2, <2>1 DEF Longer
<1>5. Candled(h, p, tight, new) = Candled(b, p, tight, new)
  <2>1. CASE new \/ n = 0
    <3> HIDE DEF h, n, d
    <3> QED BY <1>1, <1>2, <2>1 DEF Candled
  <2>2. CASE ~new /\ n # 0
    <3>1. n - d \in 1 .. n - d /\ (n - d) + d = n /\ b # <<>> /\ h # <<>>
      <4> HIDE DEF h, n, d
      <4> QED BY <1>1, <1>2, <2>2
    <3>2. h[Len(h)] = b[Len(b)]
      BY <1>1, <3>1
    <3> HIDE DEF h
    <3> QED BY <2>2, <3>1, <3>2 DEF Candled
  <2> QED BY <2>1, <2>2
<1>6. /\ f \in Seq(Candle) /\ Len(f) = m - d /\ \A i \in 1 .. m - d - 1 : f[i] = h[i]
      /\ f[m - d] = Candled(b, p, tight, new)
  <2>1. h \in Seq(Candle) /\ Longer(h, new) = m - d
    BY <1>1, <1>4
  <2> HIDE DEF h, d, m
  <2>2. /\ f \in Seq(Candle) /\ Len(f) = Longer(h, new)
        /\ \A i \in 1 .. Longer(h, new) - 1 : f[i] = h[i]
        /\ f[Longer(h, new)] = Candled(h, p, tight, new)
    BY <2>1, ExtendedShape
  <2> HIDE DEF f
  <2> QED BY <1>5, <2>1, <2>2
<1> HIDE DEF h, n, d, e, f, m
<1>7. Passed(m) = d + Passed(m - d) /\ Passed(m) \in Nat /\ Passed(m - d) \in Nat /\ Passed(m) < m
  <2>1. Keep \in Nat /\ m - d \in Nat
    BY TicksConstants, <1>1, <1>4
  <2>2. Passed(m) = d + Passed(m - d)
    BY <1>1, <1>4, <2>1 DEF Passed
  <2> QED BY <1>1, <1>4, <2>1, <2>2, PassedBounds
<1>8. ASSUME NEW j \in 1 .. m - d PROVE f[j] = e[j + d]
  <2>1. CASE j = m - d
    BY <1>1, <1>3, <1>4, <1>6, <2>1
  <2>2. CASE j # m - d
    <3>1. j \in 1 .. m - d - 1 /\ j \in 1 .. n - d /\ j + d \in 1 .. m - 1
      BY <1>1, <1>4, <2>2
    <3> QED BY <1>1, <1>3, <1>6, <3>1
  <2> QED BY <2>1, <2>2
<1>9. /\ A!Lately(e) \in Seq(Candle) /\ Len(A!Lately(e)) = m - Passed(m)
      /\ \A i \in 1 .. m - Passed(m) : A!Lately(e)[i] = e[i + Passed(m)]
  BY <1>3, LatelyShape
<1>10. /\ A!Lately(f) \in Seq(Candle) /\ Len(A!Lately(f)) = m - d - Passed(m - d)
       /\ \A i \in 1 .. m - d - Passed(m - d) : A!Lately(f)[i] = f[i + Passed(m - d)]
  BY <1>6, LatelyShape
<1>11. m - d - Passed(m - d) = m - Passed(m)
  BY <1>1, <1>4, <1>7
<1>12. ASSUME NEW i \in 1 .. m - Passed(m) PROVE A!Lately(f)[i] = A!Lately(e)[i]
  <2>1. i + Passed(m - d) \in 1 .. m - d /\ (i + Passed(m - d)) + d = i + Passed(m)
    <3> DEFINE k == Passed(m - d)
    <3>1. Passed(m) = d + k /\ k \in Nat /\ i \in 1 .. m - Passed(m) /\ m \in Nat /\ d \in Nat
      BY <1>1, <1>4, <1>7
    <3> HIDE DEF k
    <3>2. i + k \in 1 .. m - d /\ (i + k) + d = i + Passed(m)
      BY <3>1
    <3> QED BY <3>2 DEF k
  <2>2. A!Lately(f)[i] = f[i + Passed(m - d)]
    BY <1>10, <1>11
  <2>3. f[i + Passed(m - d)] = e[i + Passed(m)]
    BY <1>8, <2>1
  <2> QED BY <1>9, <2>2, <2>3
<1>13. A!Lately(f) = A!Lately(e)
  BY <1>9, <1>10, <1>11, <1>12, SeqEqual
<1> QED BY <1>13 DEF e, f, h

(* Complete candles are complete: while the last one grows, they stay.     *)
LEMMA CompleteGrown ==
  ASSUME NEW b \in Seq(Candle), b # <<>>, NEW p \in Int, NEW tight \in BOOLEAN
  PROVE  A!Complete(A!Extended(b, p, tight, FALSE)) = A!Complete(b)
<1> DEFINE e == A!Extended(b, p, tight, FALSE)
           n == Len(b)
           d == Passed(n)
<1>1. Longer(b, FALSE) = n
  BY DEF Longer
<1>2. e \in Seq(Candle) /\ Len(e) = n /\ \A i \in 1 .. n - 1 : e[i] = b[i]
  <2> HIDE DEF e, n
  <2> QED BY <1>1, ExtendedShape DEF e
<1>3. n \in Nat /\ n > 0 /\ d \in Nat /\ d < n
  BY Nonempty, PassedBounds
<1>4. /\ A!Complete(b) \in Seq(Candle) /\ Len(A!Complete(b)) = n - 1 - d
      /\ \A i \in 1 .. n - 1 - d : A!Complete(b)[i] = b[i + d]
  BY <1>3, CompleteShape
<1> HIDE DEF e, n
<1>5. /\ A!Complete(e) \in Seq(Candle) /\ Len(A!Complete(e)) = n - 1 - d
      /\ \A i \in 1 .. n - 1 - d : A!Complete(e)[i] = e[i + d]
  BY <1>2, <1>3, CompleteShape
<1> HIDE DEF d
<1>6. ASSUME NEW i \in 1 .. n - 1 - d PROVE A!Complete(e)[i] = A!Complete(b)[i]
  <2>1. i + d \in 1 .. n - 1
    BY <1>3
  <2> QED BY <1>2, <1>4, <1>5, <2>1
<1>7. A!Complete(e) = A!Complete(b)
  BY <1>4, <1>5, <1>6, SeqEqual
<1> QED BY <1>7 DEF e

LEMMA OwnLately ==
  ASSUME NEW b \in Seq(Candle) PROVE A!Lately(A!Own("NO", b)) = A!Own("NO", A!Lately(b))
<1> DEFINE o == A!Own("NO", b)
           h == A!Lately(b)
           n == Len(b)
           d == Passed(n)
<1>1. n \in Nat /\ d \in Nat /\ (n = 0 => d = 0) /\ (n > 0 => d < n)
  BY LenProperties, PassedBounds
<1>2. o \in Seq(Candle) /\ Len(o) = n /\ \A i \in 1 .. n : o[i] = A!Inverted(b[i])
  BY OwnShape
<1>3. h \in Seq(Candle) /\ Len(h) = n - d /\ \A i \in 1 .. n - d : h[i] = b[i + d]
  BY LatelyShape
<1> HIDE DEF o, h, n
<1>4. /\ A!Lately(o) \in Seq(Candle) /\ Len(A!Lately(o)) = n - d
      /\ \A i \in 1 .. n - d : A!Lately(o)[i] = o[i + d]
  BY <1>2, LatelyShape
<1> HIDE DEF d
<1>5. /\ A!Own("NO", h) \in Seq(Candle) /\ Len(A!Own("NO", h)) = n - d
      /\ \A i \in 1 .. n - d : A!Own("NO", h)[i] = A!Inverted(h[i])
  BY <1>3, OwnShape
<1>6. ASSUME NEW i \in 1 .. n - d PROVE A!Lately(o)[i] = A!Own("NO", h)[i]
  <2>1. i + d \in 1 .. n
    BY <1>1
  <2> QED BY <1>2, <1>3, <1>4, <1>5, <2>1
<1>7. A!Lately(o) = A!Own("NO", h)
  BY <1>4, <1>5, <1>6, SeqEqual
<1> QED BY <1>7 DEF o, h

LEMMA OwnComplete ==
  ASSUME NEW b \in Seq(Candle) PROVE A!Complete(A!Own("NO", b)) = A!Own("NO", A!Complete(b))
<1> DEFINE o == A!Own("NO", b)
           c == A!Complete(b)
           n == Len(b)
           d == Passed(n)
<1>1. n \in Nat /\ d \in Nat /\ (n = 0 => d = 0) /\ (n > 0 => d < n)
  BY LenProperties, PassedBounds
<1>2. o \in Seq(Candle) /\ Len(o) = n /\ \A i \in 1 .. n : o[i] = A!Inverted(b[i])
  BY OwnShape
<1>3. /\ c \in Seq(Candle) /\ (n = 0 => Len(c) = 0) /\ (n > 0 => Len(c) = n - 1 - d)
      /\ \A i \in 1 .. n - 1 - d : c[i] = b[i + d]
  BY CompleteShape
<1> HIDE DEF o, c, n
<1>4. /\ A!Complete(o) \in Seq(Candle) /\ (n = 0 => Len(A!Complete(o)) = 0)
      /\ (n > 0 => Len(A!Complete(o)) = n - 1 - d)
      /\ \A i \in 1 .. n - 1 - d : A!Complete(o)[i] = o[i + d]
  BY <1>2, CompleteShape
<1> HIDE DEF d
<1>5. /\ A!Own("NO", c) \in Seq(Candle) /\ Len(A!Own("NO", c)) = Len(c)
      /\ \A i \in 1 .. Len(c) : A!Own("NO", c)[i] = A!Inverted(c[i])
  BY <1>3, OwnShape
<1>6. Len(A!Complete(o)) = Len(c)
  BY <1>1, <1>3, <1>4
<1>7. ASSUME NEW i \in 1 .. Len(c) PROVE A!Complete(o)[i] = A!Own("NO", c)[i]
  <2>1. i \in 1 .. n - 1 - d /\ i + d \in 1 .. n
    BY <1>1, <1>3
  <2> QED BY <1>2, <1>3, <1>4, <1>5, <2>1
<1>8. A!Complete(o) = A!Own("NO", c)
  BY <1>4, <1>5, <1>6, <1>7, SeqEqual
<1> QED BY <1>8 DEF o, c

LEMMA OwnExtended ==
  ASSUME NEW b \in Seq(Candle), NEW p \in Int, NEW tight \in BOOLEAN, NEW new \in BOOLEAN
  PROVE  A!Extended(A!Own("NO", b), 100 - p, tight, new) = A!Own("NO", A!Extended(b, p, tight, new))
<1> DEFINE o == A!Own("NO", b)
           e == A!Extended(b, p, tight, new)
           q == 100 - p
           f == A!Extended(o, q, tight, new)
           m == Longer(b, new)
           n == Len(b)
<1>1. o \in Seq(Candle) /\ Len(o) = n /\ \A i \in 1 .. n : o[i] = A!Inverted(b[i])
  BY OwnShape
<1>2. n \in Nat /\ (b = <<>> <=> n = 0) /\ (o = <<>> <=> n = 0)
  <2> HIDE DEF o
  <2> QED BY <1>1, Nonempty
<1>3. m \in {n, n + 1} /\ m > 0 /\ Longer(o, new) = m /\ m \in Nat
  <2> HIDE DEF o
  <2> QED BY <1>1, <1>2 DEF Longer
<1>4. /\ e \in Seq(Candle) /\ Len(e) = m /\ \A i \in 1 .. m - 1 : e[i] = b[i]
      /\ e[m] = Candled(b, p, tight, new)
  BY ExtendedShape
<1>5. q \in Int
  OBVIOUS
<1>6. Candled(o, q, tight, new) = A!Inverted(Candled(b, p, tight, new))
  <2>1. CASE new \/ n = 0
    <3>1. Candled(o, q, tight, new) = A!Fresh(q, tight) /\ Candled(b, p, tight, new) = A!Fresh(p, tight)
      <4> HIDE DEF o, n, q
      <4> QED BY <1>2, <2>1 DEF Candled
    <3>2. A!Fresh(p, tight) \in Candle
      BY DEF A!Fresh, Candle
    <3> QED BY <3>1, <3>2, InvertedCandles
  <2>2. CASE ~new /\ n # 0
    <3>1. n \in 1 .. n /\ b[n] \in Candle /\ o[n] = A!Inverted(b[n])
      <4>1. n \in 1 .. n
        <5> HIDE DEF n
        <5> QED BY <1>2, <2>2
      <4> QED BY <1>1, <4>1, ElementOfSeq
    <3>2. /\ Candled(o, q, tight, new) = A!Grown(o[n], q, tight)
          /\ Candled(b, p, tight, new) = A!Grown(b[n], p, tight)
      <4> HIDE DEF o, q
      <4> QED BY <1>1, <1>2, <2>2 DEF Candled
    <3>3. A!Grown(A!Inverted(b[n]), q, tight) = A!Inverted(A!Grown(b[n], p, tight))
      BY <3>1, InvertedCandles
    <3> HIDE DEF o, n, q
    <3> QED BY <3>1, <3>2, <3>3, Zenon
  <2> QED BY <2>1, <2>2
<1> HIDE DEF o, q
<1>7. /\ f \in Seq(Candle) /\ Len(f) = m /\ \A i \in 1 .. m - 1 : f[i] = o[i]
      /\ f[m] = A!Inverted(Candled(b, p, tight, new))
  <2>1. /\ f \in Seq(Candle) /\ Len(f) = Longer(o, new)
        /\ \A i \in 1 .. Longer(o, new) - 1 : f[i] = o[i]
        /\ f[Longer(o, new)] = Candled(o, q, tight, new)
    BY <1>1, <1>5, ExtendedShape
  <2> HIDE DEF f, m
  <2> QED BY <1>3, <1>6, <2>1
<1> HIDE DEF e, f, m, n
<1>8. /\ A!Own("NO", e) \in Seq(Candle) /\ Len(A!Own("NO", e)) = m
      /\ \A i \in 1 .. m : A!Own("NO", e)[i] = A!Inverted(e[i])
  BY <1>4, OwnShape
<1>9. ASSUME NEW i \in 1 .. m PROVE f[i] = A!Own("NO", e)[i]
  <2>1. CASE i = m
    BY <1>4, <1>7, <1>8, <2>1
  <2>2. CASE i # m
    <3>1. i \in 1 .. m - 1 /\ i \in 1 .. n
      BY <1>2, <1>3, <2>2
    <3> QED BY <1>1, <1>4, <1>7, <1>8, <3>1
  <2> QED BY <2>1, <2>2
<1>10. f = A!Own("NO", e)
  BY <1>7, <1>8, <1>9, SeqEqual
<1> QED BY <1>10 DEF e, f, o, q
-----------------------------------------------------------------------------
(* The steps.                                                              *)
LEMMA HistorySides ==
  ASSUME TicksInv, NEW s \in A!Sides
  PROVE  /\ history[s] = A!Own(s, A!Lately(buffer)) /\ history[s] \in Seq(Candle)
         /\ A!Complete(history[s]) = A!Own(s, A!Complete(buffer))
<1>1. buffer \in Seq(Candle) /\ A!Lately(buffer) \in Seq(Candle)
  BY LatelyShape DEF TicksInv
<1>2. A!Own("YES", A!Lately(buffer)) = A!Lately(buffer) /\ A!Own("NO", A!Lately(buffer)) \in Seq(Candle)
  BY <1>1, OwnShape
<1>3. A!Complete(A!Lately(buffer)) = A!Complete(buffer) /\ A!Complete(buffer) \in Seq(Candle)
  BY <1>1, CompleteLately, CompleteShape
<1>4. A!Complete(A!Own("NO", A!Lately(buffer))) = A!Own("NO", A!Complete(A!Lately(buffer)))
  BY <1>1, OwnComplete
<1>5. A!Own("YES", A!Complete(buffer)) = A!Complete(buffer)
  BY <1>3, OwnShape
<1>6. history["YES"] = A!Lately(buffer) /\ history["NO"] = A!Own("NO", A!Lately(buffer))
  BY DEF TicksInv
<1>7. CASE s = "YES"
  BY <1>1, <1>2, <1>3, <1>5, <1>6, <1>7
<1>8. CASE s = "NO"
  BY <1>2, <1>3, <1>4, <1>6, <1>8
<1> QED BY <1>7, <1>8 DEF A!Sides

LEMMA TickKept ==
  ASSUME TicksInv, NEW p \in Int, NEW tight \in BOOLEAN, NEW new \in BOOLEAN,
         A!Tick(p, tight, new)
  PROVE  TicksInv'
<1> DEFINE h == A!Lately(buffer)
           e == A!Extended(buffer, p, tight, new)
           f == A!Extended(h, p, tight, new)
<1>1. /\ buffer \in Seq(Candle) /\ history.YES = h /\ history.NO = A!Own("NO", h)
      /\ cache = [s \in A!Sides |-> cache[s]] /\ A!AnswersCurrent
  BY DEF TicksInv
<1>2. /\ buffer' = e /\ held' = held
      /\ cache' = IF new \/ buffer = <<>> THEN [s \in A!Sides |-> A!None] ELSE cache
      /\ history' = [YES |-> A!Lately(A!Extended(history.YES, p, tight, new)),
                     NO  |-> A!Lately(A!Extended(history.NO, 100 - p, tight, new))]
  BY DEF A!Tick, A!Dollar
<1>3. h \in Seq(Candle) /\ e \in Seq(Candle) /\ f \in Seq(Candle)
  <2>1. h \in Seq(Candle)
    BY <1>1, LatelyShape
  <2> HIDE DEF h
  <2> QED BY <1>1, <2>1, ExtendedShape
<1>4. A!Lately(f) = A!Lately(e)
  BY <1>1, LatelyExtended
<1>5. A!Extended(A!Own("NO", h), 100 - p, tight, new) = A!Own("NO", f)
  <2> HIDE DEF h
  <2> QED BY <1>3, OwnExtended
<1> HIDE DEF h, e, f
<1>6. A!Lately(A!Own("NO", f)) = A!Own("NO", A!Lately(f))
  BY <1>3, OwnLately
<1>7. history' = [YES |-> A!Lately(buffer'), NO |-> A!Own("NO", A!Lately(buffer'))]
  BY <1>1, <1>2, <1>4, <1>5, <1>6 DEF f
<1>8. A!AnswersCurrent'
  <2>1. CASE new \/ buffer = <<>>
    BY <1>2, <2>1 DEF A!AnswersCurrent
  <2>2. CASE ~new /\ buffer # <<>>
    <3>1. cache' = cache
      BY <1>2, <2>2
    <3>2. A!Complete(e) = A!Complete(buffer)
      BY <1>1, <2>2, CompleteGrown DEF e
    <3>3. A!Complete(A!Lately(e)) = A!Complete(A!Lately(buffer)) /\ A!Lately(e) \in Seq(Candle)
      BY <1>1, <1>3, <3>2, CompleteLately, LatelyShape
    <3>4. A!Complete(A!Own("NO", A!Lately(e))) = A!Complete(A!Own("NO", A!Lately(buffer)))
      BY <1>1, <3>3, OwnComplete, LatelyShape
    <3>5. ASSUME NEW s \in A!Sides PROVE A!Complete(history'[s]) = A!Complete(history[s])
      BY <1>1, <1>2, <1>7, <3>3, <3>4 DEF A!Sides, h
    <3> QED BY <1>1, <3>1, <3>5 DEF A!AnswersCurrent
  <2> QED BY <2>1, <2>2
<1>9. cache' = [s \in A!Sides |-> cache'[s]] /\ (held' = A!None \/ held'.side \in A!Sides)
  BY <1>1, <1>2 DEF TicksInv
<1>10. buffer' \in Seq(Candle)
  BY <1>2, <1>3
<1> QED BY <1>7, <1>8, <1>9, <1>10 DEF TicksInv

LEMMA WorksOutKept == ASSUME TicksInv, A!WorksOut PROVE TicksInv'
<1> DEFINE s0 == held.side
           e0 == held.entry
           p0 == A!Est(held)
           answer == [entry |-> e0, est |-> p0,
                      exit |-> A!Says(A!Own(s0, A!Complete(buffer)), e0, p0)]
<1>1. /\ held # A!None /\ buffer' = A!Lately(buffer) /\ UNCHANGED <<held, history>>
      /\ cache' = cache \/ cache' = [cache EXCEPT ![s0] = answer]
  BY DEF A!WorksOut, A!Trimmed, A!Lately
<1>2. s0 \in A!Sides /\ cache = [s \in A!Sides |-> cache[s]] /\ buffer \in Seq(Candle)
  BY <1>1 DEF TicksInv
<1>3. A!Lately(buffer) \in Seq(Candle) /\ A!Lately(A!Lately(buffer)) = A!Lately(buffer)
  BY <1>2, LatelyShape, LatelyTwice
<1>4. answer.exit = A!Says(A!Complete(history[s0]), answer.entry, answer.est)
  BY <1>2, HistorySides
<1> HIDE DEF answer, s0
<1>5. ASSUME NEW s \in A!Sides PROVE cache'[s] = cache[s] \/ (s = s0 /\ cache'[s] = answer)
  <2>1. CASE cache' = cache
    BY <2>1
  <2>2. CASE cache' = [cache EXCEPT ![s0] = answer]
    <3>1. cache' = [x \in A!Sides |-> IF x = s0 THEN answer ELSE cache[x]]
      BY <1>2, <2>2
    <3> QED BY <3>1
  <2> QED BY <1>1, <2>1, <2>2
<1>6. A!AnswersCurrent'
  <2>1. ASSUME NEW s \in A!Sides, cache'[s] # A!None
        PROVE  cache'[s].exit = A!Says(A!Complete(history[s]), cache'[s].entry, cache'[s].est)
    BY <1>4, <1>5, <2>1 DEF TicksInv, A!AnswersCurrent
  <2> QED BY <1>1, <2>1 DEF A!AnswersCurrent
<1>7. cache' = [s \in A!Sides |-> cache'[s]]
  BY <1>1, <1>2
<1>8. buffer' \in Seq(Candle)
      /\ history' = [YES |-> A!Lately(buffer'), NO |-> A!Own("NO", A!Lately(buffer'))]
  BY <1>1, <1>3 DEF TicksInv
<1>9. held' = A!None \/ held'.side \in A!Sides
  BY <1>1 DEF TicksInv
<1> QED BY <1>6, <1>7, <1>8, <1>9 DEF TicksInv

LEMMA EmptyTicks == A!Lately(<<>>) = <<>> /\ A!Own("NO", <<>>) = <<>> /\ <<>> \in Seq(Candle)
<1>1. <<>> \in Seq(Candle) /\ Len(<<>>) = 0
  BY EmptySeq
<1>2. Passed(0) = 0
  BY PassedBounds
<1>3. A!Lately(<<>>) \in Seq(Candle) /\ Len(A!Lately(<<>>)) = 0
  <2>1. Len(A!Lately(<<>>)) = Len(<<>>) - Passed(Len(<<>>)) /\ A!Lately(<<>>) \in Seq(Candle)
    BY <1>1, LatelyShape
  <2>2. Len(<<>>) - Passed(Len(<<>>)) = 0
    BY <1>1, <1>2
  <2> QED BY <2>1, <2>2
<1>4. A!Own("NO", <<>>) \in Seq(Candle) /\ Len(A!Own("NO", <<>>)) = 0
  BY <1>1, OwnShape
<1> QED BY <1>1, <1>3, <1>4, Nonempty

LEMMA RestartKept == ASSUME TicksInv, A!Restart PROVE TicksInv'
<1>1. /\ buffer' = <<>> /\ cache' = [s \in A!Sides |-> A!None] /\ held' = held
      /\ history' = [s \in A!Sides |-> <<>>]
  BY DEF A!Restart
<1>2. A!Lately(<<>>) = <<>> /\ A!Own("NO", <<>>) = <<>> /\ <<>> \in Seq(Candle)
  BY EmptyTicks
<1>3. [s \in A!Sides |-> <<>>] = [YES |-> <<>>, NO |-> <<>>]
  BY DEF A!Sides
<1>4. A!AnswersCurrent'
  BY <1>1 DEF A!AnswersCurrent
<1> QED BY <1>1, <1>2, <1>3, <1>4 DEF TicksInv

LEMMA TicksStart == ASSUME A!Init PROVE TicksInv
<1>1. /\ buffer = <<>> /\ cache = [s \in A!Sides |-> A!None] /\ held = A!None
      /\ history = [s \in A!Sides |-> <<>>]
  BY DEF A!Init
<1>2. A!Lately(<<>>) = <<>> /\ A!Own("NO", <<>>) = <<>> /\ <<>> \in Seq(Candle)
  BY EmptyTicks
<1>3. [s \in A!Sides |-> <<>>] = [YES |-> <<>>, NO |-> <<>>]
  BY DEF A!Sides
<1>4. A!AnswersCurrent
  BY <1>1 DEF A!AnswersCurrent
<1> QED BY <1>1, <1>2, <1>3, <1>4 DEF TicksInv

LEMMA TicksStep == ASSUME TicksInv, [A!Next]_A!vars PROVE TicksInv'
<1>1. ASSUME NEW t \in Ticks, NEW new \in BOOLEAN, A!Tick(t[1], t[2], new) PROVE TicksInv'
  BY <1>1, TicksConstants, TickKept
<1>2. ASSUME UNCHANGED <<buffer, cache, history>>, held' = A!None \/ held'.side \in A!Sides
      PROVE  TicksInv'
  BY <1>2 DEF TicksInv, A!AnswersCurrent
<1>3. CASE A!Leaves
  BY <1>2, <1>3 DEF A!Leaves
<1>4. ASSUME NEW s \in A!Sides, NEW entry_ \in Entries, NEW est \in Estimates, A!Enters(s, entry_, est)
      PROVE  TicksInv'
  <2>1. held'.side = s /\ UNCHANGED <<buffer, cache, history>>
    BY <1>4 DEF A!Enters
  <2> QED BY <1>2, <2>1
<1>5. CASE UNCHANGED A!vars
  <2>1. UNCHANGED <<buffer, cache, history, held>>
    BY <1>5 DEF A!vars
  <2>2. held' = A!None \/ held'.side \in A!Sides
    BY <2>1 DEF TicksInv
  <2> QED BY <1>2, <2>1, <2>2
<1> QED BY <1>1, <1>3, <1>4, <1>5, WorksOutKept, RestartKept DEF A!Next

-----------------------------------------------------------------------------
(* ExitsSound, for every set of prices and ticks: the ladder keeps its     *)
(* books and the excursions it saw, over partial exits, fees, settlements  *)
(* and restarts; an answer read off ticks rests on all complete candles.   *)
Sound == /\ part = "ladder" => LadderInv
         /\ part = "ticks"  => TicksInv

THEOREM ExitsAreSound == ExitsSpec => []ExitsSound
<1>1. ExitsInit => Sound
  BY LadderStart, TicksStart DEF ExitsInit, Sound
<1>2. Sound /\ [ExitsNext]_<<part, vars, ladder, candles>> => Sound'
  <2> SUFFICES ASSUME Sound, [ExitsNext]_<<part, vars, ladder, candles>> PROVE Sound'
    OBVIOUS
  <2>1. CASE part = "live"   /\ UNCHANGED part
    BY <2>1 DEF Sound
  <2>2. CASE part = "ladder" /\ L!Next /\ UNCHANGED part
    BY <2>2, LadderStep DEF Sound
  <2>3. CASE part = "ticks"  /\ A!Next /\ UNCHANGED part
    BY <2>3, TicksStep DEF Sound
  <2>4. CASE UNCHANGED <<part, vars, ladder, candles>>
    <3>1. UNCHANGED part /\ UNCHANGED L!vars /\ UNCHANGED A!vars
      BY <2>4 DEF ladder, candles, L!vars, A!vars
    <3> QED BY <3>1, LadderStep, TicksStep DEF Sound
  <2> QED BY <2>1, <2>2, <2>3, <2>4 DEF ExitsNext
<1>3. Sound => ExitsSound
  <2>1. TicksInv => A!AnswersCurrent
    BY DEF TicksInv
  <2> QED BY <2>1, LadderHolds DEF Sound, ExitsSound
<1> QED BY <1>1, <1>2, <1>3, PTL DEF ExitsSpec
=============================================================================
